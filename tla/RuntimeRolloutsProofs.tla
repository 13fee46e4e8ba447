------------------------ MODULE RuntimeRolloutsProofs ------------------------
(***************************************************************************)
(* Proofs for RuntimeRollouts: for every number of artifacts, receipts,    *)
(* refreshes and faults, the scheduler never works on half a rollout,      *)
(* functions are taken back only while nothing has used them, and the      *)
(* adapter is installed last.                                              *)
(*                                                                         *)
(* The argument.  A reviewed plan and the state a receipt observed are     *)
(* snapshots of a whole runtime (Snapshots), because they are taken while  *)
(* no fence is up or before anything was changed (Positions).  Files and   *)
(* functions change only under the fence of the receipt that owns the      *)
(* process, and the fence comes down only behind a readback, an unchanged  *)
(* state or a complete rollback, each of which is whole again (Unfenced).  *)
(* A rollback that may still take functions back holds the lock with no    *)
(* job alive, so the rows it looked at cannot have moved.  The deployment  *)
(* without a fence installs what it staged in ascending order, and has     *)
(* staged all that differs before it installs anything (StagedInOrder).    *)
(***************************************************************************)
EXTENDS RuntimeRollouts, WellFoundedInduction, TLAPS

-----------------------------------------------------------------------------
(* The fenced rollouts.                                                    *)

\* Files and functions of a snapshot all old or all new.
WholeSnapshot(s) ==
    \/ s.files = [a \in Artifacts |-> "old"] /\ s.schema # "candidate"
    \/ s.files = [a \in Artifacts |-> "new"] /\ (HasSql => s.schema = "candidate")
WholeNow == WholeSnapshot(SnapshotState)

ProcFields == {"script", "pc", "token", "again"}
RecFields == {"status", "before", "observed", "seen", "saved", "sqlAttempted", "candidate", "attempted",
              "installed", "removed"}

\* What the steps assign to has the shape they expect.
Shapes ==
    /\ DOMAIN proc = ProcFields
    /\ files = [a \in Artifacts |-> files[a]]
    /\ rollRec = [t \in Rollouts |-> rollRec[t]]
    /\ \A t \in Rollouts : DOMAIN rollRec[t] = RecFields
    /\ fence = [m \in Migrations |-> fence[m]]
    /\ guards = Migrations

\* Plans and receipts hold whole states.
Reviewed(r) == r.status # "NONE" =>
    WholeSnapshot(r.before) /\ (r.observed => WholeSnapshot(r.seen))
Snapshots ==
    /\ rollPlan.made => WholeSnapshot(rollPlan.before)
    /\ \A t \in Rollouts : Reviewed(rollRec[t])

\* Without a fence the runtime is whole; the scheduler works without one.
Unfenced ==
    /\ fence["flat"] = 0 => WholeNow
    /\ proc.script = "refresh" => fence["flat"] = 0
    /\ ~HasSql => schema # "candidate"

RollScripts == {"rollout", "readback", "abort", "rollback"}
Working == {"observe", "check", "sql", "committed", "recheck", "files", "write", "written"}

\* A process of a rollout owns a receipt and no job is alive.
Owned == proc.script \in RollScripts =>
    proc.token \in Rollouts /\ Rec.status # "NONE" /\ native = {}

\* Where apply is, and what holds there.
ApplyAt == proc.script = "rollout" =>
    /\ proc.pc \in {"save", "fence", "observe"} => WholeNow
    /\ proc.pc \in Working => fence["flat"] = proc.token
    /\ proc.pc \in {"observe", "check", "sql"} => HasSql

\* Where a rollback is: under its fence, and once its receipt was taken with
\* the new functions in place they stay.
RollbackAt == proc.script = "rollback" =>
    /\ proc.pc \in {"functions", "files"} =>
          fence["flat"] = proc.token /\ (HasSql /\ Rec.before.schema = "candidate" => schema = "candidate")
    /\ proc.pc = "functions" => data = Rec.before.data /\ RequireUnusedV3

\* Whoever is about to lift the fence has found a whole runtime.
ReleaseAt == proc.script \in RollScripts /\ proc.pc = "release" => WholeNow

Positions == Owned /\ ApplyAt /\ RollbackAt /\ ReleaseAt

\* The inductive invariant of the fenced rollouts.
RollInv == kind = "fenced" => Shapes /\ Snapshots /\ Unfenced /\ Positions

-----------------------------------------------------------------------------
(* The deployments without a fence.                                        *)

\* reconcile stages all that differs before it installs; nothing but its own
\* steps moves what it has staged.
StagedInOrder == deployer = "reconcile" =>
    /\ kind # "fenced"
    /\ staged \subseteq Public
    /\ DepAt("copied") => Todo \ staged # {}
    /\ DepAt("install") => Todo \subseteq staged
    /\ ~DepAt("each") /\ ~DepAt("copy")

\* The inductive invariant of the deployments.
DepInv ==
    /\ DOMAIN proc = ProcFields
    /\ runtime = [a \in Public |-> runtime[a]]
    /\ StagedInOrder
    /\ AdapterAfterWorkflows

-----------------------------------------------------------------------------
(* The deployments without a fence.                                        *)

LEMMA ProcMoves ==
    ASSUME DOMAIN proc = ProcFields, NEW p, Goto(p)
    PROVE  /\ DOMAIN proc' = ProcFields /\ proc'.pc = p
           /\ proc'.script = proc.script /\ proc'.token = proc.token
BY DEF Goto, ProcFields

LEMMA ProcFree == DOMAIN Free = ProcFields /\ Free.script = "none" /\ Free.pc = "idle"
BY DEF Free, ProcFields

LEMMA ProcStarts ==
    ASSUME NEW s, NEW p, NEW t, NEW again, Start(s, p, t, again)
    PROVE  /\ DOMAIN proc' = ProcFields /\ proc'.pc = p /\ proc'.script = s /\ proc'.token = t
           /\ proc = Free /\ native = {}
BY DEF Start, ProcFields

LEMMA LeastIsLeast ==
    ASSUME NEW S, S \subseteq Public, S # {}
    PROVE  Least(S) \in S /\ \A b \in S : Least(S) <= b
<1>1. S \subseteq Nat
  BY DEF Public
<1>2. PICK R : R = {x \in Nat \X Nat : x[1] < x[2]}
  OBVIOUS
<1>3. IsWellFoundedOn(R, Nat)
  <2>1. IsWellFoundedOn({x \in Nat \X Nat : x[1] < x[2]}, Nat)
    BY NatLessThanWellFounded DEF OpToRel
  <2> QED BY <1>2, <2>1
<1>4. PICK n \in S : \A m \in S : <<m, n>> \notin R
  BY <1>1, <1>3, WFMin
<1>5. \A m \in Nat : m < n => <<m, n>> \in R
  BY <1>1, <1>2
<1>6. ASSUME NEW m \in S PROVE n <= m
  <2>1. m \in Nat /\ n \in Nat /\ <<m, n>> \notin R
    BY <1>1, <1>4
  <2>2. ~(m < n)
    BY <1>5, <2>1
  <2> QED BY <2>1, <2>2
<1> QED BY <1>6 DEF Least

LEMMA TodoIsPublic == Todo \subseteq Public
BY DEF Todo, ChangedIn, AllowList

LEMMA DepInitEstablishes == Init => DepInv
<1> SUFFICES ASSUME Init PROVE DepInv
  OBVIOUS
<1> USE DEF Init, DepInit, WindowInit
<1>1. DOMAIN proc = ProcFields /\ proc.script = "none"
  BY ProcFree
<1>2. runtime = [a \in Public |-> runtime[a]]
  OBVIOUS
<1>3. StagedInOrder
  BY <1>1 DEF StagedInOrder, DepAt, At
<1>4. AdapterAfterWorkflows
  <2> SUFFICES ASSUME deployer = "reconcile" PROVE runtime[Adapter] = "old"
    BY DEF AdapterAfterWorkflows
  <2>1. Adapter \in Public
    BY DeploymentAssumption DEF Adapter, Public
  <2> QED BY <2>1 DEF AllowList
<1> QED BY <1>1, <1>2, <1>3, <1>4 DEF DepInv

\* A step that installs nothing and is at none of the deployment's positions.
LEMMA DeploymentKept ==
    ASSUME DepInv, UNCHANGED <<kind, deployer, runtime>>, DOMAIN proc' = ProcFields,
           staged' = staged \/ staged' = {},
           ~DepAt("copied")', ~DepAt("install")', ~DepAt("each")', ~DepAt("copy")'
    PROVE  DepInv'
<1>1. StagedInOrder'
  BY DEF DepInv, StagedInOrder
<1>2. AdapterAfterWorkflows'
  BY DEF DepInv, AdapterAfterWorkflows, Todo, ChangedIn, AllowList
<1>3. (runtime = [a \in Public |-> runtime[a]])'
  BY DEF DepInv
<1> QED BY <1>1, <1>2, <1>3 DEF DepInv

\* A step of the scheduler, or a kill, leaves the deployment where it is or
\* ends its process.
LEMMA WindowKeepsDeployment ==
    ASSUME DepInv, Window(WindowNext) PROVE DepInv'
<1>1. UNCHANGED <<kind, deployer, runtime, staged>>
  BY DEF Window, depVars
<1>2. DOMAIN proc = ProcFields
  BY DEF DepInv
<1>3. \/ proc' = proc
      \/ DOMAIN proc' = ProcFields /\ proc'.script # "deploy"
  <2>1. CASE RefreshStart
    BY <2>1 DEF RefreshStart, Free, ProcFields
  <2>2. CASE RefreshSource
    BY <1>2, <2>2, ProcMoves DEF RefreshSource, Launch, At
  <2>3. CASE RefreshDone
    <3>1. proc' = proc \/ (proc' = [proc EXCEPT !.pc = "queue"] /\ proc.script = "refresh")
      BY <2>3 DEF RefreshDone, Join, At
    <3> QED BY <1>2, <3>1 DEF ProcFields
  <2>4. CASE RefreshExit \/ Kill
    BY <2>4, ProcFree DEF RefreshExit, Kill, Exit
  <2> QED BY <2>1, <2>2, <2>3, <2>4 DEF Window, WindowNext
<1>4. CASE proc' = proc
  <2>1. StagedInOrder'
    BY <1>1, <1>4 DEF DepInv, StagedInOrder, DepAt, At, Todo, ChangedIn, AllowList
  <2>2. AdapterAfterWorkflows'
    BY <1>1 DEF DepInv, AdapterAfterWorkflows, Todo, ChangedIn, AllowList
  <2> QED BY <1>1, <1>4, <2>1, <2>2 DEF DepInv
<1>5. CASE DOMAIN proc' = ProcFields /\ proc'.script # "deploy"
  BY <1>1, <1>5, DeploymentKept DEF DepAt, At
<1> QED BY <1>3, <1>4, <1>5

\* The adapter has the largest number, so it is installed when nothing else
\* is left.
LEMMA InstallKeepsOrder ==
    ASSUME DepInv, DepInstall, UNCHANGED kind PROVE DepInv'
<1>1. DOMAIN proc = ProcFields /\ runtime = [a \in Public |-> runtime[a]]
  BY DEF DepInv
<1>2. UNCHANGED deployer /\ DepAt("install") /\ staged # {}
  BY DEF DepInstall
<1>3. PICK x : x = Least(staged)
  OBVIOUS
<1>4. runtime' = [runtime EXCEPT ![x] = "new"] /\ staged' = staged \ {x}
  BY <1>3 DEF DepInstall, MoveIntoPlace, NextInstall
<1>5. runtime' = [a \in Public |-> runtime'[a]]
  BY <1>1, <1>4
<1>6. Goto(IF deployer = "reconcile" THEN "install" ELSE "each")
  BY DEF DepInstall
<1>7. DOMAIN proc' = ProcFields /\ (deployer = "reconcile" => proc'.pc = "install")
  BY <1>1, <1>6, ProcMoves
<1>8. CASE deployer # "reconcile"
  BY <1>2, <1>5, <1>7, <1>8 DEF DepInv, StagedInOrder, AdapterAfterWorkflows
<1>9. CASE deployer = "reconcile"
  <2>1. staged \subseteq Public /\ Todo \subseteq staged /\ kind # "fenced"
    BY <1>2, <1>9 DEF DepInv, StagedInOrder
  <2>2. x \in staged /\ \A b \in staged : x <= b
    BY <1>2, <1>3, <2>1, LeastIsLeast
  <2>3. Todo' \subseteq Todo \ {x}
    <3> SUFFICES ASSUME NEW a \in Todo' PROVE a \in Todo /\ a # x
      OBVIOUS
    <3>1. a \in AllowList' /\ runtime'[a] # "new"
      BY DEF Todo, ChangedIn
    <3>2. AllowList' = AllowList /\ AllowList \subseteq Public
      BY <1>2 DEF AllowList
    <3>3. a # x
      BY <1>1, <1>4, <2>1, <2>2, <3>1, <3>2
    <3>4. runtime[a] # "new"
      BY <1>1, <1>4, <3>1, <3>2, <3>3
    <3> QED BY <3>1, <3>2, <3>3, <3>4 DEF Todo, ChangedIn
  <2>4. StagedInOrder'
    BY <1>2, <1>4, <1>7, <1>9, <2>1, <2>3 DEF StagedInOrder, DepAt, At
  <2>5. AdapterAfterWorkflows'
    <3> SUFFICES ASSUME runtime'[Adapter] = "new" PROVE Todo' = {}
      BY DEF AdapterAfterWorkflows
    <3>1. CASE runtime[Adapter] = "new"
      BY <1>9, <2>3, <3>1 DEF DepInv, AdapterAfterWorkflows
    <3>2. CASE runtime[Adapter] # "new"
      <4>1. x = Adapter
        BY <1>1, <1>4, <3>2
      <4>2. \A b \in staged : b = x
        BY <2>1, <2>2, <4>1, DeploymentAssumption DEF Public, Adapter
      <4> QED BY <2>1, <2>3, <4>2
    <3> QED BY <3>1, <3>2
  <2> QED BY <1>5, <1>7, <2>4, <2>5 DEF DepInv
<1> QED BY <1>8, <1>9

\* Every other step of a deployment.
LEMMA DeploymentSteps ==
    ASSUME DepInv, UNCHANGED kind, kind # "fenced", DepOperator \/ DepSteps \/ DepFails
    PROVE  DepInv'
<1>1. DOMAIN proc = ProcFields /\ runtime = [a \in Public |-> runtime[a]]
  BY DEF DepInv
<1>2. CASE DepInstall
  BY <1>2, InstallKeepsOrder
<1>3. CASE PlanManifest
  <2>1. UNCHANGED <<deployer, runtime, staged, proc>>
    BY <1>3 DEF PlanManifest, windowVars
  <2>2. ~DepAt("copied") /\ ~DepAt("install") /\ ~DepAt("each") /\ ~DepAt("copy")
    BY <1>3, ProcFree DEF PlanManifest, DepAt, At
  <2>3. ~DepAt("copied")' /\ ~DepAt("install")' /\ ~DepAt("each")' /\ ~DepAt("copy")'
    BY <2>1, <2>2 DEF DepAt, At
  <2> QED BY <1>1, <2>1, <2>3, DeploymentKept
<1>4. ASSUME NEW t \in 1..MaxDeployed, DepApply(t) PROVE DepInv'
  <2>1. UNCHANGED <<deployer, runtime>> /\ staged' = {}
    BY <1>4 DEF DepApply
  <2>2. DOMAIN proc' = ProcFields /\ proc'.pc = "backup"
    BY <1>4, ProcStarts DEF DepApply
  <2>3. ~DepAt("copied")' /\ ~DepAt("install")' /\ ~DepAt("each")' /\ ~DepAt("copy")'
    BY <2>2 DEF DepAt, At
  <2> QED BY <2>1, <2>2, <2>3, DeploymentKept
<1>5. CASE DepVerify \/ DepFails
  <2>1. UNCHANGED <<deployer, runtime>> /\ (staged' = staged \/ staged' = {}) /\ proc' = Free
    BY <1>5 DEF DepVerify, DepFails, Exit
  <2>2. ~DepAt("copied")' /\ ~DepAt("install")' /\ ~DepAt("each")' /\ ~DepAt("copy")'
    BY <2>1, ProcFree DEF DepAt, At
  <2> QED BY <2>1, <2>2, ProcFree, DeploymentKept
<1>6. ASSUME UNCHANGED <<deployer, runtime>>, StagedInOrder', DOMAIN proc' = ProcFields PROVE DepInv'
  <2>1. AdapterAfterWorkflows'
    BY <1>6 DEF DepInv, AdapterAfterWorkflows, Todo, ChangedIn, AllowList
  <2> QED BY <1>1, <1>6, <2>1 DEF DepInv
<1>7. CASE DepBackup
  <2>1. UNCHANGED <<deployer, runtime, staged>> /\ Goto(IF deployer = "reconcile" THEN "stage" ELSE "each")
    BY <1>7 DEF DepBackup
  <2>2. DOMAIN proc' = ProcFields /\ (deployer = "reconcile" => proc'.pc = "stage")
    BY <1>1, <2>1, ProcMoves
  <2>3. StagedInOrder'
    BY <2>1, <2>2 DEF DepInv, StagedInOrder, DepAt, At
  <2> QED BY <1>6, <2>1, <2>2, <2>3
<1>8. CASE ReconcileCopy
  <2>1. UNCHANGED <<deployer, runtime, staged>> /\ Goto("copied") /\ Todo \ staged # {}
    BY <1>8 DEF ReconcileCopy
  <2>2. DOMAIN proc' = ProcFields /\ proc'.pc = "copied"
    BY <1>1, <2>1, ProcMoves
  <2>3. Todo' = Todo
    BY <2>1 DEF Todo, ChangedIn, AllowList
  <2>4. StagedInOrder'
    BY <2>1, <2>2, <2>3 DEF DepInv, StagedInOrder, DepAt, At
  <2> QED BY <1>6, <2>1, <2>2, <2>4
<1>9. CASE ReconcileCopied
  <2>1. UNCHANGED <<deployer, runtime>> /\ Goto("stage") /\ staged' = staged \cup {Least(Todo \ staged)}
        /\ DepAt("copied")
    BY <1>9 DEF ReconcileCopied
  <2>2. DOMAIN proc' = ProcFields /\ proc'.pc = "stage"
    BY <1>1, <2>1, ProcMoves
  <2>3. deployer = "reconcile" => Least(Todo \ staged) \in Public
    <3> SUFFICES ASSUME deployer = "reconcile" PROVE Least(Todo \ staged) \in Public
      OBVIOUS
    <3>1. Todo \ staged # {}
      BY <2>1 DEF DepInv, StagedInOrder
    <3>2. Todo \ staged \subseteq Public
      BY TodoIsPublic
    <3> QED BY <3>1, <3>2, LeastIsLeast
  <2>4. StagedInOrder'
    BY <2>1, <2>2, <2>3 DEF DepInv, StagedInOrder, DepAt, At
  <2> QED BY <1>6, <2>1, <2>2, <2>4
<1>10. CASE ReconcileStaged
  <2>1. UNCHANGED <<deployer, runtime, staged>> /\ Goto("install") /\ Todo \ staged = {}
    BY <1>10 DEF ReconcileStaged
  <2>2. DOMAIN proc' = ProcFields /\ proc'.pc = "install"
    BY <1>1, <2>1, ProcMoves
  <2>3. Todo' = Todo
    BY <2>1 DEF Todo, ChangedIn, AllowList
  <2>4. StagedInOrder'
    BY <2>1, <2>2, <2>3 DEF DepInv, StagedInOrder, DepAt, At
  <2> QED BY <1>6, <2>1, <2>2, <2>4
<1>11. CASE JobkoreaStage \/ JobkoreaCopy
  <2>1. UNCHANGED <<deployer, runtime>> /\ (DepAt("each") \/ DepAt("copy")) /\ \E p : Goto(p)
    BY <1>11 DEF JobkoreaStage, JobkoreaCopy
  <2>2. DOMAIN proc' = ProcFields
    BY <1>1, <2>1, ProcMoves
  <2>3. StagedInOrder'
    BY <2>1 DEF DepInv, StagedInOrder
  <2> QED BY <1>6, <2>1, <2>2, <2>3
<1> QED BY <1>2, <1>3, <1>4, <1>5, <1>7, <1>8, <1>9, <1>10, <1>11 DEF DepOperator, DepSteps

\* A fenced rollout leaves the other tool's state alone, and is never one of
\* reconcile.
LEMMA DepInductive == DepInv /\ (DOMAIN proc' = ProcFields) /\ [Next]_vars => DepInv'
<1> SUFFICES ASSUME DepInv, DOMAIN proc' = ProcFields, [Next]_vars PROVE DepInv'
  OBVIOUS
<1>1. ASSUME NEW A, Fenced(A) PROVE DepInv'
  <2>1. UNCHANGED <<kind, deployer, runtime, staged>> /\ kind = "fenced"
    BY <1>1 DEF Fenced, depVars
  <2>2. deployer # "reconcile"
    BY <2>1 DEF DepInv, StagedInOrder
  <2> QED BY <2>1, <2>2 DEF DepInv, StagedInOrder, AdapterAfterWorkflows
<1>2. CASE Plain(DepOperator \/ DepSteps \/ DepFails)
  BY <1>2, DeploymentSteps DEF Plain
<1>3. CASE UNCHANGED vars
  <2>1. UNCHANGED <<kind, proc, deployer, runtime, staged>>
    BY <1>3 DEF vars, windowVars, depVars
  <2> QED BY <2>1 DEF DepInv, StagedInOrder, AdapterAfterWorkflows, DepAt, At, Todo, ChangedIn, AllowList
<1> QED BY <1>1, <1>2, <1>3, WindowKeepsDeployment DEF Next

-----------------------------------------------------------------------------
(* The fenced rollouts.                                                    *)

Good == Shapes /\ Snapshots /\ Unfenced /\ Positions

LEMMA RolloutNumbers == 0 \notin Rollouts
BY RolloutAssumption DEF Rollouts

LEMMA SameWhole ==
    ASSUME UNCHANGED bundle
    PROVE  /\ HasSql' = HasSql
           /\ \A s : WholeSnapshot(s)' = WholeSnapshot(s)
           /\ \A r : Reviewed(r)' = Reviewed(r)
BY DEF HasSql, WholeSnapshot, Reviewed

LEMMA SameNow ==
    ASSUME UNCHANGED <<bundle, files, schema>>
    PROVE  WholeNow' = WholeNow
BY DEF WholeNow, WholeSnapshot, HasSql, SnapshotState, SchemaQuery

LEMMA WholeNowMeans ==
    WholeNow <=> \/ files = [a \in Artifacts |-> "old"] /\ schema # "candidate"
                 \/ files = [a \in Artifacts |-> "new"] /\ (HasSql => schema = "candidate")
BY DEF WholeNow, WholeSnapshot, SnapshotState, SchemaQuery

\* The process that works on receipt t rewrites it: what was reviewed stays.
LEMMA ReceiptWritten ==
    ASSUME Shapes, Snapshots, UNCHANGED <<bundle, rollPlan>>,
           NEW t \in Rollouts, NEW r, rollRec' = [rollRec EXCEPT ![t] = r],
           DOMAIN r = RecFields, Reviewed(r)
    PROVE  /\ Snapshots'
           /\ rollRec' = [u \in Rollouts |-> rollRec'[u]]
           /\ \A u \in Rollouts : DOMAIN rollRec'[u] = RecFields
           /\ rollRec'[t] = r
<1>1. /\ rollRec' = [u \in Rollouts |-> rollRec'[u]] /\ rollRec'[t] = r
      /\ \A u \in Rollouts : u # t => rollRec'[u] = rollRec[u]
  BY DEF Shapes
<1>2. \A u \in Rollouts : DOMAIN rollRec'[u] = RecFields
  BY <1>1 DEF Shapes
<1>3. Snapshots'
  <2>1. (rollPlan.made => WholeSnapshot(rollPlan.before))'
    BY SameWhole DEF Snapshots
  <2>2. ASSUME NEW u \in Rollouts PROVE Reviewed(rollRec'[u])
    BY <1>1 DEF Snapshots
  <2>3. \A u \in Rollouts : Reviewed(rollRec[u])'
    BY <2>2, SameWhole
  <2> QED BY <2>1, <2>3 DEF Snapshots
<1> QED BY <1>1, <1>2, <1>3

\* An edit of the receipt that keeps the states it holds.
Edit(r) ==
    /\ DOMAIN r = RecFields /\ r.status # "NONE"
    /\ r.before = Rec.before /\ r.observed = Rec.observed /\ r.seen = Rec.seen

LEMMA EditIsReviewed ==
    ASSUME Good, proc.script \in RollScripts, NEW r, Edit(r)
    PROVE  /\ proc.token \in Rollouts /\ Reviewed(r) /\ DOMAIN r = RecFields /\ r.status # "NONE"
           /\ WholeSnapshot(Rec.before)
<1>1. proc.token \in Rollouts /\ Rec.status # "NONE"
  BY DEF Good, Positions, Owned
<1>2. Reviewed(Rec)
  BY <1>1 DEF Good, Snapshots, Rec
<1> QED BY <1>1, <1>2 DEF Reviewed, Edit

\* A step that rewrites the receipt and moves on, the runtime as it is.
LEMMA ReceiptStep ==
    ASSUME Good, proc.script \in RollScripts, NEW r, Save(r), DOMAIN r = RecFields, Reviewed(r),
           r.status # "NONE",
           UNCHANGED <<native, fence, guards, bundle, files, schema, rollPlan>>,
           DOMAIN proc' = ProcFields, proc'.token = proc.token,
           proc'.script \in {"rollout", "readback", "abort", "rollback", "none"},
           proc'.script = "rollout" =>
              /\ proc'.pc \in {"save", "fence", "observe"} => WholeNow
              /\ proc'.pc \in Working => fence["flat"] = proc.token
              /\ proc'.pc \in {"observe", "check", "sql"} => HasSql,
           proc'.script = "rollback" => proc'.pc \notin {"functions", "files"},
           proc'.pc = "release" => WholeNow
    PROVE  Good'
<1>1. proc.token \in Rollouts /\ native = {}
  BY DEF Good, Positions, Owned
<1>2. /\ Snapshots' /\ rollRec' = [u \in Rollouts |-> rollRec'[u]]
      /\ \A u \in Rollouts : DOMAIN rollRec'[u] = RecFields
      /\ rollRec'[proc.token] = r
  BY <1>1, ReceiptWritten DEF Good, Save
<1>3. Shapes'
  BY <1>2 DEF Good, Shapes
<1>4. WholeNow' = WholeNow /\ HasSql' = HasSql
  BY SameNow, SameWhole
<1>5. Unfenced'
  BY <1>4 DEF Good, Unfenced
<1>6. Owned'
  BY <1>1, <1>2 DEF Owned, Rec
<1>7. ApplyAt'
  BY <1>4 DEF ApplyAt
<1>8. RollbackAt' /\ ReleaseAt'
  BY <1>4 DEF RollbackAt, ReleaseAt
<1> QED BY <1>2, <1>3, <1>5, <1>6, <1>7, <1>8 DEF Good, Positions

\* The same, when the process ends.
LEMMA ReceiptExit ==
    ASSUME Good, proc.script \in RollScripts, NEW r, Save(r), DOMAIN r = RecFields, Reviewed(r), Exit,
           UNCHANGED <<native, fence, guards, bundle, files, schema, rollPlan>>
    PROVE  Good'
<1>1. proc.token \in Rollouts
  BY DEF Good, Positions, Owned
<1>2. /\ Snapshots' /\ rollRec' = [u \in Rollouts |-> rollRec'[u]]
      /\ \A u \in Rollouts : DOMAIN rollRec'[u] = RecFields
  BY <1>1, ReceiptWritten DEF Good, Save
<1>3. DOMAIN proc' = ProcFields /\ proc'.script = "none"
  BY ProcFree DEF Exit
<1>4. WholeNow' = WholeNow /\ HasSql' = HasSql
  BY SameNow, SameWhole
<1>5. Shapes' /\ Unfenced'
  BY <1>2, <1>3, <1>4 DEF Good, Shapes, Unfenced
<1>6. Positions'
  BY <1>3 DEF Positions, Owned, ApplyAt, RollbackAt, ReleaseAt, RollScripts
<1> QED BY <1>2, <1>5, <1>6 DEF Good

\* Steps of the process alone, receipts and runtime as they are.
LEMMA ProcessStep ==
    ASSUME Good, UNCHANGED <<bundle, files, schema, rollPlan, rollRec, guards>>,
           DOMAIN proc' = ProcFields,
           fence' = fence \/ \E x : fence' = [fence EXCEPT !["flat"] = x],
           fence'["flat"] = 0 => WholeNow,
           proc'.script = "refresh" => fence'["flat"] = 0,
           proc'.script \in RollScripts =>
              proc'.token \in Rollouts /\ rollRec[proc'.token].status # "NONE" /\ native' = {},
           proc'.script = "rollout" =>
              /\ proc'.pc \in {"save", "fence", "observe"} => WholeNow
              /\ proc'.pc \in Working => fence'["flat"] = proc'.token
              /\ proc'.pc \in {"observe", "check", "sql"} => HasSql,
           proc'.script = "rollback" => proc'.pc \notin {"functions", "files"},
           proc'.script \in RollScripts /\ proc'.pc = "release" => WholeNow
    PROVE  Good'
<1>1. WholeNow' = WholeNow /\ HasSql' = HasSql
  BY SameNow, SameWhole
<1>2. Shapes'
  BY DEF Good, Shapes
<1>3. Snapshots'
  BY SameWhole DEF Good, Snapshots
<1>4. Unfenced'
  BY <1>1 DEF Good, Unfenced
<1>5. Positions'
  BY <1>1 DEF Positions, Owned, ApplyAt, RollbackAt, ReleaseAt, Rec
<1> QED BY <1>2, <1>3, <1>4, <1>5 DEF Good

-----------------------------------------------------------------------------
(* The actions of a fenced rollout.                                        *)

\* Receipts are edited in place.
LEMMA Edits ==
    ASSUME Good, proc.script \in RollScripts
    PROVE  /\ DOMAIN Rec = RecFields /\ proc.token \in Rollouts /\ Rec.status # "NONE"
           /\ native = {} /\ Reviewed(Rec) /\ WholeSnapshot(Rec.before)
<1>1. proc.token \in Rollouts /\ Rec.status # "NONE" /\ native = {}
  BY DEF Good, Positions, Owned
<1>2. Reviewed(Rec) /\ DOMAIN Rec = RecFields
  BY <1>1 DEF Good, Snapshots, Shapes, Rec
<1> QED BY <1>1, <1>2 DEF Reviewed

\* apply between its checks, the SQL it runs and the files it writes: where
\* only the receipt and the position change.
LEMMA ApplyReceipts ==
    ASSUME Good, \/ RollChecked \/ RollSave \/ RollRecheck \/ RollSqlRecorded \/ RollIntent
                 \/ RollWritten \/ RollInstalled
    PROVE  Good'
<1>1. proc.script = "rollout" /\ DOMAIN proc = ProcFields
  BY DEF RollChecked, RollSave, RollRecheck, RollSqlRecorded, RollIntent, RollWritten, RollInstalled, RollAt, At,
         Good, Shapes
<1>2. proc.script \in RollScripts
  BY <1>1 DEF RollScripts
<1>3. DOMAIN Rec = RecFields /\ Rec.status # "NONE"
  BY <1>2, Edits
<1>4. UNCHANGED <<native, fence, guards, bundle, files, schema, rollPlan>>
  BY DEF RollChecked, RollSave, RollRecheck, RollSqlRecorded, RollIntent, RollWritten, RollInstalled, RollOthers
<1>5. PICK r : Save(r) /\ Edit(r)
  <2>1. CASE RollChecked
    <3>1. Save([BackupDatabase(Rec) EXCEPT !.sqlAttempted = TRUE, !.status = "SQL_ATTEMPTED"])
      BY <2>1 DEF RollChecked
    <3>2. Edit([BackupDatabase(Rec) EXCEPT !.sqlAttempted = TRUE, !.status = "SQL_ATTEMPTED"])
      BY <1>3 DEF Edit, BackupDatabase, RecFields
    <3> QED BY <3>1, <3>2
  <2>2. CASE RollSave
    <3>1. Save([Rec EXCEPT !.saved = TRUE])
      BY <2>2 DEF RollSave
    <3>2. Edit([Rec EXCEPT !.saved = TRUE])
      BY <1>3 DEF Edit, RecFields
    <3> QED BY <3>1, <3>2
  <2>3. CASE RollRecheck
    <3>1. Save([Rec EXCEPT !.status = "INSTALLING"])
      BY <2>3 DEF RollRecheck
    <3>2. Edit([Rec EXCEPT !.status = "INSTALLING"])
      BY <1>3 DEF Edit, RecFields
    <3> QED BY <3>1, <3>2
  <2>4. CASE RollSqlRecorded
    <3>1. Save([Rec EXCEPT !.candidate = TRUE, !.status = "SQL_COMMITTED"])
      BY <2>4 DEF RollSqlRecorded
    <3>2. Edit([Rec EXCEPT !.candidate = TRUE, !.status = "SQL_COMMITTED"])
      BY <1>3 DEF Edit, RecFields
    <3> QED BY <3>1, <3>2
  <2>5. CASE RollIntent
    <3>1. PICK x : Save([Rec EXCEPT !.attempted = x])
      BY <2>5 DEF RollIntent
    <3>2. Edit([Rec EXCEPT !.attempted = x])
      BY <1>3 DEF Edit, RecFields
    <3> QED BY <3>1, <3>2
  <2>6. CASE RollWritten
    <3>1. PICK x : Save([Rec EXCEPT !.installed = x])
      BY <2>6 DEF RollWritten
    <3>2. Edit([Rec EXCEPT !.installed = x])
      BY <1>3 DEF Edit, RecFields
    <3> QED BY <3>1, <3>2
  <2>7. CASE RollInstalled
    <3>1. Save([Rec EXCEPT !.status = "INSTALLED_PENDING_READBACK"])
      BY <2>7 DEF RollInstalled
    <3>2. Edit([Rec EXCEPT !.status = "INSTALLED_PENDING_READBACK"])
      BY <1>3 DEF Edit, RecFields
    <3> QED BY <3>1, <3>2
  <2> QED BY <2>1, <2>2, <2>3, <2>4, <2>5, <2>6, <2>7
<1>6. PICK p : Goto(p) /\ (\/ RollAt("check") /\ p = "sql"
                           \/ RollAt("save") /\ p = "fence"
                           \/ proc.pc \in Working /\ p \in {"files", "write", "readback"})
  BY DEF RollChecked, RollSave, RollRecheck, RollSqlRecorded, RollIntent, RollWritten, RollInstalled, RollAt, At,
         Working
<1>7. DOMAIN proc' = ProcFields /\ proc'.pc = p /\ proc'.script = "rollout" /\ proc'.token = proc.token
  BY <1>1, <1>6, ProcMoves
<1>8. /\ proc'.pc \in {"save", "fence", "observe"} => WholeNow
      /\ proc'.pc \in Working => fence["flat"] = proc.token
      /\ proc'.pc \in {"observe", "check", "sql"} => HasSql
  BY <1>1, <1>6, <1>7 DEF Good, Positions, ApplyAt, RollAt, At, Working
<1>9. proc'.pc # "release"
  BY <1>6, <1>7
<1>10. Reviewed(r) /\ DOMAIN r = RecFields /\ r.status # "NONE"
  BY <1>2, <1>5, EditIsReviewed
<1> QED BY <1>2, <1>4, <1>5, <1>7, <1>8, <1>9, <1>10, ReceiptStep

\* apply observes the runtime under its fence, before it changed anything.
LEMMA ObserveKeeps == ASSUME Good, RollObserve PROVE Good'
<1>1. proc.script = "rollout" /\ proc.pc = "observe" /\ DOMAIN proc = ProcFields
  BY DEF RollObserve, RollAt, At, Good, Shapes
<1>2. proc.script \in RollScripts
  BY <1>1 DEF RollScripts
<1>3. DOMAIN Rec = RecFields /\ Rec.status # "NONE" /\ WholeSnapshot(Rec.before)
  BY <1>2, Edits
<1>4. WholeSnapshot(SnapshotState) /\ fence["flat"] = proc.token /\ HasSql
  BY <1>1 DEF Good, Positions, ApplyAt, WholeNow, Working
<1>5. PICK s : s = SnapshotState
  OBVIOUS
<1>6. PICK r : r = [Rec EXCEPT !.observed = TRUE, !.seen = s]
  OBVIOUS
<1>7. DOMAIN r = RecFields /\ r.status # "NONE" /\ r.before = Rec.before /\ r.seen = s
  BY <1>3, <1>6 DEF RecFields
<1>8. Reviewed(r)
  BY <1>3, <1>4, <1>5, <1>7 DEF Reviewed
<1>9. Save(r) /\ Goto("check") /\ UNCHANGED <<native, fence, guards, bundle, files, schema, rollPlan>>
  BY <1>5, <1>6 DEF RollObserve, RollOthers
<1>10. DOMAIN proc' = ProcFields /\ proc'.pc = "check" /\ proc'.script = "rollout" /\ proc'.token = proc.token
  BY <1>1, <1>9, ProcMoves
<1> QED BY <1>2, <1>4, <1>7, <1>8, <1>9, <1>10, ReceiptStep

\* readback, the end of a rollback and an abort find a whole runtime.
LEMMA ReadbackKeeps == ASSUME Good, Readback PROVE Good'
<1>1. proc.script \in {"rollout", "readback"} /\ DOMAIN proc = ProcFields /\ proc.script \in RollScripts
  BY DEF Readback, Good, Shapes, RollScripts
<1>2. DOMAIN Rec = RecFields
  BY <1>1, Edits
<1>3. WholeNow
  <2>1. Pending = {} /\ (HasSql => schema = "candidate")
    BY DEF Readback, ReadsBack
  <2>2. files = [a \in Artifacts |-> "new"]
    BY <2>1 DEF Pending, Good, Shapes
  <2> QED BY <2>1, <2>2, WholeNowMeans
<1>4. PICK r : r = [Rec EXCEPT !.status = "VERIFIED"]
  OBVIOUS
<1>5. Edit(r)
  BY <1>2, <1>4 DEF Edit, RecFields
<1>6. PICK p \in {"release", "released"} : Goto(p)
  BY DEF Readback
<1>7. Save(r) /\ UNCHANGED <<native, fence, guards, bundle, files, schema, rollPlan>>
  BY <1>4 DEF Readback, RollOthers
<1>8. DOMAIN proc' = ProcFields /\ proc'.pc = p /\ proc'.script = proc.script /\ proc'.token = proc.token
  BY <1>1, <1>6, ProcMoves
<1>9. Reviewed(r) /\ DOMAIN r = RecFields /\ r.status # "NONE"
  BY <1>1, <1>5, EditIsReviewed
<1>10. proc'.script # "rollback" /\ proc'.pc \notin Working /\ proc'.pc \notin {"save", "fence", "observe", "check", "sql"}
  BY <1>1, <1>6, <1>8 DEF Working
<1>11. proc'.script \in {"rollout", "readback", "abort", "rollback", "none"}
  BY <1>1, <1>8
<1> QED BY <1>1, <1>3, <1>7, <1>8, <1>9, <1>10, <1>11, ReceiptStep

LEMMA RolledBackKeeps == ASSUME Good, RolledBack PROVE Good'
<1>1. proc.script = "rollback" /\ proc.pc = "files" /\ DOMAIN proc = ProcFields
  BY DEF RolledBack, UndoAt, At, Good, Shapes
<1>2. proc.script \in RollScripts
  BY <1>1 DEF RollScripts
<1>3. DOMAIN Rec = RecFields /\ WholeSnapshot(Rec.before)
  BY <1>2, Edits
<1>4. PICK b : b = Rec.before
  OBVIOUS
<1>5. HasSql /\ b.schema = "candidate" => schema = "candidate"
  BY <1>1, <1>4 DEF Good, Positions, RollbackAt
<1>6. HasSql /\ schema = "candidate" => b.schema = "candidate"
  BY <1>4 DEF RolledBack, RequirePreserved, SnapshotState, SchemaQuery
<1>7. WholeNow
  <2>1. \A a \in Artifacts : files[a] = b.files[a]
    BY <1>4 DEF RolledBack, Changed
  <2>2. files = [a \in Artifacts |-> files[a]] /\ (~HasSql => schema # "candidate")
    BY DEF Good, Shapes, Unfenced
  <2>3. CASE b.files = [a \in Artifacts |-> "old"] /\ b.schema # "candidate"
    <3>1. files = [a \in Artifacts |-> "old"]
      BY <2>1, <2>2, <2>3
    <3> QED BY <1>6, <2>2, <2>3, <3>1, WholeNowMeans
  <2>4. CASE b.files = [a \in Artifacts |-> "new"] /\ (HasSql => b.schema = "candidate")
    <3>1. files = [a \in Artifacts |-> "new"]
      BY <2>1, <2>2, <2>4
    <3> QED BY <1>5, <2>4, <3>1, WholeNowMeans
  <2> QED BY <1>3, <1>4, <2>3, <2>4 DEF WholeSnapshot
<1>8. PICK r : r = [Rec EXCEPT !.status = "ROLLED_BACK", !.installed = {}]
  OBVIOUS
<1>9. Edit(r)
  BY <1>3, <1>8 DEF Edit, RecFields
<1>10. Save(r) /\ Goto("release") /\ UNCHANGED <<native, fence, guards, bundle, files, schema, rollPlan>>
  BY <1>8 DEF RolledBack, RollOthers
<1>11. DOMAIN proc' = ProcFields /\ proc'.pc = "release" /\ proc'.script = "rollback" /\ proc'.token = proc.token
  BY <1>1, <1>10, ProcMoves
<1>12. Reviewed(r) /\ DOMAIN r = RecFields /\ r.status # "NONE"
  BY <1>2, <1>9, EditIsReviewed
<1> QED BY <1>2, <1>7, <1>10, <1>11, <1>12, ReceiptStep

LEMMA AbortKeeps == ASSUME Good, AbortUnchanged PROVE Good'
<1>1. proc.script = "abort" /\ DOMAIN proc = ProcFields
  BY DEF AbortUnchanged, At, Good, Shapes
<1>2. proc.script \in RollScripts
  BY <1>1 DEF RollScripts
<1>3. DOMAIN Rec = RecFields /\ WholeSnapshot(Rec.before) /\ Reviewed(Rec) /\ Rec.status # "NONE"
  BY <1>2, Edits
<1>4. WholeNow
  <2>1. SnapshotState = Rec.before \/ (Rec.observed /\ SnapshotState = Rec.seen)
    BY DEF AbortUnchanged, Untouched
  <2> QED BY <1>3, <2>1 DEF Reviewed, WholeNow
<1>5. PICK r : r = [Rec EXCEPT !.status = "ABORTED_UNCHANGED"]
  OBVIOUS
<1>6. Edit(r)
  BY <1>3, <1>5 DEF Edit, RecFields
<1>7. Save(r) /\ UNCHANGED <<native, fence, guards, bundle, files, schema, rollPlan>>
  BY <1>5 DEF AbortUnchanged, RollOthers
<1>8. proc' = [proc EXCEPT !.script = "rollback", !.pc = "release"]
  BY DEF AbortUnchanged
<1>9. DOMAIN proc' = ProcFields /\ proc'.pc = "release" /\ proc'.script = "rollback" /\ proc'.token = proc.token
  BY <1>1, <1>8 DEF ProcFields
<1>10. Reviewed(r) /\ DOMAIN r = RecFields /\ r.status # "NONE"
  BY <1>2, <1>6, EditIsReviewed
<1> QED BY <1>2, <1>4, <1>7, <1>9, <1>10, ReceiptStep

\* The runtime changes under the fence of the receipt that owns the process.
LEMMA RuntimeStep ==
    ASSUME Good, proc.script \in {"rollout", "rollback"}, fence["flat"] = proc.token,
           UNCHANGED <<native, fence, guards, bundle, rollPlan, rollRec>>,
           files' = [a \in Artifacts |-> files'[a]], ~HasSql => schema' # "candidate",
           DOMAIN proc' = ProcFields, proc'.token = proc.token, proc'.script = proc.script,
           proc'.script = "rollout" => proc'.pc \in {"committed", "written"},
           proc'.script = "rollback" =>
              proc'.pc = "files" /\ (HasSql /\ Rec.before.schema = "candidate" => schema' = "candidate")
    PROVE  Good'
<1>1. proc.token \in Rollouts /\ Rec.status # "NONE" /\ native = {}
  BY Edits DEF RollScripts
<1>2. HasSql' = HasSql /\ fence["flat"] # 0
  BY <1>1, SameWhole, RolloutNumbers
<1>3. Shapes' /\ Snapshots'
  BY SameWhole DEF Good, Shapes, Snapshots
<1>4. Unfenced'
  BY <1>2 DEF Unfenced
<1>5. Owned' /\ ReleaseAt'
  BY <1>1 DEF Owned, ReleaseAt, Rec
<1>6. ApplyAt' /\ RollbackAt'
  BY <1>2 DEF ApplyAt, RollbackAt, Rec
<1> QED BY <1>3, <1>4, <1>5, <1>6 DEF Good, Positions

LEMMA RuntimeChanges ==
    ASSUME Good, RollSqlCommits \/ RollWrite \/ RestoreFunctions \/ RestoreFile PROVE Good'
<1>1. DOMAIN proc = ProcFields /\ files = [a \in Artifacts |-> files[a]] /\ (~HasSql => schema # "candidate")
  BY DEF Good, Shapes, Unfenced
<1>2. UNCHANGED <<native, fence, guards, bundle, rollPlan, rollRec>>
  BY DEF RollSqlCommits, RollWrite, RestoreFunctions, RestoreFile, RollOthers
<1>3. CASE RollSqlCommits
  <2>1. proc.script = "rollout" /\ proc.pc = "sql" /\ Goto("committed") /\ files' = files
    BY <1>3 DEF RollSqlCommits, RollAt, At
  <2>2. fence["flat"] = proc.token /\ HasSql
    BY <2>1 DEF Good, Positions, ApplyAt, Working
  <2> QED BY <1>1, <1>2, <2>1, <2>2, ProcMoves, RuntimeStep
<1>4. CASE RollWrite
  <2>1. proc.script = "rollout" /\ proc.pc = "write" /\ Goto("written") /\ schema' = schema
    BY <1>4 DEF RollWrite, RollAt, At
  <2>2. fence["flat"] = proc.token
    BY <2>1 DEF Good, Positions, ApplyAt, Working
  <2>3. \E x : files' = [files EXCEPT ![x] = "new"]
    BY <1>4 DEF RollWrite, Replace
  <2>4. files' = [a \in Artifacts |-> files'[a]]
    BY <1>1, <2>3
  <2> QED BY <1>1, <1>2, <2>1, <2>2, <2>4, ProcMoves, RuntimeStep
<1>5. CASE RestoreFunctions
  <2>1. proc.script = "rollback" /\ proc.pc = "functions" /\ Goto("files") /\ files' = files
    BY <1>5 DEF RestoreFunctions, UndoAt, At
  <2>2. fence["flat"] = proc.token /\ (HasSql /\ Rec.before.schema = "candidate" => schema = "candidate")
    BY <2>1 DEF Good, Positions, RollbackAt
  <2>3. schema' = IF schema = "candidate" THEN RestoredSchema(Rec) ELSE schema
    BY <1>5 DEF RestoreFunctions
  <2>4. HasSql /\ Rec.before.schema = "candidate" => schema' = "candidate"
    BY <2>2, <2>3 DEF RestoredSchema
  <2>5. ~HasSql => schema' # "candidate"
    BY <1>1, <2>3
  <2> QED BY <1>1, <1>2, <2>1, <2>2, <2>4, <2>5, ProcMoves, RuntimeStep
<1>6. CASE RestoreFile
  <2>1. proc.script = "rollback" /\ proc.pc = "files" /\ proc' = proc /\ schema' = schema
    BY <1>6 DEF RestoreFile, UndoAt, At
  <2>2. fence["flat"] = proc.token /\ (HasSql /\ Rec.before.schema = "candidate" => schema = "candidate")
    BY <2>1 DEF Good, Positions, RollbackAt
  <2>3. \E x, y : files' = [files EXCEPT ![x] = y]
    BY <1>6 DEF RestoreFile, Replace
  <2>4. files' = [a \in Artifacts |-> files'[a]]
    BY <1>1, <2>3
  <2> QED BY <1>1, <1>2, <2>1, <2>2, <2>4, RuntimeStep
<1> QED BY <1>3, <1>4, <1>5, <1>6

\* A command that stops leaves the fence as it is.
LEMMA StopsKeep ==
    ASSUME Good, RollStops \/ ReadbackStops \/ RollbackFails \/ AbortRefused \/ Released PROVE Good'
<1>1. CASE RollStops \/ RollbackFails \/ Released
  <2>1. proc.script \in RollScripts
    BY <1>1 DEF RollStops, RollbackFails, Released, RollScripts
  <2>2. DOMAIN Rec = RecFields /\ Rec.status # "NONE"
    BY <2>1, Edits
  <2>3. PICK r : Save(r) /\ Edit(r)
    <3>1. CASE RollStops
      <4>1. PICK st, c : /\ Save([Rec EXCEPT !.status = st, !.candidate = c, !.removed = FALSE])
                         /\ st = Rec.status \/ st = "FAILED_FENCED"
        <5>1. PICK found \in BOOLEAN :
                 Save([Rec EXCEPT !.status = IF proc.pc \in {"save", "fence"} THEN @ ELSE "FAILED_FENCED",
                                  !.candidate = @ \/ found, !.removed = FALSE])
          BY <3>1 DEF RollStops
        <5>2. PICK st, c : /\ st = IF proc.pc \in {"save", "fence"} THEN Rec.status ELSE "FAILED_FENCED"
                           /\ c = (Rec.candidate \/ found)
          OBVIOUS
        <5>3. Save([Rec EXCEPT !.status = st, !.candidate = c, !.removed = FALSE])
          BY <2>2, <5>1, <5>2 DEF RecFields
        <5> QED BY <5>2, <5>3
      <4>2. Edit([Rec EXCEPT !.status = st, !.candidate = c, !.removed = FALSE])
        BY <2>2, <4>1 DEF Edit, RecFields
      <4> QED BY <4>1, <4>2
    <3>2. CASE RollbackFails
      <4>1. Save([Rec EXCEPT !.status = "ROLLBACK_FAILED_FENCED"])
        BY <3>2 DEF RollbackFails
      <4>2. Edit([Rec EXCEPT !.status = "ROLLBACK_FAILED_FENCED"])
        BY <2>2 DEF Edit, RecFields
      <4> QED BY <4>1, <4>2
    <3>3. CASE Released
      <4>1. Save([Rec EXCEPT !.removed = TRUE])
        BY <3>3 DEF Released
      <4>2. Edit([Rec EXCEPT !.removed = TRUE])
        BY <2>2 DEF Edit, RecFields
      <4> QED BY <4>1, <4>2
    <3> QED BY <1>1, <3>1, <3>2, <3>3
  <2>4. Exit /\ UNCHANGED <<native, fence, guards, bundle, files, schema, rollPlan>>
    BY <1>1 DEF RollStops, RollbackFails, Released, RollOthers
  <2>5. Reviewed(r) /\ DOMAIN r = RecFields
    BY <2>1, <2>3, EditIsReviewed
  <2> QED BY <2>1, <2>3, <2>4, <2>5, ReceiptExit
<1>2. CASE ReadbackStops \/ AbortRefused
  <2>1. UNCHANGED <<fence, bundle, files, schema, rollPlan, rollRec, guards>> /\ proc' = Free
    BY <1>2 DEF ReadbackStops, AbortRefused, RollOthers, rollVars, Exit
  <2>2. fence["flat"] = 0 => WholeNow
    BY DEF Good, Unfenced
  <2>3. DOMAIN proc' = ProcFields /\ proc'.script = "none" /\ "none" \notin RollScripts
    BY <2>1, ProcFree DEF RollScripts
  <2> QED BY <2>1, <2>2, <2>3, ProcessStep
<1> QED BY <1>1, <1>2

\* A kill in the middle of a receipt leaves the fence as it is; a kill in the
\* middle of the pending file leaves one that is nobody's.
LEMMA TornKeeps == ASSUME Good, ReceiptTorn \/ FenceTorn PROVE Good'
<1>1. CASE ReceiptTorn
  <2>1. proc.script \in RollScripts
    BY <1>1 DEF ReceiptTorn, WritesReceipt, At, RollScripts
  <2>2. PICK r : r = [NoRollRec EXCEPT !.status = "TORN"]
    OBVIOUS
  <2>3. DOMAIN r = RecFields /\ r.before = NoSnapshot /\ r.observed = FALSE
    BY <2>2 DEF NoRollRec, RecFields
  <2>4. WholeSnapshot(NoSnapshot)
    BY DEF WholeSnapshot, NoSnapshot
  <2>5. Reviewed(r)
    BY <2>3, <2>4 DEF Reviewed
  <2>6. Save(r) /\ Exit /\ UNCHANGED <<native, fence, guards, bundle, files, schema, rollPlan>>
    BY <1>1, <2>2 DEF ReceiptTorn, RollOthers
  <2> QED BY <2>1, <2>3, <2>5, <2>6, ReceiptExit
<1>2. CASE FenceTorn
  <2>1. UNCHANGED <<bundle, files, schema, rollPlan, rollRec, guards>> /\ proc' = Free
    BY <1>2 DEF FenceTorn, RollOthers, rollVars, Exit
  <2>2. fence' = [fence EXCEPT !["flat"] = -1] /\ "flat" \in Migrations
    BY <1>2 DEF FenceTorn, Unreadable, Migrations
  <2>3. fence'["flat"] # 0
    BY <2>2 DEF Good, Shapes
  <2>4. \E x : fence' = [fence EXCEPT !["flat"] = x]
    BY <2>2
  <2>5. DOMAIN proc' = ProcFields /\ proc'.script = "none" /\ "none" \notin RollScripts
    BY <2>1, ProcFree DEF RollScripts
  <2> QED BY <2>1, <2>3, <2>4, <2>5, ProcessStep
<1> QED BY <1>1, <1>2

\* The fence goes up before anything changes and comes down over a whole
\* runtime.
LEMMA FenceKeeps == ASSUME Good, RollFence \/ ReleaseFence PROVE Good'
<1>1. DOMAIN proc = ProcFields /\ fence = [m \in Migrations |-> fence[m]] /\ "flat" \in Migrations
  BY DEF Good, Shapes, Migrations
<1>2. UNCHANGED <<native, bundle, files, schema, rollPlan, rollRec, guards>>
  BY DEF RollFence, ReleaseFence, RollOthers, rollVars
<1>3. CASE RollFence
  <2>1. proc.script = "rollout" /\ proc.pc = "fence" /\ Goto(IF HasSql THEN "observe" ELSE "recheck")
    BY <1>3 DEF RollFence, RollAt, At
  <2>2. WholeNow /\ proc.token \in Rollouts /\ Rec.status # "NONE" /\ native = {}
    BY <2>1 DEF Good, Positions, ApplyAt, Owned, RollScripts
  <2>3. fence' = [fence EXCEPT !["flat"] = proc.token] /\ fence'["flat"] = proc.token
    BY <1>1, <1>3 DEF RollFence, OwnFence
  <2>4. /\ DOMAIN proc' = ProcFields /\ proc'.script = "rollout" /\ proc'.token = proc.token
        /\ proc'.pc \in {"observe", "recheck"} /\ (proc'.pc = "observe" => HasSql)
    BY <1>1, <2>1, ProcMoves
  <2> QED BY <1>2, <2>2, <2>3, <2>4, ProcessStep DEF Rec
<1>4. CASE ReleaseFence
  <2>1. proc.script \in RollScripts /\ proc.pc = "release" /\ Goto("released")
    BY <1>4 DEF ReleaseFence, RollScripts
  <2>2. WholeNow /\ proc.token \in Rollouts /\ Rec.status # "NONE" /\ native = {}
    BY <2>1 DEF Good, Positions, ReleaseAt, Owned
  <2>3. fence' = [fence EXCEPT !["flat"] = 0] /\ fence'["flat"] = 0
    BY <1>1, <1>4 DEF ReleaseFence
  <2>4. DOMAIN proc' = ProcFields /\ proc'.script = proc.script /\ proc'.token = proc.token /\ proc'.pc = "released"
    BY <1>1, <2>1, ProcMoves
  <2>5. proc'.pc \notin Working /\ proc'.pc \notin {"functions", "files"}
    BY <2>4 DEF Working
  <2> QED BY <1>2, <2>2, <2>3, <2>4, <2>5, ProcessStep DEF Rec
<1> QED BY <1>3, <1>4

\* readback and abort start under the fence of their receipt.
LEMMA StartsKeep ==
    ASSUME Good, NEW t \in Rollouts, ReadbackStart(t) \/ AbortStart(t) PROVE Good'
<1>1. fence = [m \in Migrations |-> fence[m]] /\ "flat" \in Migrations /\ (fence["flat"] = 0 => WholeNow)
  BY DEF Good, Shapes, Unfenced, Migrations
<1>2. UNCHANGED <<native, bundle, files, schema, rollPlan, rollRec, guards>> /\ rollRec[t].status # "NONE"
  BY DEF ReadbackStart, AbortStart, RollOthers, rollVars, Loads
<1>3. fence' = fence \/ (fence' = [fence EXCEPT !["flat"] = t])
  BY DEF ReadbackStart, AbortStart, OwnFence
<1>4. fence'["flat"] = 0 => WholeNow
  BY <1>1, <1>3, RolloutNumbers
<1>5. PICK s \in {"readback", "abort"}, p \in {"readback", "check"} : Start(s, p, t, FALSE)
  BY DEF ReadbackStart, AbortStart
<1>6. DOMAIN proc' = ProcFields /\ proc'.script = s /\ proc'.pc = p /\ proc'.token = t /\ native = {}
  BY <1>5, ProcStarts
<1> QED BY <1>2, <1>3, <1>4, <1>5, <1>6, ProcessStep

\* A plan is taken while no fence is up; apply starts while none is.
LEMMA PlanKeeps == ASSUME Good, RollMakePlan PROVE Good'
<1>1. UNCHANGED <<proc, native, fence, guards, data, bundle, files, schema, v3, rollRec>>
  BY DEF RollMakePlan, windowVars, pgVars
<1>2. WholeSnapshot(SnapshotState)
  BY DEF RollMakePlan, Good, Unfenced, WholeNow
<1>3. rollPlan' = [made |-> TRUE, before |-> SnapshotState]
  BY DEF RollMakePlan
<1>4. rollPlan'.before = SnapshotState
  BY <1>3
<1>5. Shapes'
  BY <1>1 DEF Good, Shapes
<1>6. Snapshots'
  BY <1>1, <1>2, <1>4, SameWhole DEF Good, Snapshots
<1>7. WholeNow' = WholeNow /\ HasSql' = HasSql /\ Rec' = Rec /\ RequireUnusedV3' = RequireUnusedV3
  BY <1>1, SameNow, SameWhole DEF Rec, RequireUnusedV3, PreserveV3Use
<1>8. Unfenced'
  BY <1>1, <1>7 DEF Good, Unfenced
<1>9. Positions'
  BY <1>1, <1>7 DEF Good, Positions, Owned, ApplyAt, RollbackAt, ReleaseAt
<1> QED BY <1>5, <1>6, <1>8, <1>9 DEF Good

LEMMA ApplyKeeps == ASSUME Good, NEW t \in Rollouts, RollApply(t) PROVE Good'
<1>1. /\ UNCHANGED <<native, fence, guards, bundle, files, schema, rollPlan>>
      /\ rollPlan.made /\ fence["flat"] = 0
  BY DEF RollApply, RollOthers
<1>2. WholeNow /\ WholeSnapshot(rollPlan.before)
  BY <1>1 DEF Good, Unfenced, Snapshots
<1>3. PICK r : r = [NoRollRec EXCEPT !.status = "BACKING_UP", !.before = rollPlan.before]
  OBVIOUS
<1>4. DOMAIN r = RecFields /\ r.status = "BACKING_UP" /\ r.before = rollPlan.before /\ r.observed = FALSE
  BY <1>3 DEF NoRollRec, RecFields
<1>5. Reviewed(r)
  BY <1>2, <1>4 DEF Reviewed
<1>6. rollRec' = [rollRec EXCEPT ![t] = r]
  BY <1>3 DEF RollApply
<1>7. /\ Snapshots' /\ rollRec' = [u \in Rollouts |-> rollRec'[u]]
      /\ \A u \in Rollouts : DOMAIN rollRec'[u] = RecFields
      /\ rollRec'[t] = r
  BY <1>1, <1>4, <1>5, <1>6, ReceiptWritten DEF Good
<1>8. Start("rollout", IF HasSql THEN "fence" ELSE "save", t, FALSE)
  BY DEF RollApply
<1>9. /\ DOMAIN proc' = ProcFields /\ proc'.script = "rollout" /\ proc'.token = t /\ native = {}
      /\ proc'.pc \in {"fence", "save"}
  BY <1>8, ProcStarts
<1>10. WholeNow' /\ HasSql' = HasSql
  BY <1>1, <1>2, SameNow, SameWhole
<1>11. Shapes'
  BY <1>1, <1>7, <1>9 DEF Good, Shapes
<1>12. Unfenced'
  BY <1>1, <1>9, <1>10 DEF Good, Unfenced
<1>13. Positions'
  BY <1>1, <1>4, <1>7, <1>9, <1>10 DEF Positions, Owned, ApplyAt, RollbackAt, ReleaseAt, Rec, Working
<1> QED BY <1>7, <1>11, <1>12, <1>13 DEF Good

\* rollback starts over function bodies its receipt knows.
LEMMA RollbackStartKeeps == ASSUME Good, NEW t \in Rollouts, RollbackStart(t) PROVE Good'
<1>1. UNCHANGED <<native, guards, data, bundle, files, schema, v3, rollPlan>>
  BY DEF RollbackStart, RollOthers, pgVars
<1>2. rollRec[t].status # "NONE" /\ RollbackAdmits(rollRec[t])
  BY DEF RollbackStart, Loads
<1>3. PICK r : r = [rollRec[t] EXCEPT !.status = "ROLLING_BACK"]
  OBVIOUS
<1>4. /\ DOMAIN r = RecFields /\ r.status = "ROLLING_BACK" /\ r.before = rollRec[t].before
      /\ r.observed = rollRec[t].observed /\ r.seen = rollRec[t].seen
  BY <1>3 DEF Good, Shapes, RecFields
<1>5. Reviewed(r)
  <2>1. Reviewed(rollRec[t])
    BY DEF Good, Snapshots
  <2> QED BY <1>2, <1>4, <2>1 DEF Reviewed
<1>6. rollRec' = [rollRec EXCEPT ![t] = r]
  BY <1>3 DEF RollbackStart, Good, Shapes
<1>7. /\ Snapshots' /\ rollRec' = [u \in Rollouts |-> rollRec'[u]]
      /\ \A u \in Rollouts : DOMAIN rollRec'[u] = RecFields
      /\ rollRec'[t] = r
  BY <1>1, <1>4, <1>5, <1>6, ReceiptWritten DEF Good
<1>8. /\ Start("rollback", IF HasSql THEN "functions" ELSE "files", t, FALSE)
      /\ fence' = [fence EXCEPT !["flat"] = t]
  BY DEF RollbackStart, OwnFence
<1>9. /\ DOMAIN proc' = ProcFields /\ proc'.script = "rollback" /\ proc'.token = t /\ native = {}
      /\ (proc'.pc = "functions" => HasSql) /\ proc'.pc \in {"functions", "files"}
  <2>1. PICK p : p = IF HasSql THEN "functions" ELSE "files"
    OBVIOUS
  <2>2. Start("rollback", p, t, FALSE)
    BY <1>8, <2>1
  <2>3. /\ DOMAIN proc' = ProcFields /\ proc'.script = "rollback" /\ proc'.token = t /\ native = {}
        /\ proc'.pc = p
    BY <2>2, ProcStarts
  <2> QED BY <2>1, <2>3
<1>10. fence' = [m \in Migrations |-> fence'[m]] /\ fence'["flat"] = t /\ t # 0
  BY <1>8, RolloutNumbers DEF Good, Shapes, Migrations
<1>11. HasSql' = HasSql /\ RequireUnusedV3' = RequireUnusedV3
  BY <1>1, SameWhole DEF RequireUnusedV3, PreserveV3Use
<1>12. Shapes'
  BY <1>1, <1>7, <1>9, <1>10 DEF Good, Shapes
<1>13. Unfenced'
  BY <1>1, <1>9, <1>10, <1>11 DEF Good, Unfenced
<1>14. Owned' /\ ApplyAt' /\ ReleaseAt'
  BY <1>1, <1>4, <1>7, <1>9 DEF Owned, ApplyAt, ReleaseAt, Rec
<1>15. HasSql => data = rollRec[t].before.data /\ RequireUnusedV3 /\ KnownSchema(rollRec[t])
  BY <1>2 DEF RollbackAdmits, RequirePreserved, SnapshotState, QueryState
<1>16. HasSql /\ rollRec[t].before.schema = "candidate" => schema = "candidate"
  BY <1>15 DEF KnownSchema, RestoredSchema
<1>17. RollbackAt'
  <2>1. Rec'.before = rollRec[t].before
    BY <1>4, <1>7, <1>9 DEF Rec
  <2> QED BY <1>1, <1>9, <1>10, <1>11, <1>15, <1>16, <2>1 DEF RollbackAt
<1> QED BY <1>7, <1>12, <1>13, <1>14, <1>17 DEF Good, Positions

\* The scheduler, a kill and the new prompt's rows.
LEMMA WindowKeeps ==
    ASSUME Good, (WindowNext /\ UNCHANGED rollVars) \/ UseV3 PROVE Good'
<1>1. /\ UNCHANGED <<bundle, files, schema, rollPlan, rollRec, guards, fence>>
  BY DEF WindowNext, RefreshStart, RefreshSource, RefreshDone, RefreshExit, Kill, UseV3, rollVars
<1>2. DOMAIN proc = ProcFields /\ guards = Migrations /\ "flat" \in Migrations
  BY DEF Good, Shapes, Migrations
<1>3. (fence["flat"] = 0 => WholeNow) /\ (proc.script = "refresh" => fence["flat"] = 0)
  BY DEF Good, Unfenced
<1>4. /\ DOMAIN proc' = ProcFields /\ proc'.script \notin RollScripts
      /\ proc'.script = "refresh" => fence["flat"] = 0
  <2>1. CASE RefreshStart
    <3>1. proc' = [Free EXCEPT !.script = "refresh", !.pc = "queue"] /\ fence["flat"] = 0
      BY <1>2, <2>1 DEF RefreshStart
    <3> QED BY <3>1 DEF Free, ProcFields, RollScripts
  <2>2. CASE RefreshSource
    BY <1>2, <1>3, <2>2, ProcMoves DEF RefreshSource, Launch, At, RollScripts
  <2>3. CASE RefreshDone
    <3>1. proc' = proc \/ (proc' = [proc EXCEPT !.pc = "queue"] /\ proc.script = "refresh")
      BY <2>3 DEF RefreshDone, Join, At
    <3>2. proc.script \notin RollScripts
      BY <2>3 DEF RefreshDone, Running, Good, Positions, Owned
    <3> QED BY <1>2, <1>3, <3>1, <3>2 DEF ProcFields
  <2>4. CASE RefreshExit \/ Kill
    BY <2>4, ProcFree DEF RefreshExit, Kill, Exit, RollScripts
  <2>5. CASE UseV3
    BY <2>5, ProcFree DEF UseV3, RollScripts
  <2> QED BY <2>1, <2>2, <2>3, <2>4, <2>5 DEF WindowNext
<1>5. proc'.script \notin {"rollout", "rollback"}
  BY <1>4 DEF RollScripts
<1> QED BY <1>1, <1>3, <1>4, <1>5, ProcessStep

-----------------------------------------------------------------------------
(* The theorems.                                                           *)

IInv == RollInv /\ DepInv

LEMMA RollInductive ==
    ASSUME RollInv, [Next]_vars PROVE RollInv'
<1> SUFFICES ASSUME kind' = "fenced" PROVE Good'
  BY DEF RollInv, Good
<1>1. kind = "fenced"
  BY DEF Next, Window, Fenced, Plain, vars
<1>2. Good
  BY <1>1 DEF RollInv, Good
<1>3. CASE Window(WindowNext)
  BY <1>2, <1>3, WindowKeeps DEF Window
<1>4. CASE Fenced(RollOperator \/ RollSteps \/ RollStopped \/ UseV3)
  BY <1>2, <1>4, PlanKeeps, ApplyKeeps, StartsKeep, RollbackStartKeeps, FenceKeeps, ObserveKeeps, ApplyReceipts,
     RuntimeChanges, ReadbackKeeps, RolledBackKeeps, AbortKeeps, StopsKeep, TornKeeps, WindowKeeps
     DEF Fenced, RollOperator, RollSteps, RollStopped
<1>5. CASE Plain(DepOperator \/ DepSteps \/ DepFails)
  BY <1>1, <1>5 DEF Plain
<1>6. CASE UNCHANGED vars
  <2>1. UNCHANGED <<proc, native, fence, guards, data, bundle, files, schema, v3, rollPlan, rollRec>>
    BY <1>6 DEF vars, windowVars, pgVars, rollVars
  <2>2. WholeNow' = WholeNow /\ HasSql' = HasSql /\ Rec' = Rec /\ RequireUnusedV3' = RequireUnusedV3
    BY <2>1, SameNow, SameWhole DEF Rec, RequireUnusedV3, PreserveV3Use
  <2>3. Shapes' /\ Snapshots'
    BY <1>2, <2>1, SameWhole DEF Good, Shapes, Snapshots
  <2>4. Unfenced'
    BY <1>2, <2>1, <2>2 DEF Good, Unfenced
  <2>5. Positions'
    BY <1>2, <2>1, <2>2 DEF Good, Positions, Owned, ApplyAt, RollbackAt, ReleaseAt
  <2> QED BY <2>3, <2>4, <2>5 DEF Good
<1> QED BY <1>3, <1>4, <1>5, <1>6 DEF Next

LEMMA RollInitEstablishes == Init => RollInv
<1> SUFFICES ASSUME Init PROVE Good
  BY DEF RollInv, Good
<1> USE DEF Init, WindowInit, RollInit
<1>1. DOMAIN proc = ProcFields /\ proc.script = "none"
  BY ProcFree
<1>2. Shapes
  <2>1. DOMAIN NoRollRec = RecFields
    BY DEF NoRollRec, RecFields
  <2> QED BY <1>1, <2>1 DEF Shapes
<1>3. Snapshots
  BY DEF Snapshots, Reviewed, NoRollPlan, NoRollRec
<1>4. Unfenced
  BY <1>1, WholeNowMeans DEF Unfenced
<1>5. Positions
  BY <1>1 DEF Positions, Owned, ApplyAt, RollbackAt, ReleaseAt, RollScripts
<1> QED BY <1>2, <1>3, <1>4, <1>5 DEF Good

\* deploy_additive_runtime, reconcile_runtime: plans and receipts hold whole
\* states, files and functions move under the fence of the process's own
\* receipt, and a deployment stages all before it installs.
THEOREM RolloutInvariance == Spec => []IInv
<1>1. Init => IInv
  BY RollInitEstablishes, DepInitEstablishes DEF IInv
<1>2. IInv /\ [Next]_vars => IInv'
  <2> SUFFICES ASSUME IInv, [Next]_vars PROVE IInv'
    OBVIOUS
  <2>1. RollInv'
    BY RollInductive DEF IInv
  <2>2. DepInv'
    <3>1. CASE kind' = "fenced"
      <4>1. DOMAIN proc' = ProcFields
        BY <2>1, <3>1 DEF RollInv, Shapes
      <4> QED BY <4>1, DepInductive DEF IInv
    <3>2. CASE kind' # "fenced"
      <4>1. CASE Window(WindowNext)
        BY <4>1, WindowKeepsDeployment DEF IInv
      <4>2. CASE Plain(DepOperator \/ DepSteps \/ DepFails)
        BY <3>2, <4>2, DeploymentSteps DEF IInv, Plain
      <4>3. CASE UNCHANGED vars
        <5>1. DOMAIN proc' = ProcFields
          BY <4>3 DEF IInv, DepInv, vars, windowVars
        <5> QED BY <5>1, DepInductive DEF IInv
      <4>4. ASSUME NEW A, Fenced(A) PROVE FALSE
        BY <3>2, <4>4 DEF Fenced
      <4> QED BY <4>1, <4>2, <4>3, <4>4 DEF Next
    <3> QED BY <3>1, <3>2
  <2> QED BY <2>1, <2>2 DEF IInv
<1> QED BY <1>1, <1>2, PTL DEF Spec

\* deploy_additive_runtime with refresh.sh: whatever was killed, refused or
\* taken back, the scheduler that holds the lock finds the artifacts all old or
\* all new, and in agreement with the functions.
THEOREM SchedulerSeesWholeRuntime == Spec => []WholeUnlessFenced
<1>1. IInv => WholeUnlessFenced
  <2> SUFFICES ASSUME IInv, proc.script = "refresh", kind = "fenced" PROVE WholeNow
    BY WholeNowMeans DEF WholeUnlessFenced
  <2> QED BY DEF IInv, RollInv, Unfenced
<1> QED BY <1>1, RolloutInvariance, PTL

\* rollback: functions are taken back only while no protected row differs from
\* the plan and no result of the new prompt exists; what the start checked
\* still holds when the functions go.
THEOREM NothingUsedIsLost == Spec => RollbackLosesNothing
<1>1. IInv /\ [Next]_vars =>
         [schema = "candidate" /\ schema' # "candidate" => data = Rec.before.data /\ RequireUnusedV3]_vars
  <2> SUFFICES ASSUME IInv, [Next]_vars, schema = "candidate", schema' # "candidate"
               PROVE  data = Rec.before.data /\ RequireUnusedV3
    OBVIOUS
  <2>1. RestoreFunctions /\ kind = "fenced"
    BY DEF Next, Window, Fenced, Plain, vars, rollVars, RollOperator, RollSteps, RollStopped, UseV3, RollMakePlan,
           RollApply, ReadbackStart, AbortStart, RollbackStart, RollFence, RollObserve, RollChecked, RollSave,
           RollRecheck, RollSqlCommits, RollSqlRecorded, RollIntent, RollWrite, RollWritten, RollInstalled,
           Readback, ReleaseFence, Released, AbortUnchanged, AbortRefused, RestoreFile, RolledBack, RollStops,
           ReadbackStops, RollbackFails, ReceiptTorn, FenceTorn
  <2> QED BY <2>1 DEF IInv, RollInv, Positions, RollbackAt, RestoreFunctions, UndoAt, At
<1> QED BY <1>1, RolloutInvariance, PTL DEF Spec, RollbackLosesNothing

\* reconcile_runtime: the scheduler's new adapter is never in place without the
\* workflows it starts, whatever was killed and retried.
THEOREM AdapterComesLast == Spec => []AdapterAfterWorkflows
<1>1. IInv => AdapterAfterWorkflows
  BY DEF IInv, DepInv
<1> QED BY <1>1, RolloutInvariance, PTL

==============================================================================
