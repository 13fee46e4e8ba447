------------------------ MODULE GraphMigrationsProofs ------------------------
(***************************************************************************)
(* Proofs for GraphMigrations: for every graph, every number of receipts,  *)
(* loads, refreshes and faults, what a migration takes out of the graph is *)
(* missing only behind its fence and with everything recovery needs;       *)
(* readers never see a half-flat graph; and the scheduler meets the date   *)
(* entry point without its function only when a receipt says so.           *)
(*                                                                         *)
(* The argument.  Each campaign has an invariant of its own, over the      *)
(* position of the process that holds the lock and the jobs that may       *)
(* outlive it.  The order of apply gives what the receipt holds at every   *)
(* position, the fence is written behind all of it, and no job that writes *)
(* the graph lives without the fence: a process starts only when no job is *)
(* alive, so the process that lifts the fence has none.                    *)
(***************************************************************************)
EXTENDS GraphMigrations, TLAPS

Job(s, j) == [by |-> s, job |-> j]

\* The process that holds the lock, and the two fences.
WindowShape ==
    /\ DOMAIN proc = {"script", "pc", "token", "again"}
    /\ DOMAIN fence = Migrations

\* A process of script s started with no job alive and waits for its own.
Alone(s) == proc.script = s =>
    /\ \A i, j \in native : i = j
    /\ \A j \in native : j.by = s
    /\ proc.pc # "wait" => native = {}

-----------------------------------------------------------------------------
(* The batch-free migration.                                               *)

ReceiptFields == {"status", "phase", "plan", "backup", "recovery", "exported", "proof", "projected"}

\* A receipt in use was written for a plan of the whole scaffold.
ReceiptOK(r) ==
    /\ DOMAIN r = ReceiptFields
    /\ r.status = "NONE" => r.phase = "NONE" /\ ~r.exported
    /\ r.status # "NONE" => r.plan.scaffold = Scaffold
    /\ r.exported => r.recovery = Scaffold

Recoverable(r) == r.backup /\ r.exported /\ r.proof

BatchShape ==
    /\ WindowShape
    /\ scaffold \subseteq Scaffold
    /\ DOMAIN receipt = Tokens
    /\ \A t \in Tokens : ReceiptOK(receipt[t])
    /\ plan.made => plan.scaffold = Scaffold

\* Outside of the fence the graph is as it was, or finished; the fence is
\* owned by a receipt that can put everything back.
BatchFence ==
    /\ fence["batchfree"] = 0 => scaffold = Scaffold \/ (scaffold = {} /\ direct)
    /\ fence["batchfree"] # 0 => /\ fence["batchfree"] \in Tokens
                                 /\ Recoverable(receipt[fence["batchfree"]])
    /\ Job("batchfree", "delete") \in native => fence["batchfree"] # 0

\* What holds of the receipt r and the fence at a position of apply.
BatchPath(pc, r) ==
    /\ pc \notin {"fresh", "backup"} => r.backup
    /\ pc \notin {"fresh", "backup", "recovery"} => r.exported
    /\ pc \notin {"fresh", "backup", "recovery", "prove"} => r.proof

BatchFenced(pc, t) ==
    IF pc \in {"fresh", "backup", "recovery", "prove", "adapter", "fence"}
    THEN fence["batchfree"] \in {0, t}
    ELSE pc # "resumed" => fence["batchfree"] = t

BatchProcess ==
    /\ Alone("batchfree") /\ Alone("batchrecover")
    /\ proc.script \in {"batchfree", "batchrecover"} =>
          proc.token \in Tokens /\ receipt[proc.token].status # "NONE"
    /\ proc.script = "batchfree" =>
          /\ BatchPath(proc.pc, receipt[proc.token])
          /\ BatchFenced(proc.pc, proc.token)
          /\ proc.pc = "unfence" => scaffold = {} /\ direct

BatchInv == BatchShape /\ BatchFence /\ BatchProcess

-----------------------------------------------------------------------------
(* The flat migration.                                                     *)

FlatFields == {"status", "phase", "plan", "backup", "exported", "proof", "adapter", "deployed",
               "sql", "load", "intent", "previous", "inventory", "removed", "post", "base",
               "amend", "old"}

FlatShape ==
    /\ WindowShape
    /\ DOMAIN flatRec = FlatFields
    /\ DOMAIN load = {"id", "state"}
    /\ revision \in [Revisions -> {"orig", "gone", "new"}]
    /\ fence["flat"] \in {0, 1}

FlatFence ==
    /\ fence["flat"] = 1 => flatRec.backup /\ flatRec.exported /\ flatRec.proof
    /\ fence["flat"] = 0 => revision = Original \/ load.state = "VERIFIED"

\* A verified load has a flat graph that nothing is about to undo.
FlatVerified == load.state = "VERIFIED" => PreservedRemoved /\ Job("flatrecover", "restore") \notin native

\* No writer lives without the fence, and none of apply beside one of recover.
FlatWriters ==
    /\ (\E j \in native : j.by \in {"flat", "flatrecover"}) => fence["flat"] = 1
    /\ \A i, j \in native : ~(i.by = "flat" /\ j.by = "flatrecover")

BeforeFence == {"fresh", "backup", "recovery", "prove", "adapter", "fence"}

\* What holds at a position of apply.
FlatPath(pc) ==
    /\ pc \notin {"fresh", "backup"} => flatRec.backup
    /\ pc \notin {"fresh", "backup", "recovery"} => flatRec.exported
    /\ pc \notin {"fresh", "backup", "recovery", "prove"} => flatRec.proof
    /\ pc \notin BeforeFence \cup {"resumed"} => fence["flat"] = 1
    /\ pc \notin BeforeFence \cup {"fenced", "deploy", "sql"} => gate
    /\ pc = "unfence" => load.state = "VERIFIED"

FlatProcess ==
    /\ Alone("flat") /\ Alone("flatrecover") /\ Alone("amend")
    /\ proc.script = "flat" => FlatPath(proc.pc)
    /\ proc.script \in {"flatrecover", "amend"} => fence["flat"] = 1

FlatInv == FlatShape /\ FlatFence /\ FlatVerified /\ FlatWriters /\ FlatProcess

-----------------------------------------------------------------------------
(* The posting-date backfill.                                              *)

DeployReceipt == [status : {"DEPLOYING", "INSTALLING", "VERIFIED", "FAILED"},
                  before : {"old", "new"}, restored : BOOLEAN]

\* A receipt that shows a deployment cut short or not restored.
OnRecord(i) == deployRec[i].status # "VERIFIED" /\ ~deployRec[i].restored

DateShape ==
    /\ WindowShape
    /\ deployRec \in Seq(DeployReceipt)
    /\ entry \in {"old", "new"}
    /\ installed \in BOOLEAN

\* An entry point without its function is on record, and will be when the
\* live deployment, which is, puts the former one back.
DateRecord ==
    /\ entry = "new" /\ ~installed => \E i \in DOMAIN deployRec : OnRecord(i)
    /\ proc.script = "datedeploy" =>
          /\ proc.token \in DOMAIN deployRec
          /\ OnRecord(proc.token)
          /\ deployRec[proc.token].before = "new" /\ ~installed =>
                \E i \in DOMAIN deployRec \ {proc.token} : OnRecord(i)
          /\ proc.pc = "installed" => installed

DateInv == DateShape /\ DateRecord

-----------------------------------------------------------------------------
\* The inductive invariant: the campaign's own, and what the others leave alone.
IInv ==
    /\ IF campaign = "batchfree" THEN BatchInv ELSE scaffold = Scaffold
    /\ IF campaign = "flat" THEN FlatInv ELSE revision = Original /\ ~gate
    /\ IF campaign = "dates" THEN DateInv ELSE entry = "old"

-----------------------------------------------------------------------------
\* Only the process's own jobs, and refreshes, come and go with the window.
LEMMA WindowMoves ==
    ASSUME WindowShape, WindowNext
    PROVE  /\ WindowShape'
           /\ UNCHANGED <<fence, load, gate>>
           /\ \/ proc' = proc \/ proc' = Free
              \/ proc'.script = "refresh"
           /\ native' \subseteq native \cup {Job("refresh", "source")}
           /\ native' \subseteq native \/ proc.script = "refresh"
<1> USE DEF WindowShape, pgVars
<1>1. CASE RefreshStart
  BY <1>1 DEF RefreshStart, Free
<1>2. CASE RefreshSource
  BY <1>2 DEF RefreshSource, Launch, Goto, At, Job
<1>3. CASE RefreshDone
  BY <1>3 DEF RefreshDone, Join, At
<1>4. CASE RefreshExit
  BY <1>4 DEF RefreshExit, Exit, Free
<1>5. CASE Kill
  BY <1>5 DEF Kill, Exit, Free
<1> QED BY <1>1, <1>2, <1>3, <1>4, <1>5 DEF WindowNext

\* A job is known by its owner and its name.
LEMMA JobFields == ASSUME NEW s, NEW j PROVE Job(s, j).by = s /\ Job(s, j).job = j
BY DEF Job


-----------------------------------------------------------------------------
(* The posting-date backfill.                                              *)

\* The deployed entry point and the receipts stay.
LEMMA DateKept ==
    ASSUME DateInv, WindowShape', UNCHANGED <<entry, deployRec>>,
           installed' \in BOOLEAN, installed => installed',
           proc'.script = "datedeploy" => /\ proc.script = "datedeploy" /\ proc'.token = proc.token
                                          /\ proc'.pc = "installed" => installed'
    PROVE  DateInv'
<1>1. DateShape'
  BY DEF DateInv, DateShape
<1>2. DateRecord'
  BY DEF DateInv, DateRecord, OnRecord
<1> QED BY <1>1, <1>2 DEF DateInv

\* The live deployment writes its own receipt.
LEMMA OwnDeployment ==
    ASSUME DateInv, proc.script = "datedeploy"
    PROVE  /\ proc.token \in 1..Len(deployRec) /\ DOMAIN deployRec = 1..Len(deployRec)
           /\ deployRec[proc.token] \in DeployReceipt
BY DEF DateInv, DateShape, DateRecord

LEMMA DeployInstallPreserves == ASSUME DateInv, DeployInstall PROVE DateInv'
<1> DEFINE r == [status |-> "DEPLOYING", before |-> entry, restored |-> FALSE]
<1>0. PICK n : n = Len(deployRec)
  OBVIOUS
<1>1. deployRec \in Seq(DeployReceipt) /\ n \in Nat /\ DOMAIN deployRec = 1..n /\ r \in DeployReceipt
  BY <1>0 DEF DateInv, DateShape, DeployReceipt
<1>2. deployRec' = Append(deployRec, r) /\ UNCHANGED <<entry, installed, fence>>
  BY DEF DeployInstall, DateOthers
<1>3. /\ deployRec' \in Seq(DeployReceipt) /\ DOMAIN deployRec' = 1..(n + 1)
      /\ deployRec'[n + 1] = r /\ \A i \in 1..n : deployRec'[i] = deployRec[i]
  BY <1>0, <1>1, <1>2
<1>4. proc'.script = "datedeploy" /\ proc'.pc = "deploy" /\ proc'.token = n + 1
      /\ DOMAIN proc' = {"script", "pc", "token", "again"}
  BY <1>0 DEF DeployInstall, Start
<1>5. DateShape'
  BY <1>2, <1>3, <1>4 DEF DateInv, DateShape, WindowShape
<1>6. r.status # "VERIFIED" /\ ~r.restored /\ r.before = entry
  OBVIOUS
<1> HIDE DEF r
<1>7. n + 1 \in DOMAIN deployRec' /\ OnRecord(n + 1)'
  BY <1>1, <1>3, <1>6 DEF OnRecord
<1>8. ASSUME entry = "new", ~installed PROVE \E i \in DOMAIN deployRec' \ {n + 1} : OnRecord(i)'
  <2>1. PICK i \in 1..n : OnRecord(i)
    BY <1>1, <1>8 DEF DateInv, DateRecord
  <2>2. i \in DOMAIN deployRec' \ {n + 1} /\ OnRecord(i)'
    BY <1>1, <1>3, <2>1 DEF OnRecord
  <2> QED BY <2>2
<1>9. DateRecord'
  BY <1>2, <1>3, <1>4, <1>6, <1>7, <1>8 DEF DateRecord
<1> QED BY <1>5, <1>9 DEF DateInv

\* The entry point, the new status and the end of a deployment.
LEMMA DeploymentPreserves ==
    ASSUME DateInv, DatesDeployed \/ DatesInstalling \/ DatesInstalled \/ DeployInstallFails
    PROVE  DateInv'
<1>0. PICK t : t = proc.token
  OBVIOUS
<1>1. proc.script = "datedeploy" /\ fence' = fence
  BY DEF DatesDeployed, DatesInstalling, DatesInstalled, DeployInstallFails, DateOthers, DateStep, At
<1>2. /\ t \in 1..Len(deployRec) /\ DOMAIN deployRec = 1..Len(deployRec)
      /\ deployRec[t] \in DeployReceipt /\ deployRec \in Seq(DeployReceipt)
  BY <1>0, <1>1, OwnDeployment DEF DateInv, DateShape
<1>3. OnRecord(t) /\ (deployRec[t].before = "new" /\ ~installed => \E i \in DOMAIN deployRec \ {t} : OnRecord(i))
  BY <1>0, <1>1 DEF DateInv, DateRecord
<1>4. WindowShape'
  <2>1. \/ proc' = Free
        \/ \E pc \in {"install", "wait"} : proc' = [proc EXCEPT !.pc = pc]
    BY DEF DatesDeployed, DatesInstalling, DatesInstalled, DeployInstallFails, DateStep, Goto, Launch, Exit
  <2> QED BY <1>0, <1>1, <2>1 DEF DateInv, DateShape, WindowShape, Free
<1>5. CASE DatesDeployed
  <2>1. /\ proc' = [proc EXCEPT !.pc = "install"] /\ entry' = "new"
        /\ UNCHANGED <<installed, deployRec>>
    BY <1>0, <1>5 DEF DatesDeployed, DateStep, Goto
  <2>2. proc'.script = "datedeploy" /\ proc'.token = t /\ proc'.pc = "install"
    BY <1>0, <1>1, <2>1 DEF DateInv, DateShape, WindowShape
  <2>3. DateRecord'
    BY <1>0, <1>2, <1>3, <2>1, <2>2 DEF DateRecord, OnRecord
  <2> QED BY <1>0, <1>4, <2>1, <2>3 DEF DateInv, DateShape
<1>6. CASE DatesInstalling \/ DatesInstalled
  <2>1. PICK s \in {"INSTALLING", "VERIFIED"} :
           /\ deployRec' = [deployRec EXCEPT ![t].status = s]
           /\ s = "INSTALLING" => proc' = [proc EXCEPT !.pc = "wait"]
           /\ s = "VERIFIED" => proc' = Free /\ proc.pc = "installed"
    BY <1>0, <1>6 DEF DatesInstalling, DatesInstalled, DeployStatus, Launch, Goto, Exit, At
  <2> DEFINE r == [deployRec[t] EXCEPT !.status = s]
  <2>2. r \in DeployReceipt /\ r.before = deployRec[t].before /\ r.restored = deployRec[t].restored /\ r.status = s
    BY <1>0, <1>2 DEF DeployReceipt
  <2>3. deployRec' = [deployRec EXCEPT ![t] = r] /\ UNCHANGED <<entry, installed>>
    BY <1>0, <1>2, <1>6, <2>1 DEF DatesInstalling, DatesInstalled
  <2> HIDE DEF r
  <2>4. /\ deployRec' \in Seq(DeployReceipt) /\ DOMAIN deployRec' = DOMAIN deployRec
        /\ deployRec'[t] = r /\ \A i \in DOMAIN deployRec \ {t} : deployRec'[i] = deployRec[i]
    BY <1>0, <1>2, <2>2, <2>3
  <2>5. DateShape'
    BY <1>0, <1>4, <2>3, <2>4 DEF DateInv, DateShape
  <2>6. CASE s = "INSTALLING"
    <3>1. proc'.script = "datedeploy" /\ proc'.token = t /\ proc'.pc = "wait"
      BY <1>0, <1>1, <2>1, <2>6 DEF DateInv, DateShape, WindowShape
    <3>2. OnRecord(t)' /\ \A i \in DOMAIN deployRec \ {t} : OnRecord(i)' <=> OnRecord(i)
      BY <1>0, <1>3, <2>2, <2>4, <2>6 DEF OnRecord
    <3>3. DateRecord'
      BY <1>0, <1>2, <1>3, <2>2, <2>3, <2>4, <3>1, <3>2 DEF DateRecord
    <3> QED BY <1>0, <2>5, <3>3 DEF DateInv
  <2>7. CASE s = "VERIFIED"
    <3>1. installed
      BY <1>0, <1>1, <2>1, <2>7 DEF DateInv, DateRecord
    <3> QED BY <1>0, <2>1, <2>3, <2>5, <2>7, <3>1 DEF DateInv, DateRecord, Free
  <2> QED BY <1>0, <2>6, <2>7
<1>7. CASE DeployInstallFails
  <2>1. PICK restored \in BOOLEAN :
           /\ entry' = IF restored THEN deployRec[t].before ELSE entry
           /\ deployRec' = [deployRec EXCEPT ![t] = [@ EXCEPT !.status = "FAILED", !.restored = restored]]
    BY <1>0, <1>7 DEF DeployInstallFails, RestoreSnapshotWorkflow
  <2> DEFINE r == [deployRec[t] EXCEPT !.status = "FAILED", !.restored = restored]
  <2>2. r \in DeployReceipt /\ r.restored = restored /\ r.status = "FAILED"
    BY <1>0, <1>2, <2>1 DEF DeployReceipt
  <2>3. deployRec' = [deployRec EXCEPT ![t] = r]
    BY <1>0, <2>1
  <2>4. proc' = Free /\ installed' \in BOOLEAN /\ (installed => installed')
    BY <1>0, <1>7 DEF DeployInstallFails, Partly, Exit, DateInv, DateShape
  <2> HIDE DEF r
  <2>5. /\ deployRec' \in Seq(DeployReceipt) /\ DOMAIN deployRec' = DOMAIN deployRec
        /\ deployRec'[t] = r /\ \A i \in DOMAIN deployRec \ {t} : deployRec'[i] = deployRec[i]
    BY <1>0, <1>2, <2>2, <2>3
  <2>6. deployRec[t].before \in {"old", "new"} /\ entry \in {"old", "new"}
    BY <1>0, <1>2 DEF DeployReceipt, DateInv, DateShape
  <2>7. DateShape'
    BY <1>0, <1>4, <2>1, <2>4, <2>5, <2>6 DEF DateShape
  <2>8. \A i \in DOMAIN deployRec \ {t} : OnRecord(i)' <=> OnRecord(i)
    BY <1>0, <2>5 DEF OnRecord
  <2>9. entry' = "new" /\ ~installed' => \E i \in DOMAIN deployRec' : OnRecord(i)'
    <3>1. CASE restored
      BY <1>0, <1>3, <2>1, <2>4, <2>5, <2>8, <3>1
    <3>2. CASE ~restored
      BY <1>0, <1>2, <2>2, <2>5, <3>2 DEF OnRecord
    <3> QED BY <1>0, <3>1, <3>2
  <2>10. DateRecord'
    BY <1>0, <2>4, <2>9 DEF DateRecord, Free
  <2> QED BY <1>0, <2>7, <2>10 DEF DateInv
<1> QED BY <1>0, <1>5, <1>6, <1>7

LEMMA DatesPreserve == ASSUME DateInv, DateNext PROVE DateInv'
<1> USE DEF DateOthers, windowVars
<1>1. WindowShape /\ installed \in BOOLEAN
  BY DEF DateInv, DateShape
<1>2. CASE DateFilesDeployed
  <2>1. proc' = [proc EXCEPT !.pc = "entry"] /\ UNCHANGED <<fence, entry, deployRec, installed>>
    BY <1>2 DEF DateFilesDeployed, DateStep, Goto
  <2>2. WindowShape' /\ proc'.script = proc.script /\ proc'.token = proc.token /\ proc'.pc = "entry"
    BY <1>1, <2>1 DEF WindowShape
  <2> QED BY <1>1, <2>1, <2>2, DateKept
<1>3. CASE DatePlan
  BY <1>1, <1>3, DateKept DEF DatePlan, WindowShape, DateInv, DateRecord
<1>4. CASE DateApply
  <2>1. WindowShape' /\ proc'.script = "dates" /\ UNCHANGED <<entry, deployRec, installed>>
    BY <1>1, <1>4 DEF DateApply, Start, WindowShape
  <2> QED BY <1>1, <2>1, DateKept
<1>5. ASSUME NEW pc, proc.script = "dates", UNCHANGED <<fence, entry, deployRec, installed>>,
             proc' = [proc EXCEPT !.pc = pc]
      PROVE  DateInv'
  <2>1. WindowShape' /\ proc'.script = "dates"
    BY <1>1, <1>5 DEF WindowShape
  <2> QED BY <1>1, <1>5, <2>1, DateKept
<1>6. CASE DateBackup \/ DateRegister \/ DateRegistered \/ \E r \in Runs : DateUpdate(r)
  BY <1>5, <1>6 DEF DateBackup, DateRegister, DateRegistered, DateUpdate, DateStep, At, Launch, Goto, dateVars
<1>7. ASSUME NEW s, NEW job, NEW pc, Join(s, job, pc), fence' = fence, UNCHANGED <<entry, deployRec>>,
             installed' \in BOOLEAN, installed => installed', pc = "installed" => installed'
      PROVE  DateInv'
  <2>1. proc' = proc \/ proc' = [proc EXCEPT !.pc = pc]
    BY <1>7 DEF Join
  <2>2. WindowShape' /\ proc'.script = proc.script /\ proc'.token = proc.token
        /\ (proc'.pc = proc.pc \/ proc'.pc = pc)
    BY <1>1, <1>7, <2>1 DEF WindowShape
  <2>3. proc'.script = "datedeploy" /\ proc'.pc = "installed" => installed'
    BY <1>7, <2>2 DEF DateInv, DateRecord
  <2> QED BY <1>1, <1>7, <2>2, <2>3, DateKept
<1>8. CASE RegisterDone
  BY <1>1, <1>7, <1>8 DEF RegisterDone
<1>9. ASSUME NEW s, InstallDone(s) PROVE DateInv'
  BY <1>1, <1>7, <1>9 DEF InstallDone
<1>10. ASSUME NEW r \in Runs, UpdateDone(r) PROVE DateInv'
  BY <1>1, <1>7, <1>10 DEF UpdateDone
<1>11. CASE DatesVerified \/ DatesFail
  <2>1. proc' = Free /\ UNCHANGED <<fence, entry, deployRec>> /\ installed' \in BOOLEAN /\ (installed => installed')
    BY <1>1, <1>11 DEF DatesVerified, DatesFail, Exit, Partly
  <2>2. WindowShape' /\ proc'.script = "none"
    BY <1>1, <2>1 DEF WindowShape, Free
  <2> QED BY <2>1, <2>2, DateKept
<1> QED BY <1>2, <1>3, <1>4, <1>6, <1>8, <1>9, <1>10, <1>11, DeployInstallPreserves, DeploymentPreserves
        DEF DateNext


-----------------------------------------------------------------------------
(* The batch-free migration.                                               *)

\* A receipt in use, replaced by one that holds no less.
Grows(r, s) ==
    /\ ReceiptOK(s) /\ s.status # "NONE"
    /\ r.backup => s.backup
    /\ r.exported => s.exported
    /\ r.proof => s.proof

\* The process without a change of the graph: whatever it writes, the
\* receipts hold no less than before and the fence is where it was.
LEMMA BatchQuiet ==
    ASSUME BatchInv, WindowShape', UNCHANGED <<fence, scaffold, direct, plan>>,
           DOMAIN receipt' = Tokens, \A t \in Tokens : ReceiptOK(receipt'[t]),
           \A t \in Tokens : Recoverable(receipt[t]) => Recoverable(receipt'[t]),
           Job("batchfree", "delete") \in native' =>
              Job("batchfree", "delete") \in native \/ fence["batchfree"] # 0
    PROVE  BatchShape' /\ BatchFence'
<1>1. BatchShape'
  BY DEF BatchInv, BatchShape
<1>2. BatchFence'
  BY DEF BatchInv, BatchFence
<1> QED BY <1>1, <1>2

\* Nobody holds the lock for the migration any more.
LEMMA BatchLeaves ==
    ASSUME BatchInv, WindowShape', UNCHANGED <<fence, batchVars>>,
           proc'.script \notin {"batchfree", "batchrecover"},
           Job("batchfree", "delete") \in native' => Job("batchfree", "delete") \in native
    PROVE  BatchInv'
<1>1. BatchShape' /\ BatchFence'
  BY BatchQuiet DEF BatchInv, BatchShape, batchVars
<1>2. BatchProcess'
  BY DEF BatchProcess, Alone
<1> QED BY <1>1, <1>2 DEF BatchInv

LEMMA BatchWindow == ASSUME BatchInv, WindowNext, UNCHANGED batchVars PROVE BatchInv'
<1>1. WindowShape
  BY DEF BatchInv, BatchShape
<1>2. /\ WindowShape' /\ UNCHANGED fence
      /\ proc' = proc \/ proc' = Free \/ proc'.script = "refresh"
      /\ native' \subseteq native \cup {Job("refresh", "source")}
      /\ native' \subseteq native \/ proc.script = "refresh"
  BY <1>1, WindowMoves
<1>3. Job("batchfree", "delete") \in native' => Job("batchfree", "delete") \in native
  BY <1>2, JobFields
<1>4. CASE proc' = proc /\ proc.script # "refresh"
  <2>1. BatchShape' /\ BatchFence'
    BY <1>2, <1>3, BatchQuiet DEF BatchInv, BatchShape, batchVars
  <2>2. BatchProcess'
    BY <1>2, <1>4 DEF BatchInv, BatchProcess, Alone, batchVars, BatchPath, BatchFenced
  <2> QED BY <2>1, <2>2 DEF BatchInv
<1>5. CASE proc'.script \notin {"batchfree", "batchrecover"}
  BY <1>2, <1>3, <1>5, BatchLeaves
<1> QED BY <1>2, <1>4, <1>5 DEF Free

\* A step of apply from one position to another, with its receipt.
LEMMA BatchMoves ==
    ASSUME BatchInv, proc.script = "batchfree", proc.pc # "wait",
           NEW to, to # "wait", proc' = [proc EXCEPT !.pc = to],
           NEW r, DOMAIN receipt' = Tokens, receipt'[proc.token] = r,
           \A t \in Tokens : t # proc.token => receipt'[t] = receipt[t],
           Grows(receipt[proc.token], r),
           UNCHANGED <<native, fence, scaffold, direct, plan>>,
           BatchPath(to, r), BatchFenced(to, proc.token),
           to = "unfence" => scaffold = {} /\ direct
    PROVE  BatchInv'
<1>1. proc.token \in Tokens /\ DOMAIN receipt = Tokens /\ DOMAIN fence = Migrations
  BY DEF BatchInv, BatchProcess, BatchShape, WindowShape
<1>2. /\ WindowShape' /\ proc'.script = "batchfree" /\ proc'.token = proc.token /\ proc'.pc = to
  BY <1>1 DEF BatchInv, BatchShape, WindowShape
<1>4. \A t \in Tokens : ReceiptOK(receipt'[t])
  BY DEF Grows, BatchInv, BatchShape
<1>5. \A t \in Tokens : Recoverable(receipt[t]) => Recoverable(receipt'[t])
  BY DEF Grows, Recoverable
<1>6. BatchShape' /\ BatchFence'
  BY <1>2, <1>4, <1>5, BatchQuiet
<1>7. BatchProcess'
  BY <1>1, <1>2 DEF BatchInv, BatchProcess, Alone, Grows, BatchPath, BatchFenced
<1> QED BY <1>6, <1>7 DEF BatchInv


\* What an event may change of a receipt in use.
LEMMA Amended ==
    ASSUME NEW r, ReceiptOK(r), r.status # "NONE", NEW phase
    PROVE  /\ Grows(r, [r EXCEPT !.phase = phase])
           /\ Grows(r, [[r EXCEPT !.backup = TRUE] EXCEPT !.phase = phase])
           /\ [[r EXCEPT !.backup = TRUE] EXCEPT !.phase = phase].backup
           /\ Grows(r, [[r EXCEPT !.proof = TRUE] EXCEPT !.phase = phase])
           /\ [[r EXCEPT !.proof = TRUE] EXCEPT !.phase = phase].proof
           /\ Grows(r, [[r EXCEPT !.projected = TRUE] EXCEPT !.phase = phase])
           /\ Grows(r, [[r EXCEPT !.exported = TRUE, !.recovery = Scaffold] EXCEPT !.phase = phase])
           /\ [[r EXCEPT !.exported = TRUE, !.recovery = Scaffold] EXCEPT !.phase = phase].exported
           /\ \A status : status # "NONE" => Grows(r, [[r EXCEPT !.status = status] EXCEPT !.phase = phase])
BY DEF ReceiptOK, ReceiptFields, Grows

\* The receipt of the process, under the name its code uses.
LEMMA MineIs ==
    ASSUME BatchInv, proc.script \in {"batchfree", "batchrecover"}
    PROVE  /\ proc.token \in Tokens /\ Mine = receipt[proc.token]
           /\ ReceiptOK(Mine) /\ Mine.status # "NONE" /\ Mine.plan.scaffold = Scaffold
BY DEF BatchInv, BatchProcess, BatchShape, Mine, ReceiptOK

\* The positions of apply between two changes of the graph or of the fence.
LEMMA BatchApplyMoves ==
    ASSUME BatchInv,
           \/ Freshness \/ Backup \/ ExportRecovery \/ RestoreProven \/ InstallAdapter \/ WritersFenced
           \/ DeployWriters \/ WritersDeployed \/ InstallSql \/ SkipProjection \/ ProjectionVerified
           \/ ReplayVerified \/ FinalChecks
    PROVE  BatchInv'
<1> USE DEF Others, pgVars
<1>1. proc.script = "batchfree" /\ proc.pc # "wait"
  BY DEF Freshness, Backup, ExportRecovery, RestoreProven, InstallAdapter, WritersFenced, DeployWriters,
         WritersDeployed, InstallSql, SkipProjection, ProjectionVerified, ReplayVerified, FinalChecks, Step, At
<1>2. UNCHANGED <<native, fence, scaffold, direct, plan>>
  BY DEF Freshness, Backup, ExportRecovery, RestoreProven, InstallAdapter, WritersFenced, DeployWriters,
         WritersDeployed, InstallSql, SkipProjection, ProjectionVerified, ReplayVerified, FinalChecks, batchVars
<1>3. /\ proc.token \in Tokens /\ Mine = receipt[proc.token]
      /\ ReceiptOK(Mine) /\ Mine.status # "NONE" /\ Mine.plan.scaffold = Scaffold
  BY <1>1, MineIs
<1>4. BatchPath(proc.pc, Mine) /\ BatchFenced(proc.pc, proc.token)
  BY <1>1, <1>3 DEF BatchInv, BatchProcess
<1>5. ASSUME NEW to, to # "wait", proc' = [proc EXCEPT !.pc = to], receipt' = receipt,
             BatchPath(to, Mine), BatchFenced(to, proc.token), to # "unfence"
      PROVE  BatchInv'
  <2>1. DOMAIN receipt = Tokens /\ Grows(Mine, Mine)
    BY <1>3 DEF BatchInv, BatchShape, Grows
  <2> QED BY <1>1, <1>2, <1>3, <1>5, <2>1, BatchMoves
<1>6. ASSUME NEW from, NEW phase, NEW r, NEW to, Step(from, phase, r, to), to # "wait",
             Grows(Mine, [r EXCEPT !.phase = phase]), BatchPath(to, [r EXCEPT !.phase = phase]),
             BatchFenced(to, proc.token), to = "unfence" => scaffold = {} /\ direct
      PROVE  BatchInv'
  <2>1. /\ proc' = [proc EXCEPT !.pc = to]
        /\ receipt' = [receipt EXCEPT ![proc.token] = [r EXCEPT !.phase = phase]]
        /\ DOMAIN receipt = Tokens
    BY <1>6 DEF Step, Event, Goto, BatchInv, BatchShape
  <2> QED BY <1>1, <1>2, <1>3, <1>6, <2>1, BatchMoves
<1>7. CASE Freshness
  BY <1>3, <1>4, <1>6, <1>7, Amended DEF Freshness, BatchPath, BatchFenced, Step, At
<1>8. CASE Backup
  <2>1. CASE Mine.backup
    BY <1>4, <1>5, <1>8, <2>1 DEF Backup, BatchPath, BatchFenced, At, Goto
  <2>2. CASE ~Mine.backup
    <3>1. Step("backup", "BACKUP_VALIDATED", [Mine EXCEPT !.backup = TRUE], "recovery") /\ proc.pc = "backup"
      BY <1>8, <2>2 DEF Backup, Step, At
    <3> DEFINE r == [[Mine EXCEPT !.backup = TRUE] EXCEPT !.phase = "BACKUP_VALIDATED"]
    <3>2. Grows(Mine, r) /\ r.backup
      BY <1>3, Amended
    <3>3. BatchPath("recovery", r) /\ BatchFenced("recovery", proc.token)
      BY <1>4, <3>1, <3>2 DEF BatchPath, BatchFenced
    <3> QED BY <1>6, <3>1, <3>2, <3>3
  <2> QED BY <2>1, <2>2
<1>9. CASE ExportRecovery
  <2>1. CASE Mine.exported
    BY <1>4, <1>5, <1>9, <2>1 DEF ExportRecovery, BatchPath, BatchFenced, At, Goto
  <2>2. CASE ~Mine.exported
    <3>1. /\ Step("recovery", "RECOVERY_EXPORTED", [Mine EXCEPT !.exported = TRUE, !.recovery = Scaffold], "prove")
          /\ proc.pc = "recovery"
      BY <1>3, <1>9, <2>2 DEF ExportRecovery, RecoveryQueries, Step, At
    <3> DEFINE r == [[Mine EXCEPT !.exported = TRUE, !.recovery = Scaffold] EXCEPT !.phase = "RECOVERY_EXPORTED"]
    <3>2. Grows(Mine, r) /\ r.exported /\ Mine.backup
      BY <1>3, <1>4, <3>1, Amended DEF BatchPath
    <3>3. BatchPath("prove", r) /\ BatchFenced("prove", proc.token)
      BY <1>4, <3>1, <3>2 DEF BatchPath, BatchFenced, Grows
    <3> QED BY <1>6, <3>1, <3>2, <3>3
  <2> QED BY <2>1, <2>2
<1>10. CASE RestoreProven
  <2>1. /\ Step("prove", "BACKUP_RESTORE_PROVEN", [Mine EXCEPT !.proof = TRUE], "adapter") /\ proc.pc = "prove"
    BY <1>10 DEF RestoreProven, Step, At
  <2> DEFINE r == [[Mine EXCEPT !.proof = TRUE] EXCEPT !.phase = "BACKUP_RESTORE_PROVEN"]
  <2>2. Grows(Mine, r) /\ r.proof /\ Mine.backup /\ Mine.exported
    BY <1>3, <1>4, <2>1, Amended DEF BatchPath
  <2>3. BatchPath("adapter", r) /\ BatchFenced("adapter", proc.token)
    BY <1>4, <2>1, <2>2 DEF BatchPath, BatchFenced, Grows
  <2> QED BY <1>6, <2>1, <2>2, <2>3
<1>11. ASSUME NEW from, from \notin {"fresh", "backup", "recovery", "prove"}, NEW phase, NEW to, proc.pc = from,
              NEW r, Step(from, phase, r, to), to \notin {"wait", "resumed"}, Grows(Mine, [r EXCEPT !.phase = phase]),
              from \in {"adapter", "fence"} => to \in {"adapter", "fence"}, from # "resumed",
              to = "unfence" => scaffold = {} /\ direct
       PROVE  BatchInv'
  <2>1. BatchPath(to, [r EXCEPT !.phase = phase])
    BY <1>4, <1>11 DEF BatchPath, Grows
  <2>2. BatchFenced(to, proc.token)
    BY <1>4, <1>11 DEF BatchFenced
  <2> QED BY <1>6, <1>11, <2>1, <2>2
<1>12. CASE InstallAdapter \/ WritersFenced \/ WritersDeployed \/ InstallSql \/ ReplayVerified
  BY <1>3, <1>11, <1>12, Amended
     DEF InstallAdapter, WritersFenced, WritersDeployed, InstallSql, ReplayVerified, Step, At
<1>13. CASE DeployWriters \/ SkipProjection
  BY <1>4, <1>5, <1>13 DEF DeployWriters, SkipProjection, BatchPath, BatchFenced, At, Goto, batchVars
<1>14. CASE ProjectionVerified
  BY <1>3, <1>11, <1>14, Amended DEF ProjectionVerified, Step, At
<1>15. CASE FinalChecks
  BY <1>3, <1>11, <1>15, Amended DEF FinalChecks, Step, At
<1> QED BY <1>7, <1>8, <1>9, <1>10, <1>12, <1>13, <1>14, <1>15


\* The process ends; its job ends with it or outlives it.
LEMMA BatchEnds ==
    ASSUME BatchInv, proc.script \in {"batchfree", "batchrecover"}, proc' = Free,
           native' \subseteq native, UNCHANGED <<fence, scaffold, direct, plan>>,
           \/ receipt' = receipt
           \/ \E r : Grows(Mine, r) /\ receipt' = [receipt EXCEPT ![proc.token] = r]
    PROVE  BatchInv'
<1>1. /\ WindowShape /\ DOMAIN receipt = Tokens
      /\ \A t \in Tokens : ReceiptOK(receipt[t])
  BY DEF BatchInv, BatchShape
<1>2. proc.token \in Tokens /\ Mine = receipt[proc.token]
  BY MineIs
<1>3. WindowShape' /\ proc'.script = "none"
  BY <1>1 DEF WindowShape, Free
<1>4. /\ DOMAIN receipt' = Tokens
      /\ \A t \in Tokens : ReceiptOK(receipt'[t])
      /\ \A t \in Tokens : Recoverable(receipt[t]) => Recoverable(receipt'[t])
  <2>1. CASE receipt' = receipt
    BY <1>1, <2>1
  <2>2. ASSUME NEW r, Grows(Mine, r), receipt' = [receipt EXCEPT ![proc.token] = r]
        PROVE  <1>4!1 /\ <1>4!2 /\ <1>4!3
    <3>1. DOMAIN receipt' = Tokens /\ \A t \in Tokens : receipt'[t] = IF t = proc.token THEN r ELSE receipt[t]
      BY <1>1, <1>2, <2>2
    <3> QED BY <1>1, <1>2, <2>2, <3>1 DEF Grows, Recoverable
  <2> QED BY <2>1, <2>2
<1>5. BatchShape' /\ BatchFence'
  BY <1>3, <1>4, BatchQuiet
<1>6. BatchProcess'
  BY <1>3 DEF BatchProcess, Alone
<1> QED BY <1>5, <1>6 DEF BatchInv

\* A job ends, and its process, if it waits for it, goes on behind the fence.
LEMMA BatchJoins ==
    ASSUME BatchInv, NEW s, NEW job, NEW to, Running(s, job), Join(s, job, to),
           UNCHANGED <<fence, scaffold, plan, receipt>>, direct => direct',
           to \notin {"fresh", "backup", "recovery", "prove", "adapter", "fence", "wait", "unfence"}
    PROVE  BatchInv'
<1>1. WindowShape /\ DOMAIN fence = Migrations
  BY DEF BatchInv, BatchShape, WindowShape
<1>2. native' = native \ {Job(s, job)} /\ Job(s, job) \in native
  BY DEF Join, Running, Job
<1>3. /\ WindowShape' /\ proc'.script = proc.script /\ proc'.token = proc.token
      /\ proc'.pc = IF At(s, "wait") THEN to ELSE proc.pc
  BY <1>1 DEF Join, WindowShape, At
<1>4. BatchShape'
  BY <1>3 DEF BatchInv, BatchShape
<1>5. BatchFence'
  BY <1>2 DEF BatchInv, BatchFence
<1>6. ASSUME proc.script = "batchfree" \/ proc.script = "batchrecover"
      PROVE  At(s, "wait") /\ native' = {}
  <2>1. /\ \A i, j \in native : i = j
        /\ \A j \in native : j.by = proc.script
        /\ proc.pc = "wait"
    BY <1>2, <1>6 DEF BatchInv, BatchProcess, Alone
  <2> QED BY <1>2, <2>1, JobFields DEF At
<1>7. BatchProcess'
  <2>1. CASE proc.script \notin {"batchfree", "batchrecover"}
    BY <1>3, <2>1 DEF BatchProcess, Alone
  <2>2. CASE proc.script = "batchrecover"
    BY <1>3, <1>6, <2>2 DEF BatchInv, BatchProcess, Alone
  <2>3. CASE proc.script = "batchfree"
    <3>1. BatchPath("wait", receipt[proc.token]) /\ BatchFenced("wait", proc.token)
      BY <1>6, <2>3 DEF At, BatchInv, BatchProcess
    <3>2. BatchPath(to, receipt[proc.token]) /\ fence["batchfree"] = proc.token
      BY <3>1 DEF BatchPath, BatchFenced
    <3> QED BY <1>3, <1>6, <2>3, <3>2 DEF BatchInv, BatchProcess, Alone, BatchPath, BatchFenced
  <2> QED BY <2>1, <2>2, <2>3
<1> QED BY <1>4, <1>5, <1>7 DEF BatchInv


\* Planning, starting and recovering, by an operator.
LEMMA BatchOperatorPreserves == ASSUME BatchInv, BatchOperator PROVE BatchInv'
<1> USE DEF pgVars, windowVars, batchVars
<1>0. /\ WindowShape /\ DOMAIN receipt = Tokens
      /\ \A t \in Tokens : ReceiptOK(receipt[t])
  BY DEF BatchInv, BatchShape
<1>1. ASSUME NEW snapshot, snapshot \in {scaffold, Scaffold}, BatchPlan(snapshot) PROVE BatchInv'
  <2>1. snapshot = Scaffold
    BY <1>1, BatchfreeAssumption DEF BatchPlan, BatchInv, BatchFence, Scaffold
  <2>2. plan'.scaffold = Scaffold /\ UNCHANGED <<proc, native, fence, scaffold, direct, receipt>>
    BY <1>1, <2>1 DEF BatchPlan
  <2>3. BatchShape' /\ BatchFence'
    BY <2>2 DEF BatchInv, BatchShape, BatchFence, WindowShape
  <2>4. BatchProcess'
    BY <1>1, <2>2 DEF BatchPlan, Free, BatchProcess, Alone
  <2> QED BY <2>3, <2>4 DEF BatchInv
<1>2. CASE BatchPlanFresh \/ BatchPlanPreflight
  BY <1>1, <1>2 DEF BatchPlanFresh, BatchPlanPreflight
<1>3. ASSUME NEW t \in Tokens, BatchApply(t) PROVE BatchInv'
  <2> DEFINE r == [NoReceipt EXCEPT !.status = "RUNNING", !.plan = plan]
  <2>1. /\ receipt' = [receipt EXCEPT ![t] = r] /\ receipt[t].status = "NONE" /\ native = {}
        /\ UNCHANGED <<native, fence, scaffold, direct, plan>> /\ plan.made /\ fence["batchfree"] \in {0, t}
        /\ proc' = [script |-> "batchfree", pc |-> "fresh", token |-> t, again |-> FALSE]
    BY <1>3 DEF BatchApply, FenceAdmits, Start
  <2>2. ReceiptOK(r) /\ r.status # "NONE"
    BY <2>1 DEF BatchInv, BatchShape, NoReceipt, ReceiptOK, ReceiptFields
  <2> HIDE DEF r
  <2>3. DOMAIN receipt' = Tokens /\ \A u \in Tokens : receipt'[u] = IF u = t THEN r ELSE receipt[u]
    BY <1>0, <2>1
  <2>4. \A u \in Tokens : ReceiptOK(receipt'[u])
    BY <1>0, <2>2, <2>3
  <2>5. \A u \in Tokens : Recoverable(receipt[u]) => Recoverable(receipt'[u])
    BY <1>0, <2>1, <2>3 DEF ReceiptOK, Recoverable
  <2>6. WindowShape'
    BY <1>0, <2>1 DEF WindowShape
  <2>7. BatchShape' /\ BatchFence'
    BY <2>1, <2>3, <2>4, <2>5, <2>6, BatchQuiet
  <2>8. BatchProcess'
    BY <2>1, <2>2, <2>3 DEF BatchProcess, Alone, BatchPath, BatchFenced
  <2> QED BY <2>7, <2>8 DEF BatchInv
<1>4. ASSUME NEW t \in Tokens, BatchResume(t) PROVE BatchInv'
  <2>1. /\ native = {} /\ UNCHANGED <<native, fence, scaffold, direct, plan, receipt>>
        /\ fence["batchfree"] \in {0, t} /\ receipt[t].phase # "NONE"
        /\ proc' = [script |-> "batchfree", pc |-> "fresh", token |-> t, again |-> TRUE]
    BY <1>4 DEF BatchResume, FenceAdmits, Start
  <2>2. WindowShape' /\ receipt[t].status # "NONE"
    BY <1>0, <2>1 DEF WindowShape, ReceiptOK
  <2>3. BatchShape' /\ BatchFence'
    BY <1>0, <2>1, <2>2, BatchQuiet
  <2>4. BatchProcess'
    BY <2>1, <2>2 DEF BatchProcess, Alone, BatchPath, BatchFenced
  <2> QED BY <2>3, <2>4 DEF BatchInv
<1>5. ASSUME NEW t \in Tokens, BatchRecover(t) PROVE BatchInv'
  <2>1. /\ native' = {Job("batchrecover", "restore")} /\ UNCHANGED <<fence, scaffold, direct, plan, receipt>>
        /\ receipt[t].exported
        /\ proc' = [script |-> "batchrecover", pc |-> "wait", token |-> t, again |-> FALSE]
    BY <1>5 DEF BatchRecover, Start, Job
  <2>2. WindowShape' /\ receipt[t].status # "NONE"
    BY <1>0, <2>1 DEF WindowShape, ReceiptOK
  <2>3. Job("batchfree", "delete") \notin native'
    BY <2>1, JobFields
  <2>4. BatchShape' /\ BatchFence'
    BY <1>0, <2>1, <2>2, <2>3, BatchQuiet
  <2>5. BatchProcess'
    BY <2>1, <2>2, JobFields DEF BatchProcess, Alone
  <2> QED BY <2>4, <2>5 DEF BatchInv
<1> QED BY <1>2, <1>3, <1>4, <1>5 DEF BatchOperator

\* The fence goes up behind everything recovery needs, and comes down when
\* no job is left and nothing more is missing.
LEMMA BatchFencePreserves == ASSUME BatchInv, WriteFence \/ LiftFence PROVE BatchInv'
<1>0. WindowShape /\ DOMAIN fence = Migrations /\ "batchfree" \in Migrations
  BY DEF BatchInv, BatchShape, WindowShape, Migrations
<1>1. /\ proc.script = "batchfree" /\ proc.pc \in {"fence", "unfence"}
      /\ UNCHANGED <<native, scaffold, direct, plan, receipt>>
  BY DEF WriteFence, LiftFence, At, batchVars
<1>2. /\ native = {} /\ proc.token \in Tokens /\ receipt[proc.token].status # "NONE"
      /\ BatchPath(proc.pc, receipt[proc.token]) /\ BatchFenced(proc.pc, proc.token)
  BY <1>1 DEF BatchInv, BatchProcess, Alone
<1>3. Recoverable(receipt[proc.token])
  BY <1>1, <1>2 DEF BatchPath, Recoverable
<1>4. CASE WriteFence
  <2>1. proc.pc = "fence" /\ fence["batchfree"] \in {0, proc.token}
    BY <1>2, <1>4 DEF WriteFence, At, BatchFenced
  <2>2. /\ fence'["batchfree"] = proc.token /\ DOMAIN fence' = Migrations
        /\ proc' = [proc EXCEPT !.pc = "fenced"]
    BY <1>0, <1>4, <2>1 DEF WriteFence, Goto
  <2>3. WindowShape' /\ proc'.script = "batchfree" /\ proc'.token = proc.token /\ proc'.pc = "fenced"
    BY <1>0, <1>1, <2>2 DEF WindowShape
  <2>4. BatchShape'
    BY <1>1, <2>3 DEF BatchInv, BatchShape
  <2>5. proc.token # 0
    BY <1>2, BatchfreeAssumption DEF Tokens
  <2>6. BatchFence'
    BY <1>1, <1>2, <1>3, <2>2, <2>5 DEF BatchFence
  <2>7. BatchProcess'
    BY <1>1, <1>2, <2>1, <2>2, <2>3 DEF BatchProcess, Alone, BatchPath, BatchFenced
  <2> QED BY <2>4, <2>6, <2>7 DEF BatchInv
<1>5. CASE LiftFence
  <2>1. scaffold = {} /\ direct /\ proc.pc = "unfence"
    BY <1>1, <1>5 DEF LiftFence, At, BatchInv, BatchProcess
  <2>2. /\ fence'["batchfree"] = 0 /\ DOMAIN fence' = Migrations
        /\ proc' = [proc EXCEPT !.pc = "resumed"]
    BY <1>0, <1>5 DEF LiftFence, Goto
  <2>3. WindowShape' /\ proc'.script = "batchfree" /\ proc'.token = proc.token /\ proc'.pc = "resumed"
    BY <1>0, <1>1, <2>2 DEF WindowShape
  <2>4. BatchShape'
    BY <1>1, <2>3 DEF BatchInv, BatchShape
  <2>5. BatchFence'
    BY <1>1, <1>2, <2>1, <2>2 DEF BatchFence
  <2>6. BatchProcess'
    BY <1>1, <1>2, <2>1, <2>2, <2>3 DEF BatchProcess, Alone, BatchPath, BatchFenced
  <2> QED BY <2>4, <2>5, <2>6 DEF BatchInv
<1> QED BY <1>4, <1>5

\* A job starts behind the fence.
LEMMA BatchLaunches == ASSUME BatchInv, StartProjection \/ StartRemoval PROVE BatchInv'
<1>0. PICK job : Launch(job)
  BY DEF StartProjection, StartRemoval
<1>1. /\ proc.script = "batchfree" /\ proc.pc \in {"project", "removal"}
      /\ UNCHANGED <<fence, scaffold, direct, plan>>
  BY DEF StartProjection, StartRemoval, At, batchVars
<1>2. /\ native = {} /\ proc.token \in Tokens
      /\ BatchPath(proc.pc, Mine) /\ fence["batchfree"] = proc.token
      /\ ReceiptOK(Mine) /\ Mine.status # "NONE" /\ Mine = receipt[proc.token]
  BY <1>1, MineIs DEF BatchInv, BatchProcess, Alone, BatchFenced
<1>3. /\ native' = {Job("batchfree", job)} /\ proc' = [proc EXCEPT !.pc = "wait"]
  BY <1>0, <1>1, <1>2 DEF Launch, Goto, Job
<1>4. WindowShape' /\ proc'.script = "batchfree" /\ proc'.token = proc.token /\ proc'.pc = "wait"
  BY <1>1, <1>3 DEF BatchInv, BatchShape, WindowShape
<1>5. PICK r : /\ Grows(Mine, r) /\ DOMAIN receipt' = Tokens /\ receipt'[proc.token] = r
               /\ \A t \in Tokens : t # proc.token => receipt'[t] = receipt[t]
  <2>1. DOMAIN receipt = Tokens
    BY DEF BatchInv, BatchShape
  <2>2. CASE receipt' = receipt
    BY <1>2, <2>1, <2>2 DEF Grows
  <2>3. CASE receipt' = [receipt EXCEPT ![proc.token] = [Mine EXCEPT !.phase = "REMOVAL_STARTING"]]
    BY <1>2, <2>1, <2>3, Amended
  <2> QED BY <2>2, <2>3 DEF StartProjection, StartRemoval, Event, batchVars
<1>6. \A t \in Tokens : ReceiptOK(receipt'[t])
  BY <1>5 DEF Grows, BatchInv, BatchShape
<1>7. \A t \in Tokens : Recoverable(receipt[t]) => Recoverable(receipt'[t])
  BY <1>2, <1>5 DEF Grows, Recoverable
<1>8. fence["batchfree"] # 0
  BY <1>2, BatchfreeAssumption DEF Tokens
<1>9. BatchShape' /\ BatchFence'
  BY <1>1, <1>4, <1>5, <1>6, <1>7, <1>8, BatchQuiet
<1>10. BatchPath("wait", r)
  BY <1>1, <1>2, <1>5 DEF BatchPath, Grows
<1>11. BatchProcess'
  BY <1>1, <1>2, <1>3, <1>4, <1>5, <1>10, JobFields DEF BatchProcess, Alone, BatchPath, BatchFenced, Grows
<1> QED BY <1>9, <1>11 DEF BatchInv


\* The graph changes under the fence, by a job.
LEMMA BatchChunks == ASSUME BatchInv, RemoveChunk \/ RestoreChunk PROVE BatchInv'
<1>0. UNCHANGED <<proc, native, fence, direct, plan, receipt>>
  BY DEF RemoveChunk, RestoreChunk, windowVars
<1>1. scaffold' \subseteq Scaffold
  BY DEF RemoveChunk, RestoreChunk, BatchInv, BatchShape
<1>2. fence["batchfree"] # 0
  <2>1. CASE RemoveChunk
    BY <2>1 DEF RemoveChunk, Running, Job, BatchInv, BatchFence
  <2>2. CASE RestoreChunk
    BY <2>2, BatchfreeAssumption DEF RestoreChunk, Tokens
  <2> QED BY <2>1, <2>2
<1>3. native # {}
  BY DEF RemoveChunk, RestoreChunk, Running
<1>4. BatchShape'
  BY <1>0, <1>1 DEF BatchInv, BatchShape, WindowShape
<1>5. BatchFence'
  BY <1>0, <1>2 DEF BatchInv, BatchFence
<1>6. BatchProcess'
  BY <1>0, <1>3 DEF BatchInv, BatchProcess, Alone, BatchPath, BatchFenced
<1> QED BY <1>4, <1>5, <1>6 DEF BatchInv

LEMMA BatchfreePreserves ==
    ASSUME BatchInv, BatchOperator \/ BatchSteps \/ BatchJobs \/ BatchStops \/ RecoverStops
    PROVE  BatchInv'
<1> USE DEF Others, pgVars, batchVars
<1>1. CASE ProjectionDone
  BY <1>1, BatchJoins DEF ProjectionDone
<1>2. CASE RemovalDone \/ RestoreDone
  <2>1. UNCHANGED <<fence, scaffold, plan, receipt, direct>>
    BY <1>2 DEF RemovalDone, RestoreDone
  <2>2. CASE RemovalDone
    BY <2>1, <2>2, BatchJoins DEF RemovalDone
  <2>3. CASE RestoreDone
    BY <2>1, <2>3, BatchJoins DEF RestoreDone
  <2> QED BY <1>2, <2>2, <2>3
<1>3. CASE SchedulerResumed \/ ScaffoldRecovered \/ BatchStops
  <2>1. /\ proc.script \in {"batchfree", "batchrecover"} /\ proc' = Free /\ native' \subseteq native
        /\ UNCHANGED <<fence, scaffold, direct, plan>>
    BY <1>3 DEF SchedulerResumed, ScaffoldRecovered, BatchStops, At, Exit, Survivors
  <2>2. ReceiptOK(Mine) /\ Mine.status # "NONE"
    BY <2>1, MineIs
  <2>3. \/ Event("SCHEDULER_RESUMED", Mine)
        \/ Event("SCAFFOLD_RECOVERED_MIGRATION_PENDING", [Mine EXCEPT !.status = "RECOVERED_FENCED"])
        \/ Event("FAILED_REVIEW_RECEIPT_BEFORE_RETRY", [Mine EXCEPT !.status = "FAILED"])
    BY <1>3 DEF SchedulerResumed, ScaffoldRecovered, BatchStops
  <2>4. \E r : Grows(Mine, r) /\ receipt' = [receipt EXCEPT ![proc.token] = r]
    BY <2>2, <2>3, Amended DEF Event
  <2> QED BY <2>1, <2>4, BatchEnds
<1>4. CASE RecoverStops
  BY <1>4, BatchEnds DEF RecoverStops, Exit, Survivors
<1>5. CASE BatchSteps
  BY <1>3, <1>5, BatchApplyMoves, BatchFencePreserves, BatchLaunches DEF BatchSteps
<1>6. CASE BatchJobs
  BY <1>1, <1>2, <1>6, BatchChunks DEF BatchJobs
<1> QED BY <1>3, <1>4, <1>5, <1>6, BatchOperatorPreserves


-----------------------------------------------------------------------------
(* The flat migration.                                                     *)

\* The receipt loses nothing that recovery needs.
FlatGrows ==
    /\ DOMAIN flatRec' = FlatFields
    /\ flatRec.backup => flatRec'.backup
    /\ flatRec.exported => flatRec'.exported
    /\ flatRec.proof => flatRec'.proof

\* The graph, the load and the fence stay; jobs of the migration only end.
LEMMA FlatQuiet ==
    ASSUME FlatInv, WindowShape', FlatGrows, UNCHANGED <<fence, load, revision, flat>>,
           \A j \in native' : j \in native \/ j.by \notin {"flat", "flatrecover"}
    PROVE  FlatShape' /\ FlatFence' /\ FlatVerified' /\ FlatWriters'
<1>1. FlatShape' /\ FlatFence'
  BY DEF FlatInv, FlatShape, FlatFence, FlatGrows
<1>2. FlatVerified'
  BY JobFields DEF FlatInv, FlatVerified, PreservedRemoved
<1>3. FlatWriters'
  BY DEF FlatInv, FlatWriters
<1> QED BY <1>1, <1>2, <1>3

\* Nobody holds the lock for the migration any more.
LEMMA FlatLeaves ==
    ASSUME FlatInv, WindowShape', FlatGrows, UNCHANGED <<fence, load, revision, flat>>,
           proc'.script \notin {"flat", "flatrecover", "amend"},
           \A j \in native' : j \in native \/ j.by \notin {"flat", "flatrecover"}
    PROVE  FlatInv'
<1>1. FlatShape' /\ FlatFence' /\ FlatVerified' /\ FlatWriters'
  BY FlatQuiet
<1>2. FlatProcess'
  BY DEF FlatProcess, Alone
<1> QED BY <1>1, <1>2 DEF FlatInv

LEMMA FlatWindow == ASSUME FlatInv, WindowNext, UNCHANGED flatVars PROVE FlatInv'
<1>0. WindowShape /\ FlatGrows /\ UNCHANGED <<revision, flat, flatRec>>
  BY DEF FlatInv, FlatShape, FlatGrows, flatVars
<1>1. /\ WindowShape' /\ UNCHANGED <<fence, load, gate>>
      /\ proc' = proc \/ proc' = Free \/ proc'.script = "refresh"
      /\ native' \subseteq native \cup {Job("refresh", "source")}
      /\ native' \subseteq native \/ proc.script = "refresh"
  BY <1>0, WindowMoves
<1>2. \A j \in native' : j \in native \/ j.by \notin {"flat", "flatrecover"}
  BY <1>1, JobFields
<1>3. CASE proc' = proc /\ proc.script # "refresh"
  <2>1. FlatShape' /\ FlatFence' /\ FlatVerified' /\ FlatWriters'
    BY <1>0, <1>1, <1>2, FlatQuiet
  <2>2. FlatProcess'
    BY <1>0, <1>1, <1>3 DEF FlatInv, FlatProcess, Alone, FlatPath
  <2> QED BY <2>1, <2>2 DEF FlatInv
<1>4. CASE proc'.script \notin {"flat", "flatrecover", "amend"}
  BY <1>0, <1>1, <1>2, <1>4, FlatLeaves
<1> QED BY <1>1, <1>3, <1>4 DEF Free

\* An operator starts a process, with no job alive.
LEMMA FlatStarts ==
    ASSUME FlatInv, NEW s, NEW p, NEW t, NEW again, Start(s, p, t, again), native' = native,
           FlatGrows, UNCHANGED <<fence, load, revision, flat>>,
           s \in {"flat", "flatrecover", "amend"}, s = "flat" => p = "fresh", s # "flat" => fence["flat"] = 1
    PROVE  FlatInv'
<1>1. native = {} /\ proc' = [script |-> s, pc |-> p, token |-> t, again |-> again]
  BY DEF Start
<1>2. WindowShape' /\ proc'.script = s /\ proc'.pc = p
  BY <1>1 DEF FlatInv, FlatShape, WindowShape
<1>3. FlatShape' /\ FlatFence' /\ FlatVerified' /\ FlatWriters'
  BY <1>1, <1>2, FlatQuiet
<1>4. FlatProcess'
  BY <1>1, <1>2 DEF FlatProcess, Alone, FlatPath, BeforeFence
<1> QED BY <1>3, <1>4 DEF FlatInv

\* A step of apply from one position to another, with its receipt.
LEMMA FlatMoves ==
    ASSUME FlatInv, proc.script = "flat", proc.pc # "wait", NEW to, to # "wait",
           proc' = [proc EXCEPT !.pc = to],
           FlatGrows, UNCHANGED <<native, fence, load, revision, flat>>, FlatPath(to)'
    PROVE  FlatInv'
<1>1. WindowShape' /\ proc'.script = "flat" /\ proc'.pc = to
  BY DEF FlatInv, FlatShape, WindowShape
<1>2. FlatShape' /\ FlatFence' /\ FlatVerified' /\ FlatWriters'
  BY <1>1, FlatQuiet
<1>3. FlatProcess'
  BY <1>1 DEF FlatInv, FlatProcess, Alone
<1> QED BY <1>2, <1>3 DEF FlatInv

\* The positions of apply from which the load is decided and moved on.
Loading == {"load", "stage", "capture", "preserved", "removed", "strict", "replay", "final"}

\* A job of apply starts behind the fence, with a new load or the same one.
LEMMA FlatLaunches ==
    ASSUME FlatInv, proc.script = "flat", proc.pc \in Loading, NEW job, Launch(job), FlatGrows,
           load' = load \/ BeginLoad, UNCHANGED <<fence, gate, revision, flat>>
    PROVE  FlatInv'
<1>1. /\ native = {} /\ FlatPath(proc.pc) /\ fence["flat"] = 1 /\ gate
      /\ flatRec.backup /\ flatRec.exported /\ flatRec.proof
  BY DEF FlatInv, FlatProcess, Alone, Loading, FlatPath, BeforeFence
<1>2. native' = {Job("flat", job)} /\ proc' = [proc EXCEPT !.pc = "wait"]
  BY <1>1 DEF Launch, Goto, Job
<1>3. WindowShape' /\ proc'.script = "flat" /\ proc'.pc = "wait"
  BY <1>2 DEF FlatInv, FlatShape, WindowShape
<1>4. FlatShape' /\ FlatFence'
  BY <1>1, <1>3 DEF FlatInv, FlatShape, FlatFence, FlatGrows, BeginLoad
<1>5. FlatVerified'
  BY <1>2, JobFields DEF FlatInv, FlatVerified, PreservedRemoved, BeginLoad
<1>6. FlatWriters'
  BY <1>1, <1>2, JobFields DEF FlatWriters
<1>7. FlatProcess'
  BY <1>1, <1>2, <1>3, JobFields DEF FlatProcess, Alone, FlatPath, BeforeFence, FlatGrows
<1> QED BY <1>4, <1>5, <1>6, <1>7 DEF FlatInv

\* A job ends, and its process, if it waits for it, goes on.
LEMMA FlatJoins ==
    ASSUME FlatInv, NEW s, s \in {"flat", "flatrecover"}, NEW job, NEW to, Running(s, job), Join(s, job, to),
           UNCHANGED <<fence, gate, flatRec>>, DOMAIN load' = {"id", "state"},
           revision' \in [Revisions -> {"orig", "gone", "new"}],
           load'.state = "VERIFIED" => s = "flat" /\ PreservedRemoved',
           s = "flat" => to \in Loading, to # "wait"
    PROVE  FlatInv'
<1>1. native' = native \ {Job(s, job)} /\ Job(s, job) \in native /\ DOMAIN flatRec = FlatFields
  BY DEF Join, Running, Job, FlatInv, FlatShape
<1>2. fence["flat"] = 1 /\ \A j \in native : s = "flat" => j.by # "flatrecover"
  BY <1>1, JobFields DEF FlatInv, FlatWriters
<1>3. /\ WindowShape' /\ proc'.script = proc.script
      /\ proc'.pc = IF At(s, "wait") THEN to ELSE proc.pc
  BY DEF Join, FlatInv, FlatShape, WindowShape, At
<1>4. FlatShape' /\ FlatFence'
  BY <1>2, <1>3 DEF FlatInv, FlatShape, FlatFence
<1>5. FlatVerified'
  BY <1>1, <1>2, JobFields DEF FlatVerified
<1>6. FlatWriters'
  BY <1>1, <1>2 DEF FlatInv, FlatWriters
<1>7. ASSUME proc.script \in {"flat", "flatrecover", "amend"} PROVE At(s, "wait") /\ native' = {}
  <2>1. /\ \A i, j \in native : i = j
        /\ \A j \in native : j.by = proc.script
        /\ proc.pc = "wait"
    BY <1>1, <1>7 DEF FlatInv, FlatProcess, Alone
  <2> QED BY <1>1, <2>1, JobFields DEF At
<1>8. FlatProcess'
  <2>1. CASE proc.script \notin {"flat", "flatrecover", "amend"}
    BY <1>3, <2>1 DEF FlatProcess, Alone
  <2>2. CASE proc.script \in {"flatrecover", "amend"}
    BY <1>2, <1>3, <1>7, <2>2 DEF FlatProcess, Alone
  <2>3. CASE proc.script = "flat"
    <3>1. FlatPath("wait") /\ s = "flat"
      BY <1>7, <2>3 DEF At, FlatInv, FlatProcess
    <3>2. FlatPath(to)'
      BY <3>1 DEF FlatPath, BeforeFence, Loading
    <3> QED BY <1>3, <1>7, <2>3, <3>2 DEF FlatProcess, Alone
  <2> QED BY <2>1, <2>2, <2>3
<1> QED BY <1>4, <1>5, <1>6, <1>8 DEF FlatInv


\* The positions of apply between two changes of the graph, the load or the fence.
LEMMA FlatApplyMoves ==
    ASSUME FlatInv,
           \/ FlatFreshness \/ FlatBackup \/ FlatExportRecovery \/ FlatRestoreProven \/ FlatInstallAdapter
           \/ FlatWritersFenced \/ FlatDeploy \/ FlatInstallSql \/ FlatStageStarting \/ FlatKeepLoad
           \/ FlatCapture \/ FlatNothingToRemove \/ FlatStrict \/ FlatFinalChecks
    PROVE  FlatInv'
<1> USE DEF FlatOthers, FlatGraph, flatVars, pgVars
<1>1. proc.script = "flat" /\ proc.pc # "wait"
  BY DEF FlatFreshness, FlatBackup, FlatExportRecovery, FlatRestoreProven, FlatInstallAdapter,
         FlatWritersFenced, FlatDeploy, FlatInstallSql, FlatStageStarting, FlatKeepLoad,
         FlatCapture, FlatNothingToRemove, FlatStrict, FlatFinalChecks, FlatStep, FlatAt, At
<1>2. UNCHANGED <<native, fence, load, revision, flat>>
  BY DEF FlatFreshness, FlatBackup, FlatExportRecovery, FlatRestoreProven, FlatInstallAdapter,
         FlatWritersFenced, FlatDeploy, FlatInstallSql, FlatStageStarting, FlatKeepLoad,
         FlatCapture, FlatNothingToRemove, FlatStrict, FlatFinalChecks
<1>3. FlatPath(proc.pc) /\ DOMAIN flatRec = FlatFields
  BY <1>1 DEF FlatInv, FlatProcess, FlatShape
<1> USE DEF FlatStep, FlatAt, At, FlatEvent, Goto
<1>4. FlatGrows
  <2> USE DEF FlatGrows, FlatFields
  <2>1. CASE FlatFreshness
    BY <1>3, <2>1 DEF FlatFreshness
  <2>2. CASE FlatBackup
    BY <1>3, <2>2 DEF FlatBackup
  <2>3. CASE FlatExportRecovery
    BY <1>3, <2>3 DEF FlatExportRecovery
  <2>4. CASE FlatRestoreProven
    BY <1>3, <2>4 DEF FlatRestoreProven
  <2>5. CASE FlatInstallAdapter
    BY <1>3, <2>5 DEF FlatInstallAdapter
  <2>6. CASE FlatWritersFenced
    BY <1>3, <2>6 DEF FlatWritersFenced
  <2>7. CASE FlatDeploy
    BY <1>3, <2>7 DEF FlatDeploy
  <2>8. CASE FlatInstallSql
    BY <1>3, <2>8 DEF FlatInstallSql
  <2>9. CASE FlatStageStarting
    BY <1>3, <2>9 DEF FlatStageStarting
  <2>10. CASE FlatKeepLoad
    BY <1>3, <2>10 DEF FlatKeepLoad
  <2>11. CASE FlatCapture
    BY <1>3, <2>11 DEF FlatCapture
  <2>12. CASE FlatNothingToRemove
    BY <1>3, <2>12 DEF FlatNothingToRemove
  <2>13. CASE FlatStrict
    BY <1>3, <2>13 DEF FlatStrict
  <2>14. CASE FlatFinalChecks
    BY <1>3, <2>14 DEF FlatFinalChecks
  <2> QED BY <2>1, <2>2, <2>3, <2>4, <2>5, <2>6, <2>7, <2>8, <2>9, <2>10, <2>11, <2>12, <2>13, <2>14
<1>5. ASSUME NEW to, to # "wait", proc' = [proc EXCEPT !.pc = to], FlatPath(to)' PROVE FlatInv'
  BY <1>1, <1>2, <1>4, <1>5, FlatMoves
<1> USE DEF FlatPath, BeforeFence, FlatGrows
<1>6. CASE FlatFreshness
  BY <1>2, <1>3, <1>4, <1>5, <1>6 DEF FlatFreshness
<1>7. CASE FlatBackup
  <2>1. flatRec'.backup /\ proc.pc = "backup"
    BY <1>3, <1>7 DEF FlatBackup, FlatFields
  <2> QED BY <1>2, <1>3, <1>4, <1>5, <1>7, <2>1 DEF FlatBackup
<1>8. CASE FlatExportRecovery
  <2>1. flatRec'.exported /\ proc.pc = "recovery"
    BY <1>3, <1>8 DEF FlatExportRecovery, FlatFields
  <2> QED BY <1>2, <1>3, <1>4, <1>5, <1>8, <2>1 DEF FlatExportRecovery
<1>9. CASE FlatRestoreProven
  <2>1. flatRec'.proof /\ proc.pc = "prove"
    BY <1>3, <1>9 DEF FlatRestoreProven, FlatFields
  <2> QED BY <1>2, <1>3, <1>4, <1>5, <1>9, <2>1 DEF FlatRestoreProven
<1>10. CASE FlatInstallAdapter
  BY <1>2, <1>3, <1>4, <1>5, <1>10 DEF FlatInstallAdapter
<1>11. CASE FlatWritersFenced
  BY <1>2, <1>3, <1>4, <1>5, <1>11 DEF FlatWritersFenced
<1>12. CASE FlatDeploy
  BY <1>2, <1>3, <1>4, <1>5, <1>12 DEF FlatDeploy
<1>13. CASE FlatInstallSql
  BY <1>2, <1>3, <1>4, <1>5, <1>13 DEF FlatInstallSql
<1>14. CASE FlatStageStarting
  BY <1>2, <1>3, <1>4, <1>5, <1>14 DEF FlatStageStarting
<1>15. CASE FlatKeepLoad \/ FlatCapture
  BY <1>2, <1>3, <1>4, <1>5, <1>15 DEF FlatKeepLoad, FlatCapture
<1>16. CASE FlatNothingToRemove \/ FlatStrict
  BY <1>2, <1>3, <1>4, <1>5, <1>16 DEF FlatNothingToRemove, FlatStrict
<1>17. CASE FlatFinalChecks
  <2>1. proc.pc = "final" /\ gate /\ load.state = "VERIFIED" /\ UNCHANGED gate
    BY <1>3, <1>17 DEF FlatFinalChecks, Readable
  <2> QED BY <1>2, <1>3, <1>4, <1>5, <1>17, <2>1 DEF FlatFinalChecks
<1> QED BY <1>6, <1>7, <1>8, <1>9, <1>10, <1>11, <1>12, <1>13, <1>14, <1>15, <1>16, <1>17


\* Planning, applying, resuming, recovering and amending, by an operator.
LEMMA FlatOperatorPreserves == ASSUME FlatInv, FlatOperator PROVE FlatInv'
<1> USE DEF FlatOthers, FlatGraph, flatVars, pgVars, windowVars
<1>0. WindowShape /\ DOMAIN flatRec = FlatFields
  BY DEF FlatInv, FlatShape
<1>1. CASE FlatMakePlan
  <2>1. UNCHANGED <<proc, native, fence, load, gate, revision, flat, flatRec>> /\ proc.script = "none"
    BY <1>1 DEF FlatMakePlan, Free
  <2>2. WindowShape' /\ FlatGrows
    BY <1>0, <2>1 DEF WindowShape, FlatGrows
  <2> QED BY <2>1, <2>2, FlatLeaves
<1>2. CASE FlatApply \/ FlatRun
  <2>1. PICK p : /\ flatRec' = [NoFlatRec EXCEPT !.status = "RUNNING", !.plan = p]
                 /\ Start("flat", "fresh", 1, FALSE) /\ fence["flat"] = 0
                 /\ UNCHANGED <<native, fence, load, gate, revision, flat>>
    BY <1>2 DEF FlatApply, FlatRun
  <2>2. native = {} /\ proc' = [script |-> "flat", pc |-> "fresh", token |-> 1, again |-> FALSE]
    BY <2>1 DEF Start
  <2>3. WindowShape' /\ proc'.script = "flat" /\ proc'.pc = "fresh" /\ DOMAIN flatRec' = FlatFields
    BY <1>0, <2>1, <2>2 DEF WindowShape, NoFlatRec, FlatFields
  <2>4. FlatShape' /\ FlatFence' /\ FlatVerified' /\ FlatWriters'
    BY <2>1, <2>2, <2>3 DEF FlatInv, FlatShape, FlatFence, FlatVerified, FlatWriters, PreservedRemoved
  <2>5. FlatProcess'
    BY <2>1, <2>2, <2>3 DEF FlatProcess, Alone, FlatPath, BeforeFence
  <2> QED BY <2>4, <2>5 DEF FlatInv
<1>3. CASE FlatResume
  BY <1>0, <1>3, FlatStarts DEF FlatResume, FlatGrows
<1>4. CASE FlatRecover
  BY <1>0, <1>4, FlatStarts DEF FlatRecover, FlatGrows
<1>5. CASE FlatAmend
  <2>1. FlatGrows
    BY <1>0, <1>5 DEF FlatAmend, FlatEvent, FlatGrows, FlatFields
  <2>2. PICK again : Start("amend", "switch", 1, again)
    BY <1>5 DEF FlatAmend
  <2>3. fence["flat"] = 1 /\ native' = native /\ UNCHANGED <<fence, load, revision, flat>>
    BY <1>5 DEF FlatAmend
  <2> QED BY <2>1, <2>2, <2>3, FlatStarts
<1> QED BY <1>1, <1>2, <1>3, <1>4, <1>5 DEF FlatOperator

\* The fence goes up behind everything recovery needs, and comes down on a
\* verified load when no job is left.
LEMMA FlatFencePreserves == ASSUME FlatInv, FlatWriteFence \/ FlatLiftFence PROVE FlatInv'
<1> USE DEF flatVars, pgVars
<1>0. WindowShape /\ DOMAIN fence = Migrations /\ "flat" \in Migrations /\ DOMAIN flatRec = FlatFields
  BY DEF FlatInv, FlatShape, WindowShape, Migrations
<1>1. /\ proc.script = "flat" /\ proc.pc \in {"fence", "unfence"}
      /\ UNCHANGED <<native, load, gate, revision, flat, flatRec>>
  BY DEF FlatWriteFence, FlatLiftFence, FlatAt, At
<1>2. native = {} /\ FlatPath(proc.pc) /\ flatRec.backup /\ flatRec.exported /\ flatRec.proof
  BY <1>1 DEF FlatInv, FlatProcess, Alone, FlatPath
<1>3. PICK on \in {0, 1}, to \in {"fenced", "resumed"} :
         /\ fence' = [fence EXCEPT !["flat"] = on] /\ proc' = [proc EXCEPT !.pc = to]
         /\ on = 0 => load.state = "VERIFIED"
         /\ to = "fenced" => on = 1
         /\ to = "resumed" => proc.pc = "unfence"
  <2>1. CASE FlatWriteFence
    BY <2>1 DEF FlatWriteFence, Goto
  <2>2. CASE FlatLiftFence
    BY <1>2, <2>2 DEF FlatLiftFence, Goto, FlatAt, At, FlatPath
  <2> QED BY <2>1, <2>2
<1>4. WindowShape' /\ fence'["flat"] = on /\ proc'.script = "flat" /\ proc'.pc = to
  BY <1>0, <1>1, <1>3 DEF WindowShape
<1>5. FlatShape' /\ FlatFence'
  BY <1>1, <1>2, <1>3, <1>4 DEF FlatInv, FlatShape, FlatFence
<1>6. FlatVerified' /\ FlatWriters'
  BY <1>1, <1>2 DEF FlatInv, FlatVerified, FlatWriters, PreservedRemoved
<1>7. FlatPath(to)'
  BY <1>1, <1>2, <1>3, <1>4 DEF FlatPath, BeforeFence
<1>8. FlatProcess'
  BY <1>1, <1>2, <1>4, <1>7 DEF FlatProcess, Alone
<1> QED BY <1>5, <1>6, <1>8 DEF FlatInv

\* The jobs of apply.
LEMMA FlatStartsJob ==
    ASSUME FlatInv, FlatReload \/ FlatStage \/ FlatStartRemoval \/ FlatPostRemoval \/ FlatReplay
    PROVE  FlatInv'
<1> USE DEF FlatGraph, flatVars, pgVars, FlatAt, At, FlatEvent
<1>0. DOMAIN flatRec = FlatFields
  BY DEF FlatInv, FlatShape
<1>1. CASE FlatReload
  <2>1. FlatGrows
    BY <1>0, <1>1 DEF FlatReload, FlatGrows, FlatFields
  <2> QED BY <1>1, <2>1, FlatLaunches DEF FlatReload, Loading
<1>2. CASE FlatStage
  BY <1>0, <1>2, FlatLaunches DEF FlatStage, FlatGrows, Loading
<1>3. CASE FlatStartRemoval
  <2>1. FlatGrows
    BY <1>0, <1>3 DEF FlatStartRemoval, FlatGrows, FlatFields
  <2> QED BY <1>3, <2>1, FlatLaunches DEF FlatStartRemoval, Loading
<1>4. CASE FlatPostRemoval
  <2>1. FlatGrows
    BY <1>0, <1>4 DEF FlatPostRemoval, FlatGrows, FlatFields
  <2> QED BY <1>4, <2>1, FlatLaunches DEF FlatPostRemoval, Loading
<1>5. CASE FlatReplay
  BY <1>0, <1>5, FlatLaunches DEF FlatReplay, FlatGrows, Loading
<1> QED BY <1>1, <1>2, <1>3, <1>4, <1>5


\* The jobs change the graph and the load under the fence.
LEMMA FlatJobsPreserve == ASSUME FlatInv, FlatJobs PROVE FlatInv'
<1> USE DEF flatVars, pgVars
<1>0. /\ WindowShape /\ DOMAIN flatRec = FlatFields /\ DOMAIN load = {"id", "state"}
      /\ revision \in [Revisions -> {"orig", "gone", "new"}]
  BY DEF FlatInv, FlatShape
<1>1. ASSUME NEW s, s \in {"flat", "flatrecover"}, NEW job, Running(s, job),
             UNCHANGED <<windowVars, flatRec>>, load.state # "VERIFIED",
             revision' \in [Revisions -> {"orig", "gone", "new"}]
      PROVE  FlatInv'
  <2>1. Job(s, job) \in native /\ fence["flat"] = 1
    BY <1>1, JobFields DEF Running, Job, FlatInv, FlatWriters
  <2>2. UNCHANGED <<proc, native, fence, load, gate, flatRec>>
    BY <1>1 DEF windowVars
  <2>3. FlatShape' /\ FlatFence' /\ FlatVerified' /\ FlatWriters'
    BY <1>1, <2>1, <2>2 DEF FlatInv, FlatShape, FlatFence, FlatVerified, FlatWriters, WindowShape
  <2>4. FlatProcess'
    BY <2>2 DEF FlatInv, FlatProcess, Alone, FlatPath
  <2> QED BY <2>3, <2>4 DEF FlatInv
<1>2. CASE StageWrites
  <2>1. load.state # "VERIFIED"
    BY <1>2 DEF StageWrites, FlatInv, FlatVerified, PreservedRemoved
  <2> QED BY <1>0, <1>1, <1>2, <2>1 DEF StageWrites
<1>3. CASE RemoveRevision
  <2>1. load.state # "VERIFIED"
    BY <1>3 DEF RemoveRevision, FlatInv, FlatVerified, PreservedRemoved, Removed
  <2>2. revision' \in [Revisions -> {"orig", "gone", "new"}]
    BY <1>0, <1>3 DEF RemoveRevision
  <2> QED BY <1>1, <1>3, <2>1, <2>2 DEF RemoveRevision
<1>4. CASE CleanupEdges \/ RestoreRevision
  <2>1. Running("flatrecover", "restore") /\ UNCHANGED <<windowVars, flatRec>>
    BY <1>4 DEF CleanupEdges, RestoreRevision
  <2>2. load.state # "VERIFIED"
    BY <2>1 DEF Running, Job, FlatInv, FlatVerified
  <2>3. revision' \in [Revisions -> {"orig", "gone", "new"}]
    BY <1>0, <1>4 DEF CleanupEdges, RestoreRevision
  <2> QED BY <1>1, <2>1, <2>2, <2>3
<1>5. CASE StageDone
  <2>1. DOMAIN load' = {"id", "state"} /\ load'.state = "STAGED"
    BY <1>0, <1>5 DEF StageDone
  <2> QED BY <1>0, <1>5, <2>1, FlatJoins DEF StageDone, Loading
<1>6. CASE RevisionsRemoved
  <2>1. UNCHANGED <<fence, gate, flatRec, load, revision, flat>>
    BY <1>6 DEF RevisionsRemoved
  <2>2. load'.state = "VERIFIED" => PreservedRemoved'
    BY <2>1 DEF FlatInv, FlatVerified, PreservedRemoved
  <2> QED BY <1>0, <1>6, <2>1, <2>2, FlatJoins DEF RevisionsRemoved, Loading
<1>7. ASSUME NEW job, NEW to \in Loading, Running("flat", job), PreservedRemoved, Join("flat", job, to),
             load' = [load EXCEPT !.state = "VERIFIED"], UNCHANGED <<fence, gate, flatVars>>
      PROVE  FlatInv'
  <2>1. DOMAIN load' = {"id", "state"} /\ PreservedRemoved' /\ UNCHANGED <<revision, flatRec>> /\ to # "wait"
    BY <1>0, <1>7 DEF PreservedRemoved, Loading
  <2> QED BY <1>0, <1>7, <2>1, FlatJoins
<1>8. CASE FinalizeDone
  BY <1>7, <1>8 DEF FinalizeDone, Loading
<1>9. CASE ReplayDone("reload", "capture") \/ ReplayDone("replay", "final")
  BY <1>7, <1>9 DEF ReplayDone, Loading
<1>10. CASE RestoreEnds
  <2>1. UNCHANGED <<fence, gate, flatRec, load, revision>> /\ Running("flatrecover", "restore")
        /\ Join("flatrecover", "restore", "restored")
    BY <1>10 DEF RestoreEnds
  <2>2. load.state # "VERIFIED"
    BY <2>1 DEF Running, Job, FlatInv, FlatVerified
  <2> QED BY <1>0, <2>1, <2>2, FlatJoins
<1> QED BY <1>2, <1>3, <1>4, <1>5, <1>6, <1>8, <1>9, <1>10 DEF FlatJobs

\* Recovery and amendment keep the fence, and never touch a verified load.
LEMMA FlatRepairs ==
    ASSUME FlatInv, RecoveryStarting \/ FailOwnedLoad \/ SwitchFile \/ AmendFailsLoad
    PROVE  FlatInv'
<1> USE DEF FlatGraph, FlatOthers, flatVars, pgVars, At, FlatEvent
<1>0. /\ WindowShape /\ DOMAIN flatRec = FlatFields /\ DOMAIN load = {"id", "state"}
  BY DEF FlatInv, FlatShape
<1>1. /\ proc.script \in {"flatrecover", "amend"} /\ proc.pc # "wait" /\ UNCHANGED <<fence, gate, revision, flat>>
      /\ proc.script = "amend" => ~RecoveryStarting /\ ~FailOwnedLoad
  BY DEF RecoveryStarting, FailOwnedLoad, SwitchFile, AmendFailsLoad
<1>2. native = {} /\ fence["flat"] = 1
  BY <1>1 DEF FlatInv, FlatProcess, Alone
<1>3. FlatGrows
  BY <1>0 DEF RecoveryStarting, FailOwnedLoad, SwitchFile, AmendFailsLoad, FlatGrows, FlatFields
<1>4. WindowShape' /\ proc'.script = proc.script
  BY <1>0, <1>1 DEF RecoveryStarting, FailOwnedLoad, SwitchFile, AmendFailsLoad, Launch, Goto, WindowShape
<1>5. CASE RecoveryStarting
  <2>1. /\ native' = {Job("flatrecover", "restore")} /\ proc' = [proc EXCEPT !.pc = "wait"]
        /\ UNCHANGED load /\ load.state # "VERIFIED" /\ proc.script = "flatrecover"
    BY <1>2, <1>5 DEF RecoveryStarting, RollbackAdmits, Launch, Goto, Job
  <2>2. FlatShape' /\ FlatFence' /\ FlatVerified'
    BY <1>1, <1>2, <1>3, <1>4, <2>1 DEF FlatInv, FlatShape, FlatFence, FlatVerified, FlatGrows
  <2>3. FlatWriters'
    BY <1>1, <1>2, <2>1, JobFields DEF FlatWriters
  <2>4. proc'.pc = "wait"
    BY <1>0, <2>1 DEF WindowShape
  <2>5. FlatProcess'
    BY <1>1, <1>2, <1>4, <2>1, <2>4, JobFields DEF FlatProcess, Alone
  <2> QED BY <2>2, <2>3, <2>5 DEF FlatInv
<1>6. CASE ~RecoveryStarting
  <2>1. /\ native' = native
        /\ load' = load \/ load' = [load EXCEPT !.state = "FAILED"]
    BY <1>6 DEF FailOwnedLoad, SwitchFile, AmendFailsLoad
  <2>2. DOMAIN load' = {"id", "state"} /\ (load'.state = "VERIFIED" => load.state = "VERIFIED")
    BY <1>0, <2>1
  <2>3. FlatShape' /\ FlatFence' /\ FlatVerified' /\ FlatWriters'
    BY <1>1, <1>2, <1>3, <1>4, <2>1, <2>2
       DEF FlatInv, FlatShape, FlatFence, FlatVerified, FlatWriters, FlatGrows, PreservedRemoved
  <2>4. FlatProcess'
    BY <1>1, <1>2, <1>4, <2>1 DEF FlatProcess, Alone
  <2> QED BY <2>3, <2>4 DEF FlatInv
<1> QED BY <1>5, <1>6

\* A process ends, well or not; a job that fails may fail its load with it.
LEMMA FlatEnds ==
    ASSUME FlatInv, FlatSchedulerResumed \/ FlatRecovered \/ AmendVerified \/ FlatFaults
    PROVE  FlatInv'
<1> USE DEF FlatGraph, FlatOthers, flatVars, pgVars, At, FlatEvent, FlatFailed
<1>0. /\ WindowShape /\ DOMAIN flatRec = FlatFields /\ DOMAIN load = {"id", "state"}
  BY DEF FlatInv, FlatShape
<1>1. CASE \/ FlatSchedulerResumed \/ FlatRecovered \/ AmendVerified
           \/ FlatStops \/ FlatInterrupted \/ FlatRecoverStops \/ AmendStops
  <2>1. proc' = Free /\ native' \subseteq native /\ UNCHANGED <<fence, load, revision, flat>>
    BY <1>1 DEF FlatSchedulerResumed, FlatRecovered, AmendVerified, FlatStops, FlatInterrupted,
                FlatRecoverStops, AmendStops, Exit, Survivors
  <2>2. FlatGrows
    <3> USE DEF FlatGrows, FlatFields
    <3>1. CASE FlatSchedulerResumed
      BY <1>0, <3>1 DEF FlatSchedulerResumed
    <3>2. CASE FlatRecovered
      BY <1>0, <3>2 DEF FlatRecovered
    <3>3. CASE AmendVerified
      BY <1>0, <3>3 DEF AmendVerified
    <3>4. CASE FlatStops
      BY <1>0, <3>4 DEF FlatStops
    <3>5. CASE FlatInterrupted
      BY <1>0, <3>5 DEF FlatInterrupted
    <3>6. CASE FlatRecoverStops
      BY <1>0, <3>6 DEF FlatRecoverStops
    <3>7. CASE AmendStops
      BY <1>0, <3>7 DEF AmendStops
    <3> QED BY <1>1, <3>1, <3>2, <3>3, <3>4, <3>5, <3>6, <3>7
  <2>3. WindowShape' /\ proc'.script = "none"
    BY <1>0, <2>1 DEF WindowShape, Free
  <2> QED BY <2>1, <2>2, <2>3, FlatLeaves
<1>2. ASSUME NEW job, NEW dies, Running("flat", job), JobFault(job, dies) PROVE FlatInv'
  <2>1. /\ UNCHANGED <<fence, gate, revision, flat>> /\ native' = native \ {Job("flat", job)}
        /\ Job("flat", job) \in native
        /\ load' = load \/ load' = [load EXCEPT !.state = "FAILED"]
        /\ \/ proc.script = "flat" /\ proc' = Free
           \/ proc.script # "flat" /\ proc' = proc
    BY <1>2 DEF JobFault, Job, Running, Exit
  <2>2. FlatGrows
    BY <1>0, <1>2 DEF JobFault, FlatGrows, FlatFields
  <2>3. fence["flat"] = 1
    BY <2>1, JobFields DEF FlatInv, FlatWriters
  <2>4. DOMAIN load' = {"id", "state"} /\ (load'.state = "VERIFIED" => load.state = "VERIFIED")
    BY <1>0, <2>1
  <2>5. WindowShape' /\ proc'.script # "flat"
    BY <1>0, <2>1 DEF WindowShape, Free
  <2>6. FlatShape' /\ FlatFence' /\ FlatVerified' /\ FlatWriters'
    BY <2>1, <2>2, <2>3, <2>4, <2>5
       DEF FlatInv, FlatShape, FlatFence, FlatVerified, FlatWriters, FlatGrows, PreservedRemoved
  <2>7. FlatProcess'
    BY <2>1, <2>3, <2>5 DEF FlatInv, FlatProcess, Alone, Free
  <2> QED BY <2>6, <2>7 DEF FlatInv
<1>3. ASSUME NEW job, FlatJobFails(job) \/ FlatJobDies(job) PROVE FlatInv'
  BY <1>2, <1>3 DEF FlatJobFails, FlatJobDies
<1> QED BY <1>1, <1>3 DEF FlatFaults

LEMMA FlatPreserves ==
    ASSUME FlatInv, FlatOperator \/ FlatSteps \/ FlatJobs \/ FlatFaults
    PROVE  FlatInv'
BY FlatOperatorPreserves, FlatApplyMoves, FlatFencePreserves, FlatStartsJob, FlatJobsPreserve, FlatRepairs, FlatEnds
   DEF FlatSteps

-----------------------------------------------------------------------------
LEMMA InitEstablishes == Init => IInv
<1> SUFFICES ASSUME Init PROVE IInv
  OBVIOUS
<1> USE DEF Init, WindowInit, BatchInit, FlatInit, DateInit
<1>1. WindowShape /\ fence["batchfree"] = 0 /\ fence["flat"] = 0 /\ proc.script = "none" /\ native = {}
  BY DEF WindowShape, Free, Migrations
<1>2. scaffold = Scaffold /\ revision = Original /\ ~gate /\ entry = "old"
  OBVIOUS
<1>3. BatchInv
  <2>1. \A t \in Tokens : ReceiptOK(receipt[t])
    BY DEF NoReceipt, ReceiptOK, ReceiptFields
  <2>2. BatchShape
    BY <1>1, <2>1 DEF BatchShape, NoPlan
  <2>3. BatchFence /\ BatchProcess
    BY <1>1 DEF BatchFence, BatchProcess, Alone
  <2> QED BY <2>2, <2>3 DEF BatchInv
<1>4. FlatInv
  <2>1. FlatShape
    BY <1>1 DEF FlatShape, NoFlatRec, FlatFields, Original
  <2>2. FlatFence /\ FlatVerified /\ FlatWriters /\ FlatProcess
    BY <1>1 DEF FlatFence, FlatVerified, FlatWriters, FlatProcess, Alone
  <2> QED BY <2>1, <2>2 DEF FlatInv
<1>5. DateInv
  <2>1. deployRec \in Seq(DeployReceipt)
    OBVIOUS
  <2> QED BY <1>1, <2>1 DEF DateInv, DateShape, DateRecord
<1> QED BY <1>2, <1>3, <1>4, <1>5 DEF IInv


LEMMA Inductive == IInv /\ [Next]_vars => IInv'
<1> SUFFICES ASSUME IInv, [Next]_vars PROVE IInv'
  OBVIOUS
<1>1. CASE UNCHANGED vars
  <2>1. UNCHANGED <<campaign, proc, native, fence, load, gate, scaffold, direct, plan, receipt,
                    revision, flat, flatRec, entry, installed, deployRec>>
    BY <1>1 DEF vars, windowVars, pgVars, batchVars, flatVars, dateVars
  <2>2. BatchInv => BatchInv'
    BY <2>1 DEF BatchInv, BatchShape, BatchFence, BatchProcess, WindowShape, Alone, BatchPath, BatchFenced
  <2>3. FlatInv => FlatInv'
    BY <2>1 DEF FlatInv, FlatShape, FlatFence, FlatVerified, FlatWriters, FlatProcess, WindowShape, Alone,
                FlatPath, PreservedRemoved
  <2>4. DateInv => DateInv'
    BY <2>1 DEF DateInv, DateShape, DateRecord, WindowShape, OnRecord
  <2> QED BY <2>1, <2>2, <2>3, <2>4 DEF IInv
<1>2. CASE Window(WindowNext)
  <2>1. WindowNext /\ UNCHANGED <<campaign, batchVars, flatVars, dateVars>>
    BY <1>2 DEF Window
  <2>2. UNCHANGED <<gate, scaffold, revision, entry, installed, deployRec>>
    BY <2>1 DEF WindowNext, RefreshStart, RefreshSource, RefreshDone, RefreshExit, Kill, pgVars,
                batchVars, flatVars, dateVars
  <2>3. BatchInv => BatchInv'
    BY <2>1, BatchWindow
  <2>4. FlatInv => FlatInv'
    BY <2>1, FlatWindow
  <2>5. DateInv => DateInv'
    <3> SUFFICES ASSUME DateInv PROVE DateInv'
      OBVIOUS
    <3>2. WindowShape /\ installed \in BOOLEAN
      BY DEF DateInv, DateShape
    <3>3. WindowShape' /\ (proc' = proc \/ proc' = Free \/ proc'.script = "refresh")
      BY <2>1, <3>2, WindowMoves
    <3>4. proc'.script = "datedeploy" => proc' = proc
      BY <3>3 DEF Free
    <3>5. proc'.script = "datedeploy" /\ proc'.pc = "installed" => installed'
      BY <2>2, <3>4 DEF DateInv, DateRecord
    <3> QED BY <2>2, <3>2, <3>3, <3>4, <3>5, DateKept
  <2> QED BY <2>1, <2>2, <2>3, <2>4, <2>5 DEF IInv
<1>3. CASE Batchfree(BatchOperator \/ BatchSteps \/ BatchJobs \/ BatchStops \/ RecoverStops)
  <2>1. /\ campaign = "batchfree" /\ UNCHANGED <<campaign, flatVars, dateVars>>
        /\ BatchOperator \/ BatchSteps \/ BatchJobs \/ BatchStops \/ RecoverStops
    BY <1>3 DEF Batchfree
  <2>2. gate' = gate
    BY <2>1 DEF Others, pgVars, windowVars,
                BatchOperator, BatchPlanFresh, BatchPlanPreflight, BatchPlan, BatchApply, BatchResume, BatchRecover,
                BatchSteps, Freshness, Backup, ExportRecovery, RestoreProven, InstallAdapter, WriteFence,
                WritersFenced, DeployWriters, WritersDeployed, InstallSql, StartProjection, SkipProjection,
                ProjectionVerified, StartRemoval, ReplayVerified, FinalChecks, LiftFence, SchedulerResumed,
                ScaffoldRecovered, BatchJobs, ProjectionDone, RemoveChunk, RemovalDone, RestoreChunk, RestoreDone,
                BatchStops, RecoverStops
  <2>3. BatchInv'
    BY <2>1, BatchfreePreserves DEF IInv
  <2>4. UNCHANGED <<revision, entry>>
    BY <2>1 DEF flatVars, dateVars
  <2> QED BY <2>1, <2>2, <2>3, <2>4 DEF IInv
<1>4. CASE Flat(FlatOperator \/ FlatSteps \/ FlatJobs \/ FlatFaults)
  <2>1. /\ campaign = "flat" /\ UNCHANGED <<campaign, batchVars, dateVars>>
        /\ FlatOperator \/ FlatSteps \/ FlatJobs \/ FlatFaults
    BY <1>4 DEF Flat
  <2>2. FlatInv'
    BY <2>1, FlatPreserves DEF IInv
  <2>3. UNCHANGED <<scaffold, entry>>
    BY <2>1 DEF batchVars, dateVars
  <2> QED BY <2>1, <2>2, <2>3 DEF IInv
<1>5. CASE Dates(DateNext)
  <2>1. /\ campaign = "dates" /\ UNCHANGED <<campaign, batchVars, flatVars>> /\ DateNext
    BY <1>5 DEF Dates
  <2>2. DateInv'
    BY <2>1, DatesPreserve DEF IInv
  <2>3. gate' = gate
    BY <2>1 DEF DateNext, DateOthers, windowVars, pgVars, DeployInstall, DateFilesDeployed, DatesDeployed,
                DatesInstalling, DatesInstalled, DeployInstallFails, DatePlan, DateApply, DateBackup,
                DateRegister, RegisterDone, DateRegistered, InstallDone, DateUpdate, UpdateDone,
                DatesVerified, DatesFail
  <2>4. UNCHANGED <<scaffold, revision>>
    BY <2>1 DEF batchVars, flatVars
  <2> QED BY <2>1, <2>2, <2>3, <2>4 DEF IInv
<1> QED BY <1>1, <1>2, <1>3, <1>4, <1>5 DEF Next

\* Every reachable state of a campaign satisfies its invariant, whatever was
\* killed, interrupted, resumed, recovered or amended before.
THEOREM Invariance == Spec => []IInv
BY InitEstablishes, Inductive, PTL DEF Spec

\* apply and recover of migrate_batchfree_graph.py: a scaffold node is missing
\* only behind the fence of a receipt that can restore it, or for good.
THEOREM BatchRemovalFenced == Spec => []RemovalIsFenced
<1>1. IInv => RemovalIsFenced
  <2> SUFFICES ASSUME IInv, scaffold # Scaffold PROVE RemovalIsFenced
    BY DEF RemovalIsFenced
  <2>1. BatchInv
    BY DEF IInv
  <2>2. CASE fence["batchfree"] = 0
    BY <2>1, <2>2 DEF BatchInv, BatchFence, RemovalIsFenced
  <2>3. CASE fence["batchfree"] # 0
    <3>1. fence["batchfree"] \in Tokens /\ Recoverable(receipt[fence["batchfree"]])
      BY <2>1, <2>3 DEF BatchInv, BatchFence
    <3>2. receipt[fence["batchfree"]].recovery = Scaffold
      BY <2>1, <3>1 DEF BatchInv, BatchShape, ReceiptOK, Recoverable
    <3> QED BY <2>3, <3>1, <3>2 DEF Recoverable, RemovalIsFenced
  <2> QED BY <2>2, <2>3
<1> QED BY <1>1, Invariance, PTL

\* apply, recover and amend of the flat migration: a revision is gone or
\* restored only behind the fence with its recovery, or on a VERIFIED load.
THEOREM RevisionsFenced == Spec => []FlatRemovalIsFenced
<1>1. IInv => FlatRemovalIsFenced
  BY DEF IInv, FlatInv, FlatShape, FlatFence, FlatVerified, FlatRemovalIsFenced
<1> QED BY <1>1, Invariance, PTL

\* The gate of SQL 028 and 029: what readers of a VERIFIED load see is flat.
THEOREM ReadersAreServed == Spec => []ReadersSeeFlatGraph
<1>1. IInv => ReadersSeeFlatGraph
  BY DEF IInv, FlatInv, FlatVerified, ReadersSeeFlatGraph, Readable
<1> QED BY <1>1, Invariance, PTL

\* deploy_install of backfill_posting_dates.py: the scheduler meets the entry
\* point without its function only when a receipt shows it.
THEOREM ExposureRecorded == Spec => []ExposureIsOnRecord
<1>1. IInv => ExposureIsOnRecord
  BY DEF IInv, DateInv, DateRecord, OnRecord, ExposureIsOnRecord
<1> QED BY <1>1, Invariance, PTL

===============================================================================
