-------------------------- MODULE RuntimeDeployment --------------------------
(***************************************************************************)
(* reconcile_runtime.py and deploy_jobkorea_runtime.py: public artifacts   *)
(* are staged under temporary names and renamed into place one by one,     *)
(* under refresh.lock alone: no fence keeps the scheduler off a deployment *)
(* that was cut short, a new plan and apply finishes it.                   *)
(***************************************************************************)
EXTENDS MaintenanceWindow

CONSTANTS NPublic,     \* public artifacts, in the order of ALLOWLIST
          MaxDeployed, \* receipts
          Deployers    \* "reconcile", "jobkorea"

ASSUME DeploymentAssumption ==
    /\ NPublic \in Nat \ {0} /\ MaxDeployed \in Nat \ {0}
    /\ Deployers \subseteq {"reconcile", "jobkorea"}

(* ALLOWLIST, then the host's scheduler adapter, which only reconcile has.  *)
Adapter == NPublic + 1
Public == 1..Adapter

VARIABLES deployer,  \* which of the two tools this campaign uses
          runtime,   \* each artifact of the container and the host: "old" or "new"
          temps,     \* temporary files beside them
          staged,    \* temporaries the live process knows it made
          depPlan,   \* the reviewed manifest
          depRec     \* receipt.json of each apply

depVars == <<deployer, runtime, temps, staged, depPlan, depRec>>

AllowList == IF deployer = "reconcile" THEN Public ELSE Public \ {Adapter}

(* remote_bytes and host_bytes read an artifact, or that it is absent (an   *)
(* old artifact too); snapshot takes them all, with the dependencies that   *)
(* must not have drifted.                                                   *)
RemoteBytes(a) == runtime[a]
Snapshot == [a \in Public |-> RemoteBytes(a)]
ChangedIn(entries) == {a \in AllowList : entries[a] # "new"}

(* idle_cli, and db_state with assert_db_state.                             *)
AssertDbState == Quiet
DeployIdle == native = {} /\ AssertDbState

(* Only the JobKorea deployment binds every protected row.                  *)
FullPreservationState == data
Preserved(rows) == deployer = "jobkorea" => FullPreservationState = rows

NoDepPlan == [made |-> FALSE, entries |-> runtime, rows |-> 0]
NoDepRec == [status |-> "NONE", entries |-> [a \in Public |-> "old"], rows |-> 0,
             pending |-> {}]

DepRec == depRec[proc.token]
Receipt(r) == depRec' = [depRec EXCEPT ![proc.token] = r]
DepAt(p) == At("deploy", p)
DepOthers == <<fence, guards, artifacts, pgVars>>
Todo == ChangedIn(runtime)
Least(S) == CHOOSE a \in S : \A b \in S : a <= b

--------------------------------------------------------------------------
PlanManifest ==
    /\ proc = Free /\ DeployIdle
    /\ depPlan' = [made |-> TRUE, entries |-> Snapshot, rows |-> FullPreservationState]
    /\ UNCHANGED <<windowVars, deployer, runtime, temps, staged, depRec>>

DepApply(t) ==
    /\ depPlan.made /\ depRec[t].status = "NONE"
    /\ \A u \in 1..MaxDeployed : u < t => depRec[u].status # "NONE"
    /\ DeployIdle /\ depPlan.entries = Snapshot /\ Preserved(depPlan.rows)
    /\ Start("deploy", "backup", t, FALSE)
    /\ staged' = {}
    /\ depRec' = [depRec EXCEPT ![t] = [NoDepRec EXCEPT !.status = "BACKING_UP",
                                          !.entries = Snapshot, !.rows = FullPreservationState]]
    /\ UNCHANGED <<native, DepOthers, faults, deployer, runtime, temps, depPlan>>

(* Original bytes and a validated dump, then the runtime once more.         *)
BackupTaken(r) == [r EXCEPT !.status = IF deployer = "reconcile" THEN "STAGING" ELSE "INSTALLING"]
DepBackup ==
    /\ DepAt("backup") /\ DeployIdle /\ DepRec.entries = Snapshot
    /\ Goto(IF deployer = "reconcile" THEN "stage" ELSE "each")
    /\ Receipt(BackupTaken(DepRec))
    /\ UNCHANGED <<native, DepOthers, faults, deployer, runtime, temps, staged, depPlan>>

(* reconcile stages every changed artifact and notes each temporary once    *)
(* the copy has returned.                                                   *)
ReconcileCopy ==
    /\ DepAt("stage") /\ Todo \ staged # {}
    /\ temps' = temps \cup {Least(Todo \ staged)} /\ Goto("copied")
    /\ UNCHANGED <<native, DepOthers, faults, deployer, runtime, staged, depPlan, depRec>>

ReconcileCopied ==
    /\ DepAt("copied")
    /\ staged' = staged \cup {Least(Todo \ staged)} /\ Goto("stage")
    /\ UNCHANGED <<native, DepOthers, faults, deployer, runtime, temps, depPlan, depRec>>

ReconcileStaged ==
    /\ DepAt("stage") /\ Todo \ staged = {} /\ Goto("install")
    /\ Receipt([DepRec EXCEPT !.status = "INSTALLING"])
    /\ UNCHANGED <<native, DepOthers, faults, deployer, runtime, temps, staged, depPlan>>

(* deploy_jobkorea_runtime notes the name, copies, and installs at once.    *)
JobkoreaStage ==
    /\ DepAt("each") /\ Todo # {} /\ Goto("copy")
    /\ staged' = staged \cup {Least(Todo)}
    /\ UNCHANGED <<native, DepOthers, faults, deployer, runtime, temps, depPlan, depRec>>

JobkoreaCopy ==
    /\ DepAt("copy") /\ Goto("install")
    /\ temps' = temps \cup staged
    /\ UNCHANGED <<native, DepOthers, faults, deployer, runtime, staged, depPlan, depRec>>

(* Mutant: the adapter, which lives on the host, goes first.                *)
InstallLatest == CHOOSE a \in staged : \A b \in staged : a >= b

(* verify-before-replace and the atomic rename; the adapter comes last.     *)
NextInstall == Least(staged)

MoveIntoPlace(a) ==
    /\ RemoteBytes(a) = DepRec.entries[a]
    /\ runtime' = [runtime EXCEPT ![a] = "new"]
    /\ temps' = temps \ {a} /\ staged' = staged \ {a}

DepInstall ==
    /\ DepAt("install") /\ staged # {} /\ MoveIntoPlace(NextInstall)
    /\ Goto(IF deployer = "reconcile" THEN "install" ELSE "each")
    /\ UNCHANGED <<native, DepOthers, faults, deployer, depPlan, depRec>>

(* Every digest as planned, the catalogue readable, protected rows as       *)
(* before: VERIFIED.                                                        *)
FinalState == Todo = {} /\ AssertDbState /\ Preserved(DepRec.rows)
DepVerify ==
    /\ \/ DepAt("install") /\ staged = {} /\ deployer = "reconcile"
       \/ DepAt("each") /\ Todo = {}
    /\ FinalState
    /\ Receipt([DepRec EXCEPT !.status = "VERIFIED"]) /\ Exit
    /\ UNCHANGED <<native, DepOthers, faults, deployer, runtime, temps, staged, depPlan>>

(* A command fails or an interrupt arrives: the finally clause removes the  *)
(* temporaries the process knows, and lists those it could not remove.      *)
CleanupPending(left) == temps' = temps \ (staged \ left)
DepFails ==
    /\ proc.script = "deploy" /\ Fault
    /\ \E left \in SUBSET staged :
          /\ CleanupPending(left)
          /\ Receipt([DepRec EXCEPT !.status = "FAILED_REVIEW", !.pending = left])
    /\ staged' = {} /\ Exit
    /\ UNCHANGED <<native, DepOthers, deployer, runtime, depPlan>>

--------------------------------------------------------------------------
DepInit ==
    /\ deployer \in Deployers
    /\ runtime = [a \in Public |-> IF a \in AllowList THEN "old" ELSE "new"]
    /\ temps = {} /\ staged = {}
    /\ depPlan = NoDepPlan
    /\ depRec = [t \in 1..MaxDeployed |-> NoDepRec]

DepOperator == PlanManifest \/ \E t \in 1..MaxDeployed : DepApply(t)

DepSteps ==
    \/ DepBackup \/ ReconcileCopy \/ ReconcileCopied \/ ReconcileStaged
    \/ JobkoreaStage \/ JobkoreaCopy \/ DepInstall \/ DepVerify

==============================================================================
