---------------------------- MODULE PostingDates ----------------------------
(***************************************************************************)
(* backfill_posting_dates.py: deploy-install puts the date artifacts and   *)
(* the SQL date function in place; plan and apply register the supplied    *)
(* collection time and update the dates of every run in scope.  Both hold  *)
(* refresh.lock and neither writes a fence, so once the process is gone    *)
(* the scheduler runs whatever entry point is deployed.                    *)
(***************************************************************************)
EXTENDS MaintenanceWindow, Sequences

CONSTANTS Runs,       \* ingestion runs in the scope of the backfill
          MaxDeploys  \* deploy-install receipts an operator may create

ASSUME DatesAssumption == MaxDeploys \in Nat

VARIABLES dateFiles,  \* the other date artifacts are deployed
          entry,      \* deployed graph/load_snapshot.hwf: "old" or "new" (calls the date function)
          installed,  \* install_posting_dates.hwf has created the date function
          evidence,   \* the collection time is registered
          dated,      \* runs whose postings carry their dates
          datePlan,   \* the reviewed manifest
          deployRec,  \* the receipts of deploy-install, in order
          dateRec     \* the last receipt of apply

dateVars == <<dateFiles, entry, installed, evidence, dated, datePlan, deployRec, dateRec>>
DateOthers == <<fence, guards, artifacts, pgVars>>

NoDatePlan == [made |-> FALSE, rows |-> 0, graph |-> 0, schema |-> FALSE,
               ledgers |-> [evidence |-> FALSE, dated |-> {}]]
NoDateRec == [status |-> "NONE", backup |-> FALSE, completed |-> {}]

DateStep(s, from, to) == At(s, from) /\ Goto(to)

(* What the manifest records: the protected rows with the graph they make   *)
(* (their dates left out), the rows of the two append-only ledgers, and the *)
(* functions of the schema.                                                 *)
Preservation == data
DateGraph == data
LedgerRows == [evidence |-> evidence, dated |-> dated]
SchemaPreservation == installed

DateBaseline == [made |-> TRUE, rows |-> Preservation, graph |-> DateGraph,
                 ledgers |-> LedgerRows, schema |-> SchemaPreservation]

--------------------------------------------------------------------------
(* deploy_install *)

DeployStatus(s) == deployRec' = [deployRec EXCEPT ![proc.token].status = s]

DeployInstall ==
    /\ Len(deployRec) < MaxDeploys
    /\ Start("datedeploy", "deploy", Len(deployRec) + 1, FALSE) /\ Quiet
    /\ deployRec' = Append(deployRec, [status |-> "DEPLOYING", before |-> entry, restored |-> FALSE])
    /\ UNCHANGED <<native, DateOthers, faults, dateFiles, entry, installed, evidence, dated, datePlan, dateRec>>

(* deployment.apply of the reviewed artifacts in the order of its list: the *)
(* entry point after the others.                                            *)
DateFilesDeployed ==
    /\ DateStep("datedeploy", "deploy", "entry")
    /\ dateFiles' = TRUE
    /\ UNCHANGED <<native, DateOthers, faults, entry, installed, evidence, dated, datePlan, deployRec, dateRec>>

DatesDeployed ==
    /\ DateStep("datedeploy", "entry", "install")
    /\ entry' = "new"
    /\ UNCHANGED <<native, DateOthers, faults, dateFiles, installed, evidence, dated, datePlan, deployRec, dateRec>>

DatesInstalling ==
    /\ At("datedeploy", "install") /\ Launch("install")
    /\ DeployStatus("INSTALLING")
    /\ UNCHANGED <<DateOthers, faults, dateFiles, entry, installed, evidence, dated, datePlan, dateRec>>

DatesInstalled ==
    /\ At("datedeploy", "installed") /\ unfinished = 0 /\ ~Leased
    /\ DeployStatus("VERIFIED") /\ Exit
    /\ UNCHANGED <<native, DateOthers, faults, dateFiles, entry, installed, evidence, dated, datePlan, dateRec>>

(* Mutant: the receipt says restored whether or not it was.                 *)
DeployInstallForgets ==
    /\ proc.script = "datedeploy" /\ Fault
    /\ native' = Survivors("datedeploy")
    /\ entry' \in {entry, deployRec[proc.token].before}
    /\ deployRec' = [deployRec EXCEPT ![proc.token] = [@ EXCEPT !.status = "FAILED", !.restored = TRUE]]
    /\ Exit
    /\ UNCHANGED <<DateOthers, dateFiles, installed, evidence, dated, datePlan, dateRec>>

(* restore_snapshot_workflow puts the former entry point back, unless that  *)
(* fails too.                                                               *)
RestoreSnapshotWorkflow(restored) ==
    entry' = IF restored THEN deployRec[proc.token].before ELSE entry

(* A failed installation has run the first of its scripts, or none.         *)
Partly == {installed, installed \/ Running(proc.script, "install")}

(* except BaseException, finally.  An interrupt leaves the job running.     *)
DeployInstallFails ==
    /\ proc.script = "datedeploy" /\ Fault
    /\ native' \in {native, Survivors("datedeploy")}
    /\ installed' \in Partly
    /\ \E restored \in BOOLEAN :
          /\ RestoreSnapshotWorkflow(restored)
          /\ deployRec' = [deployRec EXCEPT ![proc.token] =
                              [@ EXCEPT !.status = "FAILED", !.restored = restored]]
    /\ Exit
    /\ UNCHANGED <<DateOthers, dateFiles, evidence, dated, datePlan, dateRec>>

--------------------------------------------------------------------------
(* execute, plan and apply *)

DatePlan ==
    /\ proc = Free /\ native = {} /\ Quiet /\ dateFiles
    /\ datePlan' = DateBaseline
    /\ UNCHANGED <<windowVars, dateFiles, entry, installed, evidence, dated, deployRec, dateRec>>

DateApply ==
    /\ dateFiles /\ datePlan = DateBaseline
    /\ Start("dates", "backup", 1, FALSE) /\ Quiet
    /\ dateRec' = [NoDateRec EXCEPT !.status = "BACKING_UP"]
    /\ UNCHANGED <<native, DateOthers, faults, dateFiles, entry, installed, evidence, dated, datePlan, deployRec>>

(* The backup, the recheck, then the native installation again.             *)
DateBackup ==
    /\ At("dates", "backup") /\ native = {} /\ Quiet /\ Preservation = datePlan.rows
    /\ dateRec' = [dateRec EXCEPT !.status = "INSTALLING", !.backup = TRUE]
    /\ Launch("install")
    /\ UNCHANGED <<DateOthers, faults, dateFiles, entry, installed, evidence, dated, datePlan, deployRec>>

InstallDone(s) ==
    /\ Running(s, "install")
    /\ installed' = TRUE
    /\ Join(s, "install", IF s = "dates" THEN "register" ELSE "installed")
    /\ UNCHANGED <<DateOthers, faults, dateFiles, entry, evidence, dated, datePlan, deployRec, dateRec>>

DateRegister ==
    /\ At("dates", "register") /\ Launch("register")
    /\ UNCHANGED <<DateOthers, faults, dateVars>>

RegisterDone ==
    /\ Running("dates", "register")
    /\ evidence' = TRUE
    /\ Join("dates", "register", "registered")
    /\ UNCHANGED <<DateOthers, faults, dateFiles, entry, installed, dated, datePlan, deployRec, dateRec>>

DateRegistered ==
    /\ DateStep("dates", "registered", "update")
    /\ dateRec' = [dateRec EXCEPT !.status = "UPDATING"]
    /\ UNCHANGED <<native, DateOthers, faults, dateFiles, entry, installed, evidence, dated, datePlan, deployRec>>

(* update_posting_dates.hwf for each run of the scope in its order; the     *)
(* receipt names a run once its job has ended.                              *)
DateUpdate(r) ==
    /\ At("dates", "update") /\ r \notin dateRec.completed /\ Launch(r)
    /\ UNCHANGED <<DateOthers, faults, dateVars>>

UpdateDone(r) ==
    /\ Running("dates", r)
    /\ dated' = dated \cup {r}
    /\ Join("dates", r, "update")
    /\ dateRec' = IF At("dates", "wait") THEN [dateRec EXCEPT !.completed = @ \cup {r}] ELSE dateRec
    /\ UNCHANGED <<DateOthers, faults, dateFiles, entry, installed, evidence, datePlan, deployRec>>

(* The graph, the rows, the ledgers (append only) and the scope once more.  *)
DatesVerified ==
    /\ At("dates", "update") /\ dateRec.completed = Runs
    /\ DateGraph = datePlan.graph /\ Preservation = datePlan.rows
    /\ (datePlan.schema => SchemaPreservation) /\ datePlan.ledgers.dated \subseteq dated
    /\ unfinished = 0 /\ ~Leased
    /\ dateRec' = [dateRec EXCEPT !.status = "VERIFIED"] /\ Exit
    /\ UNCHANGED <<native, DateOthers, faults, dateFiles, entry, installed, evidence, dated, datePlan, deployRec>>

(* except BaseException and finally, as above.                              *)
DatesFail ==
    /\ proc.script = "dates" /\ Fault
    /\ native' \in {native, Survivors("dates")}
    /\ installed' \in Partly
    /\ dateRec' = [dateRec EXCEPT !.status = "FAILED"] /\ Exit
    /\ UNCHANGED <<DateOthers, dateFiles, entry, evidence, dated, datePlan, deployRec>>

--------------------------------------------------------------------------
DateInit ==
    /\ dateFiles = FALSE /\ entry = "old" /\ installed = FALSE /\ evidence = FALSE /\ dated = {}
    /\ datePlan = NoDatePlan
    /\ deployRec = <<>>
    /\ dateRec = NoDateRec

DateNext ==
    \/ DeployInstall \/ DateFilesDeployed \/ DatesDeployed \/ DatesInstalling \/ DatesInstalled \/ DeployInstallFails
    \/ DatePlan \/ DateApply \/ DateBackup \/ DateRegister \/ RegisterDone \/ DateRegistered
    \/ \E s \in {"datedeploy", "dates"} : InstallDone(s)
    \/ \E r \in Runs : DateUpdate(r) \/ UpdateDone(r)
    \/ DatesVerified \/ DatesFail

==============================================================================
