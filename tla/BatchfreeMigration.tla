------------------------- MODULE BatchfreeMigration -------------------------
(***************************************************************************)
(* migrate_batchfree_graph.py: the guarded removal of ingestionBatch and   *)
(* ingestionRecord nodes from the source graph.  A reviewed plan fixes the *)
(* graph, the protected rows and the artifacts; apply backs everything up, *)
(* fences the scheduler, deploys, projects, removes and verifies; resume   *)
(* repeats what its receipt does not show as done; recover puts the        *)
(* removed nodes back and leaves the fence.                                *)
(***************************************************************************)
EXTENDS MaintenanceWindow

CONSTANTS Records, Batches,  \* scaffold nodes of the two labels
          Backed,            \* those PostgreSQL has exact evidence for
          MaxApplies         \* receipts an operator may create

(* source_scope raises when no run is checkpointed, and each has its node.  *)
ASSUME BatchfreeAssumption ==
    MaxApplies \in Nat \ {0} /\ Backed \subseteq Records \cup Batches /\ Batches # {}

Scaffold == Records \cup Batches
Tokens == 1..MaxApplies

VARIABLES scaffold,  \* scaffold nodes in the graph
          direct,    \* the direct projection of every checkpointed run is in the graph
          plan,      \* the reviewed manifest
          receipt    \* receipt.json of each apply, by token

batchVars == <<scaffold, direct, plan, receipt>>

NoPlan == [made |-> FALSE, scaffold |-> {}, data |-> 0, guards |-> {}]
NoReceipt == [status |-> "NONE", phase |-> "NONE", plan |-> NoPlan, backup |-> FALSE,
              recovery |-> {}, exported |-> FALSE, proof |-> FALSE, projected |-> FALSE]

(* event: one durable append, then receipt.json. *)
Event(phase, r) ==
    receipt' = [receipt EXCEPT ![proc.token] = [r EXCEPT !.phase = phase]]
Mine == IF proc.token \in Tokens THEN receipt[proc.token] ELSE NoReceipt
Step(from, phase, r, to) == At("batchfree", from) /\ Event(phase, r) /\ Goto(to)

(* graph_snapshot: one read-only native query per page, checked and joined. *)
GraphSnapshot == [scaffold |-> scaffold, direct |-> direct, data |-> data]

(* require_business_preserved: nothing but scaffolding and direct           *)
(* projections may differ from the planned archive.                         *)
BusinessPreserved(p) == GraphSnapshot.data = p.data

(* preservation, source_scope and require_schema against the manifest.      *)
Protected(p) == data = p.data
Unchanged(p) == GraphSnapshot = [scaffold |-> p.scaffold, direct |-> FALSE, data |-> p.data]

(* pg_evidence: the rows a node's identity and properties are derived from. *)
PgEvidence == Backed
ProveBacking(nodes) == nodes \subseteq PgEvidence

(* prepare_recovery: a MERGE for every planned scaffold node and edge.      *)
RecoveryQueries(p) == p.scaffold

(* deletion_query: records before the batches they hang from.               *)
Deletable(n) == n \in Batches => scaffold \cap Records = {}

--------------------------------------------------------------------------
(* execute, make_plan *)

BatchPlan(snapshot) ==
    /\ proc = Free /\ native = {} /\ Quiet
    /\ fence["batchfree"] = 0
    /\ ProveBacking(snapshot)
    /\ Batches \subseteq snapshot      \* every checkpointed run has its batch node
    /\ plan' = [made |-> TRUE, scaffold |-> snapshot, data |-> data, guards |-> guards]
    /\ UNCHANGED <<windowVars, scaffold, direct, receipt>>

(* A verified preflight supplies the archive while the rows are the same.   *)
BatchPlanFresh == BatchPlan(scaffold)
BatchPlanPreflight == data = 0 /\ BatchPlan(Scaffold)

FenceAdmits(t) == fence["batchfree"] \in {0, t}

BatchApply(t) ==
    /\ plan.made /\ receipt[t].status = "NONE"
    /\ \A u \in Tokens : u < t => receipt[u].status # "NONE"
    /\ Start("batchfree", "fresh", t, FALSE) /\ Quiet
    /\ Protected(plan) /\ FenceAdmits(t)
    /\ receipt' = [receipt EXCEPT ![t] = [NoReceipt EXCEPT !.status = "RUNNING", !.plan = plan]]
    /\ UNCHANGED <<native, fence, guards, artifacts, pgVars, faults, scaffold, direct, plan>>

BatchResume(t) ==
    /\ receipt[t].phase # "NONE"
    /\ Start("batchfree", "fresh", t, TRUE) /\ Quiet
    /\ Protected(receipt[t].plan) /\ FenceAdmits(t)
    /\ UNCHANGED <<native, fence, guards, artifacts, pgVars, faults, batchVars>>

--------------------------------------------------------------------------
(* apply_plan *)

Others == <<native, fence, guards, artifacts, pgVars, faults>>

Freshness ==
    /\ Step("fresh", "FRESHNESS_VERIFIED", Mine, "backup")
    /\ BusinessPreserved(Mine.plan) /\ (proc.again \/ Unchanged(Mine.plan))
    /\ UNCHANGED <<Others, scaffold, direct, plan>>

Backup ==
    /\ \/ Mine.backup /\ At("batchfree", "backup") /\ Goto("recovery") /\ UNCHANGED receipt
       \/ ~Mine.backup /\ Step("backup", "BACKUP_VALIDATED", [Mine EXCEPT !.backup = TRUE], "recovery")
    /\ UNCHANGED <<Others, scaffold, direct, plan>>

ExportRecovery ==
    /\ \/ Mine.exported /\ At("batchfree", "recovery") /\ Goto("prove") /\ UNCHANGED receipt
       \/ /\ ~Mine.exported
          /\ Step("recovery", "RECOVERY_EXPORTED",
                  [Mine EXCEPT !.exported = TRUE, !.recovery = RecoveryQueries(Mine.plan)], "prove")
    /\ UNCHANGED <<Others, scaffold, direct, plan>>

(* The restore proof is given on the command line or kept in the receipt.   *)
RestoreProven ==
    /\ Step("prove", "BACKUP_RESTORE_PROVEN", [Mine EXCEPT !.proof = TRUE], "adapter")
    /\ UNCHANGED <<Others, scaffold, direct, plan>>

InstallAdapter ==
    /\ "flat" \in guards
    /\ guards \in {Mine.plan.guards, Migrations}
    /\ guards' = Migrations
    /\ Step("adapter", "SCHEDULER_GUARD_DEPLOYED", Mine, "fence")
    /\ UNCHANGED <<native, fence, artifacts, pgVars, faults, scaffold, direct, plan>>

(* Mutant: a resumed migration takes the fence to be there already.         *)
WriteFenceOnce ==
    /\ At("batchfree", "fence") /\ Goto("fenced")
    /\ fence' = IF proc.again THEN fence ELSE [fence EXCEPT !["batchfree"] = proc.token]
    /\ UNCHANGED <<native, guards, artifacts, pgVars, faults, batchVars>>

(* The fence file and the event are two writes.                             *)
WriteFence ==
    /\ At("batchfree", "fence") /\ Goto("fenced")
    /\ fence' = [fence EXCEPT !["batchfree"] = IF @ = 0 THEN proc.token ELSE @]
    /\ UNCHANGED <<native, guards, artifacts, pgVars, faults, batchVars>>

WritersFenced ==
    /\ Step("fenced", "WRITERS_FENCED", Mine, "deploy")
    /\ UNCHANGED <<Others, scaffold, direct, plan>>

(* deployment.apply switches the artifacts one by one.                      *)
DeployWriters ==
    /\ At("batchfree", "deploy") /\ Quiet
    /\ \/ artifacts # "new" /\ artifacts' = "mixed" /\ Goto("deployed")
       \/ artifacts = "new" /\ UNCHANGED artifacts /\ Goto("deployed")
    /\ UNCHANGED <<native, fence, guards, pgVars, faults, batchVars>>

WritersDeployed ==
    /\ artifacts' = "new"
    /\ Step("deployed", "PUBLIC_WRITERS_DEPLOYED", Mine, "sql")
    /\ UNCHANGED <<native, fence, guards, pgVars, faults, scaffold, direct, plan>>

InstallSql ==
    /\ Protected(Mine.plan)
    /\ Step("sql", "FOCUSED_SQL_INSTALLED", Mine, "project")
    /\ UNCHANGED <<Others, scaffold, direct, plan>>

(* graph/migrate_source_graph.hwf, once per migration.                      *)
StartProjection ==
    /\ At("batchfree", "project") /\ ~Mine.projected
    /\ Launch("project")
    /\ UNCHANGED <<fence, guards, artifacts, pgVars, faults, batchVars>>

SkipProjection ==
    /\ At("batchfree", "project") /\ Mine.projected /\ Goto("removal")
    /\ UNCHANGED <<Others, batchVars>>

ProjectionDone ==
    /\ Running("batchfree", "project")
    /\ direct' = TRUE
    /\ Join("batchfree", "project", "projected")
    /\ UNCHANGED <<fence, guards, artifacts, pgVars, faults, scaffold, plan, receipt>>

ProjectionVerified ==
    /\ BusinessPreserved(Mine.plan) /\ ProveBacking(scaffold) /\ Protected(Mine.plan)
    /\ Step("projected", "DIRECT_PROJECTION_VERIFIED", [Mine EXCEPT !.projected = TRUE], "removal")
    /\ UNCHANGED <<Others, scaffold, direct, plan>>

(* REMOVAL_STARTING, prove_backing, the intent files and the job.           *)
StartRemoval ==
    /\ At("batchfree", "removal") /\ ProveBacking(scaffold)
    /\ Event("REMOVAL_STARTING", Mine)
    /\ Launch("delete")
    /\ UNCHANGED <<fence, guards, artifacts, pgVars, faults, scaffold, direct, plan>>

(* remove_scaffolding: one bounded transaction at a time.                   *)
RemoveChunk ==
    /\ Running("batchfree", "delete")
    /\ \E n \in scaffold : Deletable(n) /\ scaffold' = scaffold \ {n}
    /\ UNCHANGED <<windowVars, direct, plan, receipt>>

RemovalDone ==
    /\ Running("batchfree", "delete") /\ scaffold = {}
    /\ Join("batchfree", "delete", "removed")
    /\ UNCHANGED <<fence, guards, artifacts, pgVars, faults, batchVars>>

(* The replay of one historical run through the deployed writers adds no    *)
(* scaffolding and no business data.                                        *)
ReplayVerified ==
    /\ artifacts = "new"
    /\ Step("removed", "BATCHFREE_FUTURE_REPLAY_VERIFIED", Mine, "final")
    /\ UNCHANGED <<Others, scaffold, direct, plan>>

FinalChecks ==
    /\ BusinessPreserved(Mine.plan) /\ scaffold = {} /\ Protected(Mine.plan) /\ direct
    /\ artifacts = "new" /\ Quiet
    /\ Step("final", "VERIFIED", [Mine EXCEPT !.status = "VERIFIED"], "unfence")
    /\ UNCHANGED <<Others, scaffold, direct, plan>>

LiftFence ==
    /\ At("batchfree", "unfence") /\ fence["batchfree"] = proc.token
    /\ fence' = [fence EXCEPT !["batchfree"] = 0]
    /\ Goto("resumed")
    /\ UNCHANGED <<native, guards, artifacts, pgVars, faults, batchVars>>

SchedulerResumed ==
    /\ At("batchfree", "resumed") /\ Event("SCHEDULER_RESUMED", Mine) /\ Exit
    /\ UNCHANGED <<Others, scaffold, direct, plan>>

(* except BaseException: a check that fails, or a command or job that does. *)
Refusal == CASE At("batchfree", "fresh") -> ~BusinessPreserved(Mine.plan) \/ ~(proc.again \/ Unchanged(Mine.plan))
             [] At("batchfree", "adapter") -> "flat" \notin guards \/ guards \notin {Mine.plan.guards, Migrations}
             [] At("batchfree", "deploy") -> ~Quiet
             [] At("batchfree", "sql") -> ~Protected(Mine.plan)
             [] At("batchfree", "projected") -> ~BusinessPreserved(Mine.plan) \/ ~ProveBacking(scaffold)
             [] At("batchfree", "removal") -> ~ProveBacking(scaffold)
             [] At("batchfree", "final") -> ~BusinessPreserved(Mine.plan) \/ scaffold # {} \/ ~direct
             [] OTHER -> FALSE

BatchStops ==
    /\ proc.script = "batchfree"
    /\ \/ Refusal /\ UNCHANGED <<faults, native>>
       \/ Fault /\ native' \in {native, Survivors("batchfree")}
    /\ Event("FAILED_REVIEW_RECEIPT_BEFORE_RETRY", [Mine EXCEPT !.status = "FAILED"])
    /\ Exit
    /\ UNCHANGED <<fence, guards, artifacts, pgVars, scaffold, direct, plan>>

--------------------------------------------------------------------------
(* recover: MERGE every exported node and edge again, then the same checks. *)

BatchRecover(t) ==
    /\ receipt[t].exported /\ fence["batchfree"] = t /\ Quiet
    /\ Start("batchrecover", "wait", t, FALSE)
    /\ native' = {[by |-> "batchrecover", job |-> "restore"]}
    /\ UNCHANGED <<fence, guards, artifacts, pgVars, faults, batchVars>>

RestoreChunk ==
    /\ Running("batchrecover", "restore")
    /\ \E t \in Tokens, n \in Scaffold :
          /\ fence["batchfree"] = t
          /\ n \in receipt[t].recovery \ scaffold
          /\ scaffold' = scaffold \cup {n}
    /\ UNCHANGED <<windowVars, direct, plan, receipt>>

RestoreDone ==
    /\ Running("batchrecover", "restore")
    /\ \A t \in Tokens : fence["batchfree"] = t => receipt[t].recovery \subseteq scaffold
    /\ Join("batchrecover", "restore", "restored")
    /\ UNCHANGED <<fence, guards, artifacts, pgVars, faults, batchVars>>

ScaffoldRecovered ==
    /\ At("batchrecover", "restored")
    /\ ProveBacking(scaffold) /\ BusinessPreserved(Mine.plan) /\ Protected(Mine.plan)
    /\ Event("SCAFFOLD_RECOVERED_MIGRATION_PENDING", [Mine EXCEPT !.status = "RECOVERED_FENCED"])
    /\ Exit
    /\ UNCHANGED <<Others, scaffold, direct, plan>>

(* An exception of recover leaves the receipt as it was.                    *)
RecoverStops ==
    /\ proc.script = "batchrecover"
    /\ Fault
    /\ native' \in {native, Survivors("batchrecover")}
    /\ Exit
    /\ UNCHANGED <<fence, guards, artifacts, pgVars, batchVars>>

--------------------------------------------------------------------------
BatchInit ==
    /\ scaffold = Scaffold
    /\ direct = FALSE
    /\ plan = NoPlan
    /\ receipt = [t \in Tokens |-> NoReceipt]

BatchOperator ==
    \/ BatchPlanFresh \/ BatchPlanPreflight
    \/ \E t \in Tokens : BatchApply(t) \/ BatchResume(t) \/ BatchRecover(t)

BatchSteps ==
    \/ Freshness \/ Backup \/ ExportRecovery \/ RestoreProven \/ InstallAdapter
    \/ WriteFence \/ WritersFenced \/ DeployWriters \/ WritersDeployed \/ InstallSql
    \/ StartProjection \/ SkipProjection \/ ProjectionVerified \/ StartRemoval
    \/ ReplayVerified \/ FinalChecks \/ LiftFence \/ SchedulerResumed
    \/ ScaffoldRecovered

BatchJobs == ProjectionDone \/ RemoveChunk \/ RemovalDone \/ RestoreChunk \/ RestoreDone

==============================================================================
