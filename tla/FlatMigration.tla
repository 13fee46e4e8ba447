---------------------------- MODULE FlatMigration ----------------------------
(***************************************************************************)
(* migrate_flat_ontology_graph.py and amend_flat_ontology_stage.py: the    *)
(* reversible flattening of the approved ontology's graph projection.  A   *)
(* stage writes the flat objects under a leased PostgreSQL load, the old   *)
(* revision nodes are removed, the load is finalized and replayed.  Resume *)
(* works from the receipt and the current load, recover restores the old   *)
(* graph and fails the load, amend switches six pipeline files under an    *)
(* interrupted stage.  The load functions are those of SQL 028.            *)
(***************************************************************************)
EXTENDS MaintenanceWindow

CONSTANTS Revisions,   \* revision nodes of the sealed catalogue
          Successors,  \* the pipeline files an amendment replaces
          MaxLoads,    \* flat load identifiers
          Deadly       \* jobs whose JVM may die without recording a failed load

ASSUME FlatAssumption == MaxLoads \in Nat /\ MaxLoads > 4 /\ Deadly \subseteq {"stage", "finalize", "replay"}

LoadIds == 1..MaxLoads

VARIABLES revision,  \* each revision node: "orig", "gone", or "new" (restored, new element ID)
          flat,      \* flat fields and rerouted edges: "none", "part", "whole"
          switched,  \* successor files in the container
          flatPlan,  \* the reviewed manifest
          flatRec    \* receipt.json

flatVars == <<revision, flat, switched, flatPlan, flatRec>>

Original == [r \in Revisions |-> "orig"]
Removed == [r \in Revisions |-> "gone"]
NoFlatPlan == [made |-> FALSE, data |-> 0, guards |-> {}]
NoFlatRec == [status |-> "NONE", phase |-> "NONE", plan |-> NoFlatPlan, backup |-> FALSE,
              exported |-> FALSE, proof |-> FALSE, adapter |-> FALSE, deployed |-> FALSE,
              sql |-> FALSE, load |-> 0, intent |-> FALSE, previous |-> 0, inventory |-> FALSE,
              removed |-> FALSE, post |-> FALSE, base |-> Original, amend |-> "none", old |-> 0]

FlatEvent(phase, r) == flatRec' = [r EXCEPT !.phase = phase]
FlatAt(p) == At("flat", p)
FlatStep(from, phase, r, to) == FlatAt(from) /\ FlatEvent(phase, r) /\ Goto(to)
FlatOthers == <<native, fence, guards, artifacts, pgVars, faults>>
FlatGraph == <<revision, flat, switched, flatPlan>>

(* require_old_tables: source rows as planned and no writer lease; while    *)
(* the migration holds its own lease require_staged_tables leaves it out.   *)
OldTables(p) == data = p.data /\ ~Leased
StagedTables(p) == data = p.data

(* require_flat_preserved(base, now, removed=True / False / None).          *)
PreservedRemoved == revision = Removed /\ flat = "whole"
PreservedIntact(base) == revision = base /\ flat = "whole"
PreservedPartial(base) == flat = "whole" /\ \A r \in Revisions : revision[r] \in {base[r], "gone"}

(* require_load_ownership. *)
Owned == Leased =>
    IF flatRec.load # 0 THEN load.id = flatRec.load
    ELSE flatRec.intent /\ load.id # flatRec.previous

(* sealed_amendment: the files an amendment replaces, the load it began on. *)
SealedAmendment == [files |-> Successors, old |-> flatRec.old]

(* successor_hashes and require_artifact_binding: an unfinished amendment   *)
(* is refused, a finished one must be what is deployed.                     *)
Bound == flatRec.amend # "sealed"
DeployedBound == artifacts = "new" /\ switched = IF flatRec.amend = "complete" THEN SealedAmendment.files ELSE {}

--------------------------------------------------------------------------
(* execute, make_plan *)

(* capture_legacy_inventory: the sealed rows of PostgreSQL, one for each    *)
(* original revision; prove_legacy_backing: every revision in the graph is  *)
(* one of them; baseline_preconditions: no flat field or edge is there yet. *)
LegacyInventory == Original
ProveLegacyBacking == revision = LegacyInventory
BaselinePreconditions == flat = "none"

(* catalogue_baseline: approval, load, readers, exports and old tables.     *)
CatalogueBaseline == [made |-> TRUE, data |-> data, guards |-> guards]

FlatMakePlan ==
    /\ proc = Free /\ native = {} /\ Quiet /\ fence["flat"] = 0
    /\ ProveLegacyBacking /\ BaselinePreconditions
    /\ flatPlan' = CatalogueBaseline
    /\ UNCHANGED <<windowVars, revision, flat, switched, flatRec>>

FlatApply ==
    /\ flatPlan.made /\ flatRec.status = "NONE" /\ fence["flat"] = 0
    /\ Start("flat", "fresh", 1, FALSE) /\ Quiet
    /\ flatRec' = [NoFlatRec EXCEPT !.status = "RUNNING", !.plan = flatPlan]
    /\ UNCHANGED <<FlatOthers, FlatGraph>>

(* run --reviewed-manifest: plan and apply under one lock.                  *)
FlatRun ==
    /\ flatRec.status = "NONE" /\ fence["flat"] = 0 /\ ProveLegacyBacking /\ BaselinePreconditions
    /\ Start("flat", "fresh", 1, FALSE) /\ Quiet
    /\ flatPlan' = CatalogueBaseline
    /\ flatRec' = [NoFlatRec EXCEPT !.status = "RUNNING", !.plan = flatPlan']
    /\ UNCHANGED <<FlatOthers, revision, flat, switched>>

(* A bound on the operator: once its fence is lifted a migration is not     *)
(* resumed (resume would fence again, and the sources have moved on).       *)
FlatResume ==
    /\ flatRec.phase # "NONE" /\ Bound
    /\ fence["flat"] = 1 \/ load.state = "NONE"
    /\ Start("flat", "fresh", 1, TRUE)
    /\ UNCHANGED <<FlatOthers, flatVars>>

--------------------------------------------------------------------------
(* apply_plan, up to the fence *)

FreshAdmits ==
    /\ proc.again \/ (revision = Original /\ flat = "none" /\ data = flatRec.plan.data)
    /\ (flatRec.load = 0 \/ flatRec.status = "RECOVERED_FENCED") => OldTables(flatRec.plan)

FlatFreshness ==
    /\ FreshAdmits
    /\ FlatStep("fresh", "FRESHNESS_VERIFIED", flatRec, "backup")
    /\ UNCHANGED <<FlatOthers, FlatGraph>>

FlatBackup ==
    /\ FlatStep("backup", "DATABASE_BACKUP_VALIDATED", [flatRec EXCEPT !.backup = TRUE], "recovery")
    /\ UNCHANGED <<FlatOthers, FlatGraph>>

FlatExportRecovery ==
    /\ FlatStep("recovery", "TYPED_RECOVERY_EXPORTED", [flatRec EXCEPT !.exported = TRUE], "prove")
    /\ UNCHANGED <<FlatOthers, FlatGraph>>

(* A proof given or kept, or restore_backup in a disposable container.      *)
FlatRestoreProven ==
    /\ FlatStep("prove", "RESTORE_PROVEN", [flatRec EXCEPT !.proof = TRUE], "adapter")
    /\ UNCHANGED <<FlatOthers, FlatGraph>>

FlatInstallAdapter ==
    /\ \/ flatRec.adapter /\ UNCHANGED guards
       \/ /\ ~flatRec.adapter /\ "batchfree" \in guards
          /\ guards \in {flatRec.plan.guards, Migrations}
          /\ guards' = Migrations
    /\ FlatStep("adapter", "SCHEDULER_GUARD_DEPLOYED", [flatRec EXCEPT !.adapter = TRUE], "fence")
    /\ UNCHANGED <<native, fence, artifacts, pgVars, faults, FlatGraph>>

(* Mutant: a resumed migration takes the fence to be there already.         *)
FlatWriteFenceOnce ==
    /\ FlatAt("fence") /\ Goto("fenced")
    /\ fence' = IF proc.again THEN fence ELSE [fence EXCEPT !["flat"] = 1]
    /\ UNCHANGED <<native, guards, artifacts, pgVars, faults, flatVars>>

FlatWriteFence ==
    /\ FlatAt("fence") /\ Goto("fenced")
    /\ fence' = [fence EXCEPT !["flat"] = 1]
    /\ UNCHANGED <<native, guards, artifacts, pgVars, faults, flatVars>>

FlatWritersFenced ==
    /\ FlatStep("fenced", "WRITERS_FENCED", flatRec, "deploy")
    /\ UNCHANGED <<FlatOthers, FlatGraph>>

FlatDeploy ==
    /\ \/ flatRec.deployed /\ DeployedBound /\ UNCHANGED artifacts
       \/ ~flatRec.deployed /\ Quiet /\ artifacts' = "new"
    /\ FlatStep("deploy", "PUBLIC_WRITERS_DEPLOYED", [flatRec EXCEPT !.deployed = TRUE], "sql")
    /\ UNCHANGED <<native, fence, guards, pgVars, faults, FlatGraph>>

FlatInstallSql ==
    /\ flatRec.sql \/ OldTables(flatRec.plan)
    /\ gate' = TRUE
    /\ FlatStep("sql", "FOCUSED_SQL_INSTALLED", [flatRec EXCEPT !.sql = TRUE], "load")
    /\ UNCHANGED <<native, fence, guards, artifacts, data, unfinished, load, faults, FlatGraph>>

--------------------------------------------------------------------------
(* apply_plan, the load *)

(* begin_flat_graph_load: a new token, leased.  Identifiers nothing refers  *)
(* to any more are used again, so no number of attempts exhausts them.      *)
FreshLoad == CHOOSE i \in LoadIds : i \notin {load.id, flatRec.load, flatRec.previous, flatRec.old}
BeginLoad == load' = [id |-> FreshLoad, state |-> "RUNNING"]

NeedsReload == load.state = "FAILED" /\ revision = Removed
NeedsStage == load.state = "NONE" \/ (load.state = "FAILED" /\ revision # Removed)

FlatReload ==
    /\ FlatAt("load") /\ NeedsReload /\ OldTables(flatRec.plan)
    /\ flatRec.inventory /\ PreservedRemoved
    /\ FlatEvent("FAILED_RELOAD_FLAT_STATE_PROVEN", [flatRec EXCEPT !.post = TRUE])
    /\ Launch("reload") /\ BeginLoad
    /\ UNCHANGED <<fence, guards, artifacts, data, unfinished, gate, faults, FlatGraph>>

(* Mutant: the intent of the new token is not recorded before it.           *)
StageUnrecorded ==
    /\ FlatAt("load") /\ NeedsStage
    /\ load.state = "FAILED" => OldTables(flatRec.plan)
    /\ FlatEvent("FLAT_STAGING_STARTING", [flatRec EXCEPT !.load = 0])
    /\ Goto("stage") /\ UNCHANGED <<FlatOthers, FlatGraph>>

(* starting_flat_stage: the durable intent precedes the token.              *)
FlatStageStarting ==
    /\ FlatAt("load") /\ NeedsStage
    /\ load.state = "FAILED" => OldTables(flatRec.plan)
    /\ FlatEvent("FLAT_STAGING_STARTING",
                 [flatRec EXCEPT !.intent = TRUE, !.previous = load.id, !.load = 0])
    /\ Goto("stage") /\ UNCHANGED <<FlatOthers, FlatGraph>>

FlatStage ==
    /\ FlatAt("stage") /\ Launch("stage") /\ BeginLoad
    /\ UNCHANGED <<fence, guards, artifacts, data, unfinished, gate, faults, flatVars>>

FlatKeepLoad ==
    /\ FlatAt("load") /\ Owned
    /\ load.state = "STAGED" \/ (load.state = "VERIFIED" /\ flatRec.post)
    /\ Goto("capture") /\ UNCHANGED <<FlatOthers, flatVars>>

(* stage_flat_release.hwf *)
StageWrites ==
    /\ Running("flat", "stage") /\ flat = "none" /\ flat' = "part"
    /\ UNCHANGED <<windowVars, revision, switched, flatPlan, flatRec>>

StageDone ==
    /\ Running("flat", "stage") /\ flat # "none" /\ \A r \in Revisions : revision[r] # "gone"
    /\ flat' = "whole"
    /\ load' = [load EXCEPT !.state = "STAGED"]
    /\ Join("flat", "stage", "capture")
    /\ UNCHANGED <<fence, guards, artifacts, data, unfinished, gate, faults, revision, switched,
                   flatPlan, flatRec>>

FlatCapture ==
    /\ FlatAt("capture") /\ load.state \in {"STAGED", "VERIFIED"}
    /\ FlatEvent("SEALED_FLAT_INVENTORY_CAPTURED",
                 [flatRec EXCEPT !.load = load.id, !.inventory = TRUE])
    /\ Goto("preserved") /\ UNCHANGED <<FlatOthers, FlatGraph>>

StagedPreserved == IF proc.again THEN PreservedPartial(flatRec.base) ELSE PreservedIntact(flatRec.base)

(* The staged graph against the archive (or the recovered graph), then the  *)
(* removal job; a VERIFIED load has nothing left to remove.                 *)
FlatStartRemoval ==
    /\ FlatAt("preserved") /\ load.state = "STAGED"
    /\ StagedPreserved /\ StagedTables(flatRec.plan)
    /\ FlatEvent("ACCOUNTED_REMOVAL_STARTING", flatRec)
    /\ Launch("remove")
    /\ UNCHANGED <<fence, guards, artifacts, pgVars, faults, FlatGraph>>

FlatNothingToRemove ==
    /\ load.state = "VERIFIED" /\ PreservedRemoved
    /\ FlatStep("preserved", "STRICT_FLAT_PROJECTION_VERIFIED", flatRec, "replay")
    /\ UNCHANGED <<FlatOthers, FlatGraph>>

(* deletion_queries: one revision and its attachments per transaction.      *)
RemoveRevision ==
    /\ Running("flat", "remove")
    /\ \E r \in Revisions : revision[r] # "gone" /\ revision' = [revision EXCEPT ![r] = "gone"]
    /\ UNCHANGED <<windowVars, flat, switched, flatPlan, flatRec>>

RevisionsRemoved ==
    /\ Running("flat", "remove") /\ revision = Removed
    /\ Join("flat", "remove", "removed")
    /\ UNCHANGED <<fence, guards, artifacts, pgVars, faults, flatVars>>

FlatPostRemoval ==
    /\ FlatAt("removed") /\ PreservedRemoved /\ StagedTables(flatRec.plan)
    /\ FlatEvent("POST_REMOVAL_INDEPENDENT_PRESERVATION_VERIFIED",
                 [flatRec EXCEPT !.removed = TRUE, !.post = TRUE])
    /\ Launch("finalize")
    /\ UNCHANGED <<fence, guards, artifacts, pgVars, faults, FlatGraph>>

(* finalize_flat_release.hwf: the STAGED token, zero revisions.             *)
FinalizeDone ==
    /\ Running("flat", "finalize") /\ load.state = "STAGED" /\ PreservedRemoved
    /\ load' = [load EXCEPT !.state = "VERIFIED"]
    /\ Join("flat", "finalize", "strict")
    /\ UNCHANGED <<fence, guards, artifacts, data, unfinished, gate, faults, flatVars>>

FlatStrict ==
    /\ FlatStep("strict", "STRICT_FLAT_PROJECTION_VERIFIED", flatRec, "replay")
    /\ UNCHANGED <<FlatOthers, FlatGraph>>

(* load_release.hwf registers a token of its own.                           *)
FlatReplay ==
    /\ FlatAt("replay") /\ Launch("replay") /\ BeginLoad
    /\ UNCHANGED <<fence, guards, artifacts, data, unfinished, gate, faults, flatVars>>

ReplayDone(job, to) ==
    /\ Running("flat", job) /\ PreservedRemoved
    /\ load' = [load EXCEPT !.state = "VERIFIED"]
    /\ Join("flat", job, to)
    /\ UNCHANGED <<fence, guards, artifacts, data, unfinished, gate, faults, flatVars>>

FlatFinalChecks ==
    /\ PreservedRemoved /\ OldTables(flatRec.plan) /\ Readable /\ DeployedBound
    /\ FlatStep("final", "VERIFIED", [flatRec EXCEPT !.status = "VERIFIED"], "unfence")
    /\ UNCHANGED <<FlatOthers, FlatGraph>>

FlatLiftFence ==
    /\ FlatAt("unfence") /\ fence["flat"] = 1
    /\ fence' = [fence EXCEPT !["flat"] = 0]
    /\ Goto("resumed")
    /\ UNCHANGED <<native, guards, artifacts, pgVars, faults, flatVars>>

FlatSchedulerResumed ==
    /\ FlatAt("resumed") /\ FlatEvent("SCHEDULER_RESUMED", flatRec) /\ Exit
    /\ UNCHANGED <<FlatOthers, FlatGraph>>

--------------------------------------------------------------------------
(* A check that refuses, a command or job that fails, an interrupt.         *)

FlatRefusal == CASE FlatAt("fresh") -> ~FreshAdmits
    [] FlatAt("adapter") -> ~flatRec.adapter /\ ("batchfree" \notin guards
                               \/ guards \notin {flatRec.plan.guards, Migrations})
    [] FlatAt("deploy") -> IF flatRec.deployed THEN ~DeployedBound ELSE ~Quiet
    [] FlatAt("sql") -> ~flatRec.sql /\ ~OldTables(flatRec.plan)
    [] FlatAt("load") -> \/ ~Owned \/ load.state = "RUNNING"
                         \/ load.state = "VERIFIED" /\ ~flatRec.post
                         \/ load.state = "FAILED" /\ ~OldTables(flatRec.plan)
                         \/ NeedsReload /\ ~(flatRec.inventory /\ PreservedRemoved)
    [] FlatAt("preserved") -> IF load.state = "VERIFIED" THEN ~PreservedRemoved
                              ELSE ~(StagedPreserved /\ StagedTables(flatRec.plan))
    [] FlatAt("removed") -> ~(PreservedRemoved /\ StagedTables(flatRec.plan))
    [] FlatAt("final") -> ~(PreservedRemoved /\ OldTables(flatRec.plan) /\ DeployedBound)
    [] OTHER -> FALSE

FlatFailed == FlatEvent("FAILED_REVIEW_RECEIPT_BEFORE_RETRY", [flatRec EXCEPT !.status = "FAILED"])

FlatStops ==
    /\ proc.script = "flat" /\ proc.pc # "wait"
    /\ (FlatRefusal /\ UNCHANGED faults) \/ Fault
    /\ FlatFailed /\ Exit
    /\ UNCHANGED <<native, fence, guards, artifacts, pgVars, FlatGraph>>

(* A job fails: "Record failed load" fails a load it still owns; a JVM that *)
(* dies records nothing.  A live process then stops on the exception.       *)
Recorded(job) == job \in {"stage", "finalize", "reload", "replay"}
JobFault(job, dies) ==
    /\ load' = IF Recorded(job) /\ ~dies /\ Leased THEN [load EXCEPT !.state = "FAILED"] ELSE load
    /\ native' = native \ {[by |-> "flat", job |-> job]}
    /\ IF proc.script = "flat" THEN FlatFailed /\ Exit ELSE UNCHANGED <<flatRec, proc>>
    /\ UNCHANGED <<fence, guards, artifacts, data, unfinished, gate, FlatGraph>>

FlatJobFails(job) ==
    /\ Running("flat", job)
    /\ \/ Fault
       \/ job = "stage" /\ (\E r \in Revisions : revision[r] = "gone") /\ UNCHANGED faults
    /\ JobFault(job, FALSE)

FlatJobDies(job) == Running("flat", job) /\ job \in Deadly /\ Fault /\ JobFault(job, TRUE)

(* An interrupt stops the process and leaves its job running.               *)
FlatInterrupted ==
    /\ FlatAt("wait") /\ Fault /\ FlatFailed /\ Exit
    /\ UNCHANGED <<native, fence, guards, artifacts, pgVars, FlatGraph>>

--------------------------------------------------------------------------
(* recover *)

FlatRecover ==
    /\ flatRec.phase # "NONE" /\ fence["flat"] = 1
    /\ Start("flatrecover", "scope", 1, TRUE)
    /\ UNCHANGED <<FlatOthers, flatVars>>

(* Mutant: a load that readers use already is rolled back too.              *)
RollbackAnyLoad == Owned /\ gate /\ data = flatRec.plan.data

(* Not VERIFIED, owned, the flat tables exist, and require_rollback_scope:  *)
(* what is in the graph is original, restored, or proved flat.              *)
RollbackAdmits == load.state # "VERIFIED" /\ Owned /\ gate /\ data = flatRec.plan.data

RecoveryStarting ==
    /\ At("flatrecover", "scope") /\ RollbackAdmits
    /\ FlatEvent("RECOVERY_STARTING", [flatRec EXCEPT !.inventory = TRUE])
    /\ Launch("restore")
    /\ UNCHANGED <<fence, guards, artifacts, pgVars, faults, FlatGraph>>

(* cleanup_flat_edges, then execute_statements: owned fields back to their  *)
(* values, one MERGE per removed revision.                                  *)
CleanupEdges ==
    /\ Running("flatrecover", "restore") /\ flat = "whole" /\ flat' = "part"
    /\ UNCHANGED <<windowVars, revision, switched, flatPlan, flatRec>>

RestoreRevision ==
    /\ Running("flatrecover", "restore") /\ flat # "whole"
    /\ \E r \in Revisions : revision[r] = "gone" /\ revision' = [revision EXCEPT ![r] = "new"]
    /\ UNCHANGED <<windowVars, flat, switched, flatPlan, flatRec>>

RestoreEnds ==
    /\ Running("flatrecover", "restore") /\ flat # "whole"
    /\ \A r \in Revisions : revision[r] # "gone"
    /\ flat' = "none"
    /\ Join("flatrecover", "restore", "restored")
    /\ UNCHANGED <<fence, guards, artifacts, pgVars, faults, revision, switched, flatPlan, flatRec>>

(* require_recovered, prove_legacy_backing, then fail_flat_graph_load.      *)
FailOwnedLoad ==
    /\ At("flatrecover", "restored")
    /\ load' = IF Leased THEN [load EXCEPT !.state = "FAILED"] ELSE load
    /\ Goto("failed load")
    /\ UNCHANGED <<native, fence, guards, artifacts, data, unfinished, gate, faults, flatVars>>

FlatRecovered ==
    /\ At("flatrecover", "failed load") /\ OldTables(flatRec.plan) /\ ~Readable
    /\ FlatEvent("RECOVERED_GRAPH_WRITERS_REMAIN_FENCED",
                 [flatRec EXCEPT !.status = "RECOVERED_FENCED", !.base = revision, !.load = load.id])
    /\ Exit
    /\ UNCHANGED <<FlatOthers, FlatGraph>>

FlatRecoverStops ==
    /\ proc.script = "flatrecover"
    /\ \/ Fault /\ native' \in {native, Survivors("flatrecover")}
       \/ At("flatrecover", "scope") /\ ~RollbackAdmits /\ UNCHANGED <<faults, native>>
    /\ FlatEvent("RECOVERY_FAILED_FENCE_RETAINED", [flatRec EXCEPT !.status = "FAILED"])
    /\ Exit
    /\ UNCHANGED <<fence, guards, artifacts, pgVars, FlatGraph>>

--------------------------------------------------------------------------
(* amend_flat_ontology_stage.py *)

Interrupted == load.state \in {"RUNNING", "FAILED"}

(* prove_partial: quiescent, rows as planned, readers closed, every         *)
(* original revision in place, every flat edge present.                     *)
PartialProven ==
    /\ native = {} /\ unfinished = 0 /\ data = flatRec.plan.data /\ ~Readable
    /\ revision = Original /\ flat # "none"

FlatAmend ==
    /\ flatRec.phase # "NONE" /\ fence["flat"] = 1 /\ flatRec.amend # "complete"
    /\ Interrupted /\ ~flatRec.post /\ ~flatRec.removed
    /\ PartialProven /\ artifacts = "new" /\ (flatRec.amend = "sealed" \/ switched = {})
    /\ Start("amend", "switch", 1, flatRec.amend = "sealed")
    /\ FlatEvent("SUCCESSOR_DEPLOYMENT_STARTING",
                 [flatRec EXCEPT !.amend = "sealed", !.inventory = TRUE, !.old = load.id])
    /\ flatRec.amend = "sealed" => SealedAmendment.old = load.id
    /\ UNCHANGED <<FlatOthers, FlatGraph>>

SwitchFile ==
    /\ At("amend", "switch")
    /\ \E f \in SealedAmendment.files \ switched : switched' = switched \cup {f}
    /\ FlatEvent("SUCCESSOR_FILE_SWITCHED", flatRec)
    /\ UNCHANGED <<proc, FlatOthers, revision, flat, flatPlan>>

AmendFailsLoad ==
    /\ At("amend", "switch") /\ switched = SealedAmendment.files /\ native = {} /\ Interrupted
    /\ FlatEvent("SUCCESSOR_OLD_TOKEN_FAILURE_INTENT", flatRec)
    /\ load' = [load EXCEPT !.state = "FAILED"]
    /\ Goto("verify")
    /\ UNCHANGED <<native, fence, guards, artifacts, data, unfinished, gate, faults, FlatGraph>>

AmendVerified ==
    /\ At("amend", "verify") /\ OldTables(flatRec.plan) /\ ~Readable
    /\ FlatEvent("SUCCESSOR_VERIFIED_FRESH_STAGE_REQUIRED",
                 [flatRec EXCEPT !.status = "FAILED_RETRY_READY_FENCED", !.amend = "complete",
                                 !.load = load.id])
    /\ Exit
    /\ UNCHANGED <<FlatOthers, FlatGraph>>

AmendStops ==
    /\ proc.script = "amend" /\ Fault
    /\ FlatEvent("SUCCESSOR_FAILED_FENCE_RETAINED", [flatRec EXCEPT !.status = "FAILED"])
    /\ Exit
    /\ UNCHANGED <<native, fence, guards, artifacts, pgVars, FlatGraph>>

--------------------------------------------------------------------------
FlatInit ==
    /\ revision = Original
    /\ flat = "none"
    /\ switched = {}
    /\ flatPlan = NoFlatPlan
    /\ flatRec = NoFlatRec

FlatOperator == FlatMakePlan \/ FlatApply \/ FlatRun \/ FlatResume \/ FlatRecover \/ FlatAmend

FlatSteps ==
    \/ FlatFreshness \/ FlatBackup \/ FlatExportRecovery \/ FlatRestoreProven
    \/ FlatInstallAdapter \/ FlatWriteFence \/ FlatWritersFenced \/ FlatDeploy \/ FlatInstallSql
    \/ FlatReload \/ FlatStageStarting \/ FlatStage \/ FlatKeepLoad \/ FlatCapture
    \/ FlatStartRemoval \/ FlatNothingToRemove \/ FlatPostRemoval \/ FlatStrict \/ FlatReplay
    \/ FlatFinalChecks \/ FlatLiftFence \/ FlatSchedulerResumed
    \/ RecoveryStarting \/ FailOwnedLoad \/ FlatRecovered
    \/ SwitchFile \/ AmendFailsLoad \/ AmendVerified

FlatJobs ==
    \/ StageWrites \/ StageDone \/ RemoveRevision \/ RevisionsRemoved \/ FinalizeDone
    \/ ReplayDone("reload", "capture") \/ ReplayDone("replay", "final")
    \/ CleanupEdges \/ RestoreRevision \/ RestoreEnds

FlatFaults ==
    \/ FlatStops \/ FlatInterrupted \/ FlatRecoverStops \/ AmendStops
    \/ \E job \in {"stage", "remove", "finalize", "reload", "replay"} :
          FlatJobFails(job) \/ FlatJobDies(job)

==============================================================================
