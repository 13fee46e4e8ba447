--------------------------- MODULE AdditiveRollout ---------------------------
(***************************************************************************)
(* deploy_additive_runtime.py with the bundles that configure it, and      *)
(* deploy_performance_runtime.py: a reviewed bundle of SQL functions and   *)
(* public artifacts goes in under the durable fence of the flat migration, *)
(* is read back and released, or stays fenced until readback, rollback or  *)
(* abort ends it.                                                          *)
(***************************************************************************)
EXTENDS MaintenanceWindow

CONSTANTS NArtifacts,   \* artifacts of the bundle, installed in their order
          MaxRollouts,  \* receipts an operator may create
          Bundles       \* "additive" (SQL, v3 prompt), "routine" (SQL with a new helper),
                        \* "reader" (existing bodies only), "performance" (files only)

ASSUME RolloutAssumption ==
    /\ NArtifacts \in Nat \ {0} /\ MaxRollouts \in Nat \ {0}
    /\ Bundles \subseteq {"additive", "routine", "reader", "performance"}

Artifacts == 1..NArtifacts
Rollouts == 1..MaxRollouts

VARIABLES bundle,    \* which bundle this campaign rolls out
          files,     \* each artifact in the container: "old" or "new"
          schema,    \* function bodies: "old", "candidate", "restored"
          v3,        \* a v3 batch, result or candidate review exists
          rollPlan,  \* the reviewed manifest
          rollRec    \* receipt.json of each apply

rollVars == <<bundle, files, schema, v3, rollPlan, rollRec>>

HasSql == bundle # "performance"

(* The validation, capture-reader and entity-reader bundles add no function:*)
(* putting the old bodies back restores the old schema exactly.             *)
KeepsIdentities == bundle = "reader"

(* schema_query fingerprints every function, table, view and trigger;       *)
(* query_state every protected row and what the status queries return.      *)
SchemaQuery == schema
QueryState == data
SnapshotState == [files |-> files, schema |-> SchemaQuery, data |-> QueryState]

NoSnapshot == [files |-> [a \in Artifacts |-> "old"], schema |-> "old", data |-> 0]
NoRollPlan == [made |-> FALSE, before |-> NoSnapshot]
NoRollRec == [status |-> "NONE", before |-> NoSnapshot, observed |-> FALSE, seen |-> NoSnapshot,
              saved |-> FALSE, sqlAttempted |-> FALSE, candidate |-> FALSE, attempted |-> {},
              installed |-> {}, removed |-> FALSE]

Rec == rollRec[proc.token]
Save(r) == rollRec' = [rollRec EXCEPT ![proc.token] = r]
RollAt(p) == At("rollout", p)
UndoAt(p) == At("rollback", p)
RollOthers == <<guards, artifacts, pgVars>>

(* performance.idle: nothing runs, no batch-free migration pending, and the *)
(* deployed adapter honours the fence this tool is about to use.            *)
RollIdle == native = {} /\ Quiet /\ fence["batchfree"] = 0 /\ "flat" \in guards

(* A pending file that was created and never filled: no command parses it.  *)
Unreadable == -1

(* own_fence: O_EXCL, or the one this receipt already owns.  FenceTorn is   *)
(* the kill between the creation of the file and its contents.              *)
OwnFence(t) == fence["flat"] \in {0, t} /\ fence' = [fence EXCEPT !["flat"] = t]

(* require_preserved: rows and queries as before; functions may differ only *)
(* while the bundle's own bodies are allowed to.                            *)
RequirePreserved(before, now, allowed) ==
    now.data = before.data /\ (now.schema = "candidate" => allowed \/ before.schema = "candidate")

(* require_unused_v3, which every later bundle replaces by preserve_v3_use. *)
PreserveV3Use == bundle # "additive"
RequireUnusedV3 == PreserveV3Use \/ ~v3

--------------------------------------------------------------------------
(* plan, apply *)

RollMakePlan ==
    /\ proc = Free /\ RollIdle /\ fence["flat"] = 0
    /\ rollPlan' = [made |-> TRUE, before |-> SnapshotState]
    /\ UNCHANGED <<windowVars, bundle, files, schema, v3, rollRec>>

RollApply(t) ==
    /\ rollPlan.made /\ rollRec[t].status = "NONE"
    /\ \A u \in Rollouts : u < t => rollRec[u].status # "NONE"
    /\ fence["flat"] = 0 /\ RollIdle
    /\ HasSql \/ (rollPlan.before.files = files /\ rollPlan.before.data = QueryState)
    /\ Start("rollout", IF HasSql THEN "fence" ELSE "save", t, FALSE)
    /\ rollRec' = [rollRec EXCEPT ![t] = [NoRollRec EXCEPT !.status = "BACKING_UP",
                                                           !.before = rollPlan.before]]
    /\ UNCHANGED <<native, fence, RollOthers, faults, bundle, files, schema, v3, rollPlan>>

(* Mutant: a bundle without SQL goes in unfenced.                           *)
RollFenceSqlOnly ==
    /\ RollAt("fence") /\ (IF HasSql THEN OwnFence(proc.token) ELSE UNCHANGED fence)
    /\ Goto(IF HasSql THEN "observe" ELSE "recheck")
    /\ UNCHANGED <<native, RollOthers, faults, rollVars>>

RollFence ==
    /\ RollAt("fence") /\ OwnFence(proc.token)
    /\ Goto(IF HasSql THEN "observe" ELSE "recheck")
    /\ UNCHANGED <<native, RollOthers, faults, rollVars>>

RollObserve ==
    /\ RollAt("observe") /\ Goto("check")
    /\ Save([Rec EXCEPT !.observed = TRUE, !.seen = SnapshotState])
    /\ UNCHANGED <<native, fence, RollOthers, faults, bundle, files, schema, v3, rollPlan>>

(* Against the plan; the original bytes and the database are saved; the     *)
(* receipt admits that SQL may have run before any SQL runs.                *)
Planned == Rec.seen = Rec.before /\ RequireUnusedV3
BackupDatabase(r) == [r EXCEPT !.saved = TRUE]
RollChecked ==
    /\ RollAt("check") /\ Planned /\ Goto("sql")
    /\ Save([BackupDatabase(Rec) EXCEPT !.sqlAttempted = TRUE, !.status = "SQL_ATTEMPTED"])
    /\ UNCHANGED <<native, fence, RollOthers, faults, bundle, files, schema, v3, rollPlan>>

(* performance.apply saves first, fences, then checks once more.            *)
RollSave ==
    /\ RollAt("save") /\ files = Rec.before.files /\ Goto("fence")
    /\ Save([Rec EXCEPT !.saved = TRUE])
    /\ UNCHANGED <<native, fence, RollOthers, faults, bundle, files, schema, v3, rollPlan>>

RollRecheck ==
    /\ RollAt("recheck") /\ files = Rec.before.files /\ Goto("files")
    /\ Save([Rec EXCEPT !.status = "INSTALLING"])
    /\ UNCHANGED <<native, fence, RollOthers, faults, bundle, files, schema, v3, rollPlan>>

(* One transaction; its output carries the fingerprint the receipt keeps.   *)
RollSqlCommits ==
    /\ RollAt("sql") /\ Goto("committed")
    /\ schema' = "candidate"
    /\ UNCHANGED <<native, fence, RollOthers, faults, bundle, files, v3, rollPlan, rollRec>>

RollSqlRecorded ==
    /\ RollAt("committed") /\ Goto("files")
    /\ Save([Rec EXCEPT !.candidate = TRUE, !.status = "SQL_COMMITTED"])
    /\ UNCHANGED <<native, fence, RollOthers, faults, bundle, files, schema, v3, rollPlan>>

(* write_runtime and replace: intent, atomic rename, then the receipt.      *)
Replace(a, content) == files' = [files EXCEPT ![a] = content]
Pending == {a \in Artifacts : files[a] # "new"}
First(S) == CHOOSE a \in S : \A b \in S : a <= b
Last(S) == CHOOSE a \in S : \A b \in S : a >= b

RollIntent ==
    /\ RollAt("files") /\ Rec.installed # Artifacts /\ Goto("write")
    /\ Save([Rec EXCEPT !.attempted = @ \cup {First(Artifacts \ Rec.installed)}])
    /\ UNCHANGED <<native, fence, RollOthers, faults, bundle, files, schema, v3, rollPlan>>

RollWrite ==
    /\ RollAt("write") /\ Goto("written")
    /\ Replace(First(Artifacts \ Rec.installed), "new")
    /\ UNCHANGED <<native, fence, RollOthers, faults, bundle, schema, v3, rollPlan, rollRec>>

RollWritten ==
    /\ RollAt("written") /\ Goto("files")
    /\ Save([Rec EXCEPT !.installed = @ \cup {First(Artifacts \ @)}])
    /\ UNCHANGED <<native, fence, RollOthers, faults, bundle, files, schema, v3, rollPlan>>

RollInstalled ==
    /\ RollAt("files") /\ Rec.installed = Artifacts /\ Goto("readback")
    /\ Save([Rec EXCEPT !.status = "INSTALLED_PENDING_READBACK"])
    /\ UNCHANGED <<native, fence, RollOthers, faults, bundle, files, schema, v3, rollPlan>>

--------------------------------------------------------------------------
(* readback, inside apply and as a command of its own *)

(* load: the receipt exists and parses.                                     *)
Loads(t) == t \in Rollouts /\ rollRec[t].status \notin {"NONE", "TORN"}

ReadbackStart(t) ==
    /\ Loads(t) /\ HasSql /\ RollIdle
    /\ IF rollRec[t].removed THEN fence["flat"] \in {0, t} /\ UNCHANGED fence ELSE OwnFence(t)
    /\ Start("readback", "readback", t, FALSE)
    /\ UNCHANGED <<native, RollOthers, faults, rollVars>>

ReadsBack ==
    /\ RequirePreserved(Rec.before, SnapshotState, TRUE)
    /\ Pending = {}
    /\ HasSql => Rec.candidate /\ schema = "candidate"

Readback ==
    /\ proc.script \in {"rollout", "readback"} /\ proc.pc = "readback" /\ ReadsBack
    /\ Save([Rec EXCEPT !.status = "VERIFIED"])
    /\ Goto(IF fence["flat"] = proc.token THEN "release" ELSE "released")
    /\ UNCHANGED <<native, fence, RollOthers, faults, bundle, files, schema, v3, rollPlan>>

ReleaseFence ==
    /\ proc.script \in {"rollout", "readback", "rollback"} /\ proc.pc = "release"
    /\ fence["flat"] = proc.token
    /\ fence' = [fence EXCEPT !["flat"] = 0]
    /\ Goto("released")
    /\ UNCHANGED <<native, RollOthers, faults, rollVars>>

Released ==
    /\ proc.script \in {"rollout", "readback", "rollback"} /\ proc.pc = "released"
    /\ Save([Rec EXCEPT !.removed = TRUE]) /\ Exit
    /\ UNCHANGED <<native, fence, RollOthers, faults, bundle, files, schema, v3, rollPlan>>

RollRefusal ==
    \/ RollAt("check") /\ ~Planned
    \/ RollAt("save") /\ files # Rec.before.files
    \/ RollAt("readback") /\ ~ReadsBack

(* sql keeps the output of every statement in a file beside the receipt.    *)
OutputOnDisk == HasSql /\ proc.pc \in {"sql", "committed"}

(* except BaseException of apply.  The copy of the receipt it writes is the *)
(* one from before readback; a lost client may still have left the SQL      *)
(* output on disk.                                                          *)
RollStops ==
    /\ proc.script = "rollout"
    /\ (RollRefusal /\ UNCHANGED faults) \/ Fault
    /\ \E found \in BOOLEAN :
          /\ found => OutputOnDisk
          /\ Save([Rec EXCEPT !.status = IF proc.pc \in {"save", "fence"} THEN @ ELSE "FAILED_FENCED",
                              !.candidate = @ \/ found, !.removed = FALSE])
    /\ Exit
    /\ UNCHANGED <<native, fence, RollOthers, bundle, files, schema, v3, rollPlan>>

(* readback and abort raise without touching the receipt.                   *)
ReadbackStops ==
    /\ \/ At("readback", "readback") /\ ((~ReadsBack /\ UNCHANGED faults) \/ Fault)
       \/ proc.script = "abort" /\ Fault
    /\ Exit
    /\ UNCHANGED <<native, fence, RollOthers, rollVars>>

--------------------------------------------------------------------------
(* abort_unchanged *)

AbortAdmits(r) == RollIdle /\ ~r.sqlAttempted /\ r.attempted = {}

AbortStart(t) ==
    /\ Loads(t) /\ HasSql /\ AbortAdmits(rollRec[t]) /\ OwnFence(t)
    /\ Start("abort", "check", t, FALSE)
    /\ UNCHANGED <<native, RollOthers, faults, rollVars>>

Untouched(r) == SnapshotState = IF r.observed THEN r.seen ELSE r.before

AbortUnchanged ==
    /\ At("abort", "check") /\ Untouched(Rec)
    /\ Save([Rec EXCEPT !.status = "ABORTED_UNCHANGED"])
    /\ proc' = [proc EXCEPT !.script = "rollback", !.pc = "release"]
    /\ UNCHANGED <<native, fence, RollOthers, faults, bundle, files, schema, v3, rollPlan>>

AbortRefused ==
    /\ At("abort", "check") /\ ~Untouched(Rec) /\ Exit
    /\ UNCHANGED <<native, fence, RollOthers, faults, rollVars>>

--------------------------------------------------------------------------
(* rollback *)

(* restored_schema: candidate, original or half-restored bodies only.       *)
RestoredSchema(r) ==
    IF KeepsIdentities \/ r.before.schema = "candidate" THEN r.before.schema ELSE "restored"
KnownSchema(r) == schema = r.before.schema \/ (r.candidate /\ schema \in {"candidate", RestoredSchema(r)})

(* Mutants: rows of the new functions are not looked for; only a rollout    *)
(* that was verified can be taken back.                                     *)
RollbackUnchecked(r) == RollIdle /\ r.saved /\ (HasSql => r.sqlAttempted /\ KnownSchema(r))
RollbackVerifiedOnly(r) == RollbackUnchecked(r) /\ r.status = "VERIFIED" /\ RequireUnusedV3
                           /\ RequirePreserved(r.before, SnapshotState, TRUE)

RollbackAdmits(r) ==
    /\ RollIdle /\ r.saved
    /\ HasSql => /\ r.sqlAttempted /\ RequireUnusedV3
                 /\ RequirePreserved(r.before, SnapshotState, TRUE) /\ KnownSchema(r)

RollbackStart(t) ==
    /\ Loads(t) /\ RollbackAdmits(rollRec[t]) /\ OwnFence(t)
    /\ Start("rollback", IF HasSql THEN "functions" ELSE "files", t, FALSE)
    /\ rollRec' = [rollRec EXCEPT ![t].status = "ROLLING_BACK"]
    /\ UNCHANGED <<native, RollOthers, faults, bundle, files, schema, v3, rollPlan>>

RestoreFunctions ==
    /\ UndoAt("functions") /\ Goto("files")
    /\ schema' = IF schema = "candidate" THEN RestoredSchema(Rec) ELSE schema
    /\ UNCHANGED <<native, fence, RollOthers, faults, bundle, files, v3, rollPlan, rollRec>>

Changed == {a \in Artifacts : files[a] # Rec.before.files[a]}

RestoreFile ==
    /\ UndoAt("files") /\ Changed # {}
    /\ Replace(Last(Changed), Rec.before.files[Last(Changed)])
    /\ UNCHANGED <<proc, native, fence, RollOthers, faults, bundle, schema, v3, rollPlan, rollRec>>

RolledBack ==
    /\ UndoAt("files") /\ Changed = {}
    /\ HasSql => RequirePreserved(Rec.before, SnapshotState, FALSE)
    /\ Save([Rec EXCEPT !.status = "ROLLED_BACK", !.installed = {}]) /\ Goto("release")
    /\ UNCHANGED <<native, fence, RollOthers, faults, bundle, files, schema, v3, rollPlan>>

RollbackFails ==
    /\ proc.script = "rollback" /\ Fault
    /\ Save([Rec EXCEPT !.status = "ROLLBACK_FAILED_FENCED"]) /\ Exit
    /\ UNCHANGED <<native, fence, RollOthers, bundle, files, schema, v3, rollPlan>>

--------------------------------------------------------------------------
(* killed in the middle of a file *)

(* write_json truncates and writes; the handlers of apply and rollback      *)
(* write at whatever step they stop.                                        *)
WritesReceipt ==
    \/ proc.script \in {"rollout", "rollback"}
    \/ At("readback", "readback") /\ ReadsBack
    \/ At("readback", "released")
    \/ At("abort", "check") /\ Untouched(Rec)

ReceiptTorn ==
    /\ WritesReceipt /\ Fault
    /\ Save([NoRollRec EXCEPT !.status = "TORN"]) /\ Exit
    /\ UNCHANGED <<native, fence, RollOthers, bundle, files, schema, v3, rollPlan>>

(* The commands that raise the fence: apply, and any of the others on a     *)
(* receipt that does not own it.                                            *)
RaisesFence ==
    \/ RollAt("fence")
    \/ proc = Free /\ \E t \in Rollouts :
          /\ Loads(t)
          /\ \/ HasSql /\ RollIdle /\ ~rollRec[t].removed
             \/ HasSql /\ AbortAdmits(rollRec[t])
             \/ RollbackAdmits(rollRec[t])

FenceTorn ==
    /\ RaisesFence /\ fence["flat"] = 0 /\ Fault
    /\ fence' = [fence EXCEPT !["flat"] = Unreadable] /\ Exit
    /\ UNCHANGED <<native, RollOthers, rollVars>>

(* A supervisor that takes the lock uses the new prompt: its rows stay.     *)
UseV3 ==
    /\ proc = Free /\ native = {} /\ schema = "candidate" /\ data < MaxRefresh
    /\ v3' = TRUE /\ data' = data + 1
    /\ UNCHANGED <<proc, native, fence, guards, artifacts, unfinished, load, gate, faults,
                   bundle, files, schema, rollPlan, rollRec>>

--------------------------------------------------------------------------
RollInit ==
    /\ bundle \in Bundles
    /\ files = [a \in Artifacts |-> "old"]
    /\ schema = "old" /\ v3 = FALSE
    /\ rollPlan = NoRollPlan
    /\ rollRec = [t \in Rollouts |-> NoRollRec]

RollOperator ==
    \/ RollMakePlan
    \/ \E t \in Rollouts : RollApply(t) \/ ReadbackStart(t) \/ AbortStart(t) \/ RollbackStart(t)

RollSteps ==
    \/ RollFence \/ RollObserve \/ RollChecked \/ RollSave \/ RollRecheck \/ RollSqlCommits
    \/ RollSqlRecorded \/ RollIntent \/ RollWrite \/ RollWritten \/ RollInstalled \/ Readback
    \/ ReleaseFence \/ Released \/ AbortUnchanged \/ AbortRefused \/ RestoreFunctions
    \/ RestoreFile \/ RolledBack

RollStopped == RollStops \/ ReadbackStops \/ RollbackFails \/ ReceiptTorn \/ FenceTorn

==============================================================================
