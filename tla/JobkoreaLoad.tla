---------------------------- MODULE JobkoreaLoad ----------------------------
(***************************************************************************)
(* load_jobkorea_dataset.py over the NDJSON importer of build_ndjson.py    *)
(* and 006_ndjson.sql, and the bounded input preparation of                *)
(* prepare_inputs.py.  The supervisor holds refresh.lock and no fence; the *)
(* native resume of an interrupted import and a preparation of their own   *)
(* directory are started by hand and hold neither.                         *)
(***************************************************************************)
EXTENDS Integers, Sequences, SequencesExt

CONSTANT NChunk     \* bounded chunks of the snapshot, one posting each

VARIABLES jk,        \* the supervisor: pc, and preservation_state at its start
          bad,       \* the chunk with a line that cannot be appended, 0 for none
          flawed,    \* the chunk with a row normalize_jobkorea_row finds errors in, 0 for none
          archive,   \* the composed archive in the container
          run,       \* ingestion.run and jobkorea_import: state, next chunk, graph
          rows,      \* the chunks appended to the run, in order
          rejected,  \* those of them in ingestion.rejected_row
          imp,       \* the importers: the supervisor's and one started by hand
          prov,      \* jobkorea_dataset_provenance is registered
          bundles,   \* input bundles by posting, with or without provenance
          prep,      \* the preparations, by checkpoint directory
          ck,        \* checkpoint.json by directory
          batch      \* batch-NNNNNN.json by directory: how many are there

source == <<archive, run, rows, rejected>>
inputs == <<prov, bundles, prep, ck, batch>>
jkvars == <<jk, bad, flawed, source, imp, inputs>>

Chunks == 1..NChunk
Importers == {"load", "hand"}
Dirs == {"load", "own"}
NoJk == [pc |-> "none", before |-> 0]
NoImp == [pc |-> "none", at |-> 1]
NoPrep == [pc |-> "none", ident |-> FALSE]
NoCk == [status |-> "NONE", ident |-> FALSE, before |-> 0, cursor |-> 0]

JkAt(pc) == jk.pc = pc
JkGoto(pc) == jk' = [jk EXCEPT !.pc = pc]

--------------------------------------------------------------------------
(* load: the plan's preservation state still holds; LOADING runs refuse.    *)
StartJobkorea(work) ==
    /\ jk = NoJk /\ run.state # "LOADING"
    /\ jk' = [pc |-> "archive", before |-> work]
    /\ UNCHANGED <<source, imp, inputs>>

(* archive_composition: staged, compared, and moved into place at once.     *)
ArchiveComposition ==
    /\ JkAt("archive") /\ archive # "whole" /\ archive' = IF archive = "staged" THEN "whole" ELSE "staged"
    /\ UNCHANGED <<jk, run, rows, rejected, imp, inputs>>
ImportArchived ==
    /\ JkAt("archive") /\ archive = "whole" /\ imp["load"] = NoImp /\ JkGoto("import")
    /\ imp' = [imp EXCEPT !["load"].pc = "begin"]
    /\ UNCHANGED <<source, inputs>>

(* The native resume of an interrupted run, RESUME_RUN_ID, by hand; one     *)
(* held for review is resumed in vain.                                      *)
ResumeNdjson ==
    /\ run.state \in {"LOADING", "REVIEW_REQUIRED"} \/ (run.state = "READY" /\ ~run.graph)
    /\ imp["hand"] = NoImp
    /\ imp' = [imp EXCEPT !["hand"].pc = "begin"]
    /\ UNCHANGED <<jk, source, inputs>>

ImpTo(i, pc) == imp' = [imp EXCEPT ![i].pc = pc]
(* Only the supervisor waits for the outcome of its importer.               *)
ImpEnds(i, pc) == imp' = [imp EXCEPT ![i] = IF i = "load" /\ JkAt("import") THEN [pc |-> pc, at |-> 1] ELSE NoImp]

(* A run finalize has decided on is not parsed again, only sealed again.    *)
Sealed == run.state \in {"READY", "REVIEW_REQUIRED"}

(* Mutant: a file that has a run is never begun again.                      *)
BeginOnce(i) ==
    /\ imp[i].pc = "begin"
    /\ IF run.state \in {"FAILED", "LOADING"} THEN ImpEnds(i, "abort") /\ UNCHANGED run
       ELSE /\ run' = IF run.state = "NONE" THEN [run EXCEPT !.state = "LOADING"] ELSE run
            /\ imp' = [imp EXCEPT ![i] = [pc |-> IF Sealed THEN "seal" ELSE "append", at |-> run.next]]
    /\ UNCHANGED <<jk, archive, rows, rejected, inputs>>

(* begin_jobkorea_ndjson_import: one run a file, at its checkpoint.         *)
BeginImport(i) ==
    /\ imp[i].pc = "begin"
    /\ IF run.state = "FAILED" THEN ImpEnds(i, "abort") /\ UNCHANGED run
       ELSE /\ run' = IF run.state = "NONE" THEN [run EXCEPT !.state = "LOADING"] ELSE run
            /\ imp' = [imp EXCEPT ![i] = [pc |-> IF Sealed THEN "seal" ELSE "append", at |-> run.next]]
    /\ UNCHANGED <<jk, archive, rows, rejected, inputs>>

(* append_jobkorea_ndjson_batch: a chunk at a known offset is a replay, the *)
(* next one is appended, any other is a conflict.  A line that is no JSON   *)
(* object or has no posting id raises; a row with errors is appended too,   *)
(* to rejected_row.                                                         *)
Replayed(i) == imp[i].at < run.next
Appends(i) == run.state = "LOADING" /\ imp[i].at = run.next /\ imp[i].at # bad
(* Mutant: a chunk is appended without looking at the checkpoint.           *)
AppendUnlocked(i) ==
    /\ imp[i].pc = "append" /\ imp[i].at \in Chunks /\ imp[i].at # bad /\ run.state = "LOADING"
    /\ run' = [run EXCEPT !.next = imp[i].at + 1] /\ rows' = Append(rows, imp[i].at)
    /\ rejected' = rejected \cup ({imp[i].at} \cap {flawed})
    /\ imp' = [imp EXCEPT ![i].at = @ + 1]
    /\ UNCHANGED <<jk, archive, inputs>>

AppendBatch(i) ==
    /\ imp[i].pc = "append" /\ imp[i].at \in Chunks
    /\ \/ Replayed(i) /\ run.state = "LOADING" /\ UNCHANGED <<run, rows, rejected>>
       \/ /\ ~Replayed(i) /\ Appends(i)
          /\ run' = [run EXCEPT !.next = @ + 1] /\ rows' = Append(rows, imp[i].at)
          /\ rejected' = rejected \cup ({imp[i].at} \cap {flawed})
    /\ imp' = [imp EXCEPT ![i].at = @ + 1]
    /\ UNCHANGED <<jk, archive, inputs>>

(* markNdjsonFailure: a line that is wrong ends the run, another importer's *)
(* READY stays; an operational error leaves the checkpoint.                 *)
MarkFailure(i) ==
    /\ imp[i].pc = "append" /\ imp[i].at \in Chunks
    /\ \/ Replayed(i) /\ run.state # "LOADING" /\ UNCHANGED run
       \/ ~Replayed(i) /\ run.state # "LOADING" /\ UNCHANGED run
       \/ ~Replayed(i) /\ run.state = "LOADING" /\ imp[i].at = bad /\ run' = [run EXCEPT !.state = "FAILED"]
    /\ ImpEnds(i, "abort") /\ UNCHANGED <<jk, archive, rows, rejected, inputs>>

(* Mutant: rejected rows are not counted.                                   *)
IssuesOfRecords == {}

(* finalize_jobkorea_import: what the validation views say of the rows.     *)
Issues == rejected

(* seal_jobkorea_ndjson_import after the whole file was parsed: a run that  *)
(* is LOADING is decided on, READY is looked at again, any other raises.    *)
Seals == run.state = "LOADING" /\ run.next = NChunk + 1
SealImport(i) ==
    /\ imp[i].pc = "seal" \/ (imp[i].pc = "append" /\ imp[i].at = NChunk + 1)
    /\ run' = IF Seals THEN [run EXCEPT !.state = IF Issues = {} THEN "READY" ELSE "REVIEW_REQUIRED"] ELSE run
    /\ IF run'.state = "READY" /\ Issues = {} THEN ImpTo(i, "graph") ELSE ImpEnds(i, "abort")
    /\ UNCHANGED <<jk, archive, rows, rejected, inputs>>

(* load_snapshot.hwf and record_graph_export.hpl.                           *)
LoadGraph(i) ==
    /\ imp[i].pc = "graph" /\ run' = [run EXCEPT !.graph = TRUE] /\ ImpEnds(i, "done")
    /\ UNCHANGED <<jk, archive, rows, rejected, inputs>>
ImporterDies(i) ==
    /\ imp[i].pc \notin {"none", "done", "abort"} /\ ImpEnds(i, "abort")
    /\ UNCHANGED <<jk, source, inputs>>
ImportEnds ==
    /\ JkAt("import") /\ imp["load"].pc = "done" /\ JkGoto("register")
    /\ imp' = [imp EXCEPT !["load"] = NoImp] /\ UNCHANGED <<source, inputs>>

--------------------------------------------------------------------------
(* register_provenance: immutable, and before any input bundle.             *)
NoInputs == \A p \in Chunks : bundles[p] = "none"
(* Mutant: bundles that were prepared before do not matter.                 *)
RegisterAnyTime == run.state = "READY"
MayRegister == run.state = "READY" /\ (prov \/ NoInputs)
RegisterProvenance ==
    /\ JkAt("register") /\ MayRegister /\ prov' = TRUE /\ JkGoto("prepare")
    /\ UNCHANGED <<source, imp, bundles, prep, ck, batch>>

(* Preparation._run: the flock of the directory, snapshot, checkpoint.      *)
Identity == prov
ReadsCheckpoint(d, work) ==
    IF ck[d].status = "NONE"
    THEN ck' = [ck EXCEPT ![d] = [status |-> "RUNNING", ident |-> Identity, before |-> work, cursor |-> 0]]
    ELSE ck[d].ident = Identity /\ ck[d].cursor <= batch[d] /\ UNCHANGED ck
StartPreparation(d, work) ==
    /\ prep[d] = NoPrep /\ run.state = "READY"
    /\ d = "load" => JkAt("prepare") /\ prov
    /\ ReadsCheckpoint(d, work)
    /\ prep' = [prep EXCEPT ![d] = [pc |-> "select", ident |-> Identity]]
    /\ UNCHANGED <<jk, source, imp, prov, bundles, batch>>

(* selection and prepare_jobkorea_input_bundle, idempotent under its lock.  *)
Next1(d) == ck[d].cursor + 1
PrepareInputs(d) ==
    /\ prep[d].pc = "select" /\ Next1(d) \in Chunks
    /\ bundles' = [bundles EXCEPT ![Next1(d)] = IF prov THEN "bound" ELSE "bare"]
    /\ prep' = [prep EXCEPT ![d].pc = "batch"]
    /\ UNCHANGED <<jk, source, imp, prov, ck, batch>>

(* atomic_json: the immutable batch receipt, then the checkpoint.           *)
WriteBatch(d) ==
    /\ prep[d].pc = "batch" /\ prep' = [prep EXCEPT ![d].pc = "checkpoint"]
    /\ batch' = [batch EXCEPT ![d] = IF @ < Next1(d) THEN Next1(d) ELSE @]
    /\ UNCHANGED <<jk, source, imp, prov, bundles, ck>>
WriteCheckpoint(d) ==
    /\ prep[d].pc = "checkpoint" /\ prep' = [prep EXCEPT ![d].pc = "select"]
    /\ ck' = [ck EXCEPT ![d].cursor = @ + 1]
    /\ UNCHANGED <<jk, source, imp, prov, bundles, batch>>

(* coverage, the unchanged identity and the unchanged counters.             *)
Coverage == \A p \in Chunks : bundles[p] = IF prov THEN "bound" ELSE "bare"
MayVerify(d, work) == Coverage /\ prep[d].ident = Identity /\ ck[d].before = work
Finish(d, work) ==
    /\ prep[d].pc = "select" /\ Next1(d) \notin Chunks
    /\ ck' = IF MayVerify(d, work) THEN [ck EXCEPT ![d].status = "VERIFIED"] ELSE ck
    /\ prep' = [prep EXCEPT ![d] = IF d = "own" THEN NoPrep
                                  ELSE [@ EXCEPT !.pc = IF MayVerify(d, work) THEN "ok" ELSE "failed"]]
    /\ UNCHANGED <<jk, source, imp, prov, bundles, batch>>
PreparationDies(d) ==
    /\ prep[d] # NoPrep /\ prep[d].pc \notin {"ok", "failed"} /\ prep' = [prep EXCEPT ![d] = NoPrep]
    /\ jk' = IF d = "load" THEN NoJk ELSE jk
    /\ UNCHANGED <<source, imp, prov, bundles, ck, batch>>

--------------------------------------------------------------------------
(* The supervisor's last comparison, and its except clause: no rollback.    *)
Accepted(work) == /\ run.state = "READY" /\ run.graph /\ Len(rows) = NChunk /\ Issues = {}
                  /\ jk.before = work
Conclude(work) ==
    /\ JkAt("prepare") /\ prep["load"].pc = "ok" /\ Accepted(work)
    /\ jk' = NoJk /\ prep' = [prep EXCEPT !["load"] = NoPrep]
    /\ UNCHANGED <<source, imp, prov, bundles, ck, batch>>
FailedReview(work) ==
    /\ \/ JkAt("import") /\ imp["load"].pc = "abort"
       \/ JkAt("register") /\ ~MayRegister
       \/ JkAt("prepare") /\ prep["load"] = NoPrep /\ ck["load"].status # "NONE"
             /\ (ck["load"].ident # Identity \/ ck["load"].cursor > batch["load"])
       \/ JkAt("prepare") /\ (prep["load"].pc = "failed" \/ (prep["load"].pc = "ok" /\ ~Accepted(work)))
    /\ jk' = NoJk /\ prep' = [prep EXCEPT !["load"] = NoPrep]
    /\ imp' = IF JkAt("import") THEN [imp EXCEPT !["load"] = NoImp] ELSE imp
    /\ UNCHANGED <<source, prov, bundles, ck, batch>>

(* A kill: the staged archive is left, the native importer goes on.         *)
SupervisorKilled ==
    /\ jk # NoJk /\ jk' = NoJk /\ prep' = [prep EXCEPT !["load"] = NoPrep]
    /\ imp' = IF imp["load"].pc \in {"done", "abort"} THEN [imp EXCEPT !["load"] = NoImp] ELSE imp
    /\ UNCHANGED <<source, prov, bundles, ck, batch>>

JkInit ==
    /\ jk = NoJk /\ bad \in 0..NChunk /\ flawed \in 0..NChunk /\ archive = "absent"
    /\ run = [state |-> "NONE", next |-> 1, graph |-> FALSE] /\ rows = <<>> /\ rejected = {}
    /\ imp = [i \in Importers |-> NoImp] /\ prov = FALSE /\ bundles = [p \in Chunks |-> "none"]
    /\ prep = [d \in Dirs |-> NoPrep] /\ ck = [d \in Dirs |-> NoCk] /\ batch = [d \in Dirs |-> 0]

(* The processes: the supervisor with its preparation, each importer, and   *)
(* the preparation of its own.                                              *)
Prepares(d, work) == PrepareInputs(d) \/ WriteBatch(d) \/ WriteCheckpoint(d) \/ Finish(d, work)
Supervises(work) ==
    \/ ArchiveComposition \/ ImportArchived \/ ImportEnds \/ RegisterProvenance \/ Conclude(work) \/ FailedReview(work)
    \/ StartPreparation("load", work) \/ Prepares("load", work)
Imports(i) == \/ BeginImport(i) \/ AppendBatch(i) \/ MarkFailure(i) \/ SealImport(i) \/ LoadGraph(i)
ImportsByHand == Imports("hand") \/ ResumeNdjson
PreparesByHand(work) == StartPreparation("own", work) \/ Prepares("own", work)
JkFaults == \/ SupervisorKilled
            \/ (\E i \in Importers : ImporterDies(i)) \/ \E d \in Dirs : PreparationDies(d)
==============================================================================
