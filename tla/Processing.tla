----------------------------- MODULE Processing -----------------------------
(***************************************************************************)
(* process_run of pipeline/process.py: replay one completed fetch from the *)
(* raw store into the staging tables, with one transaction per document.   *)
(* Invocations come from the updater, from "process run" and "process      *)
(* latest", and from canonical assembly (module Assembly); they exclude    *)
(* each other per run with an advisory lock, and runs share documents.     *)
(*                                                                         *)
(* The i-th input of a run is its i-th selected observation; InputDocs     *)
(* gives the document id it parses to, the digest of source, snapshot,     *)
(* partition and version.  What validate_completeness and                  *)
(* validate_posting_pairs say of the run's documents is Verdict (module    *)
(* Connector has the details).                                             *)
(*                                                                         *)
(* Faults says which adverse events happen, MaxFaults how many:            *)
(*   "write"  a transaction raises, before or after it committed           *)
(*   "crash"  the process is killed                                        *)
(*   "lock"   the session that holds the advisory lock is lost             *)
(*   "rights" the rights policy blocks or the fetch manifest mismatches    *)
(*   "raw"    bytes in the raw store are purged or damaged                 *)
(***************************************************************************)
EXTENDS Integers, Sequences, FiniteSets

CONSTANTS Runs,       \* connector runs whose fetch is complete
          Docs,       \* document ids
          InputDocs,  \* run -> sequence of documents
          Revs,       \* document -> revisions of its records
          Verdict,    \* run -> "READY", "REVIEW_REQUIRED" or "FAILED"
          Workers,    \* concurrent invocations
          Faults, MaxFaults, None

ASSUME ProcessingAssumption ==
    /\ InputDocs \in [Runs -> Seq(Docs)]
    /\ \A r \in Runs : InputDocs[r] # <<>>
    /\ Verdict \in [Runs -> {"READY", "REVIEW_REQUIRED", "FAILED"}]
    /\ MaxFaults \in Nat
    /\ None \notin Workers

VARIABLES raw,       \* documents whose bytes read_raw accepts
          document,  \* staging.document with document_record: doc -> revisions
          revision,  \* staging.record_revision
          input,     \* control.processing_input: <<run, index, document>>
          prow,      \* control.processing_run
          plock,     \* advisory lock processing:{run_id}
          w,         \* locals of each invocation
          faults

staging == <<document, revision, input>>
pvars == <<raw, staging, prow, plock, w, faults>>

AllRevs == UNION {Revs[d] : d \in Docs}

RevisionsOf(r) == UNION {Revs[InputDocs[r][i]] : i \in DOMAIN InputDocs[r]}

NoRow == [state |-> "NONE", summary |-> None]

\* loading: called by assemble_run, which got result from process_run and
\* uses logic and done (module Assembly).
Idle == [pc |-> "idle", run |-> None, at |-> 1, summary |-> None,
         loading |-> FALSE, result |-> None, logic |-> None, done |-> {}]

Positions == {"idle", "open", "item", "save", "attach", "finish", "except",
              "check", "call", "verified", "start", "assemble", "failed"}

States == {"NONE", "RUNNING", "READY", "REVIEW_REQUIRED", "FAILED"}

ProcessingTypeOK ==
    /\ raw \subseteq Docs
    /\ DOMAIN document \subseteq Docs
    /\ revision \subseteq AllRevs
    /\ input \subseteq Runs \X Nat \X Docs
    /\ \A r \in Runs : /\ prow[r].state \in States
                      /\ prow[r].summary \in (SUBSET AllRevs) \cup {None}
                      /\ plock[r] \in Workers \cup {None}
    /\ \A p \in Workers : /\ w[p].pc \in Positions
                         /\ w[p].pc # "idle" =>
                               w[p].run \in Runs /\ w[p].at \in 1 .. Len(InputDocs[w[p].run]) + 1
    /\ faults \in 0 .. MaxFaults

ProcessingInit ==
    /\ raw = Docs
    /\ document = [d \in {} |-> {}]
    /\ revision = {}
    /\ input = {}
    /\ prow = [r \in Runs |-> NoRow]
    /\ plock = [r \in Runs |-> None]
    /\ w = [p \in Workers |-> Idle]
    /\ faults = 0

-----------------------------------------------------------------------------

Fault(kind) ==
    /\ kind \in Faults
    /\ faults < MaxFaults
    /\ faults' = faults + 1

Goto(p, pc) == w' = [w EXCEPT ![p].pc = pc]

Doc(p) == InputDocs[w[p].run][w[p].at]

AtItem(p) == w[p].at =< Len(InputDocs[w[p].run])

\* The lock is given back and the caller goes on: the assembly with what was
\* returned, a command or the updater not at all.  Unlocking on a session
\* that was lost raises, whatever had been returned.
Return(p, result) ==
    LET r == w[p].run
        held == plock[r] = p
    IN  /\ plock' = [plock EXCEPT ![r] = IF held THEN None ELSE @]
        /\ w' = [w EXCEPT ![p] = IF ~w[p].loading THEN Idle
                                 ELSE [@ EXCEPT !.pc = "verified",
                                                !.result = IF held THEN result ELSE "raised"]]

-----------------------------------------------------------------------------

\* advisory_lock; an invocation that does not get it ends with PIPELINE_BUSY.
Acquire(p, r) ==
    /\ w[p].pc = "idle"
    /\ plock[r] = None
    /\ plock' = [plock EXCEPT ![r] = p]
    /\ w' = [w EXCEPT ![p] = [Idle EXCEPT !.pc = "open", !.run = r]]
    /\ UNCHANGED <<raw, staging, prow, faults>>

\* run_inputs and the rights check passed: the row becomes RUNNING.
Open(p) ==
    /\ w[p].pc = "open"
    /\ prow' = [prow EXCEPT ![w[p].run].state = "RUNNING"]
    /\ w' = [w EXCEPT ![p].pc = "item"]
    /\ UNCHANGED <<raw, staging, plock, faults>>

\* They did not, or the upsert raised: no handler is in place yet.
OpenRaises(p, committed) ==
    /\ w[p].pc = "open"
    /\ IF committed
       THEN Fault("write") /\ prow' = [prow EXCEPT ![w[p].run].state = "RUNNING"]
       ELSE Fault("rights") /\ UNCHANGED prow
    /\ Return(p, "raised")
    /\ UNCHANGED <<raw, staging>>

\* read_raw and StagingLoader.cached: the bytes are checked even when the
\* document is a checkpoint of an earlier attempt or of another run.
ReadItem(p) ==
    /\ w[p].pc = "item" /\ AtItem(p)
    /\ Goto(p, IF Doc(p) \notin raw THEN "except"
               ELSE IF Doc(p) \in DOMAIN document THEN "attach" ELSE "save")
    /\ UNCHANGED <<raw, staging, prow, plock, faults>>

InsertDocument(d) ==
    /\ document' = [e \in DOMAIN document \cup {d} |->
                       IF e = d THEN Revs[d] ELSE document[e]]
    /\ revision' = revision \cup Revs[d]
    /\ UNCHANGED input

\* Mutant: the checkpoint commits before its records.
SaveWithoutRecords(p) ==
    /\ w[p].pc = "save"
    /\ document' = [e \in DOMAIN document \cup {Doc(p)} |->
                       IF e = Doc(p) THEN {} ELSE document[e]]
    /\ UNCHANGED <<revision, input>>
    /\ Goto(p, "attach")
    /\ UNCHANGED <<raw, prow, plock, faults>>

\* StagingLoader.save: document, revisions and locations in one transaction.
\* The insert of the document has no ON CONFLICT clause: an invocation that
\* another one overtook since its lookup gets an IntegrityError.
Save(p) ==
    /\ w[p].pc = "save"
    /\ IF Doc(p) \in DOMAIN document
       THEN UNCHANGED staging /\ Goto(p, "except")
       ELSE InsertDocument(Doc(p)) /\ Goto(p, "attach")
    /\ UNCHANGED <<raw, prow, plock, faults>>

Attach(p) ==
    /\ w[p].pc = "attach"
    /\ input' = input \cup {<<w[p].run, w[p].at, Doc(p)>>}
    /\ w' = [w EXCEPT ![p].pc = "item", ![p].at = @ + 1]
    /\ UNCHANGED <<raw, document, revision, prow, plock, faults>>

\* StagingLoader.records: the revisions of the run's member documents.
Members(r) == {m[3] : m \in {n \in input : n[1] = r}}

\* Mutant: the join with the run's members is lost.
AllRecords(r) == UNION {document[d] : d \in DOMAIN document}

records(r) == UNION {document[d] : d \in Members(r)}

\* All documents are there: completeness, pairs and the summary's hashes.
Judge(p) ==
    /\ w[p].pc = "item" /\ ~AtItem(p)
    /\ IF Verdict[w[p].run] = "FAILED"
       THEN Goto(p, "except")
       ELSE w' = [w EXCEPT ![p].pc = "finish", ![p].summary = records(w[p].run)]
    /\ UNCHANGED <<raw, staging, prow, plock, faults>>

Finish(p) ==
    LET r == w[p].run
    IN  /\ w[p].pc = "finish"
        /\ prow' = [prow EXCEPT ![r] = [state |-> Verdict[r], summary |-> w[p].summary]]
        /\ Return(p, Verdict[r])
        /\ UNCHANGED <<raw, staging, faults>>

\* A query or a transaction raises, or its commit is not acknowledged.
WriteRaises(p, committed) ==
    LET r == w[p].run
    IN  /\ w[p].pc \in {"item", "save", "attach", "finish"}
        /\ Fault("write")
        /\ Goto(p, "except")
        /\ IF ~committed THEN UNCHANGED <<staging, prow>>
           ELSE \/ /\ w[p].pc = "save" /\ Doc(p) \notin DOMAIN document
                   /\ InsertDocument(Doc(p)) /\ UNCHANGED prow
                \/ /\ w[p].pc = "attach"
                   /\ input' = input \cup {<<r, w[p].at, Doc(p)>>}
                   /\ UNCHANGED <<document, revision, prow>>
                \/ /\ w[p].pc = "finish"
                   /\ prow' = [prow EXCEPT ![r] = [state |-> Verdict[r],
                                                   summary |-> w[p].summary]]
                   /\ UNCHANGED staging
        /\ UNCHANGED <<raw, plock>>

\* The handler writes FAILED; the summary of an earlier success stays.
Except(p) ==
    /\ w[p].pc = "except"
    /\ prow' = [prow EXCEPT ![w[p].run].state = "FAILED"]
    /\ Return(p, "raised")
    /\ UNCHANGED <<raw, staging, faults>>

\* The handler's own write raises: the row stays as it is.
ExceptRaises(p) ==
    /\ w[p].pc = "except"
    /\ Fault("write")
    /\ Return(p, "raised")
    /\ UNCHANGED <<raw, staging, prow>>

-----------------------------------------------------------------------------

Crash(p) ==
    /\ w[p].pc # "idle"
    /\ Fault("crash")
    /\ plock' = [r \in Runs |-> IF plock[r] = p THEN None ELSE plock[r]]
    /\ w' = [w EXCEPT ![p] = Idle]
    /\ UNCHANGED <<raw, staging, prow>>

LoseProcessingLock(r) ==
    /\ plock[r] # None
    /\ Fault("lock")
    /\ plock' = [plock EXCEPT ![r] = None]
    /\ UNCHANGED <<raw, staging, prow, w>>

DamageRaw(d) ==
    /\ d \in raw
    /\ Fault("raw")
    /\ raw' = raw \ {d}
    /\ UNCHANGED <<staging, prow, plock, w>>

\* One step of process_run after it was called.
Process(p) ==
    \/ Open(p) \/ ReadItem(p) \/ Save(p) \/ Attach(p)
    \/ Judge(p) \/ Finish(p) \/ Except(p)

ProcessTrouble(p) ==
    \/ \E b \in BOOLEAN : OpenRaises(p, b) \/ WriteRaises(p, b)
    \/ ExceptRaises(p)

ProcessEnvironment ==
    \/ \E r \in Runs : LoseProcessingLock(r)
    \/ \E d \in Docs : DamageRaw(d)

-----------------------------------------------------------------------------
(* Properties.                                                              *)

\* A run that is READY or REVIEW_REQUIRED has every selected observation
\* bound to the document it parses to, and its summary counts exactly the
\* revisions of these documents, all of them stored: whichever checkpoints
\* other attempts, other runs or an overlapping invocation left.
CertifiedIsWhole ==
    \A r \in Runs : prow[r].state \in {"READY", "REVIEW_REQUIRED"} =>
        /\ \A i \in DOMAIN InputDocs[r] : <<r, i, InputDocs[r][i]>> \in input
        /\ Members(r) \subseteq DOMAIN document
        /\ prow[r].summary = RevisionsOf(r)
        /\ prow[r].summary \subseteq revision

\* "Retrying a processing run reuses its completed document checkpoints and
\* does not duplicate revisions": a replay never reports another content set.
ReplaysAgree ==
    [][\A r \in Runs : prow[r].summary # None => prow'[r].summary = prow[r].summary]_pvars

=============================================================================
