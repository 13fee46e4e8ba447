------------------------------ MODULE FetchRun ------------------------------
(***************************************************************************)
(* One run of FetchEngine (pipeline/fetch.py) against a provider whose     *)
(* catalogue changes while it is being read, with the ledger it writes     *)
(* (PostgresFetchLedger of storage/ledger.py) and the raw object store.    *)
(*                                                                         *)
(* Every ledger call is one PostgreSQL transaction and every such call can *)
(* raise, before or after the server committed it (committed is which).    *)
(* Any exception ends the run through fail_run, whose own failure is       *)
(* swallowed.  The process can be killed between any two steps.            *)
(*                                                                         *)
(* An observation is identified by its request and attempt number, the key *)
(* of uq_fetch_observation_attempt; a run never reuses a connector_run_id. *)
(***************************************************************************)
EXTENDS PartitionConfig

CONSTANTS NoObs, NoReply

\* What a source of Sources says of its provider and of the run.
Catalogs == source.catalogs     \* partition -> catalogues it can have, sequences of rows
MaxChanges == source.changes    \* bound on catalogue changes during the run
ServedSize == source.served     \* the size of the pages it serves
NumberForm == source.form       \* how it states its numbers
Caps == source.caps             \* max_pages: NoLimit, or a BACKFILL's cap
MaxAttempts == source.attempts  \* RetryPolicy.max_attempts

ASSUME FetchAssumption ==
    \A s \in Sources :
          /\ s.served \in 1 .. s.size /\ s.form \in Forms
          /\ s.partitions = DOMAIN s.catalogs
          /\ s.attempts \in Nat \ {0} /\ s.changes \in Nat
          /\ s.caps \subseteq (Nat \ {0}) \cup {NoLimit}
          /\ IsFiniteSet(s.partitions)
          /\ \A p \in s.partitions : \A c \in s.catalogs[p] : c \in Seq({c[i] : i \in DOMAIN c})

\* A catalogue lists an identity once.  Only saramin counts pages from zero;
\* job_alio has the one partition "index", which is no "detail-<id>".
ASSUME CatalogAssumption ==
    \A s \in Sources :
        /\ \A p \in s.partitions : \A c \in s.catalogs[p] :
              \A i, j \in DOMAIN c : c[i].id = c[j].id => i = j
        /\ s.base = 0 => s.id = "saramin"
        /\ s.id = "job_alio" =>
              \A p \in s.partitions :
                  /\ s.partitions = {p}
                  /\ \A c \in s.catalogs[p] : \A i \in DOMAIN c : c[i].id # p

VARIABLES
    catalog, changes,      \* the provider: current catalogues
    drift,                 \* history: it changed or shortened a page
    raw,                   \* bodies present in the raw store
    run,                   \* the row of control.connector_run
    requests,              \* control.connector_request: request -> selected
    observations,          \* raw_manifest.fetch_observation
    max_pages,             \* parameter of the run
    pc,                    \* position in FetchEngine.run / _fetch_request
    queue, known,          \* queue, known_fingerprints
    cur, attempt, reply,   \* the request being fetched and its response
    attemptIds, selectedIds

provider == <<catalog, changes, drift>>
ledger == <<run, requests, observations>>
memory == <<queue, known, cur, attempt, reply, attemptIds, selectedIds>>
vars == <<source, provider, raw, ledger, max_pages, pc, memory>>

-----------------------------------------------------------------------------
(* The provider.                                                            *)

PageOf(cat, n) ==
    [total |-> Len(cat), size |-> ServedSize, form |-> NumberForm,
     rows |-> SubSeq(cat, (n - PageBase) * ServedSize + 1,
                          Least(Len(cat), (n - PageBase + 1) * ServedSize))]

RowsFor(i) == UNION {{catalog[p][k] : k \in {k \in DOMAIN catalog[p] : catalog[p][k].id = i}} :
                     p \in Partitions}

\* A detail is the posting as it is now; one that was withdrawn has no row.
DetailsOf(i) ==
    IF RowsFor(i) = {} THEN {[total |-> 1, size |-> 1, form |-> "int", rows |-> <<>>]}
    ELSE {[total |-> 1, size |-> 1, form |-> "int", rows |-> <<r>>] : r \in RowsFor(i)}

Faithful(q) ==
    IF IsDetail(q) THEN DetailsOf(q.part)
    ELSE {PageOf(catalog[q.part], q.page)}

\* A page that lost its last row but declares the full total.
Shortened(q) ==
    {[b EXCEPT !.rows = SubSeq(b.rows, 1, Len(b.rows) - 1)] :
        b \in {c \in Faithful(q) : ~IsDetail(q) /\ c.rows # <<>>}}

Ended == pc \in {"done", "raised", "dead"}

\* Only changes the run can still see matter.
ProviderChanges(p, c) ==
    /\ ~Ended
    /\ changes < MaxChanges
    /\ c # catalog[p]
    /\ catalog' = [catalog EXCEPT ![p] = c]
    /\ changes' = changes + 1
    /\ drift' = TRUE
    /\ UNCHANGED <<raw, ledger, pc, memory>>

-----------------------------------------------------------------------------

NoRun == [state |-> "NONE", stage |-> "NONE", planned |-> 0, successful |-> 0,
          attempts |-> {}, selected |-> {}]

Init ==
    /\ source \in build_connector
    /\ catalog \in {f \in [Partitions -> UNION {Catalogs[p] : p \in Partitions}] :
                      \A p \in Partitions : f[p] \in Catalogs[p]}
    /\ changes = 0 /\ drift = FALSE
    /\ raw = {}
    /\ run = NoRun
    /\ requests = <<>>
    /\ observations = {}
    /\ max_pages \in Caps
    /\ pc = "start"
    /\ queue \in InOrder(initial_requests)
    /\ known = initial_requests
    /\ cur = NoReply /\ attempt = 0 /\ reply = NoReply
    /\ attemptIds = {} /\ selectedIds = <<>>

\* An exception, the end of run() or a kill takes the engine's memory along.
Forget ==
    /\ queue' = <<>> /\ known' = {}
    /\ cur' = NoReply /\ attempt' = 0 /\ reply' = NoReply
    /\ attemptIds' = {} /\ selectedIds' = <<>>

EndAt(position) == pc' = position /\ Forget

\* The ledger's transactions, as the new value of the row they write.
start_run == [NoRun EXCEPT !.state = "RUNNING", !.stage = "FETCHING"]

plan_request(q) ==
    IF q \in DOMAIN requests THEN requests
    ELSE [r \in DOMAIN requests \cup {q} |-> IF r = q THEN NoObs ELSE requests[r]]

mark_fetch_complete ==
    IF run.state # "RUNNING" THEN run
    ELSE [run EXCEPT !.stage = "FETCHED",
                     !.planned = Cardinality(known),
                     !.successful = Len(selectedIds),
                     !.attempts = attemptIds,
                     !.selected = {selectedIds[i] : i \in DOMAIN selectedIds}]

fail_run ==
    IF run.state # "RUNNING" THEN run
    ELSE [run EXCEPT !.state = "FAILED", !.stage = "FETCH_FAILED"]

-----------------------------------------------------------------------------
(* FetchEngine.run                                                          *)

StartRun ==
    /\ pc = "start"
    /\ run' = start_run
    /\ pc' = "loop"
    /\ UNCHANGED <<provider, raw, requests, observations, memory>>

\* started is still False, so a row that was committed anyway stays RUNNING.
StartRaises(committed) ==
    /\ pc = "start"
    /\ run' = IF committed THEN start_run ELSE run
    /\ EndAt("raised")
    /\ UNCHANGED <<provider, raw, requests, observations>>

PlanRequest ==
    /\ pc = "loop" /\ queue # <<>>
    /\ cur' = Head(queue)
    /\ queue' = Tail(queue)
    /\ requests' = plan_request(Head(queue))
    /\ attempt' = 1
    /\ pc' = "call"
    /\ UNCHANGED <<provider, raw, run, observations, known, reply, attemptIds, selectedIds>>

PlanRaises(committed) ==
    /\ pc = "loop" /\ queue # <<>>
    /\ requests' = IF committed THEN plan_request(Head(queue)) ELSE requests
    /\ EndAt("failing")
    /\ UNCHANGED <<provider, raw, run, observations>>

-----------------------------------------------------------------------------
(* _fetch_request                                                           *)

ObsId == <<cur, attempt>>

\* The request budget hook or the capacity check raises before the request.
CallRefused ==
    /\ pc = "call"
    /\ EndAt("failing")
    /\ UNCHANGED <<provider, raw, ledger>>

Call ==
    /\ pc = "call"
    /\ attemptIds' = attemptIds \cup {ObsId}
    /\ UNCHANGED <<catalog, changes, raw, ledger, queue, known, cur, attempt, selectedIds>>

Respond ==
    /\ Call
    /\ \E body \in Faithful(cur) \cup Shortened(cur) :
          /\ validate_response(cur, body)
          /\ drift' = (drift \/ body \notin Faithful(cur))
          /\ reply' = [outcome |-> "SELECTED_SUCCESS", retry |-> FALSE, body |-> body]
    /\ pc' = "store"

\* Transport errors and the retryable statuses; other statuses; a body that
\* is too large or breaks the contract (which some bodies always do).
RespondBadly(outcome, retry) ==
    /\ Call
    /\ outcome \in {"TRANSPORT_ERROR", "HTTP_ERROR", "RESPONSE_INVALID"}
    /\ outcome = "TRANSPORT_ERROR" => retry
    /\ outcome = "RESPONSE_INVALID" => ~retry
    /\ reply' = [outcome |-> outcome, retry |-> retry, body |-> NoReply]
    /\ pc' = "record"
    /\ UNCHANGED drift

StoreRaw ==
    /\ pc = "store"
    /\ raw' = raw \cup {reply.body}
    /\ pc' = "record"
    /\ UNCHANGED <<provider, ledger, memory>>

\* put can fail before or after its link made the object visible.
StoreRaises(linked) ==
    /\ pc = "store"
    /\ raw' = IF linked THEN raw \cup {reply.body} ELSE raw
    /\ reply' = [outcome |-> "STORAGE_ERROR", retry |-> FALSE, body |-> NoReply]
    /\ pc' = "record"
    /\ UNCHANGED <<provider, ledger, queue, known, cur, attempt, attemptIds, selectedIds>>

Selected == reply.outcome = "SELECTED_SUCCESS"

\* Mutant: only the observation is written.
RecordUnselected ==
    /\ observations' = observations \cup {[id |-> ObsId, outcome |-> reply.outcome,
                                           body |-> reply.body]}
    /\ requests' = requests
    /\ UNCHANGED run

\* The observation and, for a success, the pointer of the request in one
\* transaction.
record_attempt ==
    /\ observations' = observations \cup {[id |-> ObsId, outcome |-> reply.outcome,
                                           body |-> reply.body]}
    /\ requests' = IF Selected THEN [requests EXCEPT ![cur] = ObsId] ELSE requests
    /\ UNCHANGED run

enqueue(body) ==
    \E s \in InOrder(remaining_requests(cur, body, max_pages) \ known) :
        /\ queue' = queue \o s
        /\ known' = known \cup remaining_requests(cur, body, max_pages)

RecordSuccess ==
    /\ pc = "record" /\ Selected
    /\ record_attempt
    /\ IF ExceedsCeiling(cur, reply.body, max_pages)
       THEN EndAt("failing")
       ELSE /\ pc' = "loop"
            /\ selectedIds' = Append(selectedIds, ObsId)
            /\ enqueue(reply.body)
            /\ cur' = NoReply /\ attempt' = 0 /\ reply' = NoReply
            /\ UNCHANGED attemptIds
    /\ UNCHANGED <<provider, raw>>

Retries == reply.retry /\ attempt < MaxAttempts

\* Mutant: the loop repeats an attempt instead of counting it.
RecordFailureUncounted ==
    /\ pc = "record" /\ ~Selected
    /\ record_attempt
    /\ IF reply.retry
       THEN pc' = "call" /\ UNCHANGED memory
       ELSE EndAt("failing")
    /\ UNCHANGED <<provider, raw>>

RecordFailure ==
    /\ pc = "record" /\ ~Selected
    /\ record_attempt
    /\ IF Retries
       THEN /\ pc' = "call"
            /\ attempt' = attempt + 1
            /\ reply' = NoReply
            /\ UNCHANGED <<queue, known, cur, attemptIds, selectedIds>>
       ELSE EndAt("failing")
    /\ UNCHANGED <<provider, raw>>

RecordRaises(committed) ==
    /\ pc = "record"
    /\ IF committed THEN record_attempt ELSE UNCHANGED ledger
    /\ EndAt("failing")
    /\ UNCHANGED <<provider, raw>>

-----------------------------------------------------------------------------

Complete ==
    /\ pc = "loop" /\ queue = <<>>
    /\ run' = mark_fetch_complete
    /\ EndAt("done")
    /\ UNCHANGED <<provider, raw, requests, observations>>

CompleteRaises(committed) ==
    /\ pc = "loop" /\ queue = <<>>
    /\ run' = IF committed THEN mark_fetch_complete ELSE run
    /\ EndAt("failing")
    /\ UNCHANGED <<provider, raw, requests, observations>>

Fail ==
    /\ pc = "failing"
    /\ run' = fail_run
    /\ EndAt("raised")
    /\ UNCHANGED <<provider, raw, requests, observations>>

\* "except Exception: pass" around fail_run.
FailRaises(committed) ==
    /\ pc = "failing"
    /\ run' = IF committed THEN fail_run ELSE run
    /\ EndAt("raised")
    /\ UNCHANGED <<provider, raw, requests, observations>>

Crash ==
    /\ ~Ended
    /\ EndAt("dead")
    /\ UNCHANGED <<provider, raw, ledger>>

Engine ==
    \/ StartRun \/ PlanRequest \/ CallRefused \/ StoreRaw
    \/ Respond
    \/ \E o \in {"TRANSPORT_ERROR", "HTTP_ERROR", "RESPONSE_INVALID"}, r \in BOOLEAN :
          RespondBadly(o, r)
    \/ RecordSuccess \/ RecordFailure \/ Complete \/ Fail
    \/ \E b \in BOOLEAN : \/ StartRaises(b) \/ PlanRaises(b) \/ StoreRaises(b)
                          \/ RecordRaises(b) \/ CompleteRaises(b) \/ FailRaises(b)

Next ==
    /\ \/ Engine
       \/ Crash
       \/ \E p \in Partitions : \E c \in Catalogs[p] : ProviderChanges(p, c)
    /\ UNCHANGED <<source, max_pages>>

Spec == Init /\ [][Next]_vars

\* The engine is one thread that only ever waits on calls with timeouts.
FairSpec == Spec /\ WF_vars(Engine /\ UNCHANGED <<source, max_pages>>)
-----------------------------------------------------------------------------
(* run_inputs of storage/processing.py: what every later stage reads.       *)

Fetched == run.state = "RUNNING" /\ run.stage = "FETCHED"

InputObs ==
    {o \in observations : /\ o.outcome = "SELECTED_SUCCESS"
                          /\ o.id[1] \in DOMAIN requests
                          /\ requests[o.id[1]] = o.id}

Inputs == {[req |-> o.id[1], body |-> o.body] : o \in InputObs}

run_inputs ==
    /\ Fetched
    /\ run.planned # 0
    /\ run.planned = run.successful
    /\ Cardinality(InputObs) = run.successful
    /\ Cardinality(DOMAIN requests) = Cardinality(InputObs)
    /\ {o.id : o \in InputObs} = run.selected
    /\ {o.id : o \in observations} = run.attempts

Ready == run_inputs /\ Verdict(Inputs) = "READY"

\* _read_snapshot: length and digest are the manifest's.
read_snapshot(o) == o.body \in raw

\* _selected_run_documents: a SCHEDULED_FULL run (never capped) that fetched
\* everything, with every selected snapshot readable as the manifest has it.
selected_run_documents ==
    /\ max_pages = NoLimit /\ Fetched
    /\ run.planned >= 1 /\ run.successful = run.planned
    /\ Cardinality(InputObs) = run.successful
    /\ \A o \in InputObs : read_snapshot(o)

DerivedCodes == IF selected_run_documents THEN derive(Inputs) ELSE {}

-----------------------------------------------------------------------------
(* Properties.                                                              *)

Positions == {"start", "loop", "call", "store", "record", "failing",
              "done", "raised", "dead"}

\* Types of the engine's memory and of the run's row.
TypeOK ==
    /\ pc \in Positions
    /\ attempt \in 0 .. MaxAttempts
    /\ changes \in 0 .. MaxChanges /\ max_pages \in Caps
    /\ run.state \in {"NONE", "RUNNING", "FAILED"}
    /\ run.stage \in {"NONE", "FETCHING", "FETCHED", "FETCH_FAILED"}
    /\ queue # <<>> => DOMAIN requests \subseteq known

\* Every run that mark_fetch_complete closed passes the manifest check of
\* run_inputs: counts and both observation hashes written from the engine's
\* memory agree with the rows the individual transactions left, whichever
\* of them raised after committing.
FetchedIsReplayable == Fetched => run_inputs

Collected(p) ==
    UNION {Identities(d.body) : d \in Pages(Inputs, p)}

\* A run that would be READY holds, for every configured partition, exactly
\* as many distinct identities as each of its pages declares; for job_alio
\* one detail per listed posting.  Holds however the catalogue moved, pages
\* lost rows, or the run was capped.
ReadyHasEveryRow ==
    Ready => \A p \in Partitions :
        /\ Pages(Inputs, p) # {}
        /\ \A d \in Pages(Inputs, p) : Cardinality(Collected(p)) = d.body.total
        /\ Kind = "job_alio" => \A i \in Collected(p) : Collected(i) = {i}

CatalogIds(p) == {catalog[p][k].id : k \in DOMAIN catalog[p]}

\* The connector plans with the size of the pages it is served: job_alio with
\* its own, whatever it is served, the others with their own when no size is
\* stated.
PlansAsServed == Kind = "job_alio" \/ NumberForm = "none" => ServedSize = PageSize

\* The completeness check reads the same numbers, and reads them at all.
CheckedAsServed ==
    /\ NumberForm # "loose"
    /\ NumberForm = "none" => ServedSize = DefaultSize

\* A run over a catalogue that did not move.  Where the connector plans with
\* the size it is served, it holds exactly that catalogue, for every total,
\* remainder and empty partition; where the completeness check uses that size
\* too, it is judged complete.  Where they differ (a smaller page for job_alio,
\* no numOfRows for a source whose own size is not 100) the run may hold less
\* or be refused, and is never READY with less.
CleanRunIsExact ==
    /\ Fetched /\ ~drift
    /\ max_pages = NoLimit
    /\ ~Rejected(Inputs)
    => /\ Supported /\ PlansAsServed /\ CheckedAsServed => Verdict(Inputs) = "READY"
       /\ PlansAsServed \/ Verdict(Inputs) = "READY" =>
              \A p \in Partitions : Collected(p) = CatalogIds(p)

CatalogCodes == {r.id : r \in {r \in UNION {{catalog[p][k] : k \in DOMAIN catalog[p]} : p \in Partitions} :
                               Kind = "ncs_competency" => r.fact \in Allowed}}

\* Codes are derived, READY run or not, only from documents that hold every
\* row their pages declare: no page is missing, short or repeated, and over a
\* catalogue that did not move they are exactly that catalogue's codes.
DerivedIsWhole ==
    DerivedCodes # {} =>
        /\ \A p \in Partitions : \A d \in Pages(Inputs, p) :
              Cardinality(RowsOf(Pages(Inputs, p))) = d.body.total
        /\ ~drift => DerivedCodes = CatalogCodes

\* The updater derives from a READY run: a second reading of the documents
\* that validate_completeness let pass, which refuses them exactly when they
\* state a number other than as a JSON integer, or a row's code or name is not
\* what it would be to the letter.  Any other disagreement would keep the
\* dependent source from every refresh, and these two do: each tick raises
\* until the provider's answers change.
ReadyDerives ==
    /\ Ready /\ max_pages = NoLimit
    /\ CASE Kind = "ncs_competency" -> Allowed \subseteq {r.fact : r \in RowsOf(Inputs)}
         [] Kind = "ncs_qualification" -> \E r \in RowsOf(Inputs) : TRUE
         [] OTHER -> FALSE
    => (DerivedCodes # {} <=>
          /\ Stated(Inputs)
          /\ \A r \in RowsOf(Inputs) : /\ r.id \notin Unlike
                                       /\ Kind = "ncs_qualification" => r.id \notin Odd)

\* The run ends although pages, details and retries are discovered on the
\* way and the catalogue moves.
RunEnds == <>Ended
=============================================================================
