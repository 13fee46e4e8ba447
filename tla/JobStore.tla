------------------------------ MODULE JobStore ------------------------------
(***************************************************************************)
(* The durable job queue of the admin dashboard, class JobStore of         *)
(* src/jobtology_db/admin/queue.py: one SQLite database shared by the HTTP *)
(* process and the host workers.  Every method is one SQLite transaction   *)
(* (BEGIN IMMEDIATE or a single statement), so every operator below is one *)
(* atomic update of jobs or of the singleton worker row.                   *)
(*                                                                         *)
(* A job is identified here by its idempotency key: the column is UNIQUE   *)
(* and a key never names two rows.  The queued (action, kind, actor,       *)
(* profile fingerprint) quadruple is one opaque member of Requests.        *)
(***************************************************************************)

CONSTANTS Keys,       \* idempotency keys, one per job row
          Requests,   \* (action_id, kind, requested_by, profile_sha256)
          Workers,    \* host worker processes
          Nobody      \* "no request" / "no worker row"

ASSUME NobodyAssumption == Nobody \notin Requests \cup Workers \cup Keys

VARIABLES jobs,       \* the jobs table: Keys -> row
          beat        \* worker_id of the singleton worker row, or Nobody

storeVars == <<jobs, beat>>

\* STATES of queue.py, and NONE for a key without a row.
States == {"QUEUED", "RUNNING", "SUCCEEDED", "FAILED", "UNKNOWN"}

Row == [state : States \cup {"NONE"}, req : Requests \cup {Nobody}]

\* The states that make has_pending and the recheck of enqueue refuse work.
Pending == {"QUEUED", "RUNNING", "UNKNOWN"}

StoreTypeOK ==
    /\ jobs \in [Keys -> Row]
    /\ beat \in Workers \cup {Nobody}

StoreInit ==
    /\ jobs = [k \in Keys |-> [state |-> "NONE", req |-> Nobody]]
    /\ beat = Nobody

-----------------------------------------------------------------------------

HasRow(k) == jobs[k].state # "NONE"

has_pending == \E k \in Keys : jobs[k].state \in Pending

\* enqueue inserts only for an unused key and with nothing pending; an
\* existing row with the same request is returned, anything else is a
\* QueueConflict.  Both leave the table alone.
enqueue(k, q) ==
    jobs' = IF HasRow(k) \/ has_pending
            THEN jobs
            ELSE [jobs EXCEPT ![k] = [state |-> "QUEUED", req |-> q]]

\* Mutant: an existing row is returned to whoever presents its key.
ReturnsAnyRow(k, q) == HasRow(k) \/ ~has_pending

\* The call returns a job (rather than raising QueueConflict).
EnqueueReturns(k, q) == IF HasRow(k) THEN jobs[k].req = q ELSE ~has_pending

\* Which row claim would take: none while an operation is running or its
\* outcome is unknown.  The code takes the oldest QUEUED row; there is never
\* more than one (OnePending), so the order is not part of the state.
Claimable(k) ==
    /\ \A j \in Keys : jobs[j].state \notin {"RUNNING", "UNKNOWN"}
    /\ jobs[k].state = "QUEUED"

claim(k) == jobs' = [jobs EXCEPT ![k].state = "RUNNING"]

\* finish updates WHERE state='RUNNING'; zero rows is a QueueConflict.
FinishConflicts(k) == jobs[k].state # "RUNNING"

finish(k, state) ==
    jobs' = IF FinishConflicts(k) THEN jobs ELSE [jobs EXCEPT ![k].state = state]

\* Mutant: a restarted worker forgets what a dead one left RUNNING.
ForgetRunning == jobs' = jobs

abandon_running ==
    jobs' = [k \in Keys |-> IF jobs[k].state = "RUNNING"
                            THEN [jobs[k] EXCEPT !.state = "UNKNOWN"]
                            ELSE jobs[k]]

heartbeat(w) == beat' = w

stop_worker(w) == beat' = IF beat = w THEN Nobody ELSE beat
=============================================================================
