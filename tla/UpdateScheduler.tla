--------------------------- MODULE UpdateScheduler ---------------------------
(***************************************************************************)
(* The recurring updater, update_sources of pipeline/update.py: one tick   *)
(* walks the schedule in order and, for each due source, fetches or        *)
(* resumes a fetch, processes it and records the outcome in                *)
(* control.source_sync.  Ticks are started by cron or by the foreground    *)
(* worker and exclude each other with a session-level advisory lock.       *)
(*                                                                         *)
(* Time is relative: due is the time left until next_due_at (0 also stands *)
(* for a NULL column, which due() treats alike) and age the time since     *)
(* fetch_completed_at.  A connector run is a value [config, age,           *)
(* certified]: the configuration it was fetched under, its age, and        *)
(* whether a READY outcome of the source was already based on it.          *)
(*                                                                         *)
(* Faults says which adverse events happen, MaxFaults how many:            *)
(*   "fetch"   the fetch raises          "process" process_run raises      *)
(*   "write"   a status write raises     "early"   a statement before the  *)
(*   "crash"   the process is killed               RUNNING row raises      *)
(*   "lock"    the session that holds the advisory lock is lost            *)
(*   "config"  configuration or partitions change between ticks            *)
(*   "ack"     a status write raises although the server committed it      *)
(*   "delay"   time passes while a tick is at work                         *)
(* "early", "lock" and "ack" leave the updater with a wrong idea of what   *)
(* the database holds; the properties that rest on it are stated for       *)
(* behaviours without them (Undeceived).                                   *)
(***************************************************************************)
EXTENDS Integers, Sequences, FiniteSets

CONSTANTS Order,      \* schedule.sources, a sequence
          Dep,        \* DEPENDENCIES: source -> source or None
          Ticks,      \* concurrent invocations of update_sources
          Configs,    \* configuration hashes
          Interval,   \* interval_seconds
          Retry,      \* retry_seconds
          Faults, MaxFaults,
          None

Sources == {Order[i] : i \in DOMAIN Order}

\* Schedule.check_order: no duplicates, dependencies precede consumers.
ASSUME ScheduleAssumption ==
    /\ Order \in Seq(Sources) \ {<<>>}
    /\ \A i, j \in DOMAIN Order : Order[i] = Order[j] => i = j
    /\ \A i \in DOMAIN Order :
          Dep[Order[i]] # None => \E j \in 1 .. i - 1 : Order[j] = Dep[Order[i]]
    /\ Interval \in Nat \ {0} /\ Retry \in Nat \ {0}
    /\ MaxFaults \in Nat

VARIABLES sync,       \* control.source_sync
          ready,      \* age of the newest READY full run of a source, or None
          config,     \* the configuration hash the code would compute now
          tick,       \* locals of each invocation
          lock,       \* its lock session: none, held, lost, or broken
          faults,     \* how many faults happened, and whether a deceiving one did
          rested      \* history: time left until a certified source is due

vars == <<sync, ready, config, tick, lock, faults, rested>>

MaxAge == 2 * Interval + 1

Run == [config : Configs, age : 0 .. MaxAge, certified : BOOLEAN]

\* There is some configuration, and None is no run.
ASSUME RunAssumption == Configs # {} /\ None \notin Run

Errors == {"none", "OperationalError", "other"}

Row == [state : {"NONE", "RUNNING", "READY", "FAILED"},
        config : Configs \cup {None}, conn : Run \cup {None},
        due : 0 .. Interval + Retry, error : Errors]

NoRow == [state |-> "NONE", config |-> None, conn |-> None, due |-> 0, error |-> "none"]

Positions == {"idle", "read", "check", "alive", "start", "fetch", "fetched",
              "process", "alive2", "finish", "except"}

Tick == [pc : Positions, at : 1 .. Len(Order) + 1, failed : SUBSET Sources,
         row : Row, config : Configs \cup {None}, run : Run \cup {None},
         error : Errors]

Idle == [pc |-> "idle", at |-> 1, failed |-> {}, row |-> NoRow, config |-> None,
         run |-> None, error |-> "none"]

TypeOK ==
    /\ sync \in [Sources -> Row]
    /\ ready \in [Sources -> 0 .. MaxAge \cup {None}]
    /\ config \in [Sources -> Configs]
    /\ tick \in [Ticks -> Tick]
    /\ lock \in [Ticks -> {"none", "held", "lost", "broken"}]
    /\ faults \in [n : 0 .. MaxFaults, deceiving : BOOLEAN]
    /\ rested \in [Sources -> 0 .. Interval]

Init ==
    /\ sync = [s \in Sources |-> NoRow]
    /\ ready = [s \in Sources |-> None]
    /\ config = [s \in Sources |-> CHOOSE c \in Configs : TRUE]   \* hashes are only compared
    /\ tick = [t \in Ticks |-> Idle]
    /\ lock = [t \in Ticks |-> "none"]
    /\ faults = [n |-> 0, deceiving |-> FALSE]
    /\ rested = [s \in Sources |-> 0]

-----------------------------------------------------------------------------

Src(t) == Order[tick[t].at]

Fault(kind) ==
    /\ kind \in Faults
    /\ faults.n < MaxFaults
    /\ faults' = [n |-> faults.n + 1,
                  deceiving |-> faults.deceiving \/ kind \in {"early", "lock", "ack"}]

Goto(t, pc) == tick' = [tick EXCEPT ![t].pc = pc]

\* The next source of the schedule; what belongs to the last one is dropped.
Advance(t, failed) ==
    tick' = [tick EXCEPT ![t] = [Idle EXCEPT !.pc = "read", !.at = tick[t].at + 1,
                                             !.failed = failed]]

Raise(t, error) == tick' = [tick EXCEPT ![t].pc = "except", ![t].error = error]

Waiting(row) == row.state = "FAILED" /\ row.due > 0

\* Mutant: a RUNNING row is taken for a tick that is still at work.
DueUnlessRunning(row, hash) ==
    /\ row.state # "RUNNING"
    /\ ~Waiting(row)
    /\ row.state = "NONE" \/ row.config # hash \/ row.due = 0

\* A backoff always counts; a RUNNING row is a crashed invocation.
due(row, hash) ==
    \/ row.state = "NONE"
    \/ /\ ~Waiting(row)
       /\ row.state = "RUNNING" \/ row.config # hash \/ row.due = 0

\* Mutant: any recorded fetch is resumed, whatever it was fetched for.
ResumesOldConfig(row, hash) ==
    /\ row.state = "RUNNING" \/ row.error = "OperationalError"
    /\ row.conn # None

\* Mutant: a crashed invocation always starts over.
ResumesErrorsOnly(row, hash) ==
    /\ row.state # "NONE"
    /\ row.config = hash
    /\ row.error = "OperationalError"
    /\ row.conn # None

\* Mutant: whatever the row refers to is resumed.
ResumesAnyRow(row, hash) == row.config = hash /\ row.conn # None

\* GRAPH_LOAD_FAILED is not among the errors: the --neo4j publisher is retired.
resumable(row, hash) ==
    /\ row.state # "NONE"
    /\ row.config = hash
    /\ row.state = "RUNNING" \/ row.error = "OperationalError"
    /\ row.conn # None

-----------------------------------------------------------------------------
(* advisory_lock(GLOBAL_UPDATE_LOCK); a tick that does not get it exits 75. *)

\* Mutant: a tick does not look for another one.
BeginUnlocked(t) ==
    /\ tick[t].pc = "idle"
    /\ tick' = [tick EXCEPT ![t] = [Idle EXCEPT !.pc = "read"]]
    /\ lock' = [lock EXCEPT ![t] = "held"]
    /\ UNCHANGED <<sync, ready, config, faults, rested>>

Begin(t) ==
    /\ tick[t].pc = "idle"
    /\ \A u \in Ticks : lock[u] # "held"
    /\ tick' = [tick EXCEPT ![t] = [Idle EXCEPT !.pc = "read"]]
    /\ lock' = [lock EXCEPT ![t] = "held"]
    /\ UNCHANGED <<sync, ready, config, faults, rested>>

Release(t) ==
    /\ tick' = [tick EXCEPT ![t] = Idle]
    /\ lock' = [lock EXCEPT ![t] = "none"]

End(t) ==
    /\ tick[t].pc = "read"
    /\ tick[t].at > Len(Order)
    /\ Release(t)
    /\ UNCHANGED <<sync, ready, config, faults, rested>>

Read(t) ==
    /\ tick[t].pc = "read"
    /\ tick[t].at =< Len(Order)
    /\ tick' = [tick EXCEPT ![t].row = sync[Src(t)], ![t].pc = "check"]
    /\ UNCHANGED <<sync, ready, config, lock, faults, rested>>

RetryWait(t) ==
    /\ tick[t].pc = "check"
    /\ Waiting(tick[t].row)
    /\ Advance(t, tick[t].failed \cup {Src(t)})
    /\ UNCHANGED <<sync, ready, config, lock, faults, rested>>

Fresh(d) == IF ready[d] = None THEN FALSE ELSE ready[d] =< 2 * Interval

Usable(t) ==
    LET d == Dep[Src(t)]
    IN  IF d = None THEN TRUE ELSE d \notin tick[t].failed /\ Fresh(d)

\* DEPENDENCY_FAILED or DEPENDENCY_MISSING_OR_STALE.
DependencyMissing(t) ==
    /\ tick[t].pc = "check"
    /\ ~Waiting(tick[t].row)
    /\ ~Usable(t)
    /\ Raise(t, "other")
    /\ UNCHANGED <<sync, ready, config, lock, faults, rested>>

NotDue(t) ==
    /\ tick[t].pc = "check"
    /\ ~Waiting(tick[t].row)
    /\ Usable(t)
    /\ ~due(tick[t].row, config[Src(t)])
    /\ Advance(t, tick[t].failed)
    /\ UNCHANGED <<sync, ready, config, lock, faults, rested>>

Due(t) ==
    /\ tick[t].pc = "check"
    /\ ~Waiting(tick[t].row)
    /\ Usable(t)
    /\ due(tick[t].row, config[Src(t)])
    /\ tick' = [tick EXCEPT ![t].pc = "alive", ![t].config = config[Src(t)]]
    /\ UNCHANGED <<sync, ready, config, lock, faults, rested>>

\* A statement before or of the RUNNING row raises; nothing was written.
EarlyRaise(t) ==
    /\ tick[t].pc \in {"check", "start"}
    /\ tick[t].pc = "check" => ~Waiting(tick[t].row) /\ Dep[Src(t)] # None
    /\ Fault("early")
    /\ Raise(t, "OperationalError")
    /\ UNCHANGED <<sync, ready, config, lock, rested>>

\* SELECT 1 on the lock session.  A lost session raises OperationalError and
\* every later statement on it a PendingRollbackError.
Alive(t, from, to) ==
    /\ tick[t].pc = from
    /\ IF lock[t] = "held"
       THEN Goto(t, to) /\ UNCHANGED lock
       ELSE /\ Raise(t, IF lock[t] = "lost" THEN "OperationalError" ELSE "other")
            /\ lock' = [lock EXCEPT ![t] = "broken"]
    /\ UNCHANGED <<sync, ready, config, faults, rested>>

resume(t) == resumable(tick[t].row, tick[t].config)

\* The rows the status writes of a source leave, from the row they find.
RunningRow(t, row) ==
    [row EXCEPT !.state = "RUNNING", !.config = tick[t].config, !.error = "none",
                !.conn = IF resume(t) THEN @ ELSE None]

FetchedRow(t, row) == [row EXCEPT !.conn = tick[t].run]

ReadyRow(row) ==
    [row EXCEPT !.state = "READY", !.due = Interval, !.error = "none",
                !.conn = IF @ = None THEN None ELSE [@ EXCEPT !.certified = TRUE]]

Start(t) ==
    /\ tick[t].pc = "start"
    /\ sync' = [sync EXCEPT ![Src(t)] = RunningRow(t, @)]
    /\ tick' = [tick EXCEPT ![t].run = IF resume(t) THEN tick[t].row.conn ELSE None,
                            ![t].pc = IF resume(t) THEN "process" ELSE "fetch"]
    /\ UNCHANGED <<ready, config, lock, faults, rested>>

Fetch(t) ==
    /\ tick[t].pc = "fetch"
    /\ tick' = [tick EXCEPT ![t].pc = "fetched",
                            ![t].run = [config |-> tick[t].config, age |-> 0,
                                        certified |-> FALSE]]
    /\ UNCHANGED <<sync, ready, config, lock, faults, rested>>

FetchFails(t) ==
    /\ tick[t].pc = "fetch"
    /\ Fault("fetch")
    /\ Raise(t, "other")
    /\ UNCHANGED <<sync, ready, config, lock, rested>>

RecordRun(t) ==
    /\ tick[t].pc = "fetched"
    /\ sync' = [sync EXCEPT ![Src(t)] = FetchedRow(t, @)]
    /\ Goto(t, "process")
    /\ UNCHANGED <<ready, config, lock, faults, rested>>

ProcessReady(t) ==
    LET s == Src(t)
        age == tick[t].run.age
    IN  /\ tick[t].pc = "process"
        /\ ready' = [ready EXCEPT ![s] = IF @ = None THEN age
                                           ELSE IF age < @ THEN age ELSE @]
        /\ Goto(t, "alive2")
        /\ UNCHANGED <<sync, config, lock, faults, rested>>

\* OperationalError: the database went away; other: the documents fail
\* validation, need review, or their raw bytes are gone.
ProcessFails(t, error) ==
    /\ tick[t].pc = "process"
    /\ Fault("process")
    /\ error # "none"
    /\ Raise(t, error)
    /\ UNCHANGED <<sync, ready, config, lock, rested>>

Finish(t) ==
    LET s == Src(t)
    IN  /\ tick[t].pc = "finish"
        /\ sync' = [sync EXCEPT ![s] = ReadyRow(@)]
        /\ rested' = [rested EXCEPT ![s] = Interval]
        /\ Advance(t, tick[t].failed)
        /\ UNCHANGED <<ready, config, lock, faults>>

\* The status writes after the fetch and after processing raise.
WriteRaises(t) ==
    /\ tick[t].pc \in {"fetched", "finish"}
    /\ Fault("write")
    /\ Raise(t, "OperationalError")
    /\ UNCHANGED <<sync, ready, config, lock, rested>>

\* A status write commits and its acknowledgement is lost.
WriteUnacknowledged(t) ==
    /\ tick[t].pc \in {"start", "fetched", "finish"}
    /\ Fault("ack")
    /\ sync' = [sync EXCEPT ![Src(t)] =
                   CASE tick[t].pc = "start" -> RunningRow(t, @)
                     [] tick[t].pc = "fetched" -> FetchedRow(t, @)
                     [] tick[t].pc = "finish" -> ReadyRow(@)]
    /\ Raise(t, "OperationalError")
    /\ UNCHANGED <<ready, config, lock, rested>>

\* The exception handler of one source.
Except(t) ==
    LET s == Src(t)
    IN  /\ tick[t].pc = "except"
        /\ sync' = [sync EXCEPT ![s] = [@ EXCEPT !.state = "FAILED", !.due = Retry,
                                                 !.error = tick[t].error]]
        /\ Advance(t, tick[t].failed \cup {s})
        /\ UNCHANGED <<ready, config, lock, faults, rested>>

\* source_state or the handler's own write raises: the tick ends.
Abort(t) ==
    /\ tick[t].pc \in {"read", "except"}
    /\ Fault("write")
    /\ Release(t)
    /\ UNCHANGED <<sync, ready, config, rested>>

-----------------------------------------------------------------------------

Crash(t) ==
    /\ tick[t].pc # "idle"
    /\ Fault("crash")
    /\ Release(t)
    /\ UNCHANGED <<sync, ready, config, rested>>

LoseLock(t) ==
    /\ lock[t] = "held"
    /\ Fault("lock")
    /\ lock' = [lock EXCEPT ![t] = "lost"]
    /\ UNCHANGED <<sync, ready, config, tick, rested>>

Reconfigure(s, c) ==
    /\ c # config[s]
    /\ Fault("config")
    /\ config' = [config EXCEPT ![s] = c]
    /\ UNCHANGED <<sync, ready, tick, lock, rested>>

Sooner(d) == IF d > 0 THEN d - 1 ELSE 0

Aged(r) == IF r = None THEN None
           ELSE [r EXCEPT !.age = IF @ < MaxAge THEN @ + 1 ELSE @]

Clock ==
    /\ IF \A t \in Ticks : tick[t].pc = "idle" THEN UNCHANGED faults ELSE Fault("delay")
    /\ sync' = [s \in Sources |-> [sync[s] EXCEPT !.due = Sooner(@), !.conn = Aged(@)]]
    /\ ready' = [s \in Sources |-> IF ready[s] = None THEN None
                                   ELSE IF ready[s] < MaxAge THEN ready[s] + 1
                                   ELSE ready[s]]
    /\ tick' = [t \in Ticks |-> [tick[t] EXCEPT !.run = Aged(@), !.row.conn = Aged(@)]]
    /\ rested' = [s \in Sources |-> Sooner(rested[s])]
    /\ UNCHANGED <<config, lock>>

Step(t) ==
    \/ Begin(t) \/ End(t) \/ Read(t)
    \/ RetryWait(t) \/ DependencyMissing(t) \/ NotDue(t) \/ Due(t)
    \/ Alive(t, "alive", "start") \/ Start(t)
    \/ Fetch(t) \/ RecordRun(t) \/ ProcessReady(t)
    \/ Alive(t, "alive2", "finish") \/ Finish(t) \/ Except(t)

Trouble(t) ==
    \/ EarlyRaise(t) \/ FetchFails(t) \/ Abort(t)
    \/ WriteRaises(t) \/ WriteUnacknowledged(t)
    \/ \E e \in Errors : ProcessFails(t, e)
    \/ Crash(t) \/ LoseLock(t)

Next ==
    \/ \E t \in Ticks : Step(t) \/ Trouble(t)
    \/ \E s \in Sources, c \in Configs : Reconfigure(s, c)
    \/ Clock

Spec == Init /\ [][Next]_vars

\* cron or the worker keeps starting ticks, a tick keeps going, and time
\* passes: between ticks, however often they start (hence strong fairness).
FairSpec == Spec /\ SF_vars(Clock) /\ \A t \in Ticks : WF_vars(Step(t))

-----------------------------------------------------------------------------
(* Properties.                                                              *)

Undeceived == ~faults.deceiving

Working == {"start", "fetch", "fetched", "process", "alive2", "finish"}

\* "A lock prevents overlapping updater ticks": no two ticks are past their
\* check of the lock session at the same time, so none overwrites the status
\* or repeats the fetch of another.  It rests on the session: a tick looks at
\* it before and after a source, not while the source is fetched, and when it
\* is lost in between ("lock") two ticks do overlap.
NoOverlap ==
    Undeceived => \A t, u \in Ticks :
        tick[t].pc \in Working /\ tick[u].pc \in Working => t = u

\* A READY row rests on a certified fetch made under the very configuration
\* the row records, although configuration, crashes and resumed runs
\* intervene between reading the row and writing it.
ReadyRestsOnItsConfig ==
    Undeceived => \A s \in Sources : sync[s].state = "READY" =>
        /\ sync[s].conn # None
        /\ sync[s].conn.certified
        /\ sync[s].conn.config = sync[s].config

CertifiesAnew(s) ==
    sync[s].state # "READY" /\ sync'[s].state = "READY" =>
        sync[s].conn # None /\ ~sync[s].conn.certified

\* A fetch that already made the source READY never makes it READY again,
\* whichever invocation crashed, failed or resumed it in between.
NeverCertifiedTwice == [][Undeceived' => \A s \in Sources : CertifiesAnew(s)]_vars

\* "Each due API source is fully fetched with the existing connector": the
\* same, whatever statement the database failed.
DueIsFetched == [][\A s \in Sources : CertifiesAnew(s)]_vars

\* "Interrupted processing ... reuse a recorded completed fetch when the
\* configuration is unchanged": a fetch that was never certified is dropped
\* only for another configuration or after a failure of its content.
FetchNotWasted ==
    [][Undeceived' => \A s \in Sources :
          sync[s].conn # None /\ sync'[s].conn = None =>
              \/ sync[s].conn.certified
              \/ sync[s].error = "other"
              \/ sync[s].config # sync'[s].config]_vars

\* Whatever failed, crashed or was reconfigured, every source is brought up
\* to date again and again: rested is Interval right after a success only.
EverySourceRefreshed == \A s \in Sources : []<>(rested[s] = Interval)
=============================================================================
