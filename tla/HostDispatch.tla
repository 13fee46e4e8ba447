---------------------------- MODULE HostDispatch ----------------------------
(***************************************************************************)
(* The path of an operator-approved operation: an HTTP request of the      *)
(* dashboard (POST /api/jobs of admin/app.py) puts a job in the JobStore,  *)
(* a host worker (admin/worker.py) claims it under the host-wide worker    *)
(* lock, starts the command as a child that inherits the lock descriptor,  *)
(* waits for it and records the outcome.                                   *)
(*                                                                         *)
(* The lock is a flock on an open file description.  It stays held while   *)
(* ANY process refers to that description: the worker itself and, once it  *)
(* was started with pass_fds, the command.  fdWorkers and fdCommands are   *)
(* the processes that hold such a descriptor.                              *)
(*                                                                         *)
(* A worker can be killed at any point (Crash), can leave its loop on an   *)
(* exception or a stop signal, and is restarted by systemd                 *)
(* (Restart=always, KillMode=process: the command survives its worker).    *)
(* MaxFaults bounds how often that happens.                                *)
(***************************************************************************)
EXTENDS JobStore, Naturals

CONSTANTS Clients,     \* concurrent HTTP requests
          MaxFaults    \* bound on crashes, exceptions and stops of workers

ASSUME FaultsAssumption == MaxFaults \in Nat

VARIABLES wpc,         \* where each worker is in HostWorker.run/_execute
          wjob,        \* the job the worker claimed last
          fdWorkers,   \* workers that hold the lock descriptor
          fdCommands,  \* commands (by job) that hold an inherited descriptor
          proc,        \* the command of each job: none, running or its exit
          spawns,      \* history: how often a job's command was started
          cpc, cpost,  \* HTTP requests: position and what they submitted
          acks,        \* history: <<key, request>> answered with a job
          faults

workerVars == <<wpc, wjob, fdWorkers>>
procVars == <<fdCommands, proc, spawns>>
clientVars == <<cpc, cpost, acks>>
vars == <<storeVars, workerVars, procVars, clientVars, faults>>

WorkerPc == {"off", "locked", "recovered", "loop", "poll",
             "claimed", "ready", "waiting", "leaving"}

\* zero: exit code 0; error: a positive code; signal: a negative one.
Exits == {"zero", "error", "signal"}

Post == [key : Keys, req : Requests, enabled : BOOLEAN]

TypeOK ==
    /\ StoreTypeOK
    /\ wpc \in [Workers -> WorkerPc]
    /\ wjob \in [Workers -> Keys \cup {Nobody}]
    /\ fdWorkers \subseteq Workers
    /\ fdCommands \subseteq Keys
    /\ proc \in [Keys -> Exits \cup {"none", "running"}]
    /\ spawns \in [Keys -> Nat]
    /\ cpc \in [Clients -> {"idle", "lookup", "enqueue"}]
    /\ cpost \in [Clients -> Post \cup {Nobody}]
    /\ acks \subseteq Keys \X Requests
    /\ faults \in 0..MaxFaults

Init ==
    /\ StoreInit
    /\ wpc = [w \in Workers |-> "off"]
    /\ wjob = [w \in Workers |-> Nobody]
    /\ fdWorkers = {}
    /\ fdCommands = {}
    /\ proc = [k \in Keys |-> "none"]
    /\ spawns = [k \in Keys |-> 0]
    /\ cpc = [c \in Clients |-> "idle"]
    /\ cpost = [c \in Clients |-> Nobody]
    /\ acks = {}
    /\ faults = 0

-----------------------------------------------------------------------------
(* POST /api/jobs: three reads of shared state, each its own transaction,  *)
(* and the enqueue that has to recheck them.                               *)

\* controls() with an approved profile: a row that exists may still be stale,
\* so a missing row forces "disabled" and a present one allows either.
ReadControls(c) ==
    /\ cpc[c] = "idle"
    /\ \E k \in Keys, q \in Requests, fresh \in BOOLEAN :
          cpost' = [cpost EXCEPT ![c] =
                      [key |-> k, req |-> q,
                       enabled |-> beat # Nobody /\ fresh /\ ~has_pending]]
    /\ cpc' = [cpc EXCEPT ![c] = "lookup"]
    /\ UNCHANGED <<storeVars, workerVars, procVars, acks, faults>>

\* The response is sent and the request forgotten.
Answered(c) ==
    /\ cpc' = [cpc EXCEPT ![c] = "idle"]
    /\ cpost' = [cpost EXCEPT ![c] = Nobody]

\* get_by_idempotency: an unknown key of a disabled action is answered 409.
LookupKey(c) ==
    /\ cpc[c] = "lookup"
    /\ IF ~HasRow(cpost[c].key) /\ ~cpost[c].enabled
       THEN Answered(c)
       ELSE /\ cpc' = [cpc EXCEPT ![c] = "enqueue"]
            /\ UNCHANGED cpost
    /\ UNCHANGED <<storeVars, workerVars, procVars, acks, faults>>

\* store.enqueue, and the answer: 202 with the job or 409 on QueueConflict.
EnqueueJob(c) ==
    /\ cpc[c] = "enqueue"
    /\ enqueue(cpost[c].key, cpost[c].req)
    /\ acks' = IF EnqueueReturns(cpost[c].key, cpost[c].req)
               THEN acks \cup {<<cpost[c].key, cpost[c].req>>}
               ELSE acks
    /\ Answered(c)
    /\ UNCHANGED <<beat, workerVars, procVars, faults>>

-----------------------------------------------------------------------------
(* HostWorker.run                                                          *)

\* worker_lock: LOCK_EX|LOCK_NB on a fresh open file description.  A worker
\* that finds it held exits with 75 and changes nothing.
LockFree == fdWorkers = {} /\ fdCommands = {}

Start(w) ==
    /\ wpc[w] = "off"
    /\ LockFree
    /\ fdWorkers' = fdWorkers \cup {w}
    /\ wpc' = [wpc EXCEPT ![w] = "locked"]
    /\ UNCHANGED <<storeVars, wjob, procVars, clientVars, faults>>

\* Startup recovery: whatever a dead worker left RUNNING becomes UNKNOWN.
Recover(w) ==
    /\ wpc[w] = "locked"
    /\ abandon_running
    /\ wpc' = [wpc EXCEPT ![w] = "recovered"]
    /\ UNCHANGED <<beat, wjob, fdWorkers, procVars, clientVars, faults>>

FirstBeat(w) ==
    /\ wpc[w] = "recovered"
    /\ heartbeat(w)
    /\ wpc' = [wpc EXCEPT ![w] = "loop"]
    /\ UNCHANGED <<jobs, wjob, fdWorkers, procVars, clientVars, faults>>

LoopBeat(w) ==
    /\ wpc[w] = "loop"
    /\ heartbeat(w)
    /\ wpc' = [wpc EXCEPT ![w] = "poll"]
    /\ UNCHANGED <<jobs, wjob, fdWorkers, procVars, clientVars, faults>>

ClaimNone(w) ==
    /\ wpc[w] = "poll"
    /\ \A k \in Keys : ~Claimable(k)
    /\ wpc' = [wpc EXCEPT ![w] = "loop"]
    /\ UNCHANGED <<storeVars, wjob, fdWorkers, procVars, clientVars, faults>>

ClaimJob(w) ==
    /\ wpc[w] = "poll"
    /\ \E k \in Keys :
          /\ Claimable(k)
          /\ claim(k)
          /\ wjob' = [wjob EXCEPT ![w] = k]
    /\ wpc' = [wpc EXCEPT ![w] = "claimed"]
    /\ UNCHANGED <<beat, fdWorkers, procVars, clientVars, faults>>

\* Where the worker goes after a finish: on with its loop, or out of it when
\* finish raised QueueConflict.
AfterFinish(w) ==
    wpc' = [wpc EXCEPT ![w] = IF FinishConflicts(wjob[w]) THEN "leaving" ELSE "loop"]

-----------------------------------------------------------------------------
(* HostWorker._execute                                                     *)

\* heartbeat, then the profile still matches and its command can be built.
ApproveJob(w) ==
    /\ wpc[w] = "claimed"
    /\ heartbeat(w)
    /\ wpc' = [wpc EXCEPT ![w] = "ready"]
    /\ UNCHANGED <<jobs, wjob, fdWorkers, procVars, clientVars, faults>>

\* heartbeat, then KeyError/OSError/ValueError: the command is not started.
RejectJob(w) ==
    /\ wpc[w] = "claimed"
    /\ heartbeat(w)
    /\ finish(wjob[w], "FAILED")
    /\ AfterFinish(w)
    /\ UNCHANGED <<wjob, fdWorkers, procVars, clientVars, faults>>

\* Mutant: the descriptor is not passed to the command.
SpawnWithoutFd(w) ==
    /\ wpc[w] = "ready"
    /\ proc' = [proc EXCEPT ![wjob[w]] = "running"]
    /\ spawns' = [spawns EXCEPT ![wjob[w]] = @ + 1]
    /\ wpc' = [wpc EXCEPT ![w] = "waiting"]
    /\ UNCHANGED <<storeVars, wjob, fdWorkers, fdCommands, clientVars, faults>>

\* Popen(..., pass_fds=(lock_descriptor,), start_new_session=True)
Spawn(w) ==
    /\ wpc[w] = "ready"
    /\ proc' = [proc EXCEPT ![wjob[w]] = "running"]
    /\ fdCommands' = fdCommands \cup {wjob[w]}
    /\ spawns' = [spawns EXCEPT ![wjob[w]] = @ + 1]
    /\ wpc' = [wpc EXCEPT ![w] = "waiting"]
    /\ UNCHANGED <<storeVars, wjob, fdWorkers, clientVars, faults>>

\* OSError from the log directory, an existing log file or Popen.
SpawnFails(w) ==
    /\ wpc[w] = "ready"
    /\ finish(wjob[w], "FAILED")
    /\ AfterFinish(w)
    /\ UNCHANGED <<beat, wjob, fdWorkers, procVars, clientVars, faults>>

\* TimeoutExpired of process.wait: heartbeat and wait again.
WaitBeat(w) ==
    /\ wpc[w] = "waiting"
    /\ proc[wjob[w]] = "running"
    /\ heartbeat(w)
    /\ UNCHANGED <<jobs, workerVars, procVars, clientVars, faults>>

\* The state that an exit code is recorded as.
Outcome(exit) == CASE exit = "zero"   -> "SUCCEEDED"
                   [] exit = "signal" -> "UNKNOWN"
                   [] exit = "error"  -> "FAILED"

Reap(w) ==
    /\ wpc[w] = "waiting"
    /\ proc[wjob[w]] \in Exits
    /\ finish(wjob[w], Outcome(proc[wjob[w]]))
    /\ AfterFinish(w)
    /\ heartbeat(w)
    /\ UNCHANGED <<wjob, fdWorkers, procVars, clientVars, faults>>

\* An exception while waiting or recording: finish(UNKNOWN) is tried (it can
\* fail too, then the row stays RUNNING) and the worker leaves; the command
\* is neither terminated nor replayed.
WaitFails(w) ==
    /\ wpc[w] = "waiting"
    /\ faults < MaxFaults
    /\ faults' = faults + 1
    /\ finish(wjob[w], "UNKNOWN") \/ UNCHANGED jobs
    /\ wpc' = [wpc EXCEPT ![w] = "leaving"]
    /\ UNCHANGED <<beat, wjob, fdWorkers, procVars, clientVars>>

\* An exception before the command is started, or (at "loop") the stop event
\* or --once: straight to the finally clause, whatever the row says.
Interrupt(w) ==
    /\ wpc[w] \in {"loop", "poll", "claimed", "ready"}
    /\ faults < MaxFaults
    /\ faults' = faults + 1
    /\ wpc' = [wpc EXCEPT ![w] = "leaving"]
    /\ UNCHANGED <<storeVars, wjob, fdWorkers, procVars, clientVars>>

\* finally: stop_worker, then the descriptor is closed (never LOCK_UN).
Leave(w) ==
    /\ wpc[w] = "leaving"
    /\ stop_worker(w)
    /\ fdWorkers' = fdWorkers \ {w}
    /\ wpc' = [wpc EXCEPT ![w] = "off"]
    /\ UNCHANGED <<jobs, wjob, procVars, clientVars, faults>>

\* The process dies: startup raised, SIGKILL, power of the host kept.  Only
\* its own descriptor goes away; the worker row and the job row stay.
Crash(w) ==
    /\ wpc[w] # "off"
    /\ faults < MaxFaults
    /\ faults' = faults + 1
    /\ fdWorkers' = fdWorkers \ {w}
    /\ wpc' = [wpc EXCEPT ![w] = "off"]
    /\ UNCHANGED <<storeVars, wjob, procVars, clientVars>>

-----------------------------------------------------------------------------
(* The command and the operator.                                           *)

CommandExits(k) ==
    /\ proc[k] = "running"
    /\ \E exit \in Exits : proc' = [proc EXCEPT ![k] = exit]
    /\ fdCommands' = fdCommands \ {k}
    /\ UNCHANGED <<storeVars, workerVars, spawns, clientVars, faults>>

\* Mutant: the script does not take the worker lock.
ReconcileUnlocked(k) ==
    /\ jobs[k].state = "UNKNOWN"
    /\ jobs' = [jobs EXCEPT ![k].state = IF proc[k] = "zero" THEN "SUCCEEDED" ELSE "FAILED"]
    /\ UNCHANGED <<beat, workerVars, procVars, clientVars, faults>>

\* The host-only reconciliation script of docs/admin-dashboard.md: under the
\* worker lock one UNKNOWN row gets its established outcome, SUCCEEDED only
\* for a verified success.
Reconcile(k) ==
    /\ LockFree
    /\ jobs[k].state = "UNKNOWN"
    /\ jobs' = [jobs EXCEPT ![k].state = IF proc[k] = "zero" THEN "SUCCEEDED" ELSE "FAILED"]
    /\ UNCHANGED <<beat, workerVars, procVars, clientVars, faults>>

WorkerStep(w) ==
    \/ Recover(w) \/ FirstBeat(w) \/ LoopBeat(w) \/ ClaimNone(w) \/ ClaimJob(w)
    \/ ApproveJob(w) \/ RejectJob(w) \/ Spawn(w) \/ SpawnFails(w)
    \/ Reap(w) \/ Leave(w)

ClientStep(c) == ReadControls(c) \/ LookupKey(c) \/ EnqueueJob(c)

Next ==
    \/ \E c \in Clients : ClientStep(c)
    \/ \E w \in Workers : \/ Start(w) \/ WorkerStep(w) \/ WaitBeat(w)
                          \/ WaitFails(w) \/ Interrupt(w) \/ Crash(w)
    \/ \E k \in Keys : CommandExits(k) \/ Reconcile(k)

Spec == Init /\ [][Next]_vars

\* systemd restarts the worker (Restart=always), a running worker keeps
\* taking steps, and an operation ends.  Clients, faults and the operator are
\* not fair.
Fairness ==
    /\ \A w \in Workers : WF_vars(Start(w)) /\ WF_vars(WorkerStep(w))
    /\ \A k \in Keys : WF_vars(CommandExits(k))

FairSpec == Spec /\ Fairness

-----------------------------------------------------------------------------
(* Properties.                                                             *)

\* A worker that holds the lock and is not on its way out of _execute.
Owning == {"claimed", "ready", "waiting"}

\* At most one host operation runs at any time, whichever workers crashed and
\* whichever were restarted meanwhile (worker.py: the command inherits the lock
\* descriptor so that "a crashed worker must not release exclusivity").
SingleExecution ==
    \A j, k \in Keys : proc[j] = "running" /\ proc[k] = "running" => j = k

\* The command of a job is started at most once: an orphan is never retried by
\* a restarted worker, and no two workers claim one row.
AtMostOnce == \A k \in Keys : spawns[k] <= 1

\* At most one job is QUEUED, RUNNING or UNKNOWN, although the dashboard
\* decides on reads made before its enqueue and two requests interleave.
OnePending ==
    \A j, k \in Keys :
        jobs[j].state \in Pending /\ jobs[k].state \in Pending => j = k

\* The row of a command that is still running says RUNNING or UNKNOWN, never a
\* final state: neither a restart nor a reconciliation settles it early.
LiveCommandIsOpen ==
    \A k \in Keys : proc[k] = "running" => jobs[k].state \in {"RUNNING", "UNKNOWN"}

\* A duplicate start can neither steal the row of a live worker's job nor
\* change its heartbeat (comment in HostWorker.run): finish never conflicts.
LiveWorkerUndisturbed ==
    \A w \in Workers :
        /\ wpc[w] \in Owning => jobs[wjob[w]].state = "RUNNING"
        /\ wpc[w] \in Owning \cup {"loop", "poll", "leaving"} => beat = w

\* A request answered with a job was answered with ITS job: an idempotency key
\* is never answered for another actor, action or profile, now or later.
AckedJobKept == \A a \in acks : jobs[a[1]].req = a[2]

\* SUCCEEDED is recorded only for a command that exited with 0.
HonestSuccess == \A k \in Keys : jobs[k].state = "SUCCEEDED" => proc[k] = "zero"

ReopensNothing ==
    \A k \in Keys : jobs'[k].state # jobs[k].state =>
        /\ jobs'[k].state = "QUEUED" => jobs[k].state = "NONE"
        /\ jobs[k].state \notin {"SUCCEEDED", "FAILED"}
        /\ jobs[k].state = "UNKNOWN" =>
              /\ \A w \in Workers : wpc[w] = "off"
              /\ \A j \in Keys : proc[j] # "running"

\* No step reopens a job: rows never return to QUEUED, final rows never change,
\* and an UNKNOWN row is settled only while no worker and no command is alive.
NothingReopens == [][ReopensNothing]_jobs

\* A queued operation is settled or handed to the operator, whatever (finitely
\* often) happens to the workers: restart recovery leaves no orphan RUNNING.
QueuedIsSettled ==
    \A k \in Keys :
        jobs[k].state = "QUEUED" ~> jobs[k].state \in {"SUCCEEDED", "FAILED", "UNKNOWN"}

-----------------------------------------------------------------------------
(* The inductive invariant behind the safety properties.                   *)

\* Who holds the lock descriptor: exactly the live workers and commands.
DescriptorsOfTheLiving ==
    /\ \A w \in Workers : w \in fdWorkers <=> wpc[w] # "off"
    /\ \A k \in Keys : k \in fdCommands <=> proc[k] = "running"

\* A live worker is the only one, and a live command is its own.
LockExcludes ==
    /\ \A v, w \in Workers : wpc[v] # "off" /\ wpc[w] # "off" => v = w
    /\ \A w \in Workers, k \in Keys :
          wpc[w] # "off" /\ proc[k] = "running" =>
             wpc[w] \in {"waiting", "leaving"} /\ wjob[w] = k

\* A command exists only for a job that was claimed, and then once.
StartedOnce ==
    /\ \A k \in Keys : spawns[k] = IF proc[k] = "none" THEN 0 ELSE 1
    /\ \A k \in Keys : proc[k] # "none" => jobs[k].state \notin {"NONE", "QUEUED"}

\* A worker between claim and the end of the command has a job, and before
\* Popen that job was never started.
ClaimedIsFresh ==
    \A w \in Workers :
        /\ wpc[w] \in Owning => wjob[w] \in Keys
        /\ wpc[w] \in {"claimed", "ready"} => proc[wjob[w]] = "none"

\* A request being served carries a post; an acknowledged key has a row.
PostsWellFormed ==
    /\ \A c \in Clients : cpc[c] # "idle" => cpost[c] \in Post
    /\ \A a \in acks : HasRow(a[1])

\* What the inherited lock guarantees.
LockInv ==
    /\ DescriptorsOfTheLiving
    /\ LockExcludes
    /\ StartedOnce
    /\ ClaimedIsFresh
    /\ SingleExecution

\* What the job table guarantees on top of it.
TableInv ==
    /\ PostsWellFormed
    /\ OnePending
    /\ LiveCommandIsOpen
    /\ LiveWorkerUndisturbed
    /\ AckedJobKept
    /\ HonestSuccess

\* The lock and the table are inductive only together: the lock keeps a live
\* worker's row its own, and that row is what makes a claimed job a fresh one.
IInv == TypeOK /\ LockInv /\ TableInv

-----------------------------------------------------------------------------
(* Refinement of SerialExecutor.                                           *)

PhaseOf(state) == CASE state = "NONE" -> "new"
                    [] state = "QUEUED" -> "queued"
                    [] state \in {"RUNNING", "UNKNOWN"} -> "open"
                    [] OTHER -> "closed"

phaseBar == [k \in Keys |-> PhaseOf(jobs[k].state)]
executingBar == {k \in Keys : proc[k] = "running"}
startedBar == {k \in Keys : proc[k] # "none"}

Abstract == INSTANCE SerialExecutor
              WITH Jobs <- Keys, phase <- phaseBar,
                   executing <- executingBar, started <- startedBar

\* Every behaviour of the queue and its workers is one of the serial executor.
ImplementsSerialExecutor == Abstract!SSpec
=============================================================================
