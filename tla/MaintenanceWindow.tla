-------------------------- MODULE MaintenanceWindow --------------------------
(***************************************************************************)
(* The resources every host operation of hop/operations shares: the        *)
(* refresh.lock that one process holds at a time, the Hop container in     *)
(* which native jobs run (and go on running when the process that started  *)
(* them is killed), the durable fence files the scheduler looks for, the   *)
(* installed scheduler adapter, the deployed artifacts, and the protected  *)
(* PostgreSQL rows.  Read-only native jobs (graph snapshots) are taken in  *)
(* the step that uses them; only jobs that write are kept in `native'.     *)
(***************************************************************************)
EXTENDS Integers, FiniteSets

CONSTANTS MaxRefresh,  \* source refreshes that change protected rows
          MaxFaults    \* kills and failures of processes and jobs

ASSUME WindowAssumption == MaxRefresh \in Nat /\ MaxFaults \in Nat

Migrations == {"batchfree", "flat"}

VARIABLES proc,       \* the process holding refresh.lock: its step, receipt, and if it resumes one
          native,     \* writing jobs alive in the Hop container
          fence,      \* the pending file of each migration: its token, or 0
          guards,     \* the fences the installed refresh adapter looks for
          artifacts,  \* public artifacts in the container: "old", "mixed", "new"
          data,       \* version of the source rows and of the business graph
          unfinished, \* refresh_execution rows that were never closed
          load,       \* the current flat graph load: its number and state
          gate,       \* catalogue readers require a VERIFIED flat load (SQL 028, 029)
          faults      \* faults left

pgVars == <<data, unfinished, load, gate>>
windowVars == <<proc, native, fence, guards, artifacts, pgVars, faults>>

Free == [script |-> "none", pc |-> "idle", token |-> 0, again |-> FALSE]

At(s, p) == proc.script = s /\ proc.pc = p
Goto(p) == proc' = [proc EXCEPT !.pc = p]
Exit == proc' = Free
Fault == faults > 0 /\ faults' = faults - 1

(* os.open, flock LOCK_NB and idle_cli: a live native job refuses a start.  *)
Start(s, p, t, again) ==
    /\ proc = Free
    /\ native = {}
    /\ proc' = [script |-> s, pc |-> p, token |-> t, again |-> again]

(* db_state with require_idle: nothing unfinished, no writer lease, and the *)
(* approved catalogue is still readable.                                    *)
Leased == load.state \in {"RUNNING", "STAGED"}
Readable == gate => load.state = "VERIFIED"
Quiet == unfinished = 0 /\ ~Leased /\ Readable

(* A launched job belongs to the script of the process that launched it.    *)
Launch(job) ==
    /\ native' = native \cup {[by |-> proc.script, job |-> job]}
    /\ Goto("wait")

(* When a process stops on an exception its job has failed with it, or (an  *)
(* interrupt) goes on without it.                                           *)
Survivors(s) == {j \in native : j.by # s}

Running(s, job) == [by |-> s, job |-> job] \in native

(* The job ends; its process, if it is still alive, goes on from pc "wait". *)
Join(s, job, p) ==
    /\ native' = native \ {[by |-> s, job |-> job]}
    /\ proc' = IF At(s, "wait") THEN [proc EXCEPT !.pc = p] ELSE proc

--------------------------------------------------------------------------
(* refresh.sh *)

RefreshStart ==
    /\ proc = Free
    /\ \A m \in guards : fence[m] = 0
    /\ proc' = [Free EXCEPT !.script = "refresh", !.pc = "queue"]
    /\ UNCHANGED <<native, fence, guards, artifacts, pgVars, faults>>

(* Each queued source opens an execution row and runs its workflow.         *)
RefreshSource ==
    /\ At("refresh", "queue")
    /\ data < MaxRefresh
    /\ Launch("source")
    /\ unfinished' = unfinished + 1
    /\ UNCHANGED <<fence, guards, artifacts, data, load, gate, faults>>

(* The workflow ends, with or without new rows; only a live runner closes   *)
(* the execution row.                                                       *)
RefreshDone ==
    /\ Running("refresh", "source")
    /\ data' \in {data, data + 1}
    /\ Join("refresh", "source", "queue")
    /\ unfinished' = IF At("refresh", "wait") THEN unfinished - 1 ELSE unfinished
    /\ UNCHANGED <<fence, guards, artifacts, load, gate, faults>>

RefreshExit ==
    /\ At("refresh", "queue")
    /\ Exit
    /\ UNCHANGED <<native, fence, guards, artifacts, pgVars, faults>>

(* The process and its children on the host are killed: the kernel drops    *)
(* the lock, the job in the container and every file written stay.          *)
Kill ==
    /\ Fault
    /\ proc # Free
    /\ Exit
    /\ UNCHANGED <<native, fence, guards, artifacts, pgVars>>

WindowInit ==
    /\ proc = Free
    /\ native = {}
    /\ fence = [m \in Migrations |-> 0]
    /\ guards \in SUBSET Migrations \ {{}}
    /\ artifacts = "old"
    /\ data = 0
    /\ unfinished = 0
    /\ load = [id |-> 0, state |-> "NONE"]
    /\ gate = FALSE
    /\ faults = MaxFaults

WindowNext == RefreshStart \/ RefreshSource \/ RefreshDone \/ RefreshExit \/ Kill

==============================================================================
