--------------------------- MODULE SerialExecutor ---------------------------
(***************************************************************************)
(* What the admin queue and the host worker promise together, with no      *)
(* queue, lock, worker or crash in sight: operations are admitted one at a *)
(* time, the command of an operation is started at most once, it never     *)
(* overlaps another one, and an operation is closed for good only when its *)
(* command is not running.  HostDispatch implements this specification.    *)
(***************************************************************************)
CONSTANT Jobs

VARIABLES phase,      \* Jobs -> "new" | "queued" | "open" | "closed"
          executing,  \* the jobs whose command is running now
          started     \* the jobs whose command was ever started

svars == <<phase, executing, started>>

Admissible(j) == phase[j] \in {"new", "closed"}

SInit ==
    /\ phase = [j \in Jobs |-> "new"]
    /\ executing = {}
    /\ started = {}

\* A new job is admitted only when every other one is closed or was never asked for.
Submit(j) ==
    /\ phase[j] = "new"
    /\ \A i \in Jobs : Admissible(i)
    /\ phase' = [phase EXCEPT ![j] = "queued"]
    /\ UNCHANGED <<executing, started>>

\* The job is taken off the queue, for ever.
Take(j) ==
    /\ phase[j] = "queued"
    /\ phase' = [phase EXCEPT ![j] = "open"]
    /\ UNCHANGED <<executing, started>>

Launch(j) ==
    /\ phase[j] = "open"
    /\ j \notin started
    /\ executing = {}
    /\ executing' = {j}
    /\ started' = started \cup {j}
    /\ UNCHANGED phase

End(j) ==
    /\ executing = {j}
    /\ executing' = {}
    /\ UNCHANGED <<phase, started>>

Close(j) ==
    /\ phase[j] = "open"
    /\ j \notin executing
    /\ phase' = [phase EXCEPT ![j] = "closed"]
    /\ UNCHANGED <<executing, started>>

SNext == \E j \in Jobs : Submit(j) \/ Take(j) \/ Launch(j) \/ End(j) \/ Close(j)

SSpec == SInit /\ [][SNext]_svars
=============================================================================
