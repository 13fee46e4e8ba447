------------------------- MODULE HostDispatchProofs -------------------------
(***************************************************************************)
(* Proofs for HostDispatch: for every set of keys, requests, workers and   *)
(* clients and every number of faults, the safety properties hold and the  *)
(* queue with its workers implements SerialExecutor.                       *)
(*                                                                         *)
(* The argument.  The lock descriptor is held by exactly the live workers  *)
(* and commands (DescriptorsOfTheLiving), so Start and Reconcile find no   *)
(* one alive.  Hence a live worker is alone and the only live command is   *)
(* its own (LockExcludes), nobody else touches its RUNNING row             *)
(* (LiveWorkerUndisturbed), and since claim takes a job only when no row   *)
(* is RUNNING or UNKNOWN and rows never return to QUEUED, a claimed job    *)
(* was never started (ClaimedIsFresh, StartedOnce).                        *)
(***************************************************************************)
EXTENDS HostDispatch, TLAPS

USE NobodyAssumption, FaultsAssumption
USE DEF storeVars, workerVars, procVars, clientVars, TypeOK, StoreTypeOK, Row,
        States, WorkerPc, Exits, Post, Owning, Pending, HasRow, IInv

LEMMA InitEstablishes == Init => IInv
BY DEF Init, StoreInit, LockInv, DescriptorsOfTheLiving, LockExcludes, StartedOnce,
       ClaimedIsFresh, SingleExecution, TableInv, PostsWellFormed, OnePending,
       LiveCommandIsOpen, LiveWorkerUndisturbed, AckedJobKept, HonestSuccess

-----------------------------------------------------------------------------
(* One lemma per action.  The second step is about the lock, the third     *)
(* about the table.                                                        *)

\* A dashboard request that read the controls changes only itself.
LEMMA ReadControlsPreserves ==
  ASSUME IInv, NEW c \in Clients, ReadControls(c)
  PROVE  IInv'
<1> USE DEF ReadControls, has_pending
<1>1. TypeOK'
  BY DEF LockInv, ClaimedIsFresh, TableInv, PostsWellFormed
<1>2. LockInv'
  BY <1>1 DEF LockInv, DescriptorsOfTheLiving, LockExcludes, StartedOnce,
                  ClaimedIsFresh, SingleExecution,
                  TableInv, LiveWorkerUndisturbed
<1>3. TableInv'
  BY <1>1 DEF LockInv, DescriptorsOfTheLiving, LockExcludes, StartedOnce,
                  ClaimedIsFresh, SingleExecution,
                  TableInv, PostsWellFormed, OnePending, LiveCommandIsOpen,
                  LiveWorkerUndisturbed, AckedJobKept, HonestSuccess
<1> QED BY <1>1, <1>2, <1>3

\* Looking an idempotency key up changes only the request.
LEMMA LookupKeyPreserves ==
  ASSUME IInv, NEW c \in Clients, LookupKey(c)
  PROVE  IInv'
<1> USE DEF LookupKey, Answered
<1>1. TypeOK'
  <2>1. CASE Answered(c)
    BY <2>1 DEF LockInv, ClaimedIsFresh, TableInv, PostsWellFormed
  <2>2. CASE cpc' = [cpc EXCEPT ![c] = "enqueue"] /\ UNCHANGED cpost
    BY <2>2 DEF LockInv, ClaimedIsFresh, TableInv, PostsWellFormed
  <2> QED BY <2>1, <2>2
<1>2. LockInv'
  BY <1>1 DEF LockInv, DescriptorsOfTheLiving, LockExcludes, StartedOnce,
                  ClaimedIsFresh, SingleExecution,
                  TableInv, LiveWorkerUndisturbed
<1>3. TableInv'
  BY <1>1 DEF LockInv, DescriptorsOfTheLiving, LockExcludes, StartedOnce,
                  ClaimedIsFresh, SingleExecution,
                  TableInv, PostsWellFormed, OnePending, LiveCommandIsOpen,
                  LiveWorkerUndisturbed, AckedJobKept, HonestSuccess
<1> QED BY <1>1, <1>2, <1>3

\* The insert happens with nothing pending and only for a key without a row.
LEMMA EnqueueJobPreserves ==
  ASSUME IInv, NEW c \in Clients, EnqueueJob(c)
  PROVE  IInv'
<1> USE DEF EnqueueJob, Answered, enqueue, EnqueueReturns, has_pending
<1>1. TypeOK'
  BY DEF LockInv, ClaimedIsFresh, TableInv, PostsWellFormed
<1>2. LockInv'
  BY <1>1 DEF LockInv, DescriptorsOfTheLiving, LockExcludes, StartedOnce,
                  ClaimedIsFresh, SingleExecution,
                  TableInv, LiveWorkerUndisturbed
<1>3. TableInv'
  BY <1>1 DEF LockInv, DescriptorsOfTheLiving, LockExcludes, StartedOnce,
                  ClaimedIsFresh, SingleExecution,
                  TableInv, PostsWellFormed, OnePending, LiveCommandIsOpen,
                  LiveWorkerUndisturbed, AckedJobKept, HonestSuccess
<1> QED BY <1>1, <1>2, <1>3

\* The lock is free, so no worker and no command is alive when this one starts.
LEMMA StartPreserves ==
  ASSUME IInv, NEW w \in Workers, Start(w)
  PROVE  IInv'
<1> USE DEF Start, LockFree
<1>1. TypeOK'
  BY DEF LockInv, ClaimedIsFresh, TableInv, PostsWellFormed
<1>2. LockInv'
  BY <1>1 DEF LockInv, DescriptorsOfTheLiving, LockExcludes, StartedOnce,
                  ClaimedIsFresh, SingleExecution,
                  TableInv, LiveWorkerUndisturbed
<1>3. TableInv'
  BY <1>1 DEF LockInv, DescriptorsOfTheLiving, LockExcludes, StartedOnce,
                  ClaimedIsFresh, SingleExecution,
                  TableInv, PostsWellFormed, OnePending, LiveCommandIsOpen,
                  LiveWorkerUndisturbed, AckedJobKept, HonestSuccess
<1> QED BY <1>1, <1>2, <1>3

\* The recovering worker is alone: no live worker owns the rows it abandons.
LEMMA RecoverPreserves ==
  ASSUME IInv, NEW w \in Workers, Recover(w)
  PROVE  IInv'
<1> USE DEF Recover, abandon_running
<1>1. TypeOK'
  BY DEF LockInv, ClaimedIsFresh, TableInv, PostsWellFormed
<1>2. LockInv'
  BY <1>1 DEF LockInv, DescriptorsOfTheLiving, LockExcludes, StartedOnce,
                  ClaimedIsFresh, SingleExecution,
                  TableInv, LiveWorkerUndisturbed
<1>3. TableInv'
  BY <1>1 DEF LockInv, DescriptorsOfTheLiving, LockExcludes, StartedOnce,
                  ClaimedIsFresh, SingleExecution,
                  TableInv, PostsWellFormed, OnePending, LiveCommandIsOpen,
                  LiveWorkerUndisturbed, AckedJobKept, HonestSuccess
<1> QED BY <1>1, <1>2, <1>3

\* Only the live worker writes the heartbeat row.
LEMMA FirstBeatPreserves ==
  ASSUME IInv, NEW w \in Workers, FirstBeat(w)
  PROVE  IInv'
<1> USE DEF FirstBeat, heartbeat
<1>1. TypeOK'
  BY DEF LockInv, ClaimedIsFresh, TableInv, PostsWellFormed
<1>2. LockInv'
  BY <1>1 DEF LockInv, DescriptorsOfTheLiving, LockExcludes, StartedOnce,
                  ClaimedIsFresh, SingleExecution,
                  TableInv, LiveWorkerUndisturbed
<1>3. TableInv'
  BY <1>1 DEF LockInv, DescriptorsOfTheLiving, LockExcludes, StartedOnce,
                  ClaimedIsFresh, SingleExecution,
                  TableInv, PostsWellFormed, OnePending, LiveCommandIsOpen,
                  LiveWorkerUndisturbed, AckedJobKept, HonestSuccess
<1> QED BY <1>1, <1>2, <1>3

\* Only the live worker writes the heartbeat row.
LEMMA LoopBeatPreserves ==
  ASSUME IInv, NEW w \in Workers, LoopBeat(w)
  PROVE  IInv'
<1> USE DEF LoopBeat, heartbeat
<1>1. TypeOK'
  BY DEF LockInv, ClaimedIsFresh, TableInv, PostsWellFormed
<1>2. LockInv'
  BY <1>1 DEF LockInv, DescriptorsOfTheLiving, LockExcludes, StartedOnce,
                  ClaimedIsFresh, SingleExecution,
                  TableInv, LiveWorkerUndisturbed
<1>3. TableInv'
  BY <1>1 DEF LockInv, DescriptorsOfTheLiving, LockExcludes, StartedOnce,
                  ClaimedIsFresh, SingleExecution,
                  TableInv, PostsWellFormed, OnePending, LiveCommandIsOpen,
                  LiveWorkerUndisturbed, AckedJobKept, HonestSuccess
<1> QED BY <1>1, <1>2, <1>3

\* Nothing to claim: only the program counter moves.
LEMMA ClaimNonePreserves ==
  ASSUME IInv, NEW w \in Workers, ClaimNone(w)
  PROVE  IInv'
<1> USE DEF ClaimNone
<1>1. TypeOK'
  BY DEF LockInv, ClaimedIsFresh, TableInv, PostsWellFormed
<1>2. LockInv'
  BY <1>1 DEF LockInv, DescriptorsOfTheLiving, LockExcludes, StartedOnce,
                  ClaimedIsFresh, SingleExecution,
                  TableInv, LiveWorkerUndisturbed
<1>3. TableInv'
  BY <1>1 DEF LockInv, DescriptorsOfTheLiving, LockExcludes, StartedOnce,
                  ClaimedIsFresh, SingleExecution,
                  TableInv, PostsWellFormed, OnePending, LiveCommandIsOpen,
                  LiveWorkerUndisturbed, AckedJobKept, HonestSuccess
<1> QED BY <1>1, <1>2, <1>3

\* A QUEUED row has no command yet, and nothing else is RUNNING or UNKNOWN.
LEMMA ClaimJobPreserves ==
  ASSUME IInv, NEW w \in Workers, ClaimJob(w)
  PROVE  IInv'
<1> USE DEF ClaimJob, claim, Claimable
<1>1. TypeOK'
  BY DEF LockInv, ClaimedIsFresh, TableInv, PostsWellFormed
<1>2. LockInv'
  BY <1>1 DEF LockInv, DescriptorsOfTheLiving, LockExcludes, StartedOnce,
                  ClaimedIsFresh, SingleExecution,
                  TableInv, LiveWorkerUndisturbed
<1>3. TableInv'
  BY <1>1 DEF LockInv, DescriptorsOfTheLiving, LockExcludes, StartedOnce,
                  ClaimedIsFresh, SingleExecution,
                  TableInv, PostsWellFormed, OnePending, LiveCommandIsOpen,
                  LiveWorkerUndisturbed, AckedJobKept, HonestSuccess
<1> QED BY <1>1, <1>2, <1>3

\* The claimed row and its missing command stay as they are.
LEMMA ApproveJobPreserves ==
  ASSUME IInv, NEW w \in Workers, ApproveJob(w)
  PROVE  IInv'
<1> USE DEF ApproveJob, heartbeat
<1>1. TypeOK'
  BY DEF LockInv, ClaimedIsFresh, TableInv, PostsWellFormed
<1>2. LockInv'
  BY <1>1 DEF LockInv, DescriptorsOfTheLiving, LockExcludes, StartedOnce,
                  ClaimedIsFresh, SingleExecution,
                  TableInv, LiveWorkerUndisturbed
<1>3. TableInv'
  BY <1>1 DEF LockInv, DescriptorsOfTheLiving, LockExcludes, StartedOnce,
                  ClaimedIsFresh, SingleExecution,
                  TableInv, PostsWellFormed, OnePending, LiveCommandIsOpen,
                  LiveWorkerUndisturbed, AckedJobKept, HonestSuccess
<1> QED BY <1>1, <1>2, <1>3

\* The row is closed before any command was started.
LEMMA RejectJobPreserves ==
  ASSUME IInv, NEW w \in Workers, RejectJob(w)
  PROVE  IInv'
<1> USE DEF RejectJob, heartbeat, finish, FinishConflicts, AfterFinish
<1>1. TypeOK'
  BY DEF LockInv, ClaimedIsFresh, TableInv, PostsWellFormed
<1>2. LockInv'
  BY <1>1 DEF LockInv, DescriptorsOfTheLiving, LockExcludes, StartedOnce,
                  ClaimedIsFresh, SingleExecution,
                  TableInv, LiveWorkerUndisturbed
<1>3. TableInv'
  BY <1>1 DEF LockInv, DescriptorsOfTheLiving, LockExcludes, StartedOnce,
                  ClaimedIsFresh, SingleExecution,
                  TableInv, PostsWellFormed, OnePending, LiveCommandIsOpen,
                  LiveWorkerUndisturbed, AckedJobKept, HonestSuccess
<1> QED BY <1>1, <1>2, <1>3

\* The lock's owner has no live command, so the new one is alone and the first.
LEMMA SpawnPreserves ==
  ASSUME IInv, NEW w \in Workers, Spawn(w)
  PROVE  IInv'
<1> USE DEF Spawn
<1>1. TypeOK'
  BY DEF LockInv, ClaimedIsFresh, TableInv, PostsWellFormed
<1>2. LockInv'
  BY <1>1 DEF LockInv, DescriptorsOfTheLiving, LockExcludes, StartedOnce,
                  ClaimedIsFresh, SingleExecution,
                  TableInv, LiveWorkerUndisturbed
<1>3. TableInv'
  BY <1>1 DEF LockInv, DescriptorsOfTheLiving, LockExcludes, StartedOnce,
                  ClaimedIsFresh, SingleExecution,
                  TableInv, PostsWellFormed, OnePending, LiveCommandIsOpen,
                  LiveWorkerUndisturbed, AckedJobKept, HonestSuccess
<1> QED BY <1>1, <1>2, <1>3

\* The row is closed and no command was started.
LEMMA SpawnFailsPreserves ==
  ASSUME IInv, NEW w \in Workers, SpawnFails(w)
  PROVE  IInv'
<1> USE DEF SpawnFails, finish, FinishConflicts, AfterFinish
<1>1. TypeOK'
  BY DEF LockInv, ClaimedIsFresh, TableInv, PostsWellFormed
<1>2. LockInv'
  BY <1>1 DEF LockInv, DescriptorsOfTheLiving, LockExcludes, StartedOnce,
                  ClaimedIsFresh, SingleExecution,
                  TableInv, LiveWorkerUndisturbed
<1>3. TableInv'
  BY <1>1 DEF LockInv, DescriptorsOfTheLiving, LockExcludes, StartedOnce,
                  ClaimedIsFresh, SingleExecution,
                  TableInv, PostsWellFormed, OnePending, LiveCommandIsOpen,
                  LiveWorkerUndisturbed, AckedJobKept, HonestSuccess
<1> QED BY <1>1, <1>2, <1>3

\* The exit code of the own, finished command is recorded in the own RUNNING row.
LEMMA ReapPreserves ==
  ASSUME IInv, NEW w \in Workers, Reap(w)
  PROVE  IInv'
<1> USE DEF Reap, heartbeat, finish, FinishConflicts, AfterFinish, Outcome
<1>1. TypeOK'
  BY DEF LockInv, ClaimedIsFresh, TableInv, PostsWellFormed
<1>2. LockInv'
  BY <1>1 DEF LockInv, DescriptorsOfTheLiving, LockExcludes, StartedOnce,
                  ClaimedIsFresh, SingleExecution,
                  TableInv, LiveWorkerUndisturbed
<1>3. TableInv'
  BY <1>1 DEF LockInv, DescriptorsOfTheLiving, LockExcludes, StartedOnce,
                  ClaimedIsFresh, SingleExecution,
                  TableInv, PostsWellFormed, OnePending, LiveCommandIsOpen,
                  LiveWorkerUndisturbed, AckedJobKept, HonestSuccess
<1> QED BY <1>1, <1>2, <1>3

\* The worker row and the worker's descriptor disappear; a surviving command keeps its own.
LEMMA LeavePreserves ==
  ASSUME IInv, NEW w \in Workers, Leave(w)
  PROVE  IInv'
<1> USE DEF Leave, stop_worker
<1>1. TypeOK'
  BY DEF LockInv, ClaimedIsFresh, TableInv, PostsWellFormed
<1>2. LockInv'
  BY <1>1 DEF LockInv, DescriptorsOfTheLiving, LockExcludes, StartedOnce,
                  ClaimedIsFresh, SingleExecution,
                  TableInv, LiveWorkerUndisturbed
<1>3. TableInv'
  BY <1>1 DEF LockInv, DescriptorsOfTheLiving, LockExcludes, StartedOnce,
                  ClaimedIsFresh, SingleExecution,
                  TableInv, PostsWellFormed, OnePending, LiveCommandIsOpen,
                  LiveWorkerUndisturbed, AckedJobKept, HonestSuccess
<1> QED BY <1>1, <1>2, <1>3

\* The live worker refreshes its own heartbeat.
LEMMA WaitBeatPreserves ==
  ASSUME IInv, NEW w \in Workers, WaitBeat(w)
  PROVE  IInv'
<1> USE DEF WaitBeat, heartbeat
<1>1. TypeOK'
  BY DEF LockInv, ClaimedIsFresh, TableInv, PostsWellFormed
<1>2. LockInv'
  BY <1>1 DEF LockInv, DescriptorsOfTheLiving, LockExcludes, StartedOnce,
                  ClaimedIsFresh, SingleExecution,
                  TableInv, LiveWorkerUndisturbed
<1>3. TableInv'
  BY <1>1 DEF LockInv, DescriptorsOfTheLiving, LockExcludes, StartedOnce,
                  ClaimedIsFresh, SingleExecution,
                  TableInv, PostsWellFormed, OnePending, LiveCommandIsOpen,
                  LiveWorkerUndisturbed, AckedJobKept, HonestSuccess
<1> QED BY <1>1, <1>2, <1>3

\* The row becomes UNKNOWN or stays RUNNING while the command may live on.
LEMMA WaitFailsPreserves ==
  ASSUME IInv, NEW w \in Workers, WaitFails(w)
  PROVE  IInv'
<1> USE DEF WaitFails, finish, FinishConflicts
<1>1. TypeOK'
  <2>1. CASE finish(wjob[w], "UNKNOWN")
    BY <2>1 DEF LockInv, ClaimedIsFresh
  <2>2. CASE UNCHANGED jobs
    BY <2>2
  <2> QED BY <2>1, <2>2
<1>2. LockInv'
  BY <1>1 DEF LockInv, DescriptorsOfTheLiving, LockExcludes, StartedOnce,
                  ClaimedIsFresh, SingleExecution,
                  TableInv, LiveWorkerUndisturbed
<1>3. TableInv'
  <2>1. CASE finish(wjob[w], "UNKNOWN")
    BY <1>1, <2>1 DEF LockInv, DescriptorsOfTheLiving, LockExcludes, StartedOnce,
                  ClaimedIsFresh, SingleExecution,
                  TableInv, PostsWellFormed, OnePending, LiveCommandIsOpen,
                  LiveWorkerUndisturbed, AckedJobKept, HonestSuccess
  <2>2. CASE UNCHANGED jobs
    BY <1>1, <2>2 DEF LockInv, DescriptorsOfTheLiving, LockExcludes, StartedOnce,
                  ClaimedIsFresh, SingleExecution,
                  TableInv, PostsWellFormed, OnePending, LiveCommandIsOpen,
                  LiveWorkerUndisturbed, AckedJobKept, HonestSuccess
  <2> QED BY <2>1, <2>2
<1> QED BY <1>1, <1>2, <1>3

\* The worker leaves with its row still RUNNING and no command of it alive.
LEMMA InterruptPreserves ==
  ASSUME IInv, NEW w \in Workers, Interrupt(w)
  PROVE  IInv'
<1> USE DEF Interrupt
<1>1. TypeOK'
  BY DEF LockInv, ClaimedIsFresh, TableInv, PostsWellFormed
<1>2. LockInv'
  BY <1>1 DEF LockInv, DescriptorsOfTheLiving, LockExcludes, StartedOnce,
                  ClaimedIsFresh, SingleExecution,
                  TableInv, LiveWorkerUndisturbed
<1>3. TableInv'
  BY <1>1 DEF LockInv, DescriptorsOfTheLiving, LockExcludes, StartedOnce,
                  ClaimedIsFresh, SingleExecution,
                  TableInv, PostsWellFormed, OnePending, LiveCommandIsOpen,
                  LiveWorkerUndisturbed, AckedJobKept, HonestSuccess
<1> QED BY <1>1, <1>2, <1>3

\* Only the descriptor of the dead worker goes; rows and commands stay.
LEMMA CrashPreserves ==
  ASSUME IInv, NEW w \in Workers, Crash(w)
  PROVE  IInv'
<1> USE DEF Crash
<1>1. TypeOK'
  BY DEF LockInv, ClaimedIsFresh, TableInv, PostsWellFormed
<1>2. LockInv'
  BY <1>1 DEF LockInv, DescriptorsOfTheLiving, LockExcludes, StartedOnce,
                  ClaimedIsFresh, SingleExecution,
                  TableInv, LiveWorkerUndisturbed
<1>3. TableInv'
  BY <1>1 DEF LockInv, DescriptorsOfTheLiving, LockExcludes, StartedOnce,
                  ClaimedIsFresh, SingleExecution,
                  TableInv, PostsWellFormed, OnePending, LiveCommandIsOpen,
                  LiveWorkerUndisturbed, AckedJobKept, HonestSuccess
<1> QED BY <1>1, <1>2, <1>3

\* The command's descriptor goes with it.
LEMMA CommandExitsPreserves ==
  ASSUME IInv, NEW k \in Keys, CommandExits(k)
  PROVE  IInv'
<1> USE DEF CommandExits
<1>1. TypeOK'
  BY DEF LockInv, ClaimedIsFresh, TableInv, PostsWellFormed
<1>2. LockInv'
  BY <1>1 DEF LockInv, DescriptorsOfTheLiving, LockExcludes, StartedOnce,
                  ClaimedIsFresh, SingleExecution,
                  TableInv, LiveWorkerUndisturbed
<1>3. TableInv'
  BY <1>1 DEF LockInv, DescriptorsOfTheLiving, LockExcludes, StartedOnce,
                  ClaimedIsFresh, SingleExecution,
                  TableInv, PostsWellFormed, OnePending, LiveCommandIsOpen,
                  LiveWorkerUndisturbed, AckedJobKept, HonestSuccess
<1> QED BY <1>1, <1>2, <1>3

\* The lock is free, so no command is alive when an UNKNOWN row is settled.
LEMMA ReconcilePreserves ==
  ASSUME IInv, NEW k \in Keys, Reconcile(k)
  PROVE  IInv'
<1> USE DEF Reconcile, LockFree
<1>1. TypeOK'
  BY DEF LockInv, ClaimedIsFresh, TableInv, PostsWellFormed
<1>2. LockInv'
  BY <1>1 DEF LockInv, DescriptorsOfTheLiving, LockExcludes, StartedOnce,
                  ClaimedIsFresh, SingleExecution,
                  TableInv, LiveWorkerUndisturbed
<1>3. TableInv'
  BY <1>1 DEF LockInv, DescriptorsOfTheLiving, LockExcludes, StartedOnce,
                  ClaimedIsFresh, SingleExecution,
                  TableInv, PostsWellFormed, OnePending, LiveCommandIsOpen,
                  LiveWorkerUndisturbed, AckedJobKept, HonestSuccess
<1> QED BY <1>1, <1>2, <1>3

\* Stuttering, and the split of Next into its actions.
LEMMA Inductive == IInv /\ [Next]_vars => IInv'
<1> SUFFICES ASSUME IInv, [Next]_vars PROVE IInv'  OBVIOUS
<1>1. CASE UNCHANGED vars
  BY <1>1 DEF vars, LockInv, DescriptorsOfTheLiving, LockExcludes, StartedOnce,
              ClaimedIsFresh, SingleExecution, TableInv, PostsWellFormed, OnePending,
              LiveCommandIsOpen, LiveWorkerUndisturbed, AckedJobKept, HonestSuccess
<1>2. CASE Next
  BY <1>2, ReadControlsPreserves, LookupKeyPreserves, EnqueueJobPreserves, StartPreserves,
           RecoverPreserves, FirstBeatPreserves, LoopBeatPreserves, ClaimNonePreserves,
           ClaimJobPreserves, ApproveJobPreserves, RejectJobPreserves, SpawnPreserves,
           SpawnFailsPreserves, ReapPreserves, LeavePreserves, WaitBeatPreserves,
           WaitFailsPreserves, InterruptPreserves, CrashPreserves, CommandExitsPreserves,
           ReconcilePreserves
  DEF Next, ClientStep, WorkerStep
<1> QED BY <1>1, <1>2

LEMMA Invariance == Spec => []IInv
<1>1. Init => IInv
  BY InitEstablishes
<1>2. IInv /\ [Next]_vars => IInv'
  BY Inductive
<1> QED BY <1>1, <1>2, PTL DEF Spec

-----------------------------------------------------------------------------
(* The safety properties.                                                  *)

\* Every variable keeps its type.
THEOREM TypeCorrect == Spec => []TypeOK
<1>1. IInv => TypeOK
  OBVIOUS
<1> QED BY <1>1, Invariance, PTL

\* At most one host operation runs, for any number of workers and crashes.
THEOREM MutualExclusion == Spec => []SingleExecution
<1>1. IInv => SingleExecution
  BY DEF LockInv
<1> QED BY <1>1, Invariance, PTL

\* No command is ever started twice, for any number of restarts.
THEOREM NeverReplayed == Spec => []AtMostOnce
<1>1. IInv => AtMostOnce
  <2> SUFFICES ASSUME IInv, NEW k \in Keys PROVE spawns[k] <= 1
    BY DEF AtMostOnce
  <2>1. spawns[k] \in {0, 1}
    BY DEF LockInv, StartedOnce
  <2> QED BY <2>1
<1> QED BY <1>1, Invariance, PTL

\* The queue holds one pending job, for any number of concurrent requests.
THEOREM QueueIsSerial == Spec => []OnePending
<1>1. IInv => OnePending
  BY DEF TableInv
<1> QED BY <1>1, Invariance, PTL

\* A running command is never recorded as settled.
THEOREM RunningIsOpen == Spec => []LiveCommandIsOpen
<1>1. IInv => LiveCommandIsOpen
  BY DEF TableInv
<1> QED BY <1>1, Invariance, PTL

\* A duplicate start never disturbs the live worker, so finish never conflicts.
THEOREM Undisturbed == Spec => []LiveWorkerUndisturbed
<1>1. IInv => LiveWorkerUndisturbed
  BY DEF TableInv
<1> QED BY <1>1, Invariance, PTL

\* An idempotency key stays bound to the request it was first accepted for.
THEOREM Idempotent == Spec => []AckedJobKept
<1>1. IInv => AckedJobKept
  BY DEF TableInv
<1> QED BY <1>1, Invariance, PTL

\* SUCCEEDED always means that the command exited with 0.
THEOREM SuccessIsHonest == Spec => []HonestSuccess
<1>1. IInv => HonestSuccess
  BY DEF TableInv
<1> QED BY <1>1, Invariance, PTL

-----------------------------------------------------------------------------
(* The action property.                                                    *)

LEMMA StepReopensNothing == IInv /\ [Next]_vars => [ReopensNothing]_jobs
<1> SUFFICES ASSUME IInv, Next PROVE [ReopensNothing]_jobs
  BY DEF vars
<1> USE DEF ReopensNothing
<1>1. ASSUME NEW c \in Clients, ClientStep(c) PROVE [ReopensNothing]_jobs
  BY <1>1 DEF ClientStep, ReadControls, LookupKey, EnqueueJob, enqueue, has_pending,
              TableInv, PostsWellFormed
<1>2. ASSUME NEW w \in Workers,
             \/ Start(w) \/ FirstBeat(w) \/ LoopBeat(w) \/ ClaimNone(w) \/ ApproveJob(w)
             \/ Spawn(w) \/ Leave(w) \/ WaitBeat(w) \/ Interrupt(w) \/ Crash(w)
      PROVE  UNCHANGED jobs
  BY <1>2 DEF Start, FirstBeat, LoopBeat, ClaimNone, ApproveJob, Spawn, Leave, WaitBeat,
              Interrupt, Crash
<1>3. ASSUME NEW w \in Workers, Recover(w) PROVE [ReopensNothing]_jobs
  BY <1>3 DEF Recover, abandon_running
<1>4. ASSUME NEW w \in Workers, ClaimJob(w) PROVE [ReopensNothing]_jobs
  BY <1>4 DEF ClaimJob, Claimable, claim
<1>5. ASSUME NEW w \in Workers, RejectJob(w) \/ SpawnFails(w) \/ Reap(w) \/ WaitFails(w)
      PROVE  [ReopensNothing]_jobs
  BY <1>5 DEF RejectJob, SpawnFails, Reap, WaitFails, finish, FinishConflicts, Outcome,
              LockInv, ClaimedIsFresh
<1>6. ASSUME NEW k \in Keys, CommandExits(k) \/ Reconcile(k) PROVE [ReopensNothing]_jobs
  BY <1>6 DEF CommandExits, Reconcile, LockFree, LockInv, DescriptorsOfTheLiving
<1> QED
  BY <1>1, <1>2, <1>3, <1>4, <1>5, <1>6 DEF Next, WorkerStep

\* Rows never return to QUEUED, final rows are final, and UNKNOWN is settled
\* only when nothing of the host worker is alive.
THEOREM JobsNeverReopen == Spec => NothingReopens
<1>1. IInv /\ [Next]_vars => [ReopensNothing]_jobs
  BY StepReopensNothing
<1> QED BY <1>1, Invariance, PTL DEF Spec, NothingReopens

-----------------------------------------------------------------------------
(* Refinement.                                                             *)

LEMMA InitRefines == Init => Abstract!SInit
BY DEF Init, StoreInit, Abstract!SInit, phaseBar, executingBar, startedBar, PhaseOf

\* One row's new state is one job's new phase.
LEMMA PhaseUpdate ==
  ASSUME NEW k \in Keys, NEW s,
         \A i \in Keys : jobs'[i].state = IF i = k THEN s ELSE jobs[i].state
  PROVE  phaseBar' = [phaseBar EXCEPT ![k] = PhaseOf(s)]
<1>1. \A i \in Keys : PhaseOf(jobs'[i].state) = IF i = k THEN PhaseOf(s)
                                                ELSE PhaseOf(jobs[i].state)
  OBVIOUS
<1> QED BY <1>1 DEF phaseBar

LEMMA StepRefines == IInv /\ [Next]_vars => [Abstract!SNext]_(Abstract!svars)
<1> SUFFICES ASSUME IInv, [Next]_vars PROVE [Abstract!SNext]_(Abstract!svars)
  OBVIOUS
<1> USE DEF phaseBar, executingBar, startedBar, PhaseOf, Abstract!svars
<1>0. (UNCHANGED <<jobs, proc>>) => UNCHANGED Abstract!svars
  OBVIOUS
<1>1. CASE UNCHANGED vars
  BY <1>0, <1>1 DEF vars
<1>2. ASSUME NEW c \in Clients, ClientStep(c) PROVE [Abstract!SNext]_(Abstract!svars)
  <2>1. CASE UNCHANGED jobs
    BY <1>0, <1>2, <2>1 DEF ClientStep, ReadControls, LookupKey, EnqueueJob
  <2>2. CASE ~UNCHANGED jobs
    <3>0. PICK k \in Keys : k = cpost[c].key
      BY <1>2, <2>2 DEF ClientStep, ReadControls, LookupKey, EnqueueJob, TableInv,
         PostsWellFormed
    <3>1. ~HasRow(k) /\ ~has_pending /\ UNCHANGED proc
      BY <1>2, <2>2, <3>0 DEF ClientStep, ReadControls, LookupKey, EnqueueJob, enqueue
    <3>2. jobs' = [jobs EXCEPT ![k] = [state |-> "QUEUED", req |-> cpost[c].req]]
      BY <1>2, <2>2, <3>0 DEF ClientStep, ReadControls, LookupKey, EnqueueJob, enqueue
    <3>3. phaseBar' = [phaseBar EXCEPT ![k] = PhaseOf("QUEUED")]
      <4>1. \A i \in Keys : jobs'[i].state = IF i = k THEN "QUEUED" ELSE jobs[i].state
        BY <3>2
      <4> HIDE DEF phaseBar, PhaseOf
      <4> QED BY <4>1, PhaseUpdate
    <3>4. \A i \in Keys : Abstract!Admissible(i)
      BY <3>1 DEF has_pending, Abstract!Admissible
    <3>5. Abstract!Submit(k)
      BY <3>1, <3>3, <3>4 DEF Abstract!Submit
    <3> QED BY <3>5 DEF Abstract!SNext
  <2> QED BY <2>1, <2>2
<1>3. ASSUME NEW w \in Workers,
             \/ Start(w) \/ FirstBeat(w) \/ LoopBeat(w) \/ ClaimNone(w) \/ ApproveJob(w)
             \/ Leave(w) \/ WaitBeat(w) \/ Interrupt(w) \/ Crash(w)
      PROVE  UNCHANGED Abstract!svars
  <2>1. UNCHANGED <<jobs, proc>>
    BY <1>3 DEF Start, FirstBeat, LoopBeat, ClaimNone, ApproveJob, Leave, WaitBeat,
              Interrupt, Crash
  <2> QED BY <1>0, <2>1
<1>4. ASSUME NEW w \in Workers, Recover(w) \/ WaitFails(w) PROVE UNCHANGED Abstract!svars
  BY <1>4 DEF Recover, abandon_running, WaitFails, finish, FinishConflicts, LockInv,
              ClaimedIsFresh
<1>5. ASSUME NEW w \in Workers, ClaimJob(w) PROVE [Abstract!SNext]_(Abstract!svars)
  <2>1. PICK k \in Keys : Claimable(k) /\ claim(k)
    BY <1>5 DEF ClaimJob
  <2>2. phaseBar' = [phaseBar EXCEPT ![k] = PhaseOf("RUNNING")]
    <3>1. \A i \in Keys : jobs'[i].state = IF i = k THEN "RUNNING" ELSE jobs[i].state
      BY <2>1 DEF claim
    <3> HIDE DEF phaseBar, PhaseOf
    <3> QED BY <3>1, PhaseUpdate
  <2>3. phaseBar[k] = "queued" /\ UNCHANGED proc
    BY <1>5, <2>1 DEF ClaimJob, Claimable
  <2>4. Abstract!Take(k)
    BY <2>2, <2>3 DEF Abstract!Take
  <2> QED BY <2>4 DEF Abstract!SNext
<1>6. ASSUME NEW w \in Workers, RejectJob(w) \/ SpawnFails(w) \/ Reap(w)
      PROVE  [Abstract!SNext]_(Abstract!svars)
  <2>0. PICK k \in Keys : k = wjob[w]
    BY <1>6 DEF RejectJob, SpawnFails, Reap, LockInv, ClaimedIsFresh
  <2>1. jobs[k].state = "RUNNING" /\ proc[k] # "running"
    BY <1>6, <2>0 DEF RejectJob, SpawnFails, Reap, LockInv, ClaimedIsFresh, TableInv,
                LiveWorkerUndisturbed
  <2>2. PICK s \in {"SUCCEEDED", "FAILED", "UNKNOWN"} :
            jobs' = [jobs EXCEPT ![k].state = s]
    BY <1>6, <2>0, <2>1 DEF RejectJob, SpawnFails, Reap, finish, FinishConflicts, Outcome
  <2>3. UNCHANGED proc
    BY <1>6 DEF RejectJob, SpawnFails, Reap
  <2>4. CASE s = "UNKNOWN"
    BY <2>1, <2>2, <2>3, <2>4
  <2>5. CASE s # "UNKNOWN"
    <3>1. phaseBar' = [phaseBar EXCEPT ![k] = PhaseOf(s)]
      <4>1. \A i \in Keys : jobs'[i].state = IF i = k THEN s ELSE jobs[i].state
        BY <2>2
      <4> HIDE DEF phaseBar, PhaseOf
      <4> QED BY <4>1, PhaseUpdate
    <3>2. PhaseOf(s) = "closed"
      BY <2>5
    <3>3. Abstract!Close(k)
      BY <2>1, <2>3, <3>1, <3>2 DEF Abstract!Close
    <3> QED BY <2>1, <3>3 DEF Abstract!SNext
  <2> QED BY <2>4, <2>5
<1>7. ASSUME NEW w \in Workers, Spawn(w) PROVE [Abstract!SNext]_(Abstract!svars)
  <2>0. PICK k \in Keys : k = wjob[w]
    BY <1>7 DEF Spawn, LockInv, ClaimedIsFresh
  <2>1. jobs[k].state = "RUNNING" /\ proc[k] = "none"
    BY <1>7, <2>0 DEF Spawn, LockInv, ClaimedIsFresh, TableInv, LiveWorkerUndisturbed
  <2>2. \A j \in Keys : proc[j] # "running"
    BY <1>7 DEF Spawn, LockInv, LockExcludes
  <2>3. UNCHANGED jobs /\ proc' = [proc EXCEPT ![k] = "running"]
    BY <1>7, <2>0 DEF Spawn
  <2>4. executingBar = {} /\ executingBar' = {k}
    BY <2>1, <2>2, <2>3
  <2>5. k \notin startedBar /\ startedBar' = startedBar \cup {k}
    BY <2>1, <2>3
  <2>6. phaseBar[k] = "open" /\ UNCHANGED phaseBar
    BY <2>1, <2>3
  <2>7. Abstract!Launch(k)
    <3> HIDE DEF phaseBar, executingBar, startedBar
    <3> QED BY <2>4, <2>5, <2>6 DEF Abstract!Launch
  <2> QED BY <2>1, <2>7 DEF Abstract!SNext
<1>8. ASSUME NEW k \in Keys, CommandExits(k) PROVE [Abstract!SNext]_(Abstract!svars)
  <2>1. Abstract!End(k)
    BY <1>8 DEF CommandExits, LockInv, SingleExecution, Abstract!End
  <2> QED BY <2>1 DEF Abstract!SNext
<1>9. ASSUME NEW k \in Keys, Reconcile(k) PROVE [Abstract!SNext]_(Abstract!svars)
  <2>1. proc[k] # "running"
    BY <1>9 DEF Reconcile, LockFree, LockInv, DescriptorsOfTheLiving
  <2>0. PICK s \in {"SUCCEEDED", "FAILED"} : jobs' = [jobs EXCEPT ![k].state = s]
    BY <1>9 DEF Reconcile
  <2>2. phaseBar' = [phaseBar EXCEPT ![k] = PhaseOf(s)]
    <3>1. \A i \in Keys : jobs'[i].state = IF i = k THEN s ELSE jobs[i].state
      BY <2>0
    <3> HIDE DEF phaseBar, PhaseOf
    <3> QED BY <3>1, PhaseUpdate
  <2>3. phaseBar[k] = "open" /\ PhaseOf(s) = "closed" /\ UNCHANGED proc
    BY <1>9 DEF Reconcile
  <2>4. Abstract!Close(k)
    BY <2>1, <2>2, <2>3 DEF Abstract!Close
  <2> QED BY <2>4 DEF Abstract!SNext
<1> QED
  BY <1>1, <1>2, <1>3, <1>4, <1>5, <1>6, <1>7, <1>8, <1>9 DEF Next, WorkerStep

\* The queue, the workers, their crashes and the operator together implement
\* the serial executor.
THEOREM Refinement == Spec => ImplementsSerialExecutor
<1>1. Init => Abstract!SInit
  BY InitRefines
<1>2. IInv /\ [Next]_vars => [Abstract!SNext]_(Abstract!svars)
  BY StepRefines
<1> QED BY <1>1, <1>2, Invariance, PTL DEF Spec, ImplementsSerialExecutor, Abstract!SSpec
=============================================================================
