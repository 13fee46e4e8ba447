----------------------- MODULE UpdateSchedulerProofs -----------------------
(***************************************************************************)
(* Proofs for UpdateScheduler: for every schedule, any number of ticks,    *)
(* configurations and faults, as long as none of the faults deceives the   *)
(* updater, ticks do not overlap, a READY row rests on a certified fetch   *)
(* of its own configuration, and no fetch is certified twice or wasted.    *)
(*                                                                         *)
(* The argument.  A tick that is at work holds the one advisory lock       *)
(* (LockInv), so whoever writes a row is the only one to have read it, and *)
(* what it read is still what is there (TickInv).  The error of a row says *)
(* what its fetch went through (RowInv): a fetch that was certified is     *)
(* left in a READY row or in a row that failed with another error than     *)
(* OperationalError, and these are the ones resumable refuses.             *)
(***************************************************************************)
EXTENDS UpdateScheduler, TLAPS

\* The inductive invariant has a part that no fault disturbs: the types, and
\* that a tick past "read" is at a source, with what its position needs.
LocalOK(l) ==
    /\ l.pc \notin {"idle", "read"} => l.at =< Len(Order)
    /\ l.pc \in {"alive", "start", "fetch", "fetched"} => l.config \in Configs
    /\ l.pc \in {"fetched", "process"} => l.run \in Run

TypeInv == TypeOK /\ \A t \in Ticks : LocalOK(tick[t])

\* The tick that is at work holds the lock, and there is one.
LockInv ==
    /\ \A t \in Ticks : lock[t] = IF tick[t].pc = "idle" THEN "none" ELSE "held"
    /\ \A t, u \in Ticks : lock[t] = "held" /\ lock[u] = "held" => t = u

\* What a row says of the fetch it refers to.
RowInv(row) ==
    /\ row.state = "NONE" => row.conn = None
    /\ row.state = "READY" => row.conn # None /\ row.conn.certified
    /\ row.conn # None => row.conn.config = row.config
    /\ row.conn # None /\ row.conn.certified => row.state # "RUNNING" /\ row.error # "OperationalError"
    /\ row.state # "FAILED" => row.error = "none"
    /\ row.state = "FAILED" => row.error # "none"

\* The row a tick read is the row that is there, but for the time that passed.
SameRow(row, other) ==
    /\ row.state = other.state /\ row.config = other.config
    /\ row.conn = other.conn /\ row.error = other.error

\* What a tick with the locals l knows of the row of the source it is at.
Knows(l, row) ==
    /\ l.pc \in {"check", "alive", "start"} => SameRow(l.row, row)
    /\ l.pc \in {"fetch", "fetched", "process", "alive2", "finish"} =>
          row.state = "RUNNING" /\ row.config = l.config
    /\ l.pc = "fetch" => row.conn = None
    /\ l.pc \in {"fetched", "process", "alive2", "finish"} =>
          l.run # None /\ l.run.config = l.config /\ ~l.run.certified
    /\ l.pc \in {"process", "alive2", "finish"} => row.conn = l.run
    /\ l.pc = "except" =>
          /\ l.error # "none"
          /\ row.conn # None /\ row.conn.certified => l.error = "other"

\* What holds until a fault deceives the updater.
UInv ==
    /\ LockInv
    /\ \A s \in Sources : RowInv(sync[s])
    /\ \A t \in Ticks : tick[t].pc \notin {"idle", "read"} => Knows(tick[t], sync[Src(t)])

\* The inductive invariant.
IInv == TypeInv /\ (Undeceived => UInv)

-----------------------------------------------------------------------------
(* Types.                                                                   *)

LEMMA SrcIsSource ==
  ASSUME TypeInv, NEW t \in Ticks, tick[t].pc \notin {"idle", "read"}
  PROVE  tick[t].at \in 1 .. Len(Order) /\ Src(t) \in Sources
<1>1. tick[t].at \in 1 .. Len(Order)
  BY ScheduleAssumption DEF TypeInv, TypeOK, Tick, LocalOK
<1>2. DOMAIN Order = 1 .. Len(Order)
  BY ScheduleAssumption
<1> QED BY <1>1, <1>2 DEF Src, Sources

LEMMA IdleIsTick ==
  /\ Idle \in Tick /\ LocalOK(Idle) /\ Idle.pc = "idle"
  /\ NoRow \in Row /\ RowInv(NoRow)
<1>1. NoRow \in Row /\ RowInv(NoRow)
  BY ScheduleAssumption DEF NoRow, Row, Errors, RowInv
<1>2. 1 \in 1 .. Len(Order) + 1
  BY ScheduleAssumption
<1> QED BY <1>1, <1>2 DEF Idle, Tick, Positions, Errors, LocalOK

\* One tick moves.
LEMMA TickMoves ==
  ASSUME TypeInv, NEW t \in Ticks, NEW x \in Tick, LocalOK(x), tick' = [tick EXCEPT ![t] = x]
  PROVE  /\ tick' \in [Ticks -> Tick] /\ \A u \in Ticks : LocalOK(tick'[u])
         /\ tick'[t] = x /\ \A u \in Ticks : u # t => tick'[u] = tick[u]
BY DEF TypeInv, TypeOK

LEMMA FaultTypes ==
  ASSUME TypeInv, NEW k, Fault(k)
  PROVE  faults' \in [n : 0 .. MaxFaults, deceiving : BOOLEAN]
<1>1. faults.n \in Nat /\ faults.n < MaxFaults /\ faults.deceiving \in BOOLEAN
  BY ScheduleAssumption DEF TypeInv, TypeOK, Fault
<1>2. faults.n + 1 \in 0 .. MaxFaults
  BY <1>1, ScheduleAssumption
<1>3. (faults.deceiving \/ k \in {"early", "lock", "ack"}) \in BOOLEAN
  BY <1>1
<1> QED BY <1>2, <1>3 DEF Fault

LEMMA AdvanceTypes ==
  ASSUME TypeInv, NEW t \in Ticks, tick[t].pc \notin {"idle", "read"}, NEW f \in SUBSET Sources, Advance(t, f)
  PROVE  /\ tick' \in [Ticks -> Tick] /\ \A u \in Ticks : LocalOK(tick'[u])
         /\ tick'[t].pc = "read" /\ \A u \in Ticks : u # t => tick'[u] = tick[u]
<1> DEFINE x == [Idle EXCEPT !.pc = "read", !.at = tick[t].at + 1, !.failed = f]
<1>1. tick[t].at + 1 \in 1 .. Len(Order) + 1
  BY SrcIsSource, ScheduleAssumption
<1>2. x \in Tick /\ LocalOK(x) /\ x.pc = "read"
  BY <1>1, IdleIsTick DEF Idle, Tick, Positions, LocalOK
<1>3. tick' = [tick EXCEPT ![t] = x]
  BY DEF Advance
<1> HIDE DEF x
<1> QED BY <1>2, <1>3, TickMoves

LEMMA RaiseTypes ==
  ASSUME TypeInv, NEW t \in Ticks, tick[t].pc \notin {"idle", "read"}, NEW e \in Errors, Raise(t, e)
  PROVE  /\ tick' \in [Ticks -> Tick] /\ \A u \in Ticks : LocalOK(tick'[u])
         /\ tick'[t].pc = "except" /\ tick'[t].error = e /\ tick'[t].at = tick[t].at
         /\ \A u \in Ticks : u # t => tick'[u] = tick[u]
<1> DEFINE x == [tick[t] EXCEPT !.pc = "except", !.error = e]
<1>1. tick[t] \in Tick /\ LocalOK(tick[t])
  BY DEF TypeInv, TypeOK
<1>2. x \in Tick /\ x.pc = "except" /\ x.error = e /\ x.at = tick[t].at
  BY <1>1 DEF Tick, Positions
<1>4. LocalOK(x)
  BY <1>1, <1>2 DEF LocalOK
<1>3. tick' = [tick EXCEPT ![t] = x]
  BY DEF Raise, TypeInv, TypeOK
<1> HIDE DEF x
<1> QED BY <1>2, <1>3, <1>4, TickMoves

LEMMA GotoTypes ==
  ASSUME TypeInv, NEW t \in Ticks, tick[t].pc \notin {"idle", "read"}, NEW pc \in Positions, Goto(t, pc),
         LocalOK([tick[t] EXCEPT !.pc = pc])
  PROVE  /\ tick' \in [Ticks -> Tick] /\ \A u \in Ticks : LocalOK(tick'[u])
         /\ tick'[t] = [tick[t] EXCEPT !.pc = pc]
         /\ \A u \in Ticks : u # t => tick'[u] = tick[u]
<1>0. tick[t] \in Tick
  BY DEF TypeInv, TypeOK
<1>1. [tick[t] EXCEPT !.pc = pc] \in Tick
  BY <1>0 DEF Tick
<1>2. tick' = [tick EXCEPT ![t] = [tick[t] EXCEPT !.pc = pc]]
  BY DEF Goto, TypeInv, TypeOK
<1> QED BY <1>1, <1>2, TickMoves

LEMMA ReleaseTypes ==
  ASSUME TypeInv, NEW t \in Ticks, Release(t)
  PROVE  /\ tick' \in [Ticks -> Tick] /\ \A u \in Ticks : LocalOK(tick'[u])
         /\ tick'[t].pc = "idle" /\ \A u \in Ticks : u # t => tick'[u] = tick[u] /\ lock'[u] = lock[u]
         /\ lock'[t] = "none" /\ lock' \in [Ticks -> {"none", "held", "lost", "broken"}]
<1>1. tick' = [tick EXCEPT ![t] = Idle]
  BY DEF Release
<1>2. lock' = [lock EXCEPT ![t] = "none"] /\ lock \in [Ticks -> {"none", "held", "lost", "broken"}]
  BY DEF Release, TypeInv, TypeOK
<1> QED BY <1>1, <1>2, IdleIsTick, TickMoves

-----------------------------------------------------------------------------
(* Frames.                                                                  *)

\* No tick but the one at work is anywhere, so it is enough to look at it.
LEMMA WorkKeeps ==
  ASSUME UInv, NEW t \in Ticks, tick[t].pc # "idle", tick'[t].pc # "idle", lock' = lock,
         \A u \in Ticks : u # t => tick'[u] = tick[u],
         \A s \in Sources : RowInv(sync'[s]),
         tick'[t].pc # "read" => Knows(tick'[t], sync'[Order[tick'[t].at]])
  PROVE  UInv'
<1>1. lock[t] = "held" /\ \A u \in Ticks : u # t => tick[u].pc = "idle"
  BY DEF UInv, LockInv
<1>2. LockInv'
  BY <1>1 DEF UInv, LockInv
<1>3. \A u \in Ticks : tick'[u].pc \notin {"idle", "read"} => Knows(tick'[u], sync'[Order[tick'[u].at]])
  BY <1>1
<1> QED BY <1>2, <1>3 DEF UInv, Src

\* The tick at work ends.
LEMMA ReleaseKeeps ==
  ASSUME TypeInv, UInv, NEW t \in Ticks, Release(t), sync' = sync
  PROVE  UInv'
<1>1. /\ tick'[t].pc = "idle" /\ lock'[t] = "none"
      /\ \A u \in Ticks : u # t => tick'[u] = tick[u] /\ lock'[u] = lock[u]
  BY ReleaseTypes
<1>2. LockInv'
  BY <1>1 DEF UInv, LockInv
<1> QED BY <1>1, <1>2 DEF UInv, Src

\* A fault leaves the updater undeceived only if it was before.
LEMMA FaultUndeceived ==
  ASSUME NEW k, Fault(k), Undeceived'
  PROVE  Undeceived /\ k \notin {"early", "lock", "ack"}
BY DEF Fault, Undeceived

\* A write to the row of the source at hand.
LEMMA WriteRow ==
  ASSUME TypeInv, NEW t \in Ticks, tick[t].pc \notin {"idle", "read"},
         NEW row \in Row, sync' = [sync EXCEPT ![Src(t)] = row]
  PROVE  /\ sync' \in [Sources -> Row] /\ sync'[Src(t)] = row
         /\ \A s \in Sources : s # Src(t) => sync'[s] = sync[s]
<1>1. Src(t) \in Sources /\ sync \in [Sources -> Row]
  BY SrcIsSource DEF TypeInv, TypeOK
<1> QED BY <1>1

-----------------------------------------------------------------------------
(* One lemma per action, or per group of actions that look alike.           *)

LEMMA BeginPreserves ==
  ASSUME IInv, NEW t \in Ticks, Begin(t)
  PROVE  IInv'
<1> DEFINE x == [Idle EXCEPT !.pc = "read"]
<1>1. x \in Tick /\ LocalOK(x) /\ x.pc = "read"
  BY IdleIsTick DEF Idle, Tick, Positions, LocalOK
<1>2. tick' = [tick EXCEPT ![t] = x] /\ TypeInv
  BY DEF Begin, IInv
<1> HIDE DEF x
<1>3. /\ tick' \in [Ticks -> Tick] /\ \A u \in Ticks : LocalOK(tick'[u])
      /\ tick'[t].pc = "read" /\ \A u \in Ticks : u # t => tick'[u] = tick[u]
  BY <1>1, <1>2, TickMoves
<1>4. /\ lock' \in [Ticks -> {"none", "held", "lost", "broken"}]
      /\ lock'[t] = "held" /\ \A u \in Ticks : u # t => lock'[u] = lock[u] /\ lock[u] # "held"
  BY <1>2 DEF Begin, TypeInv, TypeOK
<1>5. TypeInv'
  BY <1>2, <1>3, <1>4 DEF Begin, TypeInv, TypeOK
<1>6. ASSUME Undeceived' PROVE UInv'
  <2>1. UInv
    BY <1>6 DEF IInv, Begin, Undeceived
  <2>2. LockInv'
    BY <1>3, <1>4, <2>1 DEF UInv, LockInv
  <2> QED BY <1>3, <2>1, <2>2 DEF UInv, Src, Begin
<1> QED BY <1>5, <1>6 DEF IInv

\* End, Abort and Crash.
LEMMA EndPreserves ==
  ASSUME IInv, NEW t \in Ticks, End(t) \/ Abort(t) \/ Crash(t)
  PROVE  IInv'
<1>1. TypeInv /\ Release(t) /\ UNCHANGED <<sync, ready, config, rested>>
  BY DEF IInv, End, Abort, Crash
<1>2. faults' \in [n : 0 .. MaxFaults, deceiving : BOOLEAN] /\ (Undeceived' => Undeceived)
  <2>1. CASE End(t)
    BY <1>1, <2>1 DEF End, TypeInv, TypeOK, Undeceived
  <2>2. CASE Abort(t) \/ Crash(t)
    BY <1>1, <2>2, FaultTypes, FaultUndeceived DEF Abort, Crash
  <2> QED BY <2>1, <2>2
<1>3. TypeInv'
  BY <1>1, <1>2, ReleaseTypes DEF TypeInv, TypeOK
<1> QED BY <1>1, <1>2, <1>3, ReleaseKeeps DEF IInv

LEMMA ReadPreserves ==
  ASSUME IInv, NEW t \in Ticks, Read(t)
  PROVE  IInv'
<1> DEFINE x == [tick[t] EXCEPT !.row = sync[Src(t)], !.pc = "check"]
<1>1. TypeInv /\ tick[t] \in Tick /\ tick[t].pc = "read" /\ tick[t].at =< Len(Order)
  BY DEF IInv, TypeInv, TypeOK, Read
<1>2. Src(t) \in Sources /\ sync[Src(t)] \in Row
  BY <1>1, ScheduleAssumption DEF Src, Sources, TypeInv, TypeOK, Tick
<1>3. x \in Tick /\ x.pc = "check" /\ x.row = sync[Src(t)] /\ x.at = tick[t].at
  BY <1>1, <1>2 DEF Tick, Positions
<1>4. LocalOK(x)
  BY <1>1, <1>3 DEF LocalOK
<1>5. tick' = [tick EXCEPT ![t] = x] /\ UNCHANGED <<sync, ready, config, lock, faults, rested>>
  BY <1>1 DEF Read, TypeInv, TypeOK
<1> HIDE DEF x
<1>6. /\ tick' \in [Ticks -> Tick] /\ \A u \in Ticks : LocalOK(tick'[u])
      /\ tick'[t] = x /\ \A u \in Ticks : u # t => tick'[u] = tick[u]
  BY <1>1, <1>3, <1>4, <1>5, TickMoves
<1>7. TypeInv'
  BY <1>1, <1>5, <1>6 DEF TypeInv, TypeOK
<1>8. ASSUME Undeceived' PROVE UInv'
  <2>1. UInv
    BY <1>5, <1>8 DEF IInv, Undeceived
  <2>2. Knows(tick'[t], sync'[Order[tick'[t].at]])
    BY <1>3, <1>5, <1>6 DEF Knows, SameRow, Src
  <2> QED BY <1>1, <1>3, <1>5, <1>6, <2>1, <2>2, WorkKeeps DEF UInv
<1> QED BY <1>7, <1>8 DEF IInv

\* RetryWait and NotDue.
LEMMA SkipPreserves ==
  ASSUME IInv, NEW t \in Ticks, RetryWait(t) \/ NotDue(t)
  PROVE  IInv'
<1>1. TypeInv /\ tick[t].pc = "check" /\ tick[t].failed \in SUBSET Sources
  BY DEF IInv, TypeInv, TypeOK, Tick, RetryWait, NotDue
<1>2. PICK f \in SUBSET Sources : Advance(t, f)
  BY <1>1, SrcIsSource DEF RetryWait, NotDue
<1>3. UNCHANGED <<sync, ready, config, lock, faults, rested>>
  BY DEF RetryWait, NotDue
<1>4. /\ tick' \in [Ticks -> Tick] /\ \A u \in Ticks : LocalOK(tick'[u])
      /\ tick'[t].pc = "read" /\ \A u \in Ticks : u # t => tick'[u] = tick[u]
  BY <1>1, <1>2, AdvanceTypes
<1>5. TypeInv'
  BY <1>1, <1>3, <1>4 DEF TypeInv, TypeOK
<1>6. ASSUME Undeceived' PROVE UInv'
  <2>1. UInv
    BY <1>3, <1>6 DEF IInv, Undeceived
  <2> QED BY <1>1, <1>3, <1>4, <2>1, WorkKeeps DEF UInv
<1> QED BY <1>5, <1>6 DEF IInv

LEMMA DuePreserves ==
  ASSUME IInv, NEW t \in Ticks, Due(t)
  PROVE  IInv'
<1> DEFINE x == [tick[t] EXCEPT !.pc = "alive", !.config = config[Src(t)]]
<1>1. TypeInv /\ tick[t] \in Tick /\ tick[t].pc = "check"
  BY DEF IInv, TypeInv, TypeOK, Due
<1>2. config[Src(t)] \in Configs /\ tick[t].at =< Len(Order)
  BY <1>1, SrcIsSource DEF TypeInv, TypeOK, LocalOK
<1>3. x \in Tick /\ x.pc = "alive" /\ x.row = tick[t].row /\ x.at = tick[t].at /\ x.config = config[Src(t)]
  BY <1>1, <1>2 DEF Tick, Positions
<1>4. LocalOK(x)
  BY <1>1, <1>2, <1>3 DEF LocalOK
<1>5. tick' = [tick EXCEPT ![t] = x] /\ UNCHANGED <<sync, ready, config, lock, faults, rested>>
  BY <1>1 DEF Due, TypeInv, TypeOK
<1> HIDE DEF x
<1>6. /\ tick' \in [Ticks -> Tick] /\ \A u \in Ticks : LocalOK(tick'[u])
      /\ tick'[t] = x /\ \A u \in Ticks : u # t => tick'[u] = tick[u]
  BY <1>1, <1>3, <1>4, <1>5, TickMoves
<1>7. TypeInv'
  BY <1>1, <1>5, <1>6 DEF TypeInv, TypeOK
<1>8. ASSUME Undeceived' PROVE UInv'
  <2>1. UInv
    BY <1>5, <1>8 DEF IInv, Undeceived
  <2>2. Knows(tick[t], sync[Order[tick[t].at]])
    BY <1>1, <2>1 DEF UInv, Src
  <2>3. Knows(tick'[t], sync'[Order[tick'[t].at]])
    BY <1>1, <1>3, <1>5, <1>6, <2>2 DEF Knows
  <2> QED BY <1>1, <1>3, <1>5, <1>6, <2>1, <2>3, WorkKeeps DEF UInv
<1> QED BY <1>7, <1>8 DEF IInv

\* A source fails: the handler is next.
LEMMA RaisePreserves ==
  ASSUME IInv, NEW t \in Ticks, tick[t].pc \notin {"idle", "read"}, NEW e \in Errors, Raise(t, e),
         UNCHANGED <<sync, ready, config, rested>>,
         lock' \in [Ticks -> {"none", "held", "lost", "broken"}],
         faults' \in [n : 0 .. MaxFaults, deceiving : BOOLEAN],
         Undeceived' => /\ Undeceived /\ lock' = lock /\ e # "none"
                        /\ tick[t].pc = "check" => e = "other"
                        /\ tick[t].pc \notin {"alive", "start", "except"}
  PROVE  IInv'
<1>1. TypeInv
  BY DEF IInv
<1>2. /\ tick' \in [Ticks -> Tick] /\ \A u \in Ticks : LocalOK(tick'[u])
      /\ tick'[t].pc = "except" /\ tick'[t].error = e /\ tick'[t].at = tick[t].at
      /\ \A u \in Ticks : u # t => tick'[u] = tick[u]
  BY <1>1, RaiseTypes
<1>3. TypeInv'
  BY <1>1, <1>2 DEF TypeInv, TypeOK
<1>4. ASSUME Undeceived' PROVE UInv'
  <2>1. UInv /\ lock' = lock
    BY <1>4 DEF IInv
  <2>2. Knows(tick[t], sync[Src(t)]) /\ RowInv(sync[Src(t)])
    BY <1>1, <2>1, SrcIsSource DEF UInv
  <2>3. tick[t].pc \in {"check", "fetch", "fetched", "process", "alive2", "finish"}
    BY <1>1, <1>4 DEF TypeInv, TypeOK, Tick, Positions
  <2>4. sync[Src(t)].conn # None /\ sync[Src(t)].conn.certified => e = "other"
    BY <1>4, <2>2, <2>3 DEF Knows, RowInv
  <2>5. Knows(tick'[t], sync'[Order[tick'[t].at]])
    BY <1>2, <1>4, <2>4 DEF Knows, Src
  <2> QED BY <1>2, <2>1, <2>5, WorkKeeps DEF UInv
<1> QED BY <1>3, <1>4 DEF IInv

\* The ways of failing: DependencyMissing, EarlyRaise, FetchFails,
\* ProcessFails and WriteRaises.
LEMMA FailurePreserves ==
  ASSUME IInv, NEW t \in Ticks,
         \/ DependencyMissing(t) \/ EarlyRaise(t) \/ FetchFails(t) \/ WriteRaises(t)
         \/ \E e \in Errors : ProcessFails(t, e)
  PROVE  IInv'
<1>1. TypeInv /\ lock \in [Ticks -> {"none", "held", "lost", "broken"}]
  BY DEF IInv, TypeInv, TypeOK
<1>2. CASE DependencyMissing(t)
  <2>1. "other" \in Errors /\ faults' \in [n : 0 .. MaxFaults, deceiving : BOOLEAN]
    BY <1>1, <1>2 DEF DependencyMissing, TypeInv, TypeOK, Errors
  <2> QED BY <1>1, <1>2, <2>1, RaisePreserves DEF DependencyMissing, Undeceived
<1>3. CASE EarlyRaise(t)
  <2>1. "OperationalError" \in Errors /\ faults' \in [n : 0 .. MaxFaults, deceiving : BOOLEAN] /\ ~Undeceived'
    BY <1>1, <1>3, FaultTypes, FaultUndeceived DEF EarlyRaise, Errors
  <2> QED BY <1>1, <1>3, <2>1, RaisePreserves DEF EarlyRaise
<1>4. CASE FetchFails(t)
  <2>1. /\ "other" \in Errors /\ faults' \in [n : 0 .. MaxFaults, deceiving : BOOLEAN]
        /\ Undeceived' => Undeceived
    BY <1>1, <1>4, FaultTypes, FaultUndeceived DEF FetchFails, Errors
  <2> QED BY <1>1, <1>4, <2>1, RaisePreserves DEF FetchFails
<1>5. CASE WriteRaises(t)
  <2>1. /\ "OperationalError" \in Errors /\ faults' \in [n : 0 .. MaxFaults, deceiving : BOOLEAN]
        /\ Undeceived' => Undeceived
    BY <1>1, <1>5, FaultTypes, FaultUndeceived DEF WriteRaises, Errors
  <2> QED BY <1>1, <1>5, <2>1, RaisePreserves DEF WriteRaises
<1>6. ASSUME NEW e \in Errors, ProcessFails(t, e) PROVE IInv'
  <2>1. /\ faults' \in [n : 0 .. MaxFaults, deceiving : BOOLEAN]
        /\ Undeceived' => Undeceived
    BY <1>1, <1>6, FaultTypes, FaultUndeceived DEF ProcessFails
  <2> QED BY <1>1, <1>6, <2>1, RaisePreserves DEF ProcessFails
<1> QED BY <1>2, <1>3, <1>4, <1>5, <1>6

\* The lock session is looked at: without deception it is always there.
LEMMA AlivePreserves ==
  ASSUME IInv, NEW t \in Ticks, NEW from \in {"alive", "alive2"}, NEW to,
         to = IF from = "alive" THEN "start" ELSE "finish", Alive(t, from, to)
  PROVE  IInv'
<1>1. /\ TypeInv /\ tick[t] \in Tick /\ LocalOK(tick[t]) /\ tick[t].pc = from
      /\ lock \in [Ticks -> {"none", "held", "lost", "broken"}]
  BY DEF IInv, TypeInv, TypeOK, Alive
<1>2. UNCHANGED <<sync, ready, config, faults, rested>>
  BY DEF Alive
<1>3. CASE lock[t] = "held"
  <2>1. Goto(t, to) /\ lock' = lock
    BY <1>3 DEF Alive
  <2>2. to \in Positions /\ LocalOK([tick[t] EXCEPT !.pc = to])
    BY <1>1 DEF Tick, LocalOK, Positions
  <2>3. /\ tick' \in [Ticks -> Tick] /\ \A u \in Ticks : LocalOK(tick'[u])
        /\ tick'[t] = [tick[t] EXCEPT !.pc = to]
        /\ \A u \in Ticks : u # t => tick'[u] = tick[u]
    BY <1>1, <2>1, <2>2, GotoTypes
  <2>4. TypeInv'
    BY <1>1, <1>2, <2>1, <2>3 DEF TypeInv, TypeOK
  <2>5. /\ tick'[t].pc = to /\ tick'[t].at = tick[t].at /\ tick'[t].row = tick[t].row
        /\ tick'[t].config = tick[t].config /\ tick'[t].run = tick[t].run
    BY <1>1, <2>3 DEF Tick
  <2>6. ASSUME Undeceived' PROVE UInv'
    <3>1. UInv
      BY <1>2, <2>6 DEF IInv, Undeceived
    <3>2. Knows(tick[t], sync[Order[tick[t].at]])
      BY <1>1, <3>1 DEF UInv, Src
    <3>3. Knows(tick'[t], sync'[Order[tick'[t].at]])
      BY <1>1, <1>2, <2>5, <3>2 DEF Knows
    <3> QED BY <1>1, <1>2, <2>1, <2>3, <2>5, <3>1, <3>3, WorkKeeps DEF UInv
  <2> QED BY <2>4, <2>6 DEF IInv
<1>4. CASE lock[t] # "held"
  <2>1. PICK e \in Errors : Raise(t, e)
    BY <1>4 DEF Alive, Errors
  <2>2. lock' = [lock EXCEPT ![t] = "broken"]
    BY <1>4 DEF Alive
  <2>3. faults' \in [n : 0 .. MaxFaults, deceiving : BOOLEAN] /\ ~Undeceived'
    BY <1>1, <1>2, <1>4 DEF IInv, UInv, LockInv, TypeInv, TypeOK, Undeceived
  <2> QED BY <1>1, <1>2, <2>1, <2>2, <2>3, RaisePreserves
<1> QED BY <1>3, <1>4

\* What the RUNNING row keeps of the row that was read.
LEMMA RunningRowKnows ==
  ASSUME TypeInv, NEW t \in Ticks, tick[t].pc = "start"
  PROVE  LET row == RunningRow(t, sync[Src(t)])
         IN  /\ row \in Row /\ row.state = "RUNNING" /\ row.config = tick[t].config /\ row.error = "none"
             /\ row.conn = IF resume(t) THEN sync[Src(t)].conn ELSE None
<1>1. tick[t].config \in Configs /\ sync[Src(t)] \in Row
  BY SrcIsSource DEF TypeInv, TypeOK, LocalOK
<1> QED BY <1>1 DEF RunningRow, Row, Errors

LEMMA StartPreserves ==
  ASSUME IInv, NEW t \in Ticks, Start(t)
  PROVE  IInv'
<1> DEFINE x == [tick[t] EXCEPT !.run = IF resume(t) THEN tick[t].row.conn ELSE None,
                                !.pc = IF resume(t) THEN "process" ELSE "fetch"]
           row == RunningRow(t, sync[Src(t)])
<1>1. /\ TypeInv /\ tick[t] \in Tick /\ LocalOK(tick[t]) /\ tick[t].pc = "start"
      /\ tick[t].row.conn \in Run \cup {None}
  BY DEF IInv, TypeInv, TypeOK, Start, Tick, Row
<1>2. resume(t) => tick[t].row.conn # None
  BY DEF resume, resumable
<1>3. /\ x \in Tick /\ x.at = tick[t].at /\ x.config = tick[t].config
      /\ x.pc = IF resume(t) THEN "process" ELSE "fetch"
      /\ x.run = IF resume(t) THEN tick[t].row.conn ELSE None
  BY <1>1 DEF Tick, Positions
<1>4. LocalOK(x)
  BY <1>1, <1>2, <1>3 DEF LocalOK
<1>5. tick' = [tick EXCEPT ![t] = x]
  BY <1>1 DEF Start, TypeInv, TypeOK
<1>6. sync' = [sync EXCEPT ![Src(t)] = row] /\ UNCHANGED <<ready, config, lock, faults, rested>>
  BY <1>1, SrcIsSource DEF Start, TypeInv, TypeOK
<1>7. /\ row \in Row /\ row.state = "RUNNING" /\ row.config = tick[t].config /\ row.error = "none"
      /\ row.conn = IF resume(t) THEN sync[Src(t)].conn ELSE None
  BY <1>1, RunningRowKnows
<1> HIDE DEF x, row
<1>8. /\ tick' \in [Ticks -> Tick] /\ \A u \in Ticks : LocalOK(tick'[u])
      /\ tick'[t] = x /\ \A u \in Ticks : u # t => tick'[u] = tick[u]
  BY <1>1, <1>3, <1>4, <1>5, TickMoves
<1>9. /\ sync' \in [Sources -> Row] /\ sync'[Src(t)] = row
      /\ \A s \in Sources : s # Src(t) => sync'[s] = sync[s]
  BY <1>1, <1>6, <1>7, WriteRow
<1>10. TypeInv'
  BY <1>1, <1>6, <1>8, <1>9 DEF TypeInv, TypeOK
<1>11. ASSUME Undeceived' PROVE UInv'
  <2>1. UInv
    BY <1>6, <1>11 DEF IInv, Undeceived
  <2>2. SameRow(tick[t].row, sync[Src(t)]) /\ RowInv(sync[Src(t)])
    BY <1>1, <2>1, SrcIsSource DEF UInv, Knows
  <2>3. resume(t) => /\ row.conn = tick[t].row.conn /\ row.conn # None /\ row.conn.config = tick[t].config
                     /\ ~row.conn.certified
    BY <1>2, <1>7, <2>2 DEF SameRow, RowInv, resume, resumable
  <2>4. RowInv(row)
    BY <1>7, <2>3 DEF RowInv
  <2>5. Knows(tick'[t], sync'[Order[tick'[t].at]])
    BY <1>3, <1>7, <1>8, <1>9, <2>3 DEF Knows, Src
  <2>6. \A s \in Sources : RowInv(sync'[s])
    BY <1>9, <2>1, <2>4 DEF UInv
  <2> QED BY <1>1, <1>3, <1>6, <1>8, <2>1, <2>5, <2>6, WorkKeeps
<1> QED BY <1>10, <1>11 DEF IInv

LEMMA FetchPreserves ==
  ASSUME IInv, NEW t \in Ticks, Fetch(t)
  PROVE  IInv'
<1> DEFINE run == [config |-> tick[t].config, age |-> 0, certified |-> FALSE]
           x == [tick[t] EXCEPT !.pc = "fetched", !.run = run]
<1>1. TypeInv /\ tick[t] \in Tick /\ LocalOK(tick[t]) /\ tick[t].pc = "fetch" /\ tick[t].config \in Configs
  BY DEF IInv, TypeInv, TypeOK, Fetch, LocalOK
<1>2. 0 \in 0 .. MaxAge
  BY ScheduleAssumption DEF MaxAge
<1>3. run \in Run /\ run.config = tick[t].config /\ run.certified = FALSE
  BY <1>1, <1>2, Zenon DEF Run
<1>4. run # None /\ ~run.certified
  BY <1>3, RunAssumption
<1> HIDE DEF run
<1>5. /\ x \in Tick /\ x.at = tick[t].at /\ x.config = tick[t].config
      /\ x.pc = "fetched" /\ x.run = run
  BY <1>1, <1>3 DEF Tick, Positions
<1>6. LocalOK(x)
  BY <1>1, <1>3, <1>5 DEF LocalOK
<1>7. tick' = [tick EXCEPT ![t] = x] /\ UNCHANGED <<sync, ready, config, lock, faults, rested>>
  BY <1>1 DEF Fetch, TypeInv, TypeOK, run
<1> HIDE DEF x
<1>8. /\ tick' \in [Ticks -> Tick] /\ \A u \in Ticks : LocalOK(tick'[u])
      /\ tick'[t] = x /\ \A u \in Ticks : u # t => tick'[u] = tick[u]
  BY <1>1, <1>5, <1>6, <1>7, TickMoves
<1>9. TypeInv'
  BY <1>1, <1>7, <1>8 DEF TypeInv, TypeOK
<1>10. ASSUME Undeceived' PROVE UInv'
  <2>1. UInv
    BY <1>7, <1>10 DEF IInv, Undeceived
  <2>2. Knows(tick[t], sync[Order[tick[t].at]])
    BY <1>1, <2>1 DEF UInv, Src
  <2>3. Knows(tick'[t], sync'[Order[tick'[t].at]])
    BY <1>1, <1>3, <1>4, <1>5, <1>7, <1>8, <2>2 DEF Knows
  <2> QED BY <1>1, <1>5, <1>7, <1>8, <2>1, <2>3, WorkKeeps DEF UInv
<1> QED BY <1>9, <1>10 DEF IInv

LEMMA RecordRunPreserves ==
  ASSUME IInv, NEW t \in Ticks, RecordRun(t)
  PROVE  IInv'
<1> DEFINE row == FetchedRow(t, sync[Src(t)])
<1>1. TypeInv /\ tick[t] \in Tick /\ LocalOK(tick[t]) /\ tick[t].pc = "fetched" /\ tick[t].run \in Run
  BY DEF IInv, TypeInv, TypeOK, RecordRun, LocalOK
<1>2. sync[Src(t)] \in Row /\ sync' = [sync EXCEPT ![Src(t)] = row]
  BY <1>1, SrcIsSource DEF TypeInv, TypeOK, RecordRun
<1>3. /\ row \in Row /\ row.conn = tick[t].run /\ row.state = sync[Src(t)].state
      /\ row.config = sync[Src(t)].config /\ row.error = sync[Src(t)].error
  BY <1>1, <1>2 DEF FetchedRow, Row
<1> HIDE DEF row
<1>4. /\ sync' \in [Sources -> Row] /\ sync'[Src(t)] = row
      /\ \A s \in Sources : s # Src(t) => sync'[s] = sync[s]
  BY <1>1, <1>2, <1>3, WriteRow
<1>5. "process" \in Positions /\ LocalOK([tick[t] EXCEPT !.pc = "process"])
  BY <1>1 DEF Tick, LocalOK, Positions
<1>6. /\ tick' \in [Ticks -> Tick] /\ \A u \in Ticks : LocalOK(tick'[u])
      /\ tick'[t] = [tick[t] EXCEPT !.pc = "process"]
      /\ \A u \in Ticks : u # t => tick'[u] = tick[u]
  BY <1>1, <1>5, GotoTypes DEF RecordRun
<1>7. /\ tick'[t].pc = "process" /\ tick'[t].at = tick[t].at
      /\ tick'[t].config = tick[t].config /\ tick'[t].run = tick[t].run
  BY <1>1, <1>6 DEF Tick
<1>8. UNCHANGED <<ready, config, lock, faults, rested>>
  BY DEF RecordRun
<1>9. TypeInv'
  BY <1>1, <1>4, <1>6, <1>8 DEF TypeInv, TypeOK
<1>10. ASSUME Undeceived' PROVE UInv'
  <2>1. UInv
    BY <1>8, <1>10 DEF IInv, Undeceived
  <2>2. Knows(tick[t], sync[Src(t)]) /\ RowInv(sync[Src(t)])
    BY <1>1, <2>1, SrcIsSource DEF UInv
  <2>3. RowInv(row)
    BY <1>1, <1>3, <2>2 DEF RowInv, Knows
  <2>4. Knows(tick'[t], sync'[Order[tick'[t].at]])
    BY <1>1, <1>3, <1>4, <1>7, <2>2 DEF Knows, Src
  <2>5. \A s \in Sources : RowInv(sync'[s])
    BY <1>4, <2>1, <2>3 DEF UInv
  <2> QED BY <1>1, <1>6, <1>7, <1>8, <2>1, <2>4, <2>5, WorkKeeps
<1> QED BY <1>9, <1>10 DEF IInv

LEMMA ProcessReadyPreserves ==
  ASSUME IInv, NEW t \in Ticks, ProcessReady(t)
  PROVE  IInv'
<1>1. TypeInv /\ tick[t] \in Tick /\ LocalOK(tick[t]) /\ tick[t].pc = "process" /\ tick[t].run \in Run
  BY DEF IInv, TypeInv, TypeOK, ProcessReady, LocalOK
<1>2. tick[t].run.age \in 0 .. MaxAge /\ ready \in [Sources -> 0 .. MaxAge \cup {None}]
  BY <1>1 DEF Run, TypeInv, TypeOK
<1>3. ready' \in [Sources -> 0 .. MaxAge \cup {None}]
  BY <1>2 DEF ProcessReady
<1>4. "alive2" \in Positions /\ LocalOK([tick[t] EXCEPT !.pc = "alive2"])
  BY <1>1 DEF Tick, LocalOK, Positions
<1>5. /\ tick' \in [Ticks -> Tick] /\ \A u \in Ticks : LocalOK(tick'[u])
      /\ tick'[t] = [tick[t] EXCEPT !.pc = "alive2"]
      /\ \A u \in Ticks : u # t => tick'[u] = tick[u]
  BY <1>1, <1>4, GotoTypes DEF ProcessReady
<1>6. /\ tick'[t].pc = "alive2" /\ tick'[t].at = tick[t].at
      /\ tick'[t].config = tick[t].config /\ tick'[t].run = tick[t].run
  BY <1>1, <1>5 DEF Tick
<1>7. UNCHANGED <<sync, config, lock, faults, rested>>
  BY DEF ProcessReady
<1>8. TypeInv'
  BY <1>1, <1>3, <1>5, <1>7 DEF TypeInv, TypeOK
<1>9. ASSUME Undeceived' PROVE UInv'
  <2>1. UInv
    BY <1>7, <1>9 DEF IInv, Undeceived
  <2>2. Knows(tick[t], sync[Order[tick[t].at]])
    BY <1>1, <2>1 DEF UInv, Src
  <2>3. Knows(tick'[t], sync'[Order[tick'[t].at]])
    BY <1>1, <1>6, <1>7, <2>2 DEF Knows
  <2> QED BY <1>1, <1>5, <1>6, <1>7, <2>1, <2>3, WorkKeeps DEF UInv
<1> QED BY <1>8, <1>9 DEF IInv

\* The outcome of a source is written, and the next source is taken.
LEMMA OutcomePreserves ==
  ASSUME IInv, NEW t \in Ticks, tick[t].pc \notin {"idle", "read"}, NEW row \in Row,
         sync' = [sync EXCEPT ![Src(t)] = row],
         NEW f \in SUBSET Sources, Advance(t, f), rested' \in [Sources -> 0 .. Interval],
         UNCHANGED <<ready, config, lock, faults>>,
         Undeceived /\ UInv => RowInv(row)
  PROVE  IInv'
<1>1. TypeInv
  BY DEF IInv
<1>2. /\ sync' \in [Sources -> Row] /\ sync'[Src(t)] = row
      /\ \A s \in Sources : s # Src(t) => sync'[s] = sync[s]
  BY <1>1, WriteRow
<1>3. /\ tick' \in [Ticks -> Tick] /\ \A u \in Ticks : LocalOK(tick'[u])
      /\ tick'[t].pc = "read" /\ \A u \in Ticks : u # t => tick'[u] = tick[u]
  BY <1>1, AdvanceTypes
<1>4. TypeInv'
  BY <1>1, <1>2, <1>3 DEF TypeInv, TypeOK
<1>5. ASSUME Undeceived' PROVE UInv'
  <2>1. UInv /\ RowInv(row)
    BY <1>5 DEF IInv, Undeceived
  <2>2. \A s \in Sources : RowInv(sync'[s])
    BY <1>2, <2>1 DEF UInv
  <2> QED BY <1>3, <2>1, <2>2, WorkKeeps
<1> QED BY <1>4, <1>5 DEF IInv

LEMMA ReadyRowKnows ==
  ASSUME NEW row \in Row
  PROVE  /\ ReadyRow(row) \in Row /\ ReadyRow(row).state = "READY" /\ ReadyRow(row).error = "none"
         /\ ReadyRow(row).config = row.config
         /\ row.conn # None => /\ ReadyRow(row).conn # None /\ ReadyRow(row).conn.certified = TRUE
                               /\ ReadyRow(row).conn.config = row.conn.config
<1> DEFINE c == [row.conn EXCEPT !.certified = TRUE]
<1>1. row.conn # None => c \in Run /\ c.certified = TRUE /\ c.config = row.conn.config
  BY DEF Row, Run
<1>2. row.conn # None => c # None
  BY <1>1, RunAssumption
<1> HIDE DEF c
<1>3. Interval \in 0 .. Interval + Retry
  BY ScheduleAssumption
<1>4. ReadyRow(row) = [row EXCEPT !.state = "READY", !.due = Interval, !.error = "none",
                                  !.conn = IF row.conn = None THEN None ELSE c]
  BY DEF ReadyRow, Row, c
<1> QED BY <1>1, <1>2, <1>3, <1>4 DEF Row, Errors

LEMMA FinishPreserves ==
  ASSUME IInv, NEW t \in Ticks, Finish(t)
  PROVE  IInv'
<1>1. TypeInv /\ tick[t].pc = "finish" /\ tick[t].failed \in SUBSET Sources
  BY DEF IInv, TypeInv, TypeOK, Tick, Finish
<1>2. sync[Src(t)] \in Row /\ sync' = [sync EXCEPT ![Src(t)] = ReadyRow(sync[Src(t)])]
  BY <1>1, SrcIsSource DEF TypeInv, TypeOK, Finish
<1>3. rested' \in [Sources -> 0 .. Interval]
  <2>1. rested' = [rested EXCEPT ![Src(t)] = Interval] /\ rested \in [Sources -> 0 .. Interval]
    BY <1>1 DEF TypeInv, TypeOK, Finish
  <2>2. Interval \in 0 .. Interval
    BY ScheduleAssumption
  <2> QED BY <2>1, <2>2
<1>4. ASSUME Undeceived, UInv PROVE RowInv(ReadyRow(sync[Src(t)]))
  <2>1. Knows(tick[t], sync[Src(t)]) /\ RowInv(sync[Src(t)])
    BY <1>1, <1>4, SrcIsSource DEF UInv
  <2> QED BY <1>1, <1>2, <2>1, ReadyRowKnows DEF Knows, RowInv
<1> QED BY <1>1, <1>2, <1>3, <1>4, ReadyRowKnows, OutcomePreserves DEF Finish

LEMMA ExceptPreserves ==
  ASSUME IInv, NEW t \in Ticks, Except(t)
  PROVE  IInv'
<1> DEFINE row == [sync[Src(t)] EXCEPT !.state = "FAILED", !.due = Retry, !.error = tick[t].error]
<1>1. TypeInv /\ tick[t].pc = "except" /\ tick[t].failed \in SUBSET Sources /\ tick[t].error \in Errors
  BY DEF IInv, TypeInv, TypeOK, Tick, Except
<1>2. /\ Src(t) \in Sources /\ sync[Src(t)] \in Row
      /\ sync' = [sync EXCEPT ![Src(t)] = row]
  BY <1>1, SrcIsSource DEF TypeInv, TypeOK, Except
<1>3. Retry \in 0 .. Interval + Retry
  BY ScheduleAssumption
<1>4. /\ row \in Row /\ row.state = "FAILED" /\ row.error = tick[t].error
      /\ row.conn = sync[Src(t)].conn /\ row.config = sync[Src(t)].config
  BY <1>1, <1>2, <1>3 DEF Row
<1> HIDE DEF row
<1>5. ASSUME Undeceived, UInv PROVE RowInv(row)
  <2>1. Knows(tick[t], sync[Src(t)]) /\ RowInv(sync[Src(t)])
    BY <1>1, <1>5, SrcIsSource DEF UInv
  <2> QED BY <1>1, <1>4, <2>1 DEF Knows, RowInv
<1>6. UNCHANGED <<ready, config, lock, faults>> /\ rested' \in [Sources -> 0 .. Interval]
  BY <1>1 DEF Except, TypeInv, TypeOK
<1>7. Advance(t, tick[t].failed \cup {Src(t)}) /\ tick[t].failed \cup {Src(t)} \in SUBSET Sources
  BY <1>1, <1>2 DEF Except
<1> QED BY <1>1, <1>2, <1>4, <1>5, <1>6, <1>7, OutcomePreserves

\* These faults deceive: only types are left to show.
LEMMA DeceivedPreserves ==
  ASSUME IInv, NEW t \in Ticks, WriteUnacknowledged(t) \/ LoseLock(t)
  PROVE  IInv'
<1>1. TypeInv
  BY DEF IInv
<1>2. CASE LoseLock(t)
  <2>1. lock' \in [Ticks -> {"none", "held", "lost", "broken"}]
    BY <1>1, <1>2 DEF LoseLock, TypeInv, TypeOK
  <2>2. faults' \in [n : 0 .. MaxFaults, deceiving : BOOLEAN] /\ ~Undeceived'
    BY <1>1, <1>2, FaultTypes, FaultUndeceived DEF LoseLock
  <2> QED BY <1>1, <1>2, <2>1, <2>2 DEF LoseLock, IInv, TypeInv, TypeOK
<1>3. CASE WriteUnacknowledged(t)
  <2>1. tick[t].pc \in {"start", "fetched", "finish"} /\ sync[Src(t)] \in Row /\ Src(t) \in Sources
    BY <1>1, <1>3, SrcIsSource DEF WriteUnacknowledged, TypeInv, TypeOK
  <2>2. tick[t].pc = "start" => RunningRow(t, sync[Src(t)]) \in Row
    BY <1>1, RunningRowKnows
  <2>3. tick[t].pc = "fetched" => FetchedRow(t, sync[Src(t)]) \in Row
    BY <1>1, <2>1 DEF FetchedRow, Row, TypeInv, LocalOK
  <2>4. ReadyRow(sync[Src(t)]) \in Row
    BY <2>1, ReadyRowKnows
  <2>5. PICK row \in Row : sync' = [sync EXCEPT ![Src(t)] = row]
    <3>1. CASE tick[t].pc = "start"
      BY <1>1, <1>3, <2>1, <2>2, <3>1 DEF WriteUnacknowledged, TypeInv, TypeOK
    <3>2. CASE tick[t].pc = "fetched"
      BY <1>1, <1>3, <2>1, <2>3, <3>2 DEF WriteUnacknowledged, TypeInv, TypeOK
    <3>3. CASE tick[t].pc = "finish"
      BY <1>1, <1>3, <2>1, <2>4, <3>3 DEF WriteUnacknowledged, TypeInv, TypeOK
    <3> QED BY <2>1, <3>1, <3>2, <3>3
  <2>6. sync' \in [Sources -> Row]
    BY <1>1, <2>1, <2>5, WriteRow
  <2>7. tick' \in [Ticks -> Tick] /\ \A u \in Ticks : LocalOK(tick'[u])
    BY <1>1, <1>3, <2>1, RaiseTypes DEF WriteUnacknowledged, Errors
  <2>8. faults' \in [n : 0 .. MaxFaults, deceiving : BOOLEAN] /\ ~Undeceived'
    BY <1>1, <1>3, FaultTypes, FaultUndeceived DEF WriteUnacknowledged
  <2> QED BY <1>1, <1>3, <2>6, <2>7, <2>8 DEF WriteUnacknowledged, IInv, TypeInv, TypeOK
<1> QED BY <1>2, <1>3

LEMMA ReconfigurePreserves ==
  ASSUME IInv, NEW s \in Sources, NEW c \in Configs, Reconfigure(s, c)
  PROVE  IInv'
<1>1. TypeInv /\ config' \in [Sources -> Configs]
  BY DEF IInv, TypeInv, TypeOK, Reconfigure
<1>2. faults' \in [n : 0 .. MaxFaults, deceiving : BOOLEAN] /\ (Undeceived' => Undeceived)
  BY <1>1, FaultTypes, FaultUndeceived DEF Reconfigure
<1>3. TypeInv'
  BY <1>1, <1>2 DEF TypeInv, TypeOK, Reconfigure
<1>4. UInv => UInv'
  BY DEF Reconfigure, UInv, LockInv, Src
<1> QED BY <1>2, <1>3, <1>4 DEF IInv

\* Time changes ages and what is left of waits, nothing else.
LEMMA AgedKeeps ==
  ASSUME NEW r \in Run \cup {None}
  PROVE  /\ Aged(r) \in Run \cup {None} /\ (Aged(r) = None <=> r = None)
         /\ r # None => Aged(r).config = r.config /\ Aged(r).certified = r.certified
         /\ r \in Run => Aged(r) \in Run
<1>1. CASE r = None
  BY <1>1, RunAssumption DEF Aged
<1>2. CASE r # None
  <2>1. r \in Run /\ MaxAge \in Nat
    BY <1>2, ScheduleAssumption DEF MaxAge
  <2>2. PICK a \in 0 .. MaxAge : a = IF r.age < MaxAge THEN r.age + 1 ELSE r.age
    BY <2>1 DEF Run
  <2>3. Aged(r) = [r EXCEPT !.age = a]
    BY <1>2, <2>1, <2>2 DEF Aged, Run
  <2>4. Aged(r) \in Run /\ Aged(r).config = r.config /\ Aged(r).certified = r.certified
    BY <2>1, <2>3 DEF Run
  <2> QED BY <1>2, <2>4, RunAssumption
<1> QED BY <1>1, <1>2

LEMMA SoonerTypes ==
  ASSUME NEW m \in Nat, NEW d \in 0 .. m
  PROVE  Sooner(d) \in 0 .. m
BY DEF Sooner

OlderRow(row, older) ==
    /\ older \in Row /\ older.state = row.state /\ older.config = row.config /\ older.error = row.error
    /\ older.conn = Aged(row.conn)

LEMMA ClockMoves ==
  ASSUME TypeInv, Clock
  PROVE  /\ sync' \in [Sources -> Row] /\ \A s \in Sources : OlderRow(sync[s], sync'[s])
         /\ tick' \in [Ticks -> Tick]
         /\ \A t \in Ticks : /\ tick'[t].pc = tick[t].pc /\ tick'[t].at = tick[t].at
                             /\ tick'[t].config = tick[t].config /\ tick'[t].error = tick[t].error
                             /\ tick'[t].run = Aged(tick[t].run)
                             /\ OlderRow(tick[t].row, tick'[t].row)
<1>1. ASSUME NEW s \in Sources PROVE OlderRow(sync[s], sync'[s])
  <2>1. sync[s] \in Row /\ sync[s].conn \in Run \cup {None} /\ sync[s].due \in 0 .. Interval + Retry
    BY DEF TypeInv, TypeOK, Row
  <2>2. Aged(sync[s].conn) \in Run \cup {None} /\ Sooner(sync[s].due) \in 0 .. Interval + Retry
    BY <2>1, AgedKeeps, SoonerTypes, ScheduleAssumption
  <2>3. sync'[s] = [sync[s] EXCEPT !.due = Sooner(sync[s].due), !.conn = Aged(sync[s].conn)]
    BY <2>1 DEF Clock, Row
  <2> QED BY <2>1, <2>2, <2>3 DEF OlderRow, Row
<1>2. sync' \in [Sources -> Row]
  BY <1>1 DEF Clock, OlderRow
<1>3. ASSUME NEW t \in Ticks
      PROVE  /\ tick'[t] \in Tick
             /\ tick'[t].pc = tick[t].pc /\ tick'[t].at = tick[t].at
             /\ tick'[t].config = tick[t].config /\ tick'[t].error = tick[t].error
             /\ tick'[t].run = Aged(tick[t].run)
             /\ OlderRow(tick[t].row, tick'[t].row)
  <2>1. /\ tick[t] \in Tick /\ tick[t].run \in Run \cup {None}
        /\ tick[t].row \in Row /\ tick[t].row.conn \in Run \cup {None}
    BY DEF TypeInv, TypeOK, Tick, Row
  <2>2. Aged(tick[t].row.conn) \in Run \cup {None} /\ Aged(tick[t].run) \in Run \cup {None}
    BY <2>1, AgedKeeps
  <2> DEFINE row == [tick[t].row EXCEPT !.conn = Aged(tick[t].row.conn)]
  <2>3. row \in Row /\ OlderRow(tick[t].row, row)
    BY <2>1, <2>2 DEF OlderRow, Row
  <2>4. tick'[t] = [tick[t] EXCEPT !.run = Aged(tick[t].run), !.row = row]
    BY <2>1 DEF Clock, Tick
  <2> HIDE DEF row
  <2> QED BY <2>1, <2>2, <2>3, <2>4 DEF Tick
<1>4. tick' \in [Ticks -> Tick]
  BY <1>3 DEF Clock
<1> QED BY <1>1, <1>2, <1>3, <1>4

LEMMA ClockPreserves ==
  ASSUME IInv, Clock
  PROVE  IInv'
<1>1. TypeInv
  BY DEF IInv
<1>2. faults' \in [n : 0 .. MaxFaults, deceiving : BOOLEAN] /\ (Undeceived' => Undeceived)
  <2>1. CASE UNCHANGED faults
    BY <1>1, <2>1 DEF TypeInv, TypeOK, Undeceived
  <2>2. CASE Fault("delay")
    BY <1>1, <2>2, FaultTypes, FaultUndeceived
  <2> QED BY <2>1, <2>2 DEF Clock
<1>3. /\ sync' \in [Sources -> Row] /\ \A s \in Sources : OlderRow(sync[s], sync'[s])
      /\ tick' \in [Ticks -> Tick]
      /\ \A t \in Ticks : /\ tick'[t].pc = tick[t].pc /\ tick'[t].at = tick[t].at
                          /\ tick'[t].config = tick[t].config /\ tick'[t].error = tick[t].error
                          /\ tick'[t].run = Aged(tick[t].run)
                          /\ OlderRow(tick[t].row, tick'[t].row)
  BY <1>1, ClockMoves
<1>4. ready' \in [Sources -> 0 .. MaxAge \cup {None}]
  <2>1. MaxAge \in Nat /\ ready \in [Sources -> 0 .. MaxAge \cup {None}]
    BY <1>1, ScheduleAssumption DEF MaxAge, TypeInv, TypeOK
  <2>2. \A s \in Sources : ready[s] # None => ready[s] \in 0 .. MaxAge
    BY <2>1
  <2>3. \A n \in 0 .. MaxAge : (IF n < MaxAge THEN n + 1 ELSE n) \in 0 .. MaxAge
    BY <2>1
  <2>4. ready' = [s \in Sources |-> IF ready[s] = None THEN None
                                   ELSE IF ready[s] < MaxAge THEN ready[s] + 1
                                   ELSE ready[s]]
    BY DEF Clock
  <2> QED BY <2>2, <2>3, <2>4
<1>5. rested' \in [Sources -> 0 .. Interval]
  <2>1. \A s \in Sources : Sooner(rested[s]) \in 0 .. Interval
    BY <1>1, SoonerTypes, ScheduleAssumption DEF TypeInv, TypeOK
  <2> QED BY <2>1 DEF Clock
<1>6. /\ \A t \in Ticks : tick[t].run \in Run \cup {None} /\ tick[t].row.conn \in Run \cup {None}
      /\ \A s \in Sources : sync[s].conn \in Run \cup {None}
  BY <1>1 DEF TypeInv, TypeOK, Tick, Row
<1>7. \A t \in Ticks : LocalOK(tick'[t])
  BY <1>1, <1>3, <1>6, AgedKeeps DEF TypeInv, LocalOK
<1>8. TypeInv'
  BY <1>1, <1>2, <1>3, <1>4, <1>5, <1>7 DEF TypeInv, TypeOK, Clock
<1>9. ASSUME UInv PROVE UInv'
  <2>0. lock' = lock
    BY DEF Clock
  <2>1. LockInv'
    BY <1>3, <1>9, <2>0 DEF UInv, LockInv
  <2>2. ASSUME NEW s \in Sources PROVE RowInv(sync'[s])
    <3>1. OlderRow(sync[s], sync'[s]) /\ RowInv(sync[s])
      BY <1>3, <1>9 DEF UInv
    <3> QED BY <1>6, <3>1, AgedKeeps DEF OlderRow, RowInv
  <2>3. ASSUME NEW t \in Ticks, tick'[t].pc \notin {"idle", "read"}
        PROVE  Knows(tick'[t], sync'[Order[tick'[t].at]])
    <3>1. PICK s \in Sources : s = Src(t)
      BY <1>1, <1>3, <2>3, SrcIsSource
    <3>2. Knows(tick[t], sync[s])
      BY <1>3, <1>9, <2>3, <3>1 DEF UInv
    <3>3. OlderRow(sync[s], sync'[s]) /\ OlderRow(tick[t].row, tick'[t].row) /\ Order[tick'[t].at] = s
      BY <1>3, <3>1 DEF Src
    <3> QED BY <1>3, <1>6, <3>2, <3>3, AgedKeeps DEF Knows, SameRow, OlderRow
  <2> QED BY <2>1, <2>2, <2>3 DEF UInv, Src
<1> QED BY <1>2, <1>8, <1>9 DEF IInv

-----------------------------------------------------------------------------

LEMMA InitEstablishes == Init => IInv
<1> SUFFICES ASSUME Init PROVE IInv
  OBVIOUS
<1>1. /\ sync \in [Sources -> Row] /\ \A s \in Sources : sync[s] = NoRow
      /\ tick \in [Ticks -> Tick] /\ \A t \in Ticks : tick[t] = Idle
  BY IdleIsTick DEF Init
<1>2. config \in [Sources -> Configs]
  BY RunAssumption DEF Init
<1>3. faults \in [n : 0 .. MaxFaults, deceiving : BOOLEAN]
  <2>1. 0 \in 0 .. MaxFaults /\ FALSE \in BOOLEAN
    BY ScheduleAssumption
  <2> QED BY <2>1 DEF Init
<1>4. /\ ready \in [Sources -> 0 .. MaxAge \cup {None}]
      /\ lock \in [Ticks -> {"none", "held", "lost", "broken"}]
  BY DEF Init
<1>5. rested \in [Sources -> 0 .. Interval]
  BY ScheduleAssumption DEF Init
<1>6. TypeInv
  BY <1>1, <1>2, <1>3, <1>4, <1>5, IdleIsTick DEF TypeInv, TypeOK
<1>7. UInv
  BY <1>1, IdleIsTick DEF UInv, LockInv, Init
<1> QED BY <1>6, <1>7 DEF IInv

LEMMA Inductive == IInv /\ [Next]_vars => IInv'
<1> SUFFICES ASSUME IInv, [Next]_vars PROVE IInv'
  OBVIOUS
<1>1. CASE UNCHANGED vars
  BY <1>1 DEF vars, IInv, TypeInv, TypeOK, Undeceived, UInv, LockInv, Src
<1>2. ASSUME NEW t \in Ticks, Step(t) PROVE IInv'
  BY <1>2, BeginPreserves, EndPreserves, ReadPreserves, SkipPreserves, FailurePreserves, DuePreserves,
     AlivePreserves, StartPreserves, FetchPreserves, RecordRunPreserves, ProcessReadyPreserves,
     FinishPreserves, ExceptPreserves DEF Step
<1>3. ASSUME NEW t \in Ticks, Trouble(t) PROVE IInv'
  BY <1>3, FailurePreserves, EndPreserves, DeceivedPreserves DEF Trouble
<1> QED BY <1>1, <1>2, <1>3, ReconfigurePreserves, ClockPreserves DEF Next

\* update_sources: every row and every local of a tick keeps its type and, while
\* no fault deceived it, the working tick's reading of its row stays true.
THEOREM Invariance == Spec => []IInv
BY InitEstablishes, Inductive, PTL DEF Spec

\* update_sources: as long as the lock sessions live, no two ticks are past
\* their check of the lock at the same time.
THEOREM TicksExclude == Spec => []NoOverlap
<1>1. IInv => NoOverlap
  BY DEF IInv, UInv, LockInv, NoOverlap, Working
<1> QED BY <1>1, Invariance, PTL

\* update_sources: a READY row rests on a certified fetch made under the
\* configuration that the row records.
THEOREM ReadyIsGrounded == Spec => []ReadyRestsOnItsConfig
<1>1. IInv => ReadyRestsOnItsConfig
  BY DEF IInv, UInv, RowInv, ReadyRestsOnItsConfig
<1> QED BY <1>1, Invariance, PTL

-----------------------------------------------------------------------------
(* Action properties: the rows change in few ways.                          *)

\* What a step of an undeceived updater does to the row of a source.
RowStep(s) ==
    \/ sync'[s] = sync[s]
    \/ OlderRow(sync[s], sync'[s]) /\ sync[s].conn \in Run \cup {None}
    \/ \E t \in Ticks : /\ s = Src(t) /\ tick[t].pc \notin {"idle", "read"}
                        /\ \/ tick[t].pc = "start" /\ sync'[s] = RunningRow(t, sync[s])
                           \/ tick[t].pc = "fetched" /\ sync'[s] = FetchedRow(t, sync[s])
                           \/ tick[t].pc = "finish" /\ sync'[s] = ReadyRow(sync[s])
                           \/ /\ sync'[s].state = "FAILED" /\ sync'[s].conn = sync[s].conn

LEMMA RowSteps ==
  ASSUME IInv, [Next]_vars, Undeceived', NEW s \in Sources
  PROVE  RowStep(s)
<1>1. TypeInv /\ sync \in [Sources -> Row]
  BY DEF IInv, TypeInv, TypeOK
<1>2. UNCHANGED sync => RowStep(s)
  BY DEF RowStep
<1>3. ASSUME NEW t \in Ticks, Step(t) PROVE RowStep(s)
  <2>1. CASE \/ Begin(t) \/ End(t) \/ Read(t) \/ RetryWait(t) \/ DependencyMissing(t) \/ NotDue(t) \/ Due(t)
             \/ Alive(t, "alive", "start") \/ Alive(t, "alive2", "finish") \/ Fetch(t) \/ ProcessReady(t)
    BY <1>2, <2>1 DEF Begin, End, Read, RetryWait, DependencyMissing, NotDue, Due, Alive, Fetch, ProcessReady
  <2>2. CASE Start(t)
    BY <1>1, <2>2 DEF Start, RowStep
  <2>3. CASE RecordRun(t)
    BY <1>1, <2>3 DEF RecordRun, RowStep
  <2>4. CASE Finish(t)
    BY <1>1, <2>4 DEF Finish, RowStep
  <2>5. CASE Except(t)
    <3>1. CASE s = Src(t)
      <4>1. sync'[s] = [sync[s] EXCEPT !.state = "FAILED", !.due = Retry, !.error = tick[t].error]
        BY <1>1, <2>5, <3>1 DEF Except
      <4>2. sync'[s].state = "FAILED" /\ sync'[s].conn = sync[s].conn
        BY <1>1, <4>1 DEF Row
      <4> QED BY <2>5, <3>1, <4>2 DEF Except, RowStep
    <3>2. CASE s # Src(t)
      BY <1>1, <2>5, <3>2 DEF Except, RowStep
    <3> QED BY <3>1, <3>2
  <2> QED BY <1>3, <2>1, <2>2, <2>3, <2>4, <2>5 DEF Step
<1>4. ASSUME NEW t \in Ticks, Trouble(t) PROVE RowStep(s)
  <2>1. ~WriteUnacknowledged(t)
    BY FaultUndeceived DEF WriteUnacknowledged
  <2> QED BY <1>2, <1>4, <2>1 DEF Trouble, EarlyRaise, FetchFails, Abort, WriteRaises, ProcessFails, Crash, LoseLock
<1>5. CASE Clock
  BY <1>1, <1>5, ClockMoves DEF RowStep, Row
<1>6. CASE UNCHANGED vars \/ \E q \in Sources, c \in Configs : Reconfigure(q, c)
  BY <1>2, <1>6 DEF vars, Reconfigure
<1> QED BY <1>3, <1>4, <1>5, <1>6 DEF Next

\* A step that leaves the updater undeceived starts from one that is.
LEMMA StaysUndeceived ==
  ASSUME [Next]_vars, Undeceived'
  PROVE  Undeceived
<1>1. ASSUME NEW k, Fault(k) PROVE Undeceived
  BY <1>1, FaultUndeceived
<1>2. UNCHANGED faults => Undeceived
  BY DEF Undeceived
<1>3. ASSUME NEW t \in Ticks, Step(t) PROVE Undeceived
  BY <1>2, <1>3 DEF Step, Begin, End, Read, RetryWait, DependencyMissing, NotDue, Due, Alive, Start, Fetch,
     RecordRun, ProcessReady, Finish, Except
<1>4. ASSUME NEW t \in Ticks, Trouble(t) PROVE Undeceived
  BY <1>1, <1>4 DEF Trouble, EarlyRaise, FetchFails, Abort, WriteRaises, WriteUnacknowledged, ProcessFails,
     Crash, LoseLock
<1>5. ASSUME NEW s \in Sources, NEW c \in Configs, Reconfigure(s, c) PROVE Undeceived
  BY <1>1, <1>5 DEF Reconfigure
<1>6. CASE Clock
  BY <1>1, <1>2, <1>6 DEF Clock
<1>7. CASE UNCHANGED vars
  BY <1>2, <1>7 DEF vars
<1> QED BY <1>3, <1>4, <1>5, <1>6, <1>7 DEF Next

LEMMA StepCertifiesAnew ==
  ASSUME IInv, [Next]_vars, Undeceived', NEW s \in Sources
  PROVE  CertifiesAnew(s)
<1> SUFFICES ASSUME sync[s].state # "READY", sync'[s].state = "READY"
             PROVE  sync[s].conn # None /\ ~sync[s].conn.certified
  BY DEF CertifiesAnew
<1>1. TypeInv /\ UInv /\ sync[s] \in Row
  BY StaysUndeceived DEF IInv, TypeInv, TypeOK
<1>2. RowStep(s)
  BY RowSteps
<1>3. PICK t \in Ticks : /\ s = Src(t) /\ tick[t].pc \notin {"idle", "read"}
                         /\ \/ tick[t].pc = "start" /\ sync'[s] = RunningRow(t, sync[s])
                            \/ tick[t].pc = "fetched" /\ sync'[s] = FetchedRow(t, sync[s])
                            \/ tick[t].pc = "finish" /\ sync'[s] = ReadyRow(sync[s])
                            \/ sync'[s].state = "FAILED" /\ sync'[s].conn = sync[s].conn
  BY <1>2 DEF RowStep, OlderRow
<1>4. tick[t].pc # "start" \/ sync'[s] # RunningRow(t, sync[s])
  BY <1>1, <1>3, RunningRowKnows
<1>5. tick[t].pc = "fetched" => FetchedRow(t, sync[s]).state = sync[s].state
  BY <1>1 DEF FetchedRow, Row
<1>6. tick[t].pc = "finish"
  BY <1>3, <1>4, <1>5
<1>7. Knows(tick[t], sync[s])
  BY <1>1, <1>3 DEF UInv
<1> QED BY <1>6, <1>7 DEF Knows

\* update_sources: a fetch that already made its source READY never makes it
\* READY again, whichever invocation crashed, failed or resumed in between.
THEOREM CertifiedOnce == Spec => NeverCertifiedTwice
<1>1. IInv /\ [Next]_vars => [Undeceived' => \A s \in Sources : CertifiesAnew(s)]_vars
  BY StepCertifiesAnew
<1> QED BY <1>1, Invariance, PTL DEF Spec, NeverCertifiedTwice

LEMMA StepWastesNothing ==
  ASSUME IInv, [Next]_vars, Undeceived', NEW s \in Sources, sync[s].conn # None, sync'[s].conn = None
  PROVE  sync[s].conn.certified \/ sync[s].error = "other" \/ sync[s].config # sync'[s].config
<1>1. TypeInv /\ UInv /\ sync[s] \in Row /\ RowInv(sync[s])
  BY StaysUndeceived DEF IInv, UInv, TypeInv, TypeOK
<1>2. RowStep(s)
  BY RowSteps
<1>3. ~(OlderRow(sync[s], sync'[s]) /\ sync[s].conn \in Run \cup {None})
  BY AgedKeeps DEF OlderRow
<1>4. PICK t \in Ticks : /\ s = Src(t) /\ tick[t].pc \notin {"idle", "read"}
                         /\ \/ tick[t].pc = "start" /\ sync'[s] = RunningRow(t, sync[s])
                            \/ tick[t].pc = "fetched" /\ sync'[s] = FetchedRow(t, sync[s])
                            \/ tick[t].pc = "finish" /\ sync'[s] = ReadyRow(sync[s])
                            \/ sync'[s].state = "FAILED" /\ sync'[s].conn = sync[s].conn
  BY <1>2, <1>3 DEF RowStep
<1>5. Knows(tick[t], sync[s])
  BY <1>1, <1>4 DEF UInv
<1>6. tick[t].pc = "fetched" => FetchedRow(t, sync[s]).conn # None
  <2>1. FetchedRow(t, sync[s]).conn = tick[t].run
    BY <1>1 DEF FetchedRow, Row
  <2> QED BY <1>5, <2>1 DEF Knows
<1>7. ReadyRow(sync[s]).conn # None
  BY <1>1, ReadyRowKnows
<1>8. tick[t].pc = "start" /\ sync'[s] = RunningRow(t, sync[s])
  BY <1>4, <1>6, <1>7
<1>9. ~resume(t) /\ sync'[s].config = tick[t].config
  BY <1>1, <1>4, <1>8, RunningRowKnows
<1>10. SameRow(tick[t].row, sync[s])
  BY <1>5, <1>8 DEF Knows
<1>11. sync[s].state \in {"NONE", "RUNNING", "READY", "FAILED"} /\ sync[s].error \in Errors
  BY <1>1 DEF Row
<1> QED BY <1>1, <1>9, <1>10, <1>11 DEF RowInv, SameRow, resume, resumable, Errors

\* update_sources: a fetch that was never certified is dropped only for
\* another configuration or after a failure of its content.
THEOREM NothingWasted == Spec => FetchNotWasted
<1>1. IInv /\ [Next]_vars =>
        [Undeceived' => \A s \in Sources :
            sync[s].conn # None /\ sync'[s].conn = None =>
                \/ sync[s].conn.certified
                \/ sync[s].error = "other"
                \/ sync[s].config # sync'[s].config]_vars
  BY StepWastesNothing
<1> QED BY <1>1, Invariance, PTL DEF Spec, FetchNotWasted
=============================================================================
