-------------------------- MODULE OnetMatchingProofs --------------------------
(***************************************************************************)
(* Proofs for OnetMatching: for every cohort, batch size, number of        *)
(* workers, executions and faults, no posting is sent to the provider      *)
(* twice, every published edge rests on one paid and validated answer, and *)
(* what the ledger holds for a row covers what was charged for it.         *)
(*                                                                         *)
(* The argument.  A call is made only for a row that was reserved first    *)
(* and is then in flight, uncharged (InFlight), so a row with a charge is  *)
(* Paid (Accounts).  A paid row never becomes unpaid again, and a request  *)
(* is admitted only when no task holds a paid row of the posting           *)
(* (OneTask): what a killed JVM leaves behind blocks every later call, in  *)
(* its own task and in the continuation.  A plan is taken from validated   *)
(* rows, which are final, and edges are written from plans only            *)
(* (PlansAreValidated).                                                    *)
(***************************************************************************)
EXTENDS OnetMatching, FiniteSetTheorems, TLAPS

Statuses == {"NONE", "PLANNED", "SKIPPED", "BUDGET_BLOCKED", "RESERVED", "VALIDATED", "REJECTED", "ERROR"}
Attempt == [st : Statuses, answer : Answer \cup {"none"}, batch : Nat, exec : Nat, settled : BOOLEAN]
Charge == [calls : Nat, usd : Nat]
Guard == [state : {"NONE", "PREPARED", "VERIFIED", "FAILED"}, rows : SUBSET Postings]
Host == [stage : {"none", "deploy", "prepare", "pilot", "full", "resume", "publish"},
         pc : {"none", "copy", "chunk", "plan", "launch", "wait"}, task : Tasks, batch : Nat]
Jvm == [stage : {"none", "execute", "publish"}, pc : {"none", "start", "run", "write", "done", "abort"},
        task : Tasks, exec : Nat, batch : Nat, resume : BOOLEAN,
        todo : SUBSET Postings, flight : SUBSET Postings]

\* The ledger's types: rows, charges, plans, edges and batches.
LedgerType ==
    /\ att \in [Tasks -> [Postings -> Attempt]]
    /\ bill \in [Tasks -> [Postings -> Charge]]
    /\ guard \in [Tasks -> Guard]
    /\ edges \subseteq Postings
    /\ \E n \in Nat : DOMAIN batches = 1..n
    /\ \A b \in DOMAIN batches : batches[b].task \in Tasks

\* The types of the two processes.
ProcessType == host \in Host /\ jvm \in Jvm

\* An answer is recorded with the outcome, a review only for its two cases.
Consistent(a) ==
    /\ a.st \in {"VALIDATED", "REJECTED", "ERROR"} <=> a.answer # "none"
    /\ a.settled => a.answer \in {"filtered", "route"}

\* What a row may have cost at most, whatever the provider did with it.
Hold(a) == CASE ~Paid(a) -> 0
             [] a.answer \in {"ok", "bad"} -> 1
             [] a.answer = "breach" -> Reserve + 1
             [] a.answer = "filtered" -> 0
             [] OTHER -> Reserve

\* One row against its charge.
Account(a, c) ==
    /\ Consistent(a)
    /\ c.calls <= 1
    /\ c.calls = 1 => Paid(a)
    /\ c.calls = 0 => c.usd = 0
    /\ a.st = "VALIDATED" => c.calls = 1
    /\ c.usd <= Hold(a)

Accounts == \A t \in Tasks, p \in Postings : Account(att[t][p], bill[t][p])

\* No two tasks hold a paid row of one posting.
OneTask == \A p \in Postings, t, u \in Tasks : Paid(att[t][p]) /\ Paid(att[u][p]) => t = u

\* A call in flight is reserved and not charged yet.
InFlight == \A p \in jvm.flight : att[jvm.task][p].st = "RESERVED" /\ bill[jvm.task][p].calls = 0

Matched(p) == \E t \in Tasks : att[t][p].st = "VALIDATED"

\* What is planned for the graph, or written to it, was validated.
PlansAreValidated ==
    /\ \A t \in Tasks : \A p \in guard[t].rows : Matched(p)
    /\ \A p \in edges : Matched(p)

\* The inductive invariant.
IInv == /\ LedgerType
        /\ ProcessType
        /\ Accounts
        /\ OneTask
        /\ InFlight
        /\ PlansAreValidated

-----------------------------------------------------------------------------

LEMMA Constants == /\ Reserve \in Nat /\ Reserve > 1
                   /\ Answers \subseteq Answer
                   /\ Execs \subseteq Nat
BY OnetAssumption DEF Execs

LEMMA InitEstablishes == Init => IInv
<1> SUFFICES ASSUME Init PROVE IInv
  OBVIOUS
<1>1. NoAtt \in Attempt /\ NoGuard \in Guard
  BY DEF NoAtt, NoGuard, Attempt, Guard, Statuses, Answer
<1>2. DOMAIN batches = 1..0
  BY DEF Init
<1>3. LedgerType
  <2>1. bill \in [Tasks -> [Postings -> Charge]]
    BY DEF Init, Charge
  <2> QED BY <1>1, <1>2, <2>1 DEF LedgerType, Init
<1>4. ProcessType
  BY DEF ProcessType, Init, NoHost, NoJvm, Host, Jvm, Tasks
<1>5. Accounts
  <2> SUFFICES ASSUME NEW t \in Tasks, NEW p \in Postings PROVE Account(att[t][p], bill[t][p])
    BY DEF Accounts
  <2>1. att[t][p] = NoAtt /\ bill[t][p] = [calls |-> 0, usd |-> 0]
    BY DEF Init
  <2> QED BY <2>1 DEF Account, Consistent, Hold, Paid, NoAtt
<1>6. OneTask
  BY DEF OneTask, Init, Paid, NoAtt
<1>7. InFlight /\ PlansAreValidated
  BY DEF InFlight, PlansAreValidated, Init, NoJvm, NoGuard
<1> QED BY <1>3, <1>4, <1>5, <1>6, <1>7 DEF IInv

-----------------------------------------------------------------------------
(* What the processes do between the ledger's changes.                     *)

LEMMA NoProcess == NoHost \in Host /\ NoJvm \in Jvm /\ NoJvm.flight = {}
BY DEF NoHost, NoJvm, Host, Jvm, Tasks

\* Calls in flight may be dropped, the rows and the charges as they were.
Drops == \/ jvm'.flight = {}
         \/ jvm'.task = jvm.task /\ jvm'.flight \subseteq jvm.flight

\* A step of the processes alone.
LEMMA LedgerKept ==
    ASSUME IInv, ProcessType', Drops, UNCHANGED <<att, bill, batches, guard, edges>>
    PROVE  IInv'
<1>1. LedgerType' /\ Accounts' /\ OneTask'
  BY DEF IInv, LedgerType, Accounts, OneTask
<1>2. InFlight'
  BY DEF IInv, InFlight, Drops
<1>3. PlansAreValidated'
  BY DEF IInv, PlansAreValidated, Matched
<1> QED BY <1>1, <1>2, <1>3 DEF IInv

\* The supervisor starts for a task that exists.
LEMMA HostStarts ==
    ASSUME IInv, NEW stage \in {"deploy", "prepare", "pilot", "full", "resume", "publish"},
           NEW t \in Tasks, NEW b \in Nat, NEW pc \in {"copy", "chunk", "plan", "launch"},
           HostStart(stage, t, b, pc), UNCHANGED <<jvm, att, bill, batches, guard, edges>>
    PROVE  IInv'
<1>1. ProcessType'
  BY DEF IInv, ProcessType, HostStart, Host
<1> QED BY <1>1, LedgerKept DEF Drops

\* Every action that only moves the supervisor or the JVM.
LEMMA ProcessesPreserve ==
    ASSUME IInv,
           \/ Deploy \/ Link \/ Freeze \/ FreezeInputs \/ NothingLeft \/ RunNative
           \/ HostProceeds \/ HostFails \/ HostRefuses \/ HostKilled \/ VerifyProjection
           \/ StartExecution \/ EndExecution \/ JvmRefused \/ OrphanExits
           \/ \E b \in DOMAIN batches : Resume(b)
           \/ \E t \in Tasks :
                 \/ Prepare(t) \/ ApproveScale(t) \/ Pilot(t) \/ Full(t) \/ Publish(t) \/ StopTask(t)
                 \/ \E p \in Postings : DecideCandidate(t, p)
           \/ \E p \in Postings : NotSent(p)
    PROVE  IInv'
<1> USE DEF ledger, graph
<1>1. host \in Host /\ jvm \in Jvm
  BY DEF IInv, ProcessType
<1>2. 1 \in Tasks /\ 0 \in Nat
  BY DEF Tasks
<1>3. ASSUME UNCHANGED <<host, jvm, att, bill, batches, guard, edges>> PROVE IInv'
  BY <1>1, <1>3, LedgerKept DEF ProcessType, Drops
<1>4. ASSUME host' \in Host, UNCHANGED <<jvm, att, bill, batches, guard, edges>> PROVE IInv'
  BY <1>1, <1>4, LedgerKept DEF ProcessType, Drops
<1>5. ASSUME host' \in Host, jvm' = NoJvm, UNCHANGED <<att, bill, batches, guard, edges>> PROVE IInv'
  BY <1>1, <1>5, LedgerKept, NoProcess DEF ProcessType, Drops
<1>6. ASSUME NEW pc \in {"run", "done", "abort"}, NEW e \in Nat, NEW todo \in SUBSET Postings,
             jvm' = [jvm EXCEPT !.pc = pc, !.exec = e, !.todo = todo],
             UNCHANGED <<host, att, bill, batches, guard, edges>>
      PROVE  IInv'
  <2>1. jvm' \in Jvm /\ jvm'.task = jvm.task /\ jvm'.flight = jvm.flight
    BY <1>1, <1>6 DEF Jvm
  <2> QED BY <1>1, <1>6, <2>1, LedgerKept DEF ProcessType, Drops
<1>7. CASE Deploy
  BY <1>2, <1>7, HostStarts DEF Deploy
<1>8. CASE Link
  BY <1>1, <1>4, <1>8, NoProcess DEF Link, HostEnds
<1>9. CASE Freeze \/ VerifyProjection
  BY <1>3, <1>9 DEF Freeze, VerifyProjection
<1>10. CASE FreezeInputs \/ NothingLeft \/ HostRefuses \/ HostKilled
  <2>1. CASE FreezeInputs
    BY <1>1, <1>4, <2>1, NoProcess DEF FreezeInputs, HostEnds
  <2>2. CASE NothingLeft \/ HostKilled
    BY <1>4, <2>2, NoProcess DEF NothingLeft, HostKilled, HostEnds
  <2>3. CASE HostRefuses
    BY <1>4, <2>3, NoProcess DEF HostRefuses, HostEnds
  <2> QED BY <1>10, <2>1, <2>2, <2>3
<1>11. CASE RunNative
  <2>1. host' \in Host
    BY <1>1, <1>11 DEF RunNative, HostGoto, Host
  <2>2. jvm' \in Jvm /\ jvm'.flight = {}
    BY <1>1, <1>11 DEF RunNative, NoJvm, Jvm, Host
  <2> QED BY <1>11, <2>1, <2>2, LedgerKept DEF RunNative, ProcessType, Drops
<1>12. CASE HostProceeds
  <2>1. [host EXCEPT !.pc = "plan", !.batch = 0] \in Host
    BY <1>1 DEF Host
  <2>2. host' = [host EXCEPT !.pc = "plan", !.batch = 0] \/ host' = NoHost
    BY <1>12 DEF HostProceeds, HostEnds
  <2> QED BY <1>5, <1>12, <2>1, <2>2, NoProcess DEF HostProceeds
<1>13. CASE HostFails \/ OrphanExits
  BY <1>1, <1>5, <1>13, NoProcess DEF HostFails, OrphanExits, HostEnds
<1>14. CASE StartExecution
  <2>1. PICK e \in Nat, todo \in SUBSET Postings : jvm' = [jvm EXCEPT !.pc = "run", !.exec = e, !.todo = todo]
    BY <1>14, Constants DEF StartExecution, BatchRows
  <2> QED BY <1>6, <1>14, <2>1 DEF StartExecution
<1>15. CASE EndExecution \/ JvmRefused
  <2>1. \E pc \in {"done", "abort"} : jvm' = [jvm EXCEPT !.pc = pc]
    BY <1>15 DEF EndExecution, JvmRefused
  <2>2. jvm' \in Jvm /\ jvm'.task = jvm.task /\ jvm'.flight = jvm.flight
    BY <1>1, <2>1 DEF Jvm
  <2>3. UNCHANGED <<host, att, bill, batches, guard, edges>>
    BY <1>15 DEF EndExecution, JvmRefused
  <2> QED BY <1>1, <2>2, <2>3, LedgerKept DEF ProcessType, Drops
<1>16. ASSUME NEW b \in DOMAIN batches, Resume(b) PROVE IInv'
  <2>1. batches[b].task \in Tasks /\ b \in Nat
    BY DEF IInv, LedgerType
  <2> QED BY <1>16, <2>1, HostStarts DEF Resume
<1>17. ASSUME NEW t \in Tasks, Prepare(t) \/ Pilot(t) \/ Full(t) \/ Publish(t) PROVE IInv'
  BY <1>2, <1>17, HostStarts DEF Prepare, Pilot, Full, Publish
<1>18. ASSUME NEW t \in Tasks, ApproveScale(t) \/ StopTask(t) \/ \E p \in Postings : DecideCandidate(t, p)
       PROVE  IInv'
  BY <1>3, <1>18 DEF ApproveScale, StopTask, DecideCandidate
<1>19. ASSUME NEW p \in Postings, NotSent(p) PROVE IInv'
  <2>1. jvm' \in Jvm /\ jvm'.task = jvm.task /\ jvm'.flight = jvm.flight
    BY <1>1, <1>19 DEF NotSent, Tried, Jvm
  <2> QED BY <1>1, <1>19, <2>1, LedgerKept DEF NotSent, ProcessType, Drops
<1> QED BY <1>7, <1>8, <1>9, <1>10, <1>11, <1>12, <1>13, <1>14, <1>15, <1>16, <1>17, <1>18, <1>19


-----------------------------------------------------------------------------
(* Plans and edges.                                                        *)

\* The publication's JVM: its plan holds validated rows, its edges the plan.
LEMMA PublicationPreserves ==
    ASSUME IInv, BeginGraph \/ WriteEdges \/ FinishGraph \/ FailGraph PROVE IInv'
<1> USE DEF ledger
<1>1. jvm \in Jvm /\ host \in Host /\ guard \in [Tasks -> Guard] /\ edges \subseteq Postings
  BY DEF IInv, ProcessType, LedgerType
<1>2. UNCHANGED <<host, att, bill, batches>>
  BY DEF BeginGraph, WriteEdges, FinishGraph, FailGraph
<1>3. jvm' \in Jvm /\ jvm'.task = jvm.task /\ jvm'.flight = jvm.flight
  <2>1. jvm' = jvm \/ \E pc \in {"write", "done", "abort"} : jvm' = [jvm EXCEPT !.pc = pc]
    BY DEF BeginGraph, WriteEdges, FinishGraph, FailGraph
  <2> QED BY <1>1, <2>1 DEF Jvm
<1>4. jvm.task \in Tasks /\ guard[jvm.task] \in Guard
  BY <1>1 DEF Jvm
<1>5. /\ guard' \in [Tasks -> Guard] /\ edges' \subseteq Postings
      /\ \A t \in Tasks : \A p \in guard'[t].rows : Matched(p)
      /\ \A p \in edges' : Matched(p)
  <2>1. CASE BeginGraph
    <3> DEFINE g == [state |-> "PREPARED", rows |-> GraphRows(jvm.task)]
    <3>1. g \in Guard /\ \A p \in g.rows : Matched(p)
      BY <1>4 DEF GraphRows, Guard, Matched
    <3>2. guard' = [guard EXCEPT ![jvm.task] = g] /\ edges' = edges
      BY <2>1 DEF BeginGraph
    <3> HIDE DEF g
    <3> QED BY <1>1, <1>4, <3>1, <3>2 DEF IInv, PlansAreValidated
  <2>2. CASE WriteEdges
    <3>1. guard' = guard /\ \E p \in guard[jvm.task].rows : edges' = edges \cup {p}
      BY <2>2 DEF WriteEdges
    <3> QED BY <1>1, <1>4, <3>1 DEF IInv, PlansAreValidated, Guard
  <2>3. CASE FinishGraph \/ FailGraph
    <3>1. PICK s \in {"VERIFIED", "FAILED"} : guard' = [guard EXCEPT ![jvm.task].state = s]
      BY <2>3 DEF FinishGraph, FailGraph
    <3> DEFINE g == [guard[jvm.task] EXCEPT !.state = s]
    <3>2. g \in Guard /\ g.rows = guard[jvm.task].rows
      BY <1>4 DEF Guard
    <3>3. guard' = [guard EXCEPT ![jvm.task] = g] /\ edges' = edges
      BY <1>1, <1>4, <2>3, <3>1 DEF FinishGraph, FailGraph
    <3> HIDE DEF g
    <3> QED BY <1>1, <1>4, <3>2, <3>3 DEF IInv, PlansAreValidated
  <2> QED BY <2>1, <2>2, <2>3
<1>6. LedgerType' /\ ProcessType' /\ Accounts' /\ OneTask' /\ InFlight'
  BY <1>1, <1>2, <1>3, <1>5 DEF IInv, LedgerType, ProcessType, Accounts, OneTask, InFlight
<1>7. PlansAreValidated'
  BY <1>2, <1>5 DEF PlansAreValidated, Matched
<1> QED BY <1>6, <1>7 DEF IInv

-----------------------------------------------------------------------------
(* Changes of rows and charges.                                            *)

\* One row of one task becomes x.
RowBecomes(t, p, x) ==
    \A u \in Tasks, q \in Postings : att'[u][q] = IF u = t /\ q = p THEN x ELSE att[u][q]

\* A row changes in place: it stays validated and paid if it was, and is newly
\* paid only where no task has paid.
LEMMA RowChanges ==
    ASSUME IInv, ProcessType', UNCHANGED <<bill, batches, guard, edges>>,
           NEW t \in Tasks, NEW p \in Postings, NEW x \in Attempt,
           att' \in [Tasks -> [Postings -> Attempt]], RowBecomes(t, p, x),
           Account(x, bill[t][p]),
           att[t][p].st = "VALIDATED" => x.st = "VALIDATED",
           Paid(x) => Paid(att[t][p]) \/ ~AlreadyPaid(p)
    PROVE  LedgerType' /\ ProcessType' /\ Accounts' /\ OneTask' /\ PlansAreValidated'
<1> USE DEF RowBecomes
<1>1. LedgerType'
  BY DEF IInv, LedgerType
<1>2. Accounts'
  BY DEF IInv, Accounts
<1>3. OneTask'
  BY DEF IInv, OneTask, AlreadyPaid
<1>4. PlansAreValidated'
  <2>1. ASSUME NEW q \in Postings, Matched(q) PROVE Matched(q)'
    BY <2>1 DEF Matched
  <2>2. edges \subseteq Postings /\ \A u \in Tasks : guard[u].rows \subseteq Postings
    BY DEF IInv, LedgerType, Guard
  <2> QED BY <2>1, <2>2 DEF IInv, PlansAreValidated
<1> QED BY <1>1, <1>2, <1>3, <1>4


\* admit_request: the reservation is made before the call, and for a posting
\* that no task has paid for.
LEMMA RequestPreserves ==
    ASSUME IInv, NEW p \in Postings, Request(p) PROVE IInv'
<1> DEFINE t == jvm.task
           a == att[t][p]
           x == [a EXCEPT !.st = "RESERVED", !.exec = jvm.exec]
<1>1. jvm \in Jvm /\ t \in Tasks /\ host \in Host
  BY DEF IInv, ProcessType, Jvm
<1>2. a \in Attempt /\ bill[t][p] \in Charge /\ Account(a, bill[t][p])
  BY <1>1 DEF IInv, LedgerType, Accounts
<1>3. a.st = "PLANNED" /\ ~AlreadyPaid(p)
  BY DEF Request, AdmitRequest, RequestContext, JvmTask
<1>4. /\ x \in Attempt /\ x.st = "RESERVED" /\ x.answer = a.answer /\ x.settled = a.settled
  BY <1>1, <1>2 DEF Attempt, Statuses, Jvm
<1>5. att' = [att EXCEPT ![t][p] = x]
  BY <1>1 DEF Request, JvmTask, IInv, LedgerType
<1>6. jvm' \in Jvm /\ jvm'.task = t /\ jvm'.flight = jvm.flight \cup {p}
  BY <1>1 DEF Request, Tried, Jvm
<1>7. bill[t][p].calls = 0 /\ bill[t][p].usd = 0 /\ ~a.settled /\ a.answer = "none"
  BY <1>2, <1>3 DEF Account, Consistent, Charge, Paid
<1>8. Account(x, bill[t][p])
  BY <1>4, <1>7, Constants DEF Account, Consistent, Hold, Paid
<1>9. UNCHANGED <<host, bill, batches, guard, edges>>
  BY DEF Request, graph
<1> HIDE DEF x
<1>10. att' \in [Tasks -> [Postings -> Attempt]] /\ RowBecomes(t, p, x)
  BY <1>1, <1>4, <1>5 DEF IInv, LedgerType, RowBecomes
<1>11. LedgerType' /\ ProcessType' /\ Accounts' /\ OneTask' /\ PlansAreValidated'
  BY <1>1, <1>3, <1>4, <1>6, <1>8, <1>9, <1>10, RowChanges DEF ProcessType, Paid
<1>12. InFlight'
  <2>1. jvm.flight \subseteq Postings
    BY <1>1 DEF Jvm
  <2>2. ASSUME NEW q \in jvm.flight PROVE att'[t][q].st = "RESERVED" /\ bill'[t][q].calls = 0
    BY <1>1, <1>4, <1>9, <1>10, <2>1 DEF IInv, InFlight, RowBecomes
  <2>3. att'[t][p].st = "RESERVED" /\ bill'[t][p].calls = 0
    BY <1>1, <1>4, <1>7, <1>9, <1>10 DEF RowBecomes
  <2> QED BY <1>6, <2>2, <2>3 DEF InFlight
<1> QED BY <1>11, <1>12 DEF IInv

\* A blocked request and a review change a row that is not in flight.
LEMMA QuietRowChange ==
    ASSUME IInv, ProcessType', UNCHANGED <<bill, batches, guard, edges>>,
           jvm'.task = jvm.task, jvm'.flight = jvm.flight,
           NEW t \in Tasks, NEW p \in Postings, NEW x \in Attempt,
           att' = [att EXCEPT ![t][p] = x],
           att[t][p].st # "RESERVED",
           Account(x, bill[t][p]),
           att[t][p].st = "VALIDATED" => x.st = "VALIDATED",
           Paid(x) => Paid(att[t][p])
    PROVE  IInv'
<1>1. att' \in [Tasks -> [Postings -> Attempt]] /\ RowBecomes(t, p, x)
  BY DEF IInv, LedgerType, RowBecomes
<1>2. LedgerType' /\ ProcessType' /\ Accounts' /\ OneTask' /\ PlansAreValidated'
  BY <1>1, RowChanges
<1>3. jvm.task \in Tasks /\ jvm.flight \subseteq Postings
  BY DEF IInv, ProcessType, Jvm
<1>4. InFlight'
  BY <1>1, <1>3 DEF IInv, InFlight, RowBecomes
<1> QED BY <1>2, <1>4 DEF IInv

LEMMA BlockedPreserves ==
    ASSUME IInv, NEW p \in Postings, Blocked(p) PROVE IInv'
<1> DEFINE t == jvm.task
           a == att[t][p]
           x == [a EXCEPT !.st = "BUDGET_BLOCKED"]
<1>1. jvm \in Jvm /\ t \in Tasks /\ host \in Host
  BY DEF IInv, ProcessType, Jvm
<1>2. a \in Attempt /\ bill[t][p] \in Charge /\ Account(a, bill[t][p])
  BY <1>1 DEF IInv, LedgerType, Accounts
<1>3. a.st = "PLANNED"
  BY DEF Blocked, RequestContext, JvmTask
<1>4. x \in Attempt /\ x.st = "BUDGET_BLOCKED" /\ x.answer = a.answer /\ x.settled = a.settled
  BY <1>2 DEF Attempt, Statuses
<1>5. att' = [att EXCEPT ![t][p] = x]
  BY <1>1 DEF Blocked, JvmTask, IInv, LedgerType
<1>6. jvm' \in Jvm /\ jvm'.task = jvm.task /\ jvm'.flight = jvm.flight
  BY <1>1 DEF Blocked, Tried, Jvm
<1>7. Account(x, bill[t][p])
  BY <1>2, <1>3, <1>4 DEF Account, Consistent, Hold, Paid
<1>8. UNCHANGED <<host, bill, batches, guard, edges>>
  BY DEF Blocked, graph
<1> HIDE DEF x
<1> QED BY <1>1, <1>3, <1>4, <1>5, <1>6, <1>7, <1>8, QuietRowChange DEF ProcessType, Paid

\* 005 and 006: a reviewed decision only settles an answer that is recorded.
LEMMA ReviewPreserves ==
    ASSUME IInv, NEW t \in Tasks, NEW p \in Postings,
           ReconcileNoDispatch(t, p) \/ AcknowledgeRoute(t, p)
    PROVE  IInv'
<1> DEFINE a == att[t][p]
           x == [a EXCEPT !.settled = TRUE]
<1>1. host \in Host /\ jvm \in Jvm
  BY DEF IInv, ProcessType
<1>2. a \in Attempt /\ Account(a, bill[t][p])
  BY DEF IInv, LedgerType, Accounts
<1>3. a.answer \in {"filtered", "route"}
  BY DEF ReconcileNoDispatch, AcknowledgeRoute
<1>4. x \in Attempt /\ x.st = a.st /\ x.answer = a.answer
  BY <1>2 DEF Attempt
<1>5. att' = [att EXCEPT ![t][p] = x]
  BY DEF ReconcileNoDispatch, AcknowledgeRoute, Review, IInv, LedgerType
<1>6. UNCHANGED <<host, jvm, bill, batches, guard, edges>>
  BY DEF ReconcileNoDispatch, AcknowledgeRoute, graph
<1>7. a.st # "RESERVED" /\ Paid(x) = Paid(a) /\ Hold(x) = Hold(a)
  BY <1>2, <1>3, <1>4 DEF Account, Consistent, Paid, Hold
<1> HIDE DEF x
<1>8. Account(x, bill[t][p])
  BY <1>2, <1>3, <1>4, <1>7 DEF Account, Consistent
<1> QED BY <1>1, <1>4, <1>5, <1>6, <1>7, <1>8, QuietRowChange DEF ProcessType


\* plan_batch: only rows without an attempt are planned.
LEMMA PlanBatchPreserves == ASSUME IInv, PlanBatch PROVE IInv'
<1> DEFINE t == host.task
           b == Cardinality(DOMAIN batches) + 1
           chosen == IF host.stage = "pilot" THEN PilotIds(t) ELSE BalancedIds(t)
           new(p) == [NoAtt EXCEPT !.st = IF p \in NoCandidates THEN "SKIPPED" ELSE "PLANNED", !.batch = b]
<1>1. host \in Host /\ jvm \in Jvm /\ t \in Tasks
  BY DEF IInv, ProcessType, Host
<1>2. PICK n \in Nat : DOMAIN batches = 1..n
  BY DEF IInv, LedgerType
<1>3. b = n + 1 /\ b \in Nat
  <2>1. Cardinality(1..n) = IF 1 > n THEN 0 ELSE n - 1 + 1
    BY FS_Interval
  <2> QED BY <1>2, <2>1
<1>4. \A p \in chosen : att[t][p].st = "NONE"
  BY DEF PilotIds, BalancedIds, First, Eligible
<1>5. /\ UNCHANGED <<jvm, bill, guard, edges>>
      /\ host' = [host EXCEPT !.pc = "launch", !.batch = b]
  BY DEF PlanBatch, graph
<1>6. host' \in Host
  <2> HIDE DEF b
  <2> QED BY <1>1, <1>3, <1>5 DEF Host
<1>7. \A p \in Postings : /\ new(p) \in Attempt
                          /\ new(p).st \in {"SKIPPED", "PLANNED"}
                          /\ new(p).answer = "none" /\ ~new(p).settled
  <2> SUFFICES ASSUME NEW p \in Postings
               PROVE  /\ new(p) \in Attempt
                      /\ new(p).st \in {"SKIPPED", "PLANNED"}
                      /\ new(p).answer = "none" /\ ~new(p).settled
    OBVIOUS
  <2> HIDE DEF b
  <2>1. NoAtt \in Attempt /\ NoAtt.answer = "none" /\ ~NoAtt.settled
    BY DEF NoAtt, Attempt, Statuses
  <2> QED BY <1>3, <2>1 DEF Attempt, Statuses
<1>8. /\ att' \in [Tasks -> [Postings -> Attempt]]
      /\ \A u \in Tasks, q \in Postings :
            att'[u][q] = IF u = t /\ q \in chosen THEN new(q) ELSE att[u][q]
  <2>1. att' = [att EXCEPT ![t] = [p \in Postings |-> IF p \in chosen THEN new(p) ELSE att[t][p]]]
    BY <1>1 DEF PlanBatch, IInv, LedgerType
  <2> HIDE DEF new, chosen
  <2>2. [p \in Postings |-> IF p \in chosen THEN new(p) ELSE att[t][p]] \in [Postings -> Attempt]
    BY <1>1, <1>7 DEF IInv, LedgerType
  <2> QED BY <1>1, <2>1, <2>2 DEF IInv, LedgerType
<1>9. DOMAIN batches' = 1..(n + 1) /\ \A c \in 1..(n + 1) : batches'[c].task \in Tasks
  <2>1. batches' = [c \in 1..(n + 1) |-> IF c < n + 1 THEN batches[c] ELSE
           [task |-> t, phase |-> IF host.stage = "pilot" THEN "PILOT" ELSE "FULL", calls |-> Cardinality(chosen),
            cap |-> IF host.stage = "pilot" THEN PilotCap ELSE Cap]]
    BY <1>3 DEF PlanBatch
  <2>2. \A c \in 1..(n + 1) : c < n + 1 => c \in DOMAIN batches
    BY <1>2
  <2> HIDE DEF chosen
  <2> QED BY <1>1, <2>1, <2>2 DEF IInv, LedgerType
<1>10. LedgerType'
  <2>1. n + 1 \in Nat
    OBVIOUS
  <2> QED BY <1>5, <1>8, <1>9, <2>1 DEF IInv, LedgerType
<1> HIDE DEF new, chosen, b
<1>11. Accounts'
  <2> SUFFICES ASSUME NEW u \in Tasks, NEW q \in Postings PROVE Account(att'[u][q], bill'[u][q])
    BY DEF Accounts
  <2>1. bill[u][q] \in Charge /\ Account(att[u][q], bill[u][q])
    BY DEF IInv, LedgerType, Accounts
  <2>2. CASE u = t /\ q \in chosen
    <3>1. att'[u][q] = new(q) /\ att[u][q].st = "NONE"
      BY <1>4, <1>8, <2>2
    <3>2. bill[u][q].calls = 0 /\ bill[u][q].usd = 0
      BY <2>1, <3>1 DEF Account, Charge, Paid
    <3> QED BY <1>5, <1>7, <3>1, <3>2 DEF Account, Consistent, Hold, Paid
  <2> QED BY <1>5, <1>8, <2>1, <2>2
<1>12. \A u \in Tasks, q \in Postings : /\ Paid(att'[u][q]) => Paid(att[u][q])
                                        /\ att[u][q].st # "NONE" => att'[u][q] = att[u][q]
  BY <1>4, <1>7, <1>8 DEF Paid
<1>13. OneTask'
  BY <1>12 DEF IInv, OneTask
<1>14. InFlight'
  BY <1>1, <1>5, <1>12 DEF IInv, InFlight, Jvm
<1>15. PlansAreValidated'
  <2>1. ASSUME NEW q \in Postings, Matched(q) PROVE Matched(q)'
    BY <1>12, <2>1 DEF Matched
  <2>2. edges \subseteq Postings /\ \A u \in Tasks : guard[u].rows \subseteq Postings
    BY DEF IInv, LedgerType, Guard
  <2> QED BY <1>5, <2>1, <2>2 DEF IInv, PlansAreValidated
<1> QED BY <1>1, <1>5, <1>6, <1>10, <1>11, <1>13, <1>14, <1>15 DEF IInv, ProcessType

\* save_response: the answer settles the row and its one charge together.
LEMMA SaveResponsePreserves ==
    ASSUME IInv, NEW p \in Postings, NEW answer \in Answers, SaveResponse(p, answer) PROVE IInv'
<1> DEFINE t == jvm.task
           a == att[t][p]
           x == [a EXCEPT !.st = Settled(answer), !.answer = answer]
<1>1. jvm \in Jvm /\ t \in Tasks /\ host \in Host /\ jvm.flight \subseteq Postings
  BY DEF IInv, ProcessType, Jvm
<1>2. a \in Attempt /\ bill[t][p] \in Charge /\ Account(a, bill[t][p])
  BY <1>1 DEF IInv, LedgerType, Accounts
<1>3. a.st = "RESERVED" /\ p \in jvm.flight
  BY DEF SaveResponse, JvmTask
<1>4. bill[t][p].calls = 0 /\ bill[t][p].usd = 0 /\ ~a.settled
  BY <1>2, <1>3 DEF IInv, InFlight, Account, Consistent
<1>5. answer \in Answer /\ Settled(answer) \in {"VALIDATED", "REJECTED", "ERROR"}
  BY Constants DEF Settled
<1>6. x \in Attempt /\ x.st = Settled(answer) /\ x.answer = answer /\ ~x.settled
  BY <1>2, <1>4, <1>5 DEF Attempt, Statuses
<1>7. att' = [att EXCEPT ![t][p] = x]
  BY <1>1 DEF SaveResponse, JvmTask, IInv, LedgerType
<1>8. PICK c \in Charges(answer) : bill' = Bill(t, p, c)
  BY DEF SaveResponse, JvmTask
<1>9. c \in Nat
  BY <1>5, <1>8, Constants DEF Charges
<1> DEFINE y == [calls |-> 1, usd |-> c]
<1>10. y \in Charge /\ y.calls = 1 /\ y.usd = c
  BY <1>9 DEF Charge
<1>11. bill' = [bill EXCEPT ![t][p] = y]
  BY <1>1, <1>4, <1>8, <1>9 DEF Bill, IInv, LedgerType
<1>12. c <= Hold(x)
  BY <1>5, <1>6, <1>8, Constants DEF Charges, Hold, Paid, Answer
<1> HIDE DEF x, y
<1>13. Account(x, y)
  BY <1>5, <1>6, <1>9, <1>10, <1>12 DEF Account, Consistent, Paid, Answer
<1>14. /\ att' \in [Tasks -> [Postings -> Attempt]] /\ bill' \in [Tasks -> [Postings -> Charge]]
       /\ \A u \in Tasks, q \in Postings : /\ att'[u][q] = IF u = t /\ q = p THEN x ELSE att[u][q]
                                           /\ bill'[u][q] = IF u = t /\ q = p THEN y ELSE bill[u][q]
  BY <1>1, <1>6, <1>7, <1>10, <1>11 DEF IInv, LedgerType
<1>15. UNCHANGED <<host, batches, guard, edges>> /\ jvm' = [jvm EXCEPT !.flight = @ \ {p}]
  BY DEF SaveResponse, graph
<1>16. jvm' \in Jvm /\ jvm'.task = t /\ jvm'.flight = jvm.flight \ {p}
  BY <1>1, <1>15 DEF Jvm
<1>17. LedgerType' /\ ProcessType'
  BY <1>1, <1>14, <1>15, <1>16 DEF IInv, LedgerType, ProcessType
<1>18. Accounts'
  BY <1>13, <1>14 DEF IInv, Accounts
<1>19. \A u \in Tasks, q \in Postings : /\ Paid(att'[u][q]) => Paid(att[u][q])
                                        /\ att[u][q].st = "VALIDATED" => att'[u][q].st = "VALIDATED"
  BY <1>3, <1>14 DEF Paid
<1>20. OneTask'
  BY <1>19 DEF IInv, OneTask
<1>21. InFlight'
  BY <1>1, <1>14, <1>16 DEF IInv, InFlight
<1>22. PlansAreValidated'
  <2>1. ASSUME NEW q \in Postings, Matched(q) PROVE Matched(q)'
    BY <1>19, <2>1 DEF Matched
  <2>2. edges \subseteq Postings /\ \A u \in Tasks : guard[u].rows \subseteq Postings
    BY DEF IInv, LedgerType, Guard
  <2> QED BY <1>15, <2>1, <2>2 DEF IInv, PlansAreValidated
<1> QED BY <1>17, <1>18, <1>20, <1>21, <1>22 DEF IInv

\* The JVM dies, or aborts after a failed save: its calls may be charged, and
\* their reservations stay.
LEMMA AbandonPreserves ==
    ASSUME IInv, ProcessType', jvm'.flight = {}, NEW c \in {0, Reserve}, Abandon(c),
           UNCHANGED <<att, batches, guard, edges>>
    PROVE  IInv'
<1>1. jvm \in Jvm /\ jvm.task \in Tasks /\ c \in Nat /\ c <= Reserve
  BY Constants DEF IInv, ProcessType, Jvm
<1>2. CASE jvm.stage # "execute"
  BY <1>2, LedgerKept DEF Abandon, Drops
<1>3. CASE jvm.stage = "execute"
  <2> DEFINE t == jvm.task
             y(q) == IF q \in jvm.flight THEN [calls |-> bill[t][q].calls + 1, usd |-> bill[t][q].usd + c]
                     ELSE bill[t][q]
  <2>1. bill' = [bill EXCEPT ![t] = [q \in Postings |-> y(q)]]
    BY <1>1, <1>3 DEF Abandon, JvmTask, IInv, LedgerType
  <2>2. ASSUME NEW q \in Postings PROVE y(q) \in Charge /\ Account(att[t][q], y(q))
    <3>1. bill[t][q] \in Charge /\ Account(att[t][q], bill[t][q])
      BY <1>1 DEF IInv, LedgerType, Accounts
    <3>2. CASE q \in jvm.flight
      <4>1. att[t][q].st = "RESERVED" /\ bill[t][q].calls = 0 /\ bill[t][q].usd = 0
        BY <3>1, <3>2 DEF IInv, InFlight, Account
      <4>2. y(q) = [calls |-> 1, usd |-> c]
        BY <1>1, <3>2, <4>1
      <4>3. y(q) \in Charge /\ y(q).calls = 1 /\ y(q).usd = c
        BY <1>1, <4>2 DEF Charge
      <4>4. Consistent(att[t][q]) /\ att[t][q].answer = "none"
        BY <3>1, <4>1 DEF Account, Consistent
      <4>5. Paid(att[t][q]) /\ Hold(att[t][q]) = Reserve
        BY <4>1, <4>4 DEF Paid, Hold
      <4> HIDE DEF y
      <4> QED BY <1>1, <4>1, <4>3, <4>4, <4>5 DEF Account
    <3> QED BY <3>1, <3>2
  <2> HIDE DEF y
  <2>3. /\ bill' \in [Tasks -> [Postings -> Charge]]
        /\ \A u \in Tasks, q \in Postings : bill'[u][q] = IF u = t THEN y(q) ELSE bill[u][q]
    BY <1>1, <2>1, <2>2 DEF IInv, LedgerType
  <2>4. LedgerType'
    BY <2>3 DEF IInv, LedgerType
  <2>5. Accounts'
    BY <2>2, <2>3 DEF IInv, Accounts
  <2>6. OneTask' /\ PlansAreValidated'
    BY DEF IInv, OneTask, PlansAreValidated, Matched
  <2>7. InFlight'
    BY DEF InFlight
  <2> QED BY <2>4, <2>5, <2>6, <2>7 DEF IInv
<1> QED BY <1>2, <1>3

LEMMA FaultsPreserve ==
    ASSUME IInv, HostInterrupted \/ JvmKilled \/ \E p \in Postings : SaveFails(p) PROVE IInv'
<1> USE DEF ledger, graph
<1>1. host \in Host /\ jvm \in Jvm
  BY DEF IInv, ProcessType
<1>2. PICK c \in {0, Reserve} : Abandon(c)
  BY DEF HostInterrupted, JvmKilled, SaveFails
<1>3. UNCHANGED <<att, batches, guard, edges>>
  BY DEF HostInterrupted, JvmKilled, SaveFails
<1>4. host' = host \/ host' = NoHost
  BY DEF HostInterrupted, JvmKilled, SaveFails, HostEnds
<1>5. jvm' = NoJvm \/ jvm' = [jvm EXCEPT !.flight = {}, !.pc = "abort"]
  BY DEF HostInterrupted, JvmKilled, SaveFails
<1>6. jvm' \in Jvm /\ jvm'.flight = {}
  BY <1>1, <1>5, NoProcess DEF Jvm
<1> QED BY <1>1, <1>2, <1>3, <1>4, <1>6, NoProcess, AbandonPreserves DEF ProcessType

-----------------------------------------------------------------------------
(* The theorems.                                                           *)

LEMMA Inductive == IInv /\ [Next]_vars => IInv'
<1> SUFFICES ASSUME IInv, [Next]_vars PROVE IInv'
  OBVIOUS
<1>1. CASE Operator
  BY <1>1, ProcessesPreserve, ReviewPreserves DEF Operator, TaskOperator
<1>2. CASE HostSteps
  BY <1>2, ProcessesPreserve, PlanBatchPreserves DEF HostSteps
<1>3. CASE JvmSteps
  BY <1>3, ProcessesPreserve, PublicationPreserves, RequestPreserves, BlockedPreserves, SaveResponsePreserves
     DEF JvmSteps
<1>4. CASE Faults
  BY <1>4, ProcessesPreserve, PublicationPreserves, FaultsPreserve DEF Faults
<1>5. CASE UNCHANGED vars
  BY <1>5, LedgerKept DEF vars, ledger, graph, IInv, ProcessType, Drops
<1> QED BY <1>1, <1>2, <1>3, <1>4, <1>5 DEF Next

\* run_onet_matches: the ledger, the charges and the calls in flight agree row
\* by row, whatever is killed between reservation, call and settlement.
THEOREM Invariance == Spec => []IInv
BY InitEstablishes, Inductive, PTL DEF Spec

\* run_onet_matches: no posting is sent to the provider twice, by a resumed
\* execution or under the continuation, whatever was killed in between.
THEOREM CalledOnce == Spec => []PaidOnce
<1>1. IInv => PaidOnce
  <2> SUFFICES ASSUME IInv, NEW p \in Postings PROVE bill[1][p].calls + bill[2][p].calls <= 1
    BY DEF PaidOnce
  <2>1. 1 \in Tasks /\ 2 \in Tasks
    BY DEF Tasks
  <2>2. bill[1][p] \in Charge /\ bill[2][p] \in Charge
    BY <2>1 DEF IInv, LedgerType
  <2>3. Account(att[1][p], bill[1][p]) /\ Account(att[2][p], bill[2][p])
    BY <2>1 DEF IInv, Accounts
  <2>4. ~(Paid(att[1][p]) /\ Paid(att[2][p]))
    BY <2>1 DEF IInv, OneTask
  <2> QED BY <2>2, <2>3, <2>4 DEF Account, Charge
<1> QED BY <1>1, Invariance, PTL

\* begin_graph and finish_graph: every edge rests on one answer that was paid
\* for once and validated, whichever task published it.
THEOREM EdgesRestOnPaidAnswers == Spec => []EdgesArePaidFor
<1>1. IInv => EdgesArePaidFor
  <2> SUFFICES ASSUME IInv, NEW p \in edges
               PROVE  \E t \in Tasks : /\ att[t][p].st = "VALIDATED" /\ bill[t][p].calls = 1
                                       /\ \A u \in Tasks \ {t} : bill[u][p].calls = 0
    BY DEF EdgesArePaidFor
  <2>1. p \in Postings
    BY DEF IInv, LedgerType
  <2>2. PICK t \in Tasks : att[t][p].st = "VALIDATED"
    BY DEF IInv, PlansAreValidated, Matched
  <2>3. bill[t][p].calls = 1 /\ Paid(att[t][p])
    BY <2>1, <2>2 DEF IInv, Accounts, Account, Paid
  <2>4. ASSUME NEW u \in Tasks \ {t} PROVE bill[u][p].calls = 0
    <3>1. ~Paid(att[u][p])
      BY <2>1, <2>3 DEF IInv, OneTask
    <3>2. bill[u][p] \in Charge /\ Account(att[u][p], bill[u][p])
      BY <2>1 DEF IInv, LedgerType, Accounts
    <3> QED BY <3>1, <3>2 DEF Account, Charge
  <2> QED BY <2>2, <2>3, <2>4
<1> QED BY <1>1, Invariance, PTL

\* A row that request_context does not refuse is accounted with the most it
\* can have cost.
LEMMA HoldIsAccounted ==
    ASSUME IInv, NEW t \in Tasks, NEW p \in Postings, ~Anomalous(att[t][p])
    PROVE  Hold(att[t][p]) = Accounted(att[t][p])
<1> DEFINE a == att[t][p]
<1>1. a \in Attempt /\ Consistent(a)
  BY DEF IInv, LedgerType, Accounts, Account
<1>2. a.answer \in Answer \cup {"none"}
  BY <1>1 DEF Attempt
<1>3. a.st \in {"VALIDATED", "REJECTED", "ERROR"} => EffectiveKnown(a) /\ (IsByok(a) \/ a.settled)
  BY DEF Anomalous
<1> HIDE DEF a
<1>4. CASE ~Paid(a)
  BY <1>4 DEF Hold, Accounted, a
<1>5. CASE a.st = "RESERVED"
  <2>1. a.answer = "none" /\ ~a.settled
    BY <1>1, <1>5 DEF Consistent
  <2>2. Hold(a) = Accounted(a)
    BY <1>5, <2>1 DEF Hold, Accounted, EffectiveKnown, CostKnown, Paid
  <2> QED BY <2>2 DEF a
<1>6. CASE a.st \in {"VALIDATED", "REJECTED", "ERROR"}
  <2>1. a.answer # "none" /\ Paid(a)
    BY <1>1, <1>6 DEF Consistent, Paid
  <2>2. CASE a.answer \in {"ok", "bad", "breach"}
    BY <2>1, <2>2 DEF Hold, Accounted, EffectiveKnown, CostKnown, Cost, a
  <2>3. CASE a.answer \in {"route", "filtered", "lost"}
    <3>1. Hold(a) = Accounted(a)
      BY <1>1, <1>3, <1>6, <2>1, <2>3
         DEF Hold, Accounted, EffectiveKnown, CostKnown, Cost, IsByok, Consistent
    <3> QED BY <3>1 DEF a
  <2> QED BY <1>2, <2>1, <2>2, <2>3 DEF Answer
<1> QED BY <1>4, <1>5, <1>6 DEF Paid

\* accounted_attempt, request_context: whenever a request can be admitted, what
\* is compared with the cap leaves no charge out, row by row: an answer that
\* was lost, filtered or routed elsewhere is held in full or blocks the call.
THEOREM NothingUncounted == Spec => []ChargesAreHeld
<1>1. IInv => ChargesAreHeld
  <2> SUFFICES ASSUME IInv, NEW t \in Tasks, NEW p \in Postings, ~Anomalous(att[t][p])
               PROVE  bill[t][p].usd <= Accounted(att[t][p])
    BY DEF ChargesAreHeld
  <2>1. bill[t][p].usd <= Hold(att[t][p])
    BY DEF IInv, Accounts, Account
  <2> QED BY <2>1, HoldIsAccounted
<1> QED BY <1>1, Invariance, PTL

-----------------------------------------------------------------------------
(* The cap.  What a row can still cost, up to its reserve, is exposed; the *)
(* exposure of all rows together stays within the cap.  It grows only when *)
(* a request is admitted, and then no row is refused, so what is compared  *)
(* with the cap is the exposure itself.                                    *)

Rows == Tasks \X Postings
Row(u) == att[u[1][1]][u[1][2]]
ExposedUnits == {u \in Rows \X (1..Reserve) : u[2] <= Hold(Row(u))}
ExposureWithinCap == Cardinality(ExposedUnits) <= Cap

LEMMA Holds == \A a : Hold(a) \in Nat
BY Constants DEF Hold

\* Rows and units are finitely many.
LEMMA UnitsFinite ==
    /\ IsFiniteSet(Rows \X (1..Reserve)) /\ IsFiniteSet(Rows \X (1..(Reserve + 1)))
    /\ Cap \in Nat
<1>1. IsFiniteSet(Tasks)
  <2>1. IsFiniteSet(1..2)
    <3>1. 1 \in Int /\ 2 \in Int
      OBVIOUS
    <3> QED BY <3>1, FS_Interval
  <2>2. Tasks = 1..2
    BY DEF Tasks
  <2> QED BY <2>1, <2>2
<1>2. NPosting \in Int /\ Reserve \in Int /\ Reserve + 1 \in Int /\ Cap \in Nat
  BY OnetAssumption
<1>3. IsFiniteSet(Postings)
  BY <1>2, FS_Interval DEF Postings
<1>4. IsFiniteSet(Rows)
  BY <1>1, <1>3, FS_Product DEF Rows
<1>5. IsFiniteSet(1..Reserve) /\ IsFiniteSet(1..(Reserve + 1))
  BY <1>2, FS_Interval
<1> QED BY <1>2, <1>4, <1>5, FS_Product

\* A step that reserves nothing exposes nothing new: a row keeps or loses its
\* hold, or had its whole reserve exposed before.
Releases == \A t \in Tasks, p \in Postings :
    \/ Hold(att'[t][p]) <= Hold(att[t][p])
    \/ Hold(att[t][p]) = Reserve

LEMMA ReleasePreserves == ASSUME ExposureWithinCap, Releases PROVE ExposureWithinCap'
<1>1. ExposedUnits' \subseteq ExposedUnits
  <2> SUFFICES ASSUME NEW u \in ExposedUnits' PROVE u \in ExposedUnits
    OBVIOUS
  <2>1. u \in Rows \X (1..Reserve) /\ u[2] <= Hold(att'[u[1][1]][u[1][2]])
    BY DEF ExposedUnits, Row
  <2>2. PICK t \in Tasks, p \in Postings, k \in 1..Reserve : u = <<<<t, p>>, k>>
    BY <2>1 DEF Rows
  <2>3. k <= Hold(att'[t][p]) /\ k \in Nat /\ k <= Reserve
    BY <2>1, <2>2, Constants
  <2>4. Hold(att'[t][p]) \in Nat /\ Hold(att[t][p]) \in Nat
    BY Holds
  <2>5. k <= Hold(att[t][p])
    BY <2>3, <2>4, Constants DEF Releases
  <2> QED BY <2>1, <2>2, <2>5 DEF ExposedUnits, Row
<1>2. IsFiniteSet(ExposedUnits)
  BY UnitsFinite, FS_Subset DEF ExposedUnits
<1>3. /\ IsFiniteSet(ExposedUnits') /\ Cardinality(ExposedUnits') <= Cardinality(ExposedUnits)
  BY <1>1, <1>2, FS_Subset
<1>4. Cardinality(ExposedUnits') \in Nat /\ Cardinality(ExposedUnits) \in Nat
  BY <1>2, <1>3, FS_CardinalityType
<1> QED BY <1>3, <1>4, UnitsFinite DEF ExposureWithinCap

\* admit_request: no row is refused and what is held leaves room for one more
\* reserve, so with the new reservation the exposure is within the cap.
LEMMA RequestWithinCap ==
    ASSUME IInv, NEW p \in Postings, Request(p) PROVE ExposureWithinCap'
<1> DEFINE t == jvm.task
           mine == {<<t, p>>} \X (1..Reserve)
           held == HeldUnits(Tasks, Postings)
<1>1. t \in Tasks
  BY DEF IInv, ProcessType, Jvm
<1>2. Held + Reserve <= Cap /\ \A u \in Tasks, q \in Postings : ~Anomalous(att[u][q])
  BY DEF Request, AdmitRequest, RequestContext, Within, Some
<1>3. \A u \in Tasks, q \in Postings : <<u, q>> # <<t, p>> => att'[u][q] = att[u][q]
  BY <1>1 DEF Request, JvmTask, IInv, LedgerType
<1>4. ExposedUnits' \subseteq held \cup mine
  <2> SUFFICES ASSUME NEW u \in ExposedUnits', u \notin mine PROVE u \in held
    OBVIOUS
  <2>1. u \in Rows \X (1..Reserve) /\ u[2] <= Hold(att'[u[1][1]][u[1][2]])
    BY DEF ExposedUnits, Row
  <2>2. PICK s \in Tasks, q \in Postings, k \in 1..Reserve : u = <<<<s, q>>, k>>
    BY <2>1 DEF Rows
  <2>3. <<s, q>> # <<t, p>>
    BY <2>2
  <2>4. k <= Hold(att[s][q])
    BY <1>3, <2>1, <2>2, <2>3
  <2>5. k <= Accounted(att[s][q])
    BY <1>2, <2>4, HoldIsAccounted
  <2>6. k \in 1..(Reserve + 1)
    BY Constants
  <2> QED BY <2>2, <2>5, <2>6 DEF HeldUnits
<1>5. IsFiniteSet(held)
  BY UnitsFinite, FS_Subset DEF HeldUnits, Rows
<1>6. IsFiniteSet(mine) /\ Cardinality(mine) = Reserve
  <2>1. IsFiniteSet({<<t, p>>}) /\ Cardinality({<<t, p>>}) = 1
    BY FS_Singleton
  <2>2. Reserve \in Nat /\ Reserve > 1
    BY Constants
  <2>3. IsFiniteSet(1..Reserve) /\ Cardinality(1..Reserve) = IF 1 > Reserve THEN 0 ELSE Reserve - 1 + 1
    BY <2>2, FS_Interval
  <2>4. IsFiniteSet(mine) /\ Cardinality(mine) = 1 * Cardinality(1..Reserve)
    BY <2>1, <2>3, FS_Product
  <2> QED BY <2>2, <2>3, <2>4
<1>7. /\ IsFiniteSet(held \cup mine)
      /\ Cardinality(held \cup mine) = Cardinality(held) + Cardinality(mine) - Cardinality(held \cap mine)
  BY <1>5, <1>6, FS_Union
<1>8. Cardinality(held \cap mine) \in Nat /\ Cardinality(held) \in Nat /\ Cardinality(held \cup mine) \in Nat
  BY <1>5, <1>7, FS_Intersection, FS_CardinalityType
<1>9. Cardinality(held) = Held
  BY DEF Held
<1>10. /\ IsFiniteSet(ExposedUnits') /\ Cardinality(ExposedUnits') <= Cardinality(held \cup mine)
  BY <1>4, <1>7, FS_Subset
<1>11. Cardinality(ExposedUnits') \in Nat
  BY <1>10, FS_CardinalityType
<1> HIDE DEF held, mine
<1> QED BY <1>2, <1>6, <1>7, <1>8, <1>9, <1>10, <1>11, UnitsFinite, Constants DEF ExposureWithinCap

\* save_response: the row was reserved, so its whole reserve was exposed.
LEMMA SaveReleases ==
    ASSUME IInv, NEW p \in Postings, NEW answer \in Answers, SaveResponse(p, answer) PROVE Releases
<1>1. jvm.task \in Tasks
  BY DEF IInv, ProcessType, Jvm
<1>2. att[jvm.task][p].st = "RESERVED"
  BY DEF SaveResponse, JvmTask
<1>3. Hold(att[jvm.task][p]) = Reserve
  <2>1. Consistent(att[jvm.task][p])
    BY <1>1 DEF IInv, Accounts, Account
  <2>2. att[jvm.task][p].answer = "none"
    BY <1>2, <2>1 DEF Consistent
  <2> QED BY <1>2, <2>2 DEF Hold, Paid
<1>4. \A u \in Tasks, q \in Postings : (u = jvm.task /\ q = p) \/ att'[u][q] = att[u][q]
  BY <1>1 DEF SaveResponse, JvmTask, IInv, LedgerType
<1> QED BY <1>3, <1>4, Holds DEF Releases

\* A blocked request holds nothing, before and after.
LEMMA BlockedReleases ==
    ASSUME IInv, NEW p \in Postings, Blocked(p) PROVE Releases
<1>1. jvm.task \in Tasks
  BY DEF IInv, ProcessType, Jvm
<1>2. att[jvm.task][p] \in Attempt
  BY <1>1 DEF IInv, LedgerType
<1>3. /\ \A u \in Tasks, q \in Postings : (u = jvm.task /\ q = p) \/ att'[u][q] = att[u][q]
      /\ att'[jvm.task][p] = [att[jvm.task][p] EXCEPT !.st = "BUDGET_BLOCKED"]
  BY <1>1 DEF Blocked, JvmTask, IInv, LedgerType
<1>4. att'[jvm.task][p].st = "BUDGET_BLOCKED" /\ att'[jvm.task][p].answer = "none"
  <2>1. att[jvm.task][p].st = "PLANNED" /\ Consistent(att[jvm.task][p])
    BY <1>1 DEF Blocked, RequestContext, JvmTask, IInv, Accounts, Account
  <2> QED BY <1>2, <1>3, <2>1 DEF Attempt, Consistent
<1>5. Hold(att'[jvm.task][p]) = 0
  BY <1>4 DEF Hold, Paid
<1> QED BY <1>3, <1>5, Holds DEF Releases

\* A review changes neither what was answered nor what the row can have cost.
LEMMA ReviewReleases ==
    ASSUME IInv, NEW t \in Tasks, NEW p \in Postings,
           ReconcileNoDispatch(t, p) \/ AcknowledgeRoute(t, p)
    PROVE  Releases
<1>1. att[t][p] \in Attempt
  BY DEF IInv, LedgerType
<1>2. /\ \A u \in Tasks, q \in Postings : (u = t /\ q = p) \/ att'[u][q] = att[u][q]
      /\ att'[t][p] = [att[t][p] EXCEPT !.settled = TRUE]
  <2>1. att' = [att EXCEPT ![t][p].settled = TRUE]
    BY DEF ReconcileNoDispatch, AcknowledgeRoute, Review
  <2>2. att \in [Tasks -> [Postings -> Attempt]]
    BY DEF IInv, LedgerType
  <2> QED BY <2>1, <2>2
<1>3. att'[t][p].st = att[t][p].st /\ att'[t][p].answer = att[t][p].answer
  BY <1>1, <1>2 DEF Attempt
<1>4. Hold(att'[t][p]) = Hold(att[t][p])
  BY <1>3 DEF Hold, Paid
<1> QED BY <1>2, <1>4, Holds DEF Releases

\* plan_batch: a planned row holds nothing yet.
LEMMA PlanReleases == ASSUME IInv, PlanBatch PROVE Releases
<1> DEFINE b == Cardinality(DOMAIN batches) + 1
           chosen == IF host.stage = "pilot" THEN PilotIds(host.task) ELSE BalancedIds(host.task)
           new(p) == [NoAtt EXCEPT !.st = IF p \in NoCandidates THEN "SKIPPED" ELSE "PLANNED", !.batch = b]
<1>1. host.task \in Tasks
  BY DEF IInv, ProcessType, Host
<1>2. att' = [att EXCEPT ![host.task] = [p \in Postings |-> IF p \in chosen THEN new(p) ELSE att[host.task][p]]]
  BY <1>1 DEF PlanBatch, IInv, LedgerType
<1>3. \A p : Hold(new(p)) = 0
  BY DEF NoAtt, Hold, Paid
<1> HIDE DEF new, chosen
<1>4. \A u \in Tasks, q \in Postings : att'[u][q] = att[u][q] \/ att'[u][q] = new(q)
  BY <1>1, <1>2 DEF IInv, LedgerType
<1> QED BY <1>3, <1>4, Holds DEF Releases

LEMMA ExposurePreserved == IInv /\ ExposureWithinCap /\ [Next]_vars => ExposureWithinCap'
<1> SUFFICES ASSUME IInv, ExposureWithinCap, [Next]_vars PROVE ExposureWithinCap'
  OBVIOUS
<1> USE DEF ledger, graph
<1>1. ASSUME UNCHANGED att PROVE Releases
  BY <1>1, Holds DEF Releases
<1>2. CASE Operator
  <2>1. UNCHANGED att \/ \E t \in Tasks, p \in Postings : ReconcileNoDispatch(t, p) \/ AcknowledgeRoute(t, p)
    BY <1>2 DEF Operator, TaskOperator, Deploy, Freeze, VerifyProjection, Resume, Prepare, ApproveScale, Pilot,
                Full, Publish, StopTask, DecideCandidate
  <2> QED BY <1>1, <2>1, ReviewReleases, ReleasePreserves
<1>3. CASE HostSteps
  <2>1. UNCHANGED att \/ PlanBatch
    BY <1>3 DEF HostSteps, Link, FreezeInputs, NothingLeft, RunNative, HostProceeds, HostFails, HostRefuses
  <2> QED BY <1>1, <2>1, PlanReleases, ReleasePreserves
<1>4. CASE JvmSteps
  <2>1. \/ UNCHANGED att
        \/ \E p \in Postings : Request(p) \/ Blocked(p)
        \/ \E p \in Postings, a \in Answers : SaveResponse(p, a)
    BY <1>4 DEF JvmSteps, StartExecution, EndExecution, BeginGraph, WriteEdges, FinishGraph, FailGraph, JvmRefused,
                OrphanExits, NotSent
  <2> QED BY <1>1, <2>1, RequestWithinCap, BlockedReleases, SaveReleases, ReleasePreserves
<1>5. CASE Faults
  <2>1. UNCHANGED att
    BY <1>5 DEF Faults, HostInterrupted, HostKilled, JvmKilled, FailGraph, SaveFails
  <2> QED BY <1>1, <2>1, ReleasePreserves
<1>6. CASE UNCHANGED vars
  BY <1>1, <1>6, ReleasePreserves DEF vars
<1> QED BY <1>2, <1>3, <1>4, <1>5, <1>6 DEF Next

\* admit_request, accounted_attempt: the budget that the task shares with its
\* continuation is never overspent, whatever is killed, lost, filtered or
\* routed elsewhere: all that the provider charged, each call up to its own
\* reserve, is within the cap.
THEOREM BudgetIsKept == Spec => []SpendWithinCap
<1>1. Init => ExposureWithinCap
  <2> SUFFICES ASSUME Init PROVE ExposureWithinCap
    OBVIOUS
  <2>1. \A t \in Tasks, p \in Postings : Hold(att[t][p]) = 0
    BY DEF Init, Hold, Paid, NoAtt
  <2>2. ExposedUnits = {}
    <3> SUFFICES ASSUME NEW u \in ExposedUnits PROVE FALSE
      OBVIOUS
    <3>1. u \in Rows \X (1..Reserve) /\ u[2] <= Hold(att[u[1][1]][u[1][2]])
      BY DEF ExposedUnits, Row
    <3> QED BY <2>1, <3>1, Constants DEF Rows
  <2>3. Cardinality({}) = 0
    BY FS_EmptySet
  <2> QED BY <2>2, <2>3, UnitsFinite DEF ExposureWithinCap
<1>2. IInv /\ ExposureWithinCap => SpendWithinCap
  <2> SUFFICES ASSUME IInv, ExposureWithinCap PROVE Cardinality(SpentUnits) <= Cap
    BY DEF SpendWithinCap
  <2>1. SpentUnits \subseteq ExposedUnits
    <3> SUFFICES ASSUME NEW u \in SpentUnits PROVE u \in ExposedUnits
      OBVIOUS
    <3>1. u \in Rows \X (1..Reserve) /\ u[2] <= bill[u[1][1]][u[1][2]].usd
      BY DEF SpentUnits, Rows
    <3>2. PICK t \in Tasks, p \in Postings, k \in 1..Reserve : u = <<<<t, p>>, k>>
      BY <3>1 DEF Rows
    <3>3. bill[t][p].usd \in Nat /\ bill[t][p].usd <= Hold(att[t][p])
      BY DEF IInv, LedgerType, Charge, Accounts, Account
    <3>4. k <= bill[t][p].usd /\ k \in Nat
      BY <3>1, <3>2
    <3>5. k <= Hold(att[t][p])
      BY <3>3, <3>4, Holds
    <3> QED BY <3>1, <3>2, <3>5 DEF ExposedUnits, Row
  <2>2. IsFiniteSet(ExposedUnits)
    BY UnitsFinite, FS_Subset DEF ExposedUnits
  <2>3. IsFiniteSet(SpentUnits) /\ Cardinality(SpentUnits) <= Cardinality(ExposedUnits)
    BY <2>1, <2>2, FS_Subset
  <2>4. Cardinality(SpentUnits) \in Nat /\ Cardinality(ExposedUnits) \in Nat
    BY <2>2, <2>3, FS_CardinalityType
  <2> QED BY <2>3, <2>4, UnitsFinite DEF ExposureWithinCap
<1> QED BY <1>1, <1>2, ExposurePreserved, Invariance, PTL DEF Spec

===============================================================================
