--------------------------- MODULE AssemblyProofs ---------------------------
(***************************************************************************)
(* Proofs for Processing and Assembly: for all runs, documents and their   *)
(* revisions, all invocations, code versions and faults, what is certified *)
(* or assembled is whole, and a replay never reports another content set.  *)
(*                                                                         *)
(* The argument.  A stored document has all of its revisions and a         *)
(* membership row only ever names the document its input parses to         *)
(* (StoreInv), so once every input of a run is bound (Bound) the run's     *)
(* members, revisions and occurrences are constants of the run, whoever    *)
(* bound them.  An invocation has bound what it went past and computes its *)
(* summary when all is bound (WorkerInv).  Items appear only for bound     *)
(* runs, belong to the run's occurrences and are never overwritten, so an  *)
(* invocation that has gone through all of them with its own code has seen *)
(* all there will ever be (RunInv).  No part rests on the advisory locks.  *)
(***************************************************************************)
EXTENDS Assembly, TLAPS

WorkerType ==
    [pc : Positions, run : Runs \cup {None}, at : Nat, summary : (SUBSET AllRevs) \cup {None},
     loading : BOOLEAN, result : {"raised", "READY", "REVIEW_REQUIRED", "FAILED", None},
     logic : Logics \cup {None}, done : SUBSET (Docs \X AllRevs)]

RowType == [state : States, summary : (SUBSET AllRevs) \cup {None}]

\* Every variable has its type, the locals of the invocations included.
TypeInv ==
    /\ raw \subseteq Docs
    /\ document \in [DOMAIN document -> SUBSET AllRevs] /\ DOMAIN document \subseteq Docs
    /\ revision \subseteq AllRevs
    /\ prow \in [Runs -> RowType]
    /\ plock \in [Runs -> Workers \cup {None}]
    /\ w \in [Workers -> WorkerType]
    /\ faults \in Nat
    /\ arow \in [Runs -> {"NONE", "RUNNING", "READY", "FAILED"}]
    /\ alock \in [Runs -> Workers \cup {None}]
    /\ DOMAIN item = Runs
    /\ member \in [Runs -> SUBSET AllRevs]
    /\ deployed \in Logics

\* Every input before the n-th, and every input, is bound to its document.
BoundTo(r, n) == \A i \in DOMAIN InputDocs[r] : i < n => <<r, i, InputDocs[r][i]>> \in input
Bound(r) == \A i \in DOMAIN InputDocs[r] : <<r, i, InputDocs[r][i]>> \in input

Occurrences(r) ==
    {o \in Docs \X AllRevs : \E i \in DOMAIN InputDocs[r] :
                                o[1] = InputDocs[r][i] /\ o[2] \in Revs[InputDocs[r][i]]}

\* Checkpoints are whole, and memberships are what the inputs parse to.
StoreInv ==
    /\ \A d \in DOMAIN document : document[d] = Revs[d] /\ Revs[d] \subseteq revision
    /\ \A m \in input : \E r \in Runs : \E i \in DOMAIN InputDocs[r] :
          m = <<r, i, InputDocs[r][i]>> /\ InputDocs[r][i] \in DOMAIN document

RowInv(r) ==
    /\ prow[r].state \in {"READY", "REVIEW_REQUIRED"} => Bound(r) /\ prow[r].summary = RevisionsOf(r)
    /\ prow[r].summary # None => prow[r].summary = RevisionsOf(r)

ItemInv(r) ==
    /\ DOMAIN item[r] \subseteq Occurrences(r)
    /\ DOMAIN item[r] # {} \/ arow[r] = "READY" => Bound(r) /\ prow[r].summary = RevisionsOf(r)
    /\ arow[r] = "READY" => /\ DOMAIN item[r] = Occurrences(r)
                            /\ member[r] = RevisionsOf(r)
                            /\ \E l \in Logics : \A o \in DOMAIN item[r] : item[r][o] = <<o, l>>

RunInv == \A r \in Runs : RowInv(r) /\ ItemInv(r)

\* What an invocation of process_run knows at each of its positions.
ProcessInv(p) ==
    /\ w[p].pc # "idle" => w[p].run \in Runs /\ w[p].at \in Nat \ {0}
    /\ w[p].pc \in {"open", "check", "call"} => w[p].at = 1
    /\ w[p].pc \in {"item", "save", "attach"} => BoundTo(w[p].run, w[p].at)
    /\ w[p].pc \in {"save", "attach"} => AtItem(p)
    /\ w[p].pc = "attach" => Doc(p) \in DOMAIN document
    /\ w[p].pc = "finish" => /\ Bound(w[p].run) /\ w[p].summary = RevisionsOf(w[p].run)
                             /\ Verdict[w[p].run] # "FAILED"

\* What an invocation of assemble_run knows: the run it verified is bound,
\* and what it has been through carries the bundles of its own code.
Certain(p) == w[p].pc \in {"start", "assemble"} \/ (w[p].pc = "verified" /\ w[p].result = "READY")
AssembleInv(p) ==
    /\ w[p].pc \in {"check", "call", "verified", "start", "assemble"} => w[p].loading
    /\ w[p].pc # "idle" /\ w[p].loading => w[p].logic \in Logics
    /\ Certain(p) => /\ Bound(w[p].run) /\ w[p].summary = RevisionsOf(w[p].run)
                     /\ prow[w[p].run].summary = RevisionsOf(w[p].run)
    /\ w[p].pc \notin {"assemble", "failed"} => w[p].done = {}
    /\ w[p].pc = "assemble" =>
          \A o \in w[p].done : o \in DOMAIN item[w[p].run] /\ item[w[p].run][o] = <<o, w[p].logic>>

WorkerInv == \A p \in Workers : ProcessInv(p) /\ AssembleInv(p)

\* The inductive invariant.
IInv == TypeInv /\ StoreInv /\ RunInv /\ WorkerInv

-----------------------------------------------------------------------------
(* What the operators of the model return for a bound run.                  *)

\* Members of a run are documents of its inputs, and stored.
LEMMA MembersAreInputs ==
  ASSUME StoreInv, NEW r \in Runs
  PROVE  \A d \in Members(r) : d \in DOMAIN document /\ \E i \in DOMAIN InputDocs[r] : d = InputDocs[r][i]
BY DEF StoreInv, Members

\* All inputs of a bound run are among its members.
LEMMA InputsAreMembers ==
  ASSUME NEW r \in Runs, Bound(r)
  PROVE  \A i \in DOMAIN InputDocs[r] : InputDocs[r][i] \in Members(r)
<1> TAKE i \in DOMAIN InputDocs[r]
<1>1. <<r, i, InputDocs[r][i]>> \in {n \in input : n[1] = r}
  BY DEF Bound
<1> QED BY <1>1 DEF Members

\* StagingLoader.records of a bound run does not depend on who bound it.
LEMMA RecordsOfBound ==
  ASSUME StoreInv, NEW r \in Runs, Bound(r)
  PROVE  records(r) = RevisionsOf(r)
<1>1. \A d \in Members(r) : document[d] = Revs[d]
  BY MembersAreInputs DEF StoreInv
<1>2. ASSUME NEW v \in records(r) PROVE v \in RevisionsOf(r)
  <2>1. PICK d \in Members(r) : v \in document[d]
    BY DEF records
  <2>2. PICK i \in DOMAIN InputDocs[r] : d = InputDocs[r][i]
    BY MembersAreInputs
  <2> QED BY <1>1, <2>1, <2>2 DEF RevisionsOf
<1>3. ASSUME NEW v \in RevisionsOf(r) PROVE v \in records(r)
  <2>1. PICK i \in DOMAIN InputDocs[r] : v \in Revs[InputDocs[r][i]]
    BY DEF RevisionsOf
  <2> QED BY <1>1, <2>1, InputsAreMembers DEF records
<1> QED BY <1>2, <1>3

\* So does its set of staged occurrences.
LEMMA OccurrencesOfBound ==
  ASSUME TypeInv, StoreInv, NEW r \in Runs, Bound(r)
  PROVE  staged_occurrences(r) = Occurrences(r)
<1>1. \A d \in Members(r) : document[d] = Revs[d] /\ d \in Docs /\ document[d] \subseteq AllRevs
  BY MembersAreInputs DEF StoreInv, TypeInv
<1>2. ASSUME NEW o \in staged_occurrences(r) PROVE o \in Occurrences(r)
  <2>1. PICK d \in Members(r) : o \in {d} \X document[d]
    BY DEF staged_occurrences
  <2>2. PICK i \in DOMAIN InputDocs[r] : d = InputDocs[r][i]
    BY MembersAreInputs
  <2> QED BY <1>1, <2>1, <2>2 DEF Occurrences
<1>3. ASSUME NEW o \in Occurrences(r) PROVE o \in staged_occurrences(r)
  <2>1. PICK i \in DOMAIN InputDocs[r] : o[1] = InputDocs[r][i] /\ o[2] \in Revs[InputDocs[r][i]]
    BY DEF Occurrences
  <2>2. o = <<o[1], o[2]>> /\ o[2] \in AllRevs
    BY DEF Occurrences
  <2>3. o[1] \in Members(r)
    BY <2>1, InputsAreMembers
  <2>4. o \in {o[1]} \X document[o[1]]
    BY <1>1, <2>1, <2>2, <2>3
  <2>5. o \in {<<d, v>> : d \in Members(r), v \in AllRevs}
    BY <2>2, <2>3
  <2> QED BY <2>3, <2>4, <2>5 DEF staged_occurrences
<1> QED BY <1>2, <1>3

\* The revisions of a bound run are stored.
LEMMA RevisionsOfBound ==
  ASSUME StoreInv, NEW r \in Runs, Bound(r)
  PROVE  RevisionsOf(r) \subseteq revision /\ Members(r) \subseteq DOMAIN document
<1>1. \A i \in DOMAIN InputDocs[r] : InputDocs[r][i] \in DOMAIN document
  BY InputsAreMembers, MembersAreInputs
<1> QED BY <1>1, MembersAreInputs DEF RevisionsOf, StoreInv
-----------------------------------------------------------------------------
(* What a step leaves alone.                                                *)

\* The staging tables, summaries and items only grow.
Grows ==
    /\ input \subseteq input' /\ DOMAIN document \subseteq DOMAIN document'
    /\ \A r \in Runs : prow[r].summary = RevisionsOf(r) => prow'[r].summary = RevisionsOf(r)
    /\ \A r \in Runs : \A o \in DOMAIN item[r] : o \in DOMAIN item'[r] /\ item'[r][o] = item[r][o]

\* What another invocation knows stays true when the tables only grow.
LEMMA OthersKeep ==
  ASSUME IInv, Grows, NEW q \in Workers, w'[q] = w[q]
  PROVE  ProcessInv(q)' /\ AssembleInv(q)'
<1>1. ProcessInv(q)'
  BY DEF IInv, WorkerInv, ProcessInv, Grows, Bound, BoundTo, AtItem, Doc
<1>2. AssembleInv(q)'
  BY DEF IInv, WorkerInv, ProcessInv, AssembleInv, Certain, Grows, Bound
<1> QED BY <1>1, <1>2

\* A step of one invocation has to restore only its own part of WorkerInv.
LEMMA OneWorker ==
  ASSUME IInv, Grows, NEW p \in Workers, \A q \in Workers : q # p => w'[q] = w[q],
         ProcessInv(p)', AssembleInv(p)'
  PROVE  WorkerInv'
BY OthersKeep DEF WorkerInv

\* A processing row keeps its summary and is not certified by the step, or
\* all inputs are bound and the summary is the run's.
RowsHonest ==
    \A r \in Runs : \/ prow'[r] = prow[r]
                    \/ /\ prow'[r].summary = prow[r].summary
                       /\ prow'[r].state \notin {"READY", "REVIEW_REQUIRED"}
                    \/ Bound(r) /\ prow'[r].summary = RevisionsOf(r)

\* A step of process_run, of its caller or of a fault that writes no item and
\* no assembly row has to restore only its own part of the invariant.
LEMMA ProcessStep ==
  ASSUME IInv, NEW p \in Workers, TypeInv', StoreInv',
         input \subseteq input', DOMAIN document \subseteq DOMAIN document',
         RowsHonest, UNCHANGED <<arow, item, member>>,
         \A q \in Workers : q # p => w'[q] = w[q],
         ProcessInv(p)', AssembleInv(p)'
  PROVE  IInv'
<1>1. Grows
  BY DEF Grows, RowsHonest, IInv, RunInv, RowInv
<1>2. \A r \in Runs : RowInv(r)'
  BY DEF RowsHonest, IInv, RunInv, RowInv, Bound
<1>3. \A r \in Runs : ItemInv(r)'
  BY <1>1 DEF Grows, IInv, RunInv, ItemInv, Bound
<1>4. WorkerInv'
  BY <1>1, OneWorker
<1> QED BY <1>2, <1>3, <1>4 DEF IInv, RunInv

\* Goto changes the position of one invocation and nothing else.
LEMMA GotoMoves ==
  ASSUME TypeInv, NEW p \in Workers, NEW pc \in Positions, Goto(p, pc)
  PROVE  /\ w' \in [Workers -> WorkerType]
         /\ \A q \in Workers : q # p => w'[q] = w[q]
         /\ w'[p].pc = pc /\ w'[p].run = w[p].run /\ w'[p].at = w[p].at /\ w'[p].summary = w[p].summary
         /\ w'[p].loading = w[p].loading /\ w'[p].result = w[p].result /\ w'[p].logic = w[p].logic
         /\ w'[p].done = w[p].done
<1>1. w \in [Workers -> WorkerType] /\ w' = [w EXCEPT ![p] = [w[p] EXCEPT !.pc = pc]]
  BY DEF TypeInv, Goto
<1>2. w[p] \in WorkerType
  BY <1>1
<1>3. [w[p] EXCEPT !.pc = pc] \in WorkerType
  BY <1>2 DEF WorkerType
<1> QED BY <1>1, <1>2, <1>3 DEF WorkerType

\* A row that leaves its certified states keeps its summary.
LEMMA StateOnly ==
  ASSUME TypeInv, NEW r \in Runs, NEW st \in {"RUNNING", "FAILED"}, prow' = [prow EXCEPT ![r].state = st]
  PROVE  prow' \in [Runs -> RowType] /\ RowsHonest
<1>1. prow' \in [Runs -> RowType]
  BY DEF TypeInv, RowType, States
<1>2. RowsHonest
  BY DEF TypeInv, RowType, RowsHonest
<1> QED BY <1>1, <1>2

\* The transaction of StagingLoader.save leaves the checkpoints whole.
LEMMA InsertKeeps ==
  ASSUME TypeInv, StoreInv, NEW d \in Docs, d \notin DOMAIN document, InsertDocument(d)
  PROVE  /\ document' \in [DOMAIN document' -> SUBSET AllRevs] /\ DOMAIN document' \subseteq Docs
         /\ revision' \subseteq AllRevs /\ StoreInv'
         /\ DOMAIN document \subseteq DOMAIN document' /\ d \in DOMAIN document'
<1>1. /\ DOMAIN document' = DOMAIN document \cup {d}
      /\ \A e \in DOMAIN document' : document'[e] = IF e = d THEN Revs[d] ELSE document[e]
      /\ revision' = revision \cup Revs[d] /\ input' = input
  BY DEF InsertDocument
<1>2. Revs[d] \subseteq AllRevs
  BY DEF AllRevs
<1>3. document' \in [DOMAIN document' -> SUBSET AllRevs]
  BY <1>2 DEF InsertDocument, TypeInv
<1>4. StoreInv'
  BY <1>1 DEF StoreInv
<1> QED BY <1>1, <1>2, <1>3, <1>4 DEF TypeInv

\* attach binds an input to the document it parses to.
LEMMA AttachKeeps ==
  ASSUME StoreInv, NEW r \in Runs, NEW i \in DOMAIN InputDocs[r], InputDocs[r][i] \in DOMAIN document,
         input' = input \cup {<<r, i, InputDocs[r][i]>>}, UNCHANGED <<document, revision>>
  PROVE  StoreInv'
BY DEF StoreInv

\* Return ends the invocation or hands its caller a result.
LEMMA ReturnEnds ==
  ASSUME TypeInv, NEW p \in Workers, NEW result \in {"raised", "READY", "REVIEW_REQUIRED"},
         Return(p, result), w[p].run \in Runs
  PROVE  /\ w' \in [Workers -> WorkerType] /\ plock' \in [Runs -> Workers \cup {None}]
         /\ \A q \in Workers : q # p => w'[q] = w[q]
         /\ \/ w'[p].pc = "idle" /\ w'[p].done = {} /\ w'[p].loading = FALSE
            \/ /\ w'[p].pc = "verified" /\ w'[p].run = w[p].run /\ w'[p].at = w[p].at
               /\ w'[p].summary = w[p].summary /\ w[p].loading /\ w'[p].loading
               /\ w'[p].logic = w[p].logic /\ w'[p].done = w[p].done /\ w'[p].result \in {result, "raised"}
<1> DEFINE r == w[p].run
           given == IF plock[r] = p THEN result ELSE "raised"
           u == [w[p] EXCEPT !.pc = "verified", !.result = given]
<1>1. w \in [Workers -> WorkerType] /\ w[p] \in WorkerType
  BY DEF TypeInv
<1>2. Idle \in WorkerType /\ Idle.pc = "idle" /\ Idle.done = {} /\ Idle.loading = FALSE
  BY DEF Idle, WorkerType, Positions
<1>3. /\ u \in WorkerType
      /\ u.pc = "verified" /\ u.run = w[p].run /\ u.at = w[p].at /\ u.summary = w[p].summary
      /\ u.loading = w[p].loading /\ u.logic = w[p].logic /\ u.done = w[p].done
      /\ u.result \in {result, "raised"}
  BY <1>1 DEF WorkerType, Positions
<1>4. w' = [w EXCEPT ![p] = IF ~w[p].loading THEN Idle ELSE u]
  BY DEF Return
<1>5. plock' \in [Runs -> Workers \cup {None}]
  BY DEF Return, TypeInv
<1>6. w[p].loading \in BOOLEAN
  BY <1>1 DEF WorkerType
<1> HIDE DEF u
<1> QED BY <1>1, <1>2, <1>3, <1>4, <1>5, <1>6

\* What an invocation knows after process_run has returned to it.
LEMMA ReturnKnows ==
  ASSUME IInv, NEW p \in Workers, NEW result \in {"raised", "READY", "REVIEW_REQUIRED"},
         Return(p, result), w[p].pc \in {"open", "finish", "except"}, input' = input,
         result = "READY" => /\ Bound(w[p].run) /\ w[p].summary = RevisionsOf(w[p].run)
                             /\ prow'[w[p].run].summary = RevisionsOf(w[p].run)
  PROVE  ProcessInv(p)' /\ AssembleInv(p)'
<1>1. w[p].run \in Runs /\ w[p].at \in Nat \ {0} /\ w[p].done = {} /\ (w[p].loading => w[p].logic \in Logics)
  BY DEF IInv, WorkerInv, ProcessInv, AssembleInv
<1>2. \/ w'[p].pc = "idle" /\ w'[p].done = {} /\ w'[p].loading = FALSE
      \/ /\ w'[p].pc = "verified" /\ w'[p].run = w[p].run /\ w'[p].at = w[p].at
         /\ w'[p].summary = w[p].summary /\ w[p].loading /\ w'[p].loading
         /\ w'[p].logic = w[p].logic /\ w'[p].done = w[p].done /\ w'[p].result \in {result, "raised"}
  BY <1>1, ReturnEnds DEF IInv
<1>3. CASE w'[p].pc = "idle"
  BY <1>2, <1>3 DEF ProcessInv, AssembleInv, Certain
<1>4. CASE w'[p].pc = "verified"
  BY <1>1, <1>2, <1>4 DEF ProcessInv, AssembleInv, Certain, Bound
<1> QED BY <1>2, <1>3, <1>4

-----------------------------------------------------------------------------
(* process_run.                                                             *)

LEMMA AcquirePreserves ==
  ASSUME IInv, NEW p \in Workers, NEW r \in Runs, Acquire(p, r), UNCHANGED avars
  PROVE  IInv'
<1> USE DEF Acquire, avars, staging
<1>1. TypeInv'
  BY DEF IInv, TypeInv, Idle, WorkerType, Positions
<1>2. StoreInv' /\ RowsHonest
  BY DEF IInv, StoreInv, RowsHonest
<1>3. /\ \A q \in Workers : q # p => w'[q] = w[q]
      /\ w'[p].pc = "open" /\ w'[p].run = r /\ w'[p].at = 1 /\ w'[p].done = {}
      /\ w'[p].loading = FALSE
  BY DEF IInv, TypeInv, Idle
<1>4. ProcessInv(p)' /\ AssembleInv(p)'
  BY <1>3 DEF ProcessInv, AssembleInv, Certain
<1> QED BY <1>1, <1>2, <1>3, <1>4, ProcessStep

LEMMA OpenPreserves ==
  ASSUME IInv, NEW p \in Workers, Open(p), UNCHANGED avars
  PROVE  IInv'
<1> USE DEF Open, avars, staging
<1>1. w[p].run \in Runs /\ w[p].at = 1 /\ Goto(p, "item") /\ "item" \in Positions
  BY DEF IInv, TypeInv, WorkerInv, ProcessInv, Goto, Positions
<1>2. /\ w' \in [Workers -> WorkerType]
      /\ \A q \in Workers : q # p => w'[q] = w[q]
      /\ w'[p].pc = "item" /\ w'[p].run = w[p].run /\ w'[p].at = w[p].at
      /\ w'[p].loading = w[p].loading /\ w'[p].logic = w[p].logic /\ w'[p].done = w[p].done
  BY <1>1, GotoMoves DEF IInv
<1>3. prow' \in [Runs -> RowType] /\ RowsHonest
  BY <1>1, StateOnly DEF IInv
<1>4. TypeInv'
  BY <1>2, <1>3 DEF IInv, TypeInv
<1>5. StoreInv'
  BY DEF IInv, StoreInv
<1>6. ProcessInv(p)'
  BY <1>1, <1>2, ProcessingAssumption DEF ProcessInv, BoundTo
<1>7. AssembleInv(p)'
  BY <1>1, <1>2 DEF IInv, WorkerInv, AssembleInv, Certain
<1> QED BY <1>2, <1>3, <1>4, <1>5, <1>6, <1>7, ProcessStep

LEMMA OpenRaisesPreserves ==
  ASSUME IInv, NEW p \in Workers, NEW committed \in BOOLEAN, OpenRaises(p, committed), UNCHANGED avars
  PROVE  IInv'
<1> USE DEF OpenRaises, avars, staging, Fault
<1>1. w[p].run \in Runs /\ Return(p, "raised")
  BY DEF IInv, WorkerInv, ProcessInv
<1>2. prow' = prow \/ prow' = [prow EXCEPT ![w[p].run].state = "RUNNING"]
  OBVIOUS
<1>3. prow' \in [Runs -> RowType] /\ RowsHonest
  <2>1. CASE prow' = prow
    BY <2>1 DEF IInv, TypeInv, RowsHonest
  <2> QED BY <1>1, <1>2, <2>1, StateOnly DEF IInv
<1>4. /\ w' \in [Workers -> WorkerType] /\ plock' \in [Runs -> Workers \cup {None}]
      /\ \A q \in Workers : q # p => w'[q] = w[q]
  BY <1>1, ReturnEnds DEF IInv
<1>5. TypeInv'
  BY <1>3, <1>4 DEF IInv, TypeInv
<1>6. StoreInv'
  BY DEF IInv, StoreInv
<1>7. ProcessInv(p)' /\ AssembleInv(p)'
  BY <1>1, ReturnKnows
<1> QED BY <1>3, <1>4, <1>5, <1>6, <1>7, ProcessStep

LEMMA ReadItemPreserves ==
  ASSUME IInv, NEW p \in Workers, ReadItem(p), UNCHANGED avars
  PROVE  IInv'
<1> USE DEF ReadItem, avars, staging
<1>1. PICK pc \in {"except", "attach", "save"} : Goto(p, pc) /\ (pc = "attach" => Doc(p) \in DOMAIN document)
  BY DEF Goto
<1>2. /\ w' \in [Workers -> WorkerType]
      /\ \A q \in Workers : q # p => w'[q] = w[q]
      /\ w'[p].pc = pc /\ w'[p].run = w[p].run /\ w'[p].at = w[p].at
      /\ w'[p].loading = w[p].loading /\ w'[p].logic = w[p].logic /\ w'[p].done = w[p].done
  BY <1>1, GotoMoves DEF IInv, Positions
<1>3. TypeInv'
  BY <1>2 DEF IInv, TypeInv
<1>4. StoreInv' /\ RowsHonest
  BY DEF IInv, StoreInv, RowsHonest
<1>5. ProcessInv(p)'
  BY <1>1, <1>2 DEF IInv, WorkerInv, ProcessInv, BoundTo, AtItem, Doc
<1>6. AssembleInv(p)'
  BY <1>1, <1>2 DEF IInv, WorkerInv, AssembleInv, Certain
<1> QED BY <1>2, <1>3, <1>4, <1>5, <1>6, ProcessStep

\* The document an invocation is at.
LEMMA DocIsInput ==
  ASSUME IInv, NEW p \in Workers, w[p].pc \in {"save", "attach"}
  PROVE  /\ w[p].run \in Runs /\ w[p].at \in DOMAIN InputDocs[w[p].run]
         /\ Doc(p) = InputDocs[w[p].run][w[p].at] /\ Doc(p) \in Docs
<1>1. w[p].run \in Runs /\ w[p].at \in Nat \ {0} /\ w[p].at =< Len(InputDocs[w[p].run])
  BY DEF IInv, WorkerInv, ProcessInv, AtItem
<1>2. InputDocs[w[p].run] \in Seq(Docs)
  BY <1>1, ProcessingAssumption
<1> QED BY <1>1, <1>2 DEF Doc

LEMMA SavePreserves ==
  ASSUME IInv, NEW p \in Workers, Save(p), UNCHANGED avars
  PROVE  IInv'
<1> USE DEF Save, avars
<1>1. PICK pc \in {"except", "attach"} : Goto(p, pc)
  BY DEF Goto
<1>2. /\ w' \in [Workers -> WorkerType]
      /\ \A q \in Workers : q # p => w'[q] = w[q]
      /\ w'[p].pc = pc /\ w'[p].run = w[p].run /\ w'[p].at = w[p].at
      /\ w'[p].loading = w[p].loading /\ w'[p].logic = w[p].logic /\ w'[p].done = w[p].done
  BY <1>1, GotoMoves DEF IInv, Positions
<1>3. /\ document' \in [DOMAIN document' -> SUBSET AllRevs] /\ DOMAIN document' \subseteq Docs
      /\ revision' \subseteq AllRevs /\ StoreInv' /\ input' = input
      /\ DOMAIN document \subseteq DOMAIN document' /\ (pc = "attach" => Doc(p) \in DOMAIN document')
  <2>1. CASE Doc(p) \in DOMAIN document
    BY <2>1 DEF staging, IInv, TypeInv, StoreInv
  <2>2. CASE Doc(p) \notin DOMAIN document
    BY <2>2, InsertKeeps, DocIsInput DEF IInv, InsertDocument
  <2> QED BY <2>1, <2>2
<1>4. TypeInv'
  BY <1>2, <1>3 DEF IInv, TypeInv
<1>5. RowsHonest
  BY DEF RowsHonest
<1>6. ProcessInv(p)'
  BY <1>1, <1>2, <1>3 DEF IInv, WorkerInv, ProcessInv, BoundTo, AtItem, Doc
<1>7. AssembleInv(p)'
  BY <1>1, <1>2 DEF IInv, WorkerInv, AssembleInv, Certain
<1> QED BY <1>2, <1>3, <1>4, <1>5, <1>6, <1>7, ProcessStep

LEMMA AttachPreserves ==
  ASSUME IInv, NEW p \in Workers, Attach(p), UNCHANGED avars
  PROVE  IInv'
<1> DEFINE r == w[p].run
           n == w[p].at
<1>1. /\ w[p] \in WorkerType /\ r \in Runs /\ n \in DOMAIN InputDocs[r]
      /\ n \in Nat /\ Doc(p) = InputDocs[r][n] /\ Doc(p) \in DOMAIN document
  BY DocIsInput DEF IInv, TypeInv, WorkerInv, ProcessInv, Attach
<1>0. PICK m \in Nat : m = n + 1
  BY <1>1
<1> DEFINE u == [w[p] EXCEPT !.pc = "item", !.at = m]
<1>2. /\ input' = input \cup {<<r, n, Doc(p)>>} /\ w' = [w EXCEPT ![p] = u]
      /\ UNCHANGED <<raw, document, revision, prow, plock, faults, avars>>
  BY <1>0 DEF Attach
<1>3. u \in WorkerType
  BY <1>1 DEF WorkerType, Positions
<1>4. /\ u.pc = "item" /\ u.run = r /\ u.at = m
      /\ u.loading = w[p].loading /\ u.logic = w[p].logic /\ u.done = w[p].done
  BY <1>1 DEF WorkerType
<1> HIDE DEF u
<1>5. w' \in [Workers -> WorkerType] /\ w'[p] = u /\ \A q \in Workers : q # p => w'[q] = w[q]
  BY <1>2, <1>3 DEF IInv, TypeInv
<1>6. StoreInv' /\ RowsHonest
  BY <1>1, <1>2, AttachKeeps DEF IInv, RowsHonest
<1>7. TypeInv'
  BY <1>2, <1>5 DEF IInv, TypeInv, avars
<1>8. ProcessInv(p)'
  <2>1. BoundTo(r, n)
    BY DEF IInv, WorkerInv, ProcessInv, Attach
  <2>2. \A i \in DOMAIN InputDocs[r] : i < m => <<r, i, InputDocs[r][i]>> \in input'
    BY <1>0, <1>1, <1>2, <2>1, ProcessingAssumption DEF BoundTo
  <2>3. m # 0
    BY <1>0, <1>1
  <2>4. w'[p].pc = "item" /\ w'[p].run = r /\ w'[p].at = m
    BY <1>4, <1>5
  <2> HIDE DEF r, n
  <2> QED BY <1>1, <2>2, <2>3, <2>4 DEF ProcessInv, BoundTo
<1>9. AssembleInv(p)'
  BY <1>4, <1>5 DEF IInv, WorkerInv, AssembleInv, Certain, Attach
<1> QED BY <1>2, <1>5, <1>6, <1>7, <1>8, <1>9, ProcessStep DEF avars

LEMMA JudgePreserves ==
  ASSUME IInv, NEW p \in Workers, Judge(p), UNCHANGED avars
  PROVE  IInv'
<1> USE DEF Judge, avars, staging
<1>1. w[p] \in WorkerType /\ w[p].run \in Runs /\ w[p].at \in Nat \ {0}
  BY DEF IInv, TypeInv, WorkerInv, ProcessInv
<1>2. StoreInv' /\ RowsHonest
  BY DEF IInv, StoreInv, RowsHonest
<1>3. CASE Verdict[w[p].run] = "FAILED"
  <2>1. Goto(p, "except") /\ "except" \in Positions
    BY <1>3 DEF Positions
  <2>2. /\ w' \in [Workers -> WorkerType]
        /\ \A q \in Workers : q # p => w'[q] = w[q]
        /\ w'[p].pc = "except" /\ w'[p].run = w[p].run /\ w'[p].at = w[p].at
        /\ w'[p].loading = w[p].loading /\ w'[p].logic = w[p].logic /\ w'[p].done = w[p].done
    BY <2>1, GotoMoves DEF IInv
  <2>3. TypeInv'
    BY <2>2 DEF IInv, TypeInv
  <2>4. ProcessInv(p)' /\ AssembleInv(p)'
    BY <1>1, <2>2 DEF IInv, WorkerInv, ProcessInv, AssembleInv, Certain
  <2> QED BY <1>2, <2>2, <2>3, <2>4, ProcessStep
<1>4. CASE Verdict[w[p].run] # "FAILED"
  <2>1. Bound(w[p].run)
    BY <1>1, ProcessingAssumption DEF IInv, WorkerInv, ProcessInv, BoundTo, Bound, AtItem
  <2>2. records(w[p].run) = RevisionsOf(w[p].run) /\ RevisionsOf(w[p].run) \subseteq AllRevs
    BY <1>1, <2>1, RecordsOfBound, RevisionsOfBound DEF IInv, TypeInv
  <2> DEFINE u == [w[p] EXCEPT !.pc = "finish", !.summary = RevisionsOf(w[p].run)]
  <2>3. u \in WorkerType
    BY <1>1, <2>2 DEF WorkerType, Positions
  <2>4. w' = [w EXCEPT ![p] = u]
    BY <1>1, <1>4, <2>2 DEF IInv, TypeInv, WorkerType
  <2>5. u.pc = "finish" /\ u.summary = RevisionsOf(w[p].run) /\ u.run = w[p].run /\ u.at = w[p].at
        /\ u.loading = w[p].loading /\ u.logic = w[p].logic /\ u.done = w[p].done
    BY <1>1 DEF WorkerType
  <2> HIDE DEF u
  <2>6. w' \in [Workers -> WorkerType] /\ w'[p] = u /\ \A q \in Workers : q # p => w'[q] = w[q]
    BY <2>3, <2>4 DEF IInv, TypeInv
  <2>7. TypeInv'
    BY <2>6 DEF IInv, TypeInv
  <2>8. ProcessInv(p)'
    BY <1>1, <1>4, <2>1, <2>5, <2>6 DEF ProcessInv, Bound
  <2>9. AssembleInv(p)'
    BY <2>5, <2>6 DEF IInv, WorkerInv, AssembleInv, Certain
  <2> QED BY <1>2, <2>6, <2>7, <2>8, <2>9, ProcessStep
<1> QED BY <1>3, <1>4

\* The transaction of finish certifies a bound run with its own revisions.
LEMMA CertifyKeeps ==
  ASSUME IInv, NEW p \in Workers, w[p].pc = "finish",
         prow' = [prow EXCEPT ![w[p].run] = [state |-> Verdict[w[p].run], summary |-> w[p].summary]]
  PROVE  /\ w[p].run \in Runs /\ Verdict[w[p].run] \in {"READY", "REVIEW_REQUIRED"}
         /\ Bound(w[p].run) /\ w[p].summary = RevisionsOf(w[p].run)
         /\ prow' \in [Runs -> RowType] /\ RowsHonest
         /\ prow'[w[p].run].summary = RevisionsOf(w[p].run)
<1>1. /\ w[p].run \in Runs /\ Bound(w[p].run) /\ w[p].summary = RevisionsOf(w[p].run)
      /\ Verdict[w[p].run] \in {"READY", "REVIEW_REQUIRED"}
  BY ProcessingAssumption DEF IInv, WorkerInv, ProcessInv
<1>2. RevisionsOf(w[p].run) \subseteq AllRevs
  BY <1>1, RevisionsOfBound DEF IInv, TypeInv
<1>3. [state |-> Verdict[w[p].run], summary |-> w[p].summary] \in RowType
  BY <1>1, <1>2 DEF RowType, States
<1>4. prow' \in [Runs -> RowType]
  BY <1>1, <1>3 DEF IInv, TypeInv
<1>5. prow'[w[p].run].summary = RevisionsOf(w[p].run) /\ RowsHonest
  BY <1>1 DEF IInv, TypeInv, RowsHonest
<1> QED BY <1>1, <1>4, <1>5

LEMMA FinishPreserves ==
  ASSUME IInv, NEW p \in Workers, Finish(p), UNCHANGED avars
  PROVE  IInv'
<1>1. /\ w[p].pc = "finish" /\ Return(p, Verdict[w[p].run]) /\ UNCHANGED <<raw, document, revision, input, faults>>
      /\ prow' = [prow EXCEPT ![w[p].run] = [state |-> Verdict[w[p].run], summary |-> w[p].summary]]
  BY DEF Finish, staging
<1>2. /\ w[p].run \in Runs /\ Verdict[w[p].run] \in {"READY", "REVIEW_REQUIRED"}
      /\ Bound(w[p].run) /\ w[p].summary = RevisionsOf(w[p].run)
      /\ prow' \in [Runs -> RowType] /\ RowsHonest
      /\ prow'[w[p].run].summary = RevisionsOf(w[p].run)
  BY <1>1, CertifyKeeps
<1>3. /\ w' \in [Workers -> WorkerType] /\ plock' \in [Runs -> Workers \cup {None}]
      /\ \A q \in Workers : q # p => w'[q] = w[q]
  BY <1>1, <1>2, ReturnEnds DEF IInv
<1>4. TypeInv' /\ StoreInv'
  BY <1>1, <1>2, <1>3 DEF IInv, TypeInv, StoreInv, avars
<1>5. ProcessInv(p)' /\ AssembleInv(p)'
  BY <1>1, <1>2, ReturnKnows
<1> QED BY <1>1, <1>2, <1>3, <1>4, <1>5, ProcessStep DEF avars

LEMMA WriteRaisesPreserves ==
  ASSUME IInv, NEW p \in Workers, NEW committed \in BOOLEAN, WriteRaises(p, committed), UNCHANGED avars
  PROVE  IInv'
<1>1. /\ w[p].pc \in {"item", "save", "attach", "finish"} /\ Goto(p, "except") /\ UNCHANGED <<raw, plock, avars>>
      /\ faults' = faults + 1
  BY DEF WriteRaises, Fault
<1>2. /\ w' \in [Workers -> WorkerType]
      /\ \A q \in Workers : q # p => w'[q] = w[q]
      /\ w'[p].pc = "except" /\ w'[p].run = w[p].run /\ w'[p].at = w[p].at
      /\ w'[p].loading = w[p].loading /\ w'[p].logic = w[p].logic /\ w'[p].done = w[p].done
  BY <1>1, GotoMoves DEF IInv, Positions
<1>3. ProcessInv(p)' /\ AssembleInv(p)'
  BY <1>1, <1>2 DEF IInv, WorkerInv, ProcessInv, AssembleInv, Certain
<1>4. CASE UNCHANGED <<staging, prow>>
  <2>1. TypeInv' /\ StoreInv' /\ RowsHonest
    BY <1>1, <1>2, <1>4 DEF IInv, TypeInv, StoreInv, RowsHonest, staging, avars
  <2> QED BY <1>1, <1>2, <1>3, <1>4, <2>1, ProcessStep DEF staging, avars
<1>5. CASE w[p].pc = "save" /\ Doc(p) \notin DOMAIN document /\ InsertDocument(Doc(p)) /\ UNCHANGED prow
  <2>1. /\ document' \in [DOMAIN document' -> SUBSET AllRevs] /\ DOMAIN document' \subseteq Docs
        /\ revision' \subseteq AllRevs /\ StoreInv' /\ input' = input /\ DOMAIN document \subseteq DOMAIN document'
    BY <1>5, InsertKeeps, DocIsInput DEF IInv, InsertDocument
  <2>2. TypeInv' /\ RowsHonest
    BY <1>1, <1>2, <1>5, <2>1 DEF IInv, TypeInv, RowsHonest, avars
  <2> QED BY <1>1, <1>2, <1>3, <2>1, <2>2, ProcessStep DEF avars
<1>6. CASE /\ w[p].pc = "attach" /\ input' = input \cup {<<w[p].run, w[p].at, Doc(p)>>}
           /\ UNCHANGED <<document, revision, prow>>
  <2>1. StoreInv' /\ RowsHonest
    BY <1>6, AttachKeeps, DocIsInput DEF IInv, WorkerInv, ProcessInv, RowsHonest
  <2>2. TypeInv'
    BY <1>1, <1>2, <1>6 DEF IInv, TypeInv, avars
  <2> QED BY <1>1, <1>2, <1>3, <1>6, <2>1, <2>2, ProcessStep DEF avars
<1>7. CASE /\ w[p].pc = "finish" /\ UNCHANGED staging
           /\ prow' = [prow EXCEPT ![w[p].run] = [state |-> Verdict[w[p].run], summary |-> w[p].summary]]
  <2>1. prow' \in [Runs -> RowType] /\ RowsHonest
    BY <1>7, CertifyKeeps
  <2>2. TypeInv' /\ StoreInv'
    BY <1>1, <1>2, <1>7, <2>1 DEF IInv, TypeInv, StoreInv, staging, avars
  <2> QED BY <1>1, <1>2, <1>3, <1>7, <2>1, <2>2, ProcessStep DEF staging, avars
<1> QED BY <1>4, <1>5, <1>6, <1>7 DEF WriteRaises

LEMMA ExceptPreserves ==
  ASSUME IInv, NEW p \in Workers, Except(p) \/ ExceptRaises(p), UNCHANGED avars
  PROVE  IInv'
<1>1. /\ w[p].pc = "except" /\ Return(p, "raised") /\ UNCHANGED <<raw, document, revision, input>>
      /\ faults' \in Nat
      /\ prow' = prow \/ prow' = [prow EXCEPT ![w[p].run].state = "FAILED"]
  BY DEF Except, ExceptRaises, Fault, staging, IInv, TypeInv
<1>2. w[p].run \in Runs
  BY <1>1 DEF IInv, WorkerInv, ProcessInv
<1>3. prow' \in [Runs -> RowType] /\ RowsHonest
  <2>1. CASE prow' = prow
    BY <2>1 DEF IInv, TypeInv, RowsHonest
  <2> QED BY <1>1, <1>2, <2>1, StateOnly DEF IInv
<1>4. /\ w' \in [Workers -> WorkerType] /\ plock' \in [Runs -> Workers \cup {None}]
      /\ \A q \in Workers : q # p => w'[q] = w[q]
  BY <1>1, <1>2, ReturnEnds DEF IInv
<1>5. TypeInv' /\ StoreInv'
  BY <1>1, <1>3, <1>4 DEF IInv, TypeInv, StoreInv, avars
<1>6. ProcessInv(p)' /\ AssembleInv(p)'
  BY <1>1, ReturnKnows
<1> QED BY <1>1, <1>3, <1>4, <1>5, <1>6, ProcessStep DEF avars

-----------------------------------------------------------------------------
(* assemble_run.                                                            *)

\* A step of assemble_run writes no staging and no processing row.
LEMMA AssembleStep ==
  ASSUME IInv, NEW p \in Workers, TypeInv', UNCHANGED <<staging, prow>>, Grows,
         \A r \in Runs : ItemInv(r)', \A q \in Workers : q # p => w'[q] = w[q],
         ProcessInv(p)', AssembleInv(p)'
  PROVE  IInv'
<1>1. StoreInv' /\ \A r \in Runs : RowInv(r)'
  BY DEF IInv, StoreInv, RunInv, RowInv, Bound, staging
<1>2. WorkerInv'
  BY OneWorker
<1> QED BY <1>1, <1>2 DEF IInv, RunInv

\* An assembly row that is written but not READY asks for nothing.
LEMMA NotReadyKeeps ==
  ASSUME IInv, UNCHANGED <<staging, prow, item, member>>,
         \A r \in Runs : arow'[r] = arow[r] \/ arow'[r] # "READY"
  PROVE  Grows /\ \A r \in Runs : ItemInv(r)'
<1>1. Grows
  BY DEF Grows, staging
<1>2. \A r \in Runs : ItemInv(r)'
  BY DEF IInv, RunInv, ItemInv, Bound, staging
<1> QED BY <1>1, <1>2

\* Release drops the lock and the invocation.
LEMMA ReleaseEnds ==
  ASSUME TypeInv, NEW p \in Workers, w[p].run \in Runs, Release(p)
  PROVE  /\ w' \in [Workers -> WorkerType] /\ alock' \in [Runs -> Workers \cup {None}]
         /\ \A q \in Workers : q # p => w'[q] = w[q]
         /\ ProcessInv(p)' /\ AssembleInv(p)'
<1>1. Idle \in WorkerType /\ Idle.pc = "idle" /\ Idle.done = {} /\ Idle.loading = FALSE
  BY DEF Idle, WorkerType, Positions
<1>2. w' = [w EXCEPT ![p] = Idle] /\ w \in [Workers -> WorkerType]
  BY DEF Release, TypeInv
<1>3. w' \in [Workers -> WorkerType] /\ w'[p] = Idle /\ \A q \in Workers : q # p => w'[q] = w[q]
  BY <1>1, <1>2
<1>4. alock' \in [Runs -> Workers \cup {None}]
  BY DEF Release, TypeInv
<1>5. ProcessInv(p)' /\ AssembleInv(p)'
  BY <1>1, <1>3 DEF ProcessInv, AssembleInv, Certain
<1> QED BY <1>3, <1>4, <1>5

LEMMA LoadPreserves ==
  ASSUME IInv, NEW p \in Workers, NEW r \in Runs, Load(p, r)
  PROVE  IInv'
<1> DEFINE u == [Idle EXCEPT !.pc = "check", !.run = r, !.loading = TRUE, !.logic = deployed]
<1>1. /\ w' = [w EXCEPT ![p] = u] /\ alock' = [alock EXCEPT ![r] = p]
      /\ UNCHANGED <<raw, staging, prow, plock, faults, arow, item, member, deployed>>
  BY DEF Load
<1>2. deployed \in Logics /\ w \in [Workers -> WorkerType]
  BY DEF IInv, TypeInv
<1>3. /\ u \in WorkerType /\ u.pc = "check" /\ u.run = r /\ u.at = 1 /\ u.done = {}
      /\ u.loading /\ u.logic \in Logics
  BY <1>2 DEF Idle, WorkerType, Positions
<1> HIDE DEF u
<1>4. w' \in [Workers -> WorkerType] /\ w'[p] = u /\ \A q \in Workers : q # p => w'[q] = w[q]
  BY <1>1, <1>2, <1>3
<1>5. TypeInv'
  BY <1>1, <1>4 DEF IInv, TypeInv, staging
<1>6. Grows /\ \A x \in Runs : ItemInv(x)'
  BY <1>1, NotReadyKeeps
<1>7. ProcessInv(p)' /\ AssembleInv(p)'
  BY <1>3, <1>4 DEF ProcessInv, AssembleInv, Certain
<1> QED BY <1>1, <1>4, <1>5, <1>6, <1>7, AssembleStep

LEMMA CheckReadyPreserves ==
  ASSUME IInv, NEW p \in Workers, CheckReady(p) \/ CallProcess(p)
  PROVE  IInv'
<1>1. PICK pc \in {"call", "open", "failed"} : Goto(p, pc)
  BY DEF CheckReady, CallProcess
<1>2. /\ w[p].pc \in {"check", "call"} /\ UNCHANGED <<raw, staging, prow, faults, avars>>
      /\ plock' = plock \/ plock' = [plock EXCEPT ![w[p].run] = p]
  BY DEF CheckReady, CallProcess
<1>3. /\ w' \in [Workers -> WorkerType]
      /\ \A q \in Workers : q # p => w'[q] = w[q]
      /\ w'[p].pc = pc /\ w'[p].run = w[p].run /\ w'[p].at = w[p].at
      /\ w'[p].loading = w[p].loading /\ w'[p].logic = w[p].logic /\ w'[p].done = w[p].done
  BY <1>1, GotoMoves DEF IInv, Positions
<1>4. TypeInv'
  BY <1>2, <1>3 DEF IInv, TypeInv, staging, avars
<1>5. Grows /\ \A r \in Runs : ItemInv(r)'
  BY <1>2, NotReadyKeeps DEF avars
<1>6. ProcessInv(p)' /\ AssembleInv(p)'
  BY <1>2, <1>3 DEF IInv, WorkerInv, ProcessInv, AssembleInv, Certain
<1> QED BY <1>2, <1>3, <1>4, <1>5, <1>6, AssembleStep

LEMMA VerifiedPreserves ==
  ASSUME IInv, NEW p \in Workers, Verified(p)
  PROVE  IInv'
<1>1. PICK pc \in {"start", "failed"} : Goto(p, pc) /\ (pc = "start" => w[p].result = "READY")
  BY DEF Verified, Goto
<1>2. w[p].pc = "verified" /\ UNCHANGED <<raw, staging, prow, plock, faults, avars>>
  BY DEF Verified
<1>3. /\ w' \in [Workers -> WorkerType]
      /\ \A q \in Workers : q # p => w'[q] = w[q]
      /\ w'[p].pc = pc /\ w'[p].run = w[p].run /\ w'[p].at = w[p].at /\ w'[p].summary = w[p].summary
      /\ w'[p].loading = w[p].loading /\ w'[p].logic = w[p].logic /\ w'[p].done = w[p].done
  BY <1>1, GotoMoves DEF IInv, Positions
<1>4. TypeInv'
  BY <1>2, <1>3 DEF IInv, TypeInv, staging, avars
<1>5. Grows /\ \A r \in Runs : ItemInv(r)'
  BY <1>2, NotReadyKeeps DEF avars
<1>6. ProcessInv(p)' /\ AssembleInv(p)'
  BY <1>1, <1>2, <1>3 DEF IInv, WorkerInv, ProcessInv, AssembleInv, Certain, Bound, staging
<1> QED BY <1>2, <1>3, <1>4, <1>5, <1>6, AssembleStep

LEMMA StartAssemblyPreserves ==
  ASSUME IInv, NEW p \in Workers, StartAssembly(p)
  PROVE  IInv'
<1>1. /\ w[p].pc = "start" /\ Goto(p, "assemble") /\ arow' = [arow EXCEPT ![w[p].run] = "RUNNING"]
      /\ UNCHANGED <<raw, staging, prow, plock, faults, alock, item, member, deployed>>
  BY DEF StartAssembly
<1>2. /\ w' \in [Workers -> WorkerType]
      /\ \A q \in Workers : q # p => w'[q] = w[q]
      /\ w'[p].pc = "assemble" /\ w'[p].run = w[p].run /\ w'[p].at = w[p].at /\ w'[p].summary = w[p].summary
      /\ w'[p].loading = w[p].loading /\ w'[p].logic = w[p].logic /\ w'[p].done = w[p].done
  BY <1>1, GotoMoves DEF IInv, Positions
<1>3. TypeInv'
  BY <1>1, <1>2 DEF IInv, TypeInv, staging
<1>4. Grows /\ \A r \in Runs : ItemInv(r)'
  <2>1. \A r \in Runs : arow'[r] = arow[r] \/ arow'[r] # "READY"
    BY <1>1 DEF IInv, TypeInv
  <2> QED BY <1>1, <2>1, NotReadyKeeps
<1>5. ProcessInv(p)' /\ AssembleInv(p)'
  BY <1>1, <1>2 DEF IInv, WorkerInv, ProcessInv, AssembleInv, Certain, Bound, staging
<1> QED BY <1>1, <1>2, <1>3, <1>4, <1>5, AssembleStep

\* The ends of an assembly that is not READY: the row, if written, says so.
LEMMA UnreadyEndPreserves ==
  ASSUME IInv, NEW p \in Workers,
         (\E b \in BOOLEAN : StartAssemblyRaises(p, b)) \/ Failed(p) \/ FailedRaises(p)
  PROVE  IInv'
<1>1. /\ w[p].pc \in {"start", "failed"} /\ Release(p) /\ faults' \in Nat
      /\ UNCHANGED <<raw, staging, prow, plock, item, member, deployed>>
      /\ \/ arow' = arow
         \/ arow' = [arow EXCEPT ![w[p].run] = "RUNNING"]
         \/ arow' = [arow EXCEPT ![w[p].run] = IF @ = "NONE" THEN @ ELSE "FAILED"]
  BY DEF StartAssemblyRaises, Failed, FailedRaises, Fault, IInv, TypeInv
<1>2. w[p].run \in Runs
  BY <1>1 DEF IInv, WorkerInv, ProcessInv
<1>3. /\ w' \in [Workers -> WorkerType] /\ alock' \in [Runs -> Workers \cup {None}]
      /\ \A q \in Workers : q # p => w'[q] = w[q]
      /\ ProcessInv(p)' /\ AssembleInv(p)'
  BY <1>1, <1>2, ReleaseEnds DEF IInv
<1>4. /\ arow' \in [Runs -> {"NONE", "RUNNING", "READY", "FAILED"}]
      /\ \A r \in Runs : arow'[r] = arow[r] \/ arow'[r] # "READY"
  BY <1>1, <1>2 DEF IInv, TypeInv
<1>5. TypeInv'
  BY <1>1, <1>3, <1>4 DEF IInv, TypeInv, staging
<1>6. Grows /\ \A r \in Runs : ItemInv(r)'
  BY <1>1, <1>4, NotReadyKeeps
<1> QED BY <1>1, <1>3, <1>5, <1>6, AssembleStep

\* What an assembling invocation knows of its run, and of what remains.
LEMMA Assembling ==
  ASSUME IInv, NEW p \in Workers, w[p].pc = "assemble"
  PROVE  /\ w[p] \in WorkerType /\ w[p].run \in Runs /\ w[p].logic \in Logics
         /\ Bound(w[p].run) /\ w[p].summary = RevisionsOf(w[p].run)
         /\ prow[w[p].run].summary = RevisionsOf(w[p].run)
         /\ Remaining(p) = Occurrences(w[p].run) \ w[p].done
         /\ \A o \in w[p].done : o \in DOMAIN item[w[p].run] /\ item[w[p].run][o] = <<o, w[p].logic>>
         /\ Remaining(p) # {} => NextItem(p) \in Occurrences(w[p].run)
<1>1. /\ w[p] \in WorkerType /\ w[p].run \in Runs /\ w[p].logic \in Logics
      /\ Bound(w[p].run) /\ w[p].summary = RevisionsOf(w[p].run)
      /\ prow[w[p].run].summary = RevisionsOf(w[p].run)
      /\ \A o \in w[p].done : o \in DOMAIN item[w[p].run] /\ item[w[p].run][o] = <<o, w[p].logic>>
  BY DEF IInv, TypeInv, WorkerInv, ProcessInv, AssembleInv, Certain
<1>2. Remaining(p) = Occurrences(w[p].run) \ w[p].done
  BY <1>1, OccurrencesOfBound DEF IInv, Remaining
<1>3. Remaining(p) # {} => NextItem(p) \in Remaining(p)
  BY DEF NextItem
<1> QED BY <1>1, <1>2, <1>3

\* Saving an item that is not there keeps the others, and the run was not READY.
LEMMA SaveItemKeeps ==
  ASSUME IInv, NEW r \in Runs, NEW o \in Occurrences(r), o \notin DOMAIN item[r], NEW l \in Logics,
         Bound(r), prow[r].summary = RevisionsOf(r),
         SaveItem(r, o, <<o, l>>), UNCHANGED <<staging, prow, arow>>
  PROVE  /\ DOMAIN item' = Runs /\ member' \in [Runs -> SUBSET AllRevs]
         /\ Grows /\ (\A x \in Runs : ItemInv(x)')
         /\ o \in DOMAIN item'[r] /\ item'[r][o] = <<o, l>>
<1>1. DOMAIN item = Runs /\ member \in [Runs -> SUBSET AllRevs] /\ o[2] \in AllRevs
  BY DEF IInv, TypeInv, Occurrences
<1>2. /\ DOMAIN item' = Runs /\ \A x \in Runs : x # r => item'[x] = item[x]
      /\ item'[r] = [q \in DOMAIN item[r] \cup {o} |-> IF q = o THEN <<o, l>> ELSE item[r][q]]
  BY <1>1 DEF SaveItem
<1>3. /\ member' \in [Runs -> SUBSET AllRevs] /\ \A x \in Runs : x # r => member'[x] = member[x]
  BY <1>1 DEF SaveItem
<1>4. /\ DOMAIN item'[r] = DOMAIN item[r] \cup {o} /\ item'[r][o] = <<o, l>>
      /\ \A q \in DOMAIN item[r] : item'[r][q] = item[r][q]
  BY <1>2
<1>5. Grows
  BY <1>2, <1>4 DEF Grows, staging
<1>6. arow[r] # "READY"
  BY DEF IInv, RunInv, ItemInv
<1>7. ItemInv(r)'
  BY <1>4, <1>6 DEF IInv, RunInv, ItemInv, Bound, staging
<1>8. ASSUME NEW x \in Runs, x # r PROVE ItemInv(x)'
  BY <1>2, <1>3, <1>8 DEF IInv, RunInv, ItemInv, Bound, staging
<1> QED BY <1>2, <1>3, <1>4, <1>5, <1>7, <1>8

LEMMA AssembleItemPreserves ==
  ASSUME IInv, NEW p \in Workers, AssembleItem(p)
  PROVE  IInv'
<1> DEFINE r == w[p].run
           o == NextItem(p)
           u == [w[p] EXCEPT !.done = w[p].done \cup {o}]
<1>1. /\ w[p].pc = "assemble" /\ Remaining(p) # {}
      /\ UNCHANGED <<raw, staging, prow, plock, faults, arow, alock, deployed>>
      /\ \/ /\ o \in DOMAIN item[r] /\ item[r][o] = <<o, w[p].logic>>
            /\ UNCHANGED <<item, member>> /\ w' = [w EXCEPT ![p] = u]
         \/ UNCHANGED <<item, member>> /\ Goto(p, "failed")
         \/ /\ o \notin DOMAIN item[r] /\ SaveItem(r, o, <<o, w[p].logic>>)
            /\ w' = [w EXCEPT ![p] = u]
  BY DEF AssembleItem, assemble, Goto
<1>2. /\ w[p] \in WorkerType /\ r \in Runs /\ w[p].logic \in Logics
      /\ Bound(r) /\ w[p].summary = RevisionsOf(r) /\ prow[r].summary = RevisionsOf(r)
      /\ \A x \in w[p].done : x \in DOMAIN item[r] /\ item[r][x] = <<x, w[p].logic>>
      /\ o \in Occurrences(r)
  BY <1>1, Assembling
<1>3. CASE UNCHANGED <<item, member>> /\ Goto(p, "failed")
  <2>1. /\ w' \in [Workers -> WorkerType]
        /\ \A q \in Workers : q # p => w'[q] = w[q]
        /\ w'[p].pc = "failed" /\ w'[p].run = w[p].run /\ w'[p].at = w[p].at
        /\ w'[p].loading = w[p].loading /\ w'[p].logic = w[p].logic
    BY <1>3, GotoMoves DEF IInv, Positions
  <2>2. TypeInv'
    BY <1>1, <1>3, <2>1 DEF IInv, TypeInv, staging
  <2>3. Grows /\ \A x \in Runs : ItemInv(x)'
    BY <1>1, <1>3, NotReadyKeeps
  <2>4. ProcessInv(p)' /\ AssembleInv(p)'
    BY <1>1, <2>1 DEF IInv, WorkerInv, ProcessInv, AssembleInv, Certain
  <2> QED BY <1>1, <2>1, <2>2, <2>3, <2>4, AssembleStep
<1>4. CASE w' = [w EXCEPT ![p] = u] /\ ~(UNCHANGED <<item, member>> /\ Goto(p, "failed"))
  <2>1. /\ DOMAIN item' = Runs /\ member' \in [Runs -> SUBSET AllRevs]
        /\ Grows /\ (\A x \in Runs : ItemInv(x)')
        /\ o \in DOMAIN item'[r] /\ item'[r][o] = <<o, w[p].logic>>
    <3>1. CASE /\ o \in DOMAIN item[r] /\ item[r][o] = <<o, w[p].logic>>
               /\ UNCHANGED <<item, member>>
      BY <1>1, <3>1, NotReadyKeeps DEF IInv, TypeInv
    <3>2. CASE o \notin DOMAIN item[r] /\ SaveItem(r, o, <<o, w[p].logic>>)
      <4> HIDE DEF r, o
      <4> QED BY <1>1, <1>2, <3>2, SaveItemKeeps
    <3> QED BY <1>1, <1>4, <3>1, <3>2
  <2>2. u \in WorkerType
    <3>1. w[p].done \cup {o} \in SUBSET (Docs \X AllRevs)
      BY <1>2 DEF WorkerType, Occurrences
    <3> QED BY <1>2, <3>1 DEF WorkerType
  <2>3. /\ u.pc = w[p].pc /\ u.run = w[p].run /\ u.at = w[p].at /\ u.summary = w[p].summary
        /\ u.loading = w[p].loading /\ u.logic = w[p].logic /\ u.done = w[p].done \cup {o}
    BY <1>2 DEF WorkerType
  <2> HIDE DEF u
  <2>4. w' \in [Workers -> WorkerType] /\ w'[p] = u /\ \A q \in Workers : q # p => w'[q] = w[q]
    BY <1>4, <2>2 DEF IInv, TypeInv
  <2>5. TypeInv'
    BY <1>1, <2>1, <2>4 DEF IInv, TypeInv, staging
  <2>6. ProcessInv(p)'
    BY <1>1, <1>2, <2>3, <2>4 DEF IInv, WorkerInv, ProcessInv
  <2>7. AssembleInv(p)'
    <3>1. \A x \in w'[p].done : x \in DOMAIN item'[w'[p].run] /\ item'[w'[p].run][x] = <<x, w'[p].logic>>
      BY <1>2, <2>1, <2>3, <2>4 DEF Grows
    <3>2. Bound(w[p].run)' /\ w'[p].summary = RevisionsOf(w'[p].run) /\ prow'[w'[p].run].summary = RevisionsOf(w'[p].run)
      BY <1>1, <1>2, <2>3, <2>4 DEF Bound, staging
    <3>3. w'[p].pc = "assemble" /\ w'[p].loading /\ w'[p].logic \in Logics
      BY <1>1, <1>2, <2>3, <2>4 DEF IInv, WorkerInv, AssembleInv
    <3> QED BY <3>1, <3>2, <3>3 DEF AssembleInv, Certain
  <2> QED BY <1>1, <2>1, <2>4, <2>5, <2>6, <2>7, AssembleStep
<1> QED BY <1>1, <1>3, <1>4

\* READY is written by an invocation that went through every occurrence.
LEMMA ReadyKeeps ==
  ASSUME IInv, NEW p \in Workers, w[p].pc = "assemble", Remaining(p) = {}, member[w[p].run] = w[p].summary,
         arow' = [arow EXCEPT ![w[p].run] = "READY"], UNCHANGED <<staging, prow, item, member>>
  PROVE  Grows /\ (\A r \in Runs : ItemInv(r)') /\ arow' \in [Runs -> {"NONE", "RUNNING", "READY", "FAILED"}]
<1>0. PICK r \in Runs : r = w[p].run
  BY Assembling
<1>1. /\ w[p].logic \in Logics /\ Bound(r) /\ prow[r].summary = RevisionsOf(r)
      /\ member[r] = RevisionsOf(r) /\ Occurrences(r) \subseteq w[p].done
      /\ \A x \in w[p].done : x \in DOMAIN item[r] /\ item[r][x] = <<x, w[p].logic>>
  BY <1>0, Assembling
<1>2. arow' \in [Runs -> {"NONE", "RUNNING", "READY", "FAILED"}] /\ \A x \in Runs : x # r => arow'[x] = arow[x]
  BY <1>0 DEF IInv, TypeInv
<1>3. Grows
  BY DEF Grows, staging
<1>4. DOMAIN item[r] = Occurrences(r) /\ \A x \in DOMAIN item[r] : item[r][x] = <<x, w[p].logic>>
  BY <1>1 DEF IInv, RunInv, ItemInv
<1>5. ItemInv(r)'
  BY <1>1, <1>4 DEF ItemInv, Bound, staging
<1>6. ASSUME NEW x \in Runs, x # r PROVE ItemInv(x)'
  BY <1>2, <1>6 DEF IInv, RunInv, ItemInv, Bound, staging
<1> QED BY <1>2, <1>3, <1>5, <1>6

LEMMA FinishAssemblyPreserves ==
  ASSUME IInv, NEW p \in Workers, FinishAssembly(p)
  PROVE  IInv'
<1>1. /\ w[p].pc = "assemble" /\ Remaining(p) = {} /\ w[p].run \in Runs
      /\ UNCHANGED <<raw, staging, prow, plock, faults, item, member, deployed>>
  BY Assembling DEF FinishAssembly
<1>2. CASE /\ member[w[p].run] = w[p].summary /\ arow' = [arow EXCEPT ![w[p].run] = "READY"] /\ Release(p)
  <2>1. Grows /\ (\A r \in Runs : ItemInv(r)') /\ arow' \in [Runs -> {"NONE", "RUNNING", "READY", "FAILED"}]
    BY <1>1, <1>2, ReadyKeeps
  <2>2. /\ w' \in [Workers -> WorkerType] /\ alock' \in [Runs -> Workers \cup {None}]
        /\ \A q \in Workers : q # p => w'[q] = w[q]
        /\ ProcessInv(p)' /\ AssembleInv(p)'
    BY <1>1, <1>2, ReleaseEnds DEF IInv
  <2>3. TypeInv'
    BY <1>1, <2>1, <2>2 DEF IInv, TypeInv, staging
  <2> QED BY <1>1, <2>1, <2>2, <2>3, AssembleStep
<1>3. CASE UNCHANGED <<arow, alock>> /\ Goto(p, "failed")
  <2>1. /\ w' \in [Workers -> WorkerType]
        /\ \A q \in Workers : q # p => w'[q] = w[q]
        /\ w'[p].pc = "failed" /\ w'[p].run = w[p].run /\ w'[p].at = w[p].at
        /\ w'[p].loading = w[p].loading /\ w'[p].logic = w[p].logic
    BY <1>3, GotoMoves DEF IInv, Positions
  <2>2. TypeInv'
    BY <1>1, <1>3, <2>1 DEF IInv, TypeInv, staging
  <2>3. Grows /\ \A x \in Runs : ItemInv(x)'
    BY <1>1, <1>3, NotReadyKeeps
  <2>4. ProcessInv(p)' /\ AssembleInv(p)'
    BY <1>1, <2>1 DEF IInv, WorkerInv, ProcessInv, AssembleInv, Certain
  <2> QED BY <1>1, <2>1, <2>2, <2>3, <2>4, AssembleStep
<1> QED BY <1>2, <1>3 DEF FinishAssembly

LEMMA AssemblyRaisesPreserves ==
  ASSUME IInv, NEW p \in Workers, NEW committed \in BOOLEAN, AssemblyRaises(p, committed)
  PROVE  IInv'
<1>r. PICK r \in Runs : r = w[p].run
  BY Assembling DEF AssemblyRaises
<1>o. PICK o : o = NextItem(p)
  OBVIOUS
<1>1. /\ w[p].pc = "assemble" /\ Goto(p, "failed") /\ faults' \in Nat
      /\ UNCHANGED <<raw, staging, prow, plock, alock, deployed>>
      /\ \/ UNCHANGED <<arow, item, member>>
         \/ /\ Remaining(p) = {} /\ member[r] = w[p].summary
            /\ arow' = [arow EXCEPT ![r] = "READY"] /\ UNCHANGED <<item, member>>
         \/ /\ Remaining(p) # {} /\ o \notin DOMAIN item[r]
            /\ SaveItem(r, o, <<o, w[p].logic>>) /\ UNCHANGED arow
  BY <1>r, <1>o DEF AssemblyRaises, assemble, Fault, IInv, TypeInv
<1>2. /\ w' \in [Workers -> WorkerType]
      /\ \A q \in Workers : q # p => w'[q] = w[q]
      /\ w'[p].pc = "failed" /\ w'[p].run = w[p].run /\ w'[p].at = w[p].at
      /\ w'[p].loading = w[p].loading /\ w'[p].logic = w[p].logic
  BY <1>1, GotoMoves DEF IInv, Positions
<1>3. /\ DOMAIN item' = Runs /\ member' \in [Runs -> SUBSET AllRevs]
      /\ arow' \in [Runs -> {"NONE", "RUNNING", "READY", "FAILED"}]
      /\ Grows /\ (\A x \in Runs : ItemInv(x)')
  <2>1. CASE UNCHANGED <<arow, item, member>>
    BY <1>1, <2>1, NotReadyKeeps DEF IInv, TypeInv
  <2>2. CASE /\ Remaining(p) = {} /\ member[r] = w[p].summary
             /\ arow' = [arow EXCEPT ![r] = "READY"] /\ UNCHANGED <<item, member>>
    BY <1>r, <1>o, <1>1, <2>2, ReadyKeeps DEF IInv, TypeInv
  <2>3. CASE /\ Remaining(p) # {} /\ o \notin DOMAIN item[r]
             /\ SaveItem(r, o, <<o, w[p].logic>>) /\ UNCHANGED arow
    <3>1. /\ o \in Occurrences(r) /\ w[p].logic \in Logics /\ Bound(r) /\ prow[r].summary = RevisionsOf(r)
      BY <1>r, <1>o, <1>1, <2>3, Assembling
    <3>2. /\ DOMAIN item' = Runs /\ member' \in [Runs -> SUBSET AllRevs]
          /\ Grows /\ (\A x \in Runs : ItemInv(x)')
      BY <1>1, <2>3, <3>1, SaveItemKeeps
    <3> QED BY <2>3, <3>2 DEF IInv, TypeInv
  <2> QED BY <1>1, <2>1, <2>2, <2>3
<1>4. TypeInv'
  BY <1>1, <1>2, <1>3 DEF IInv, TypeInv, staging
<1>5. ProcessInv(p)' /\ AssembleInv(p)'
  BY <1>1, <1>2 DEF IInv, WorkerInv, ProcessInv, AssembleInv, Certain
<1> QED BY <1>1, <1>2, <1>3, <1>4, <1>5, AssembleStep

-----------------------------------------------------------------------------
(* Kills, lost sessions, damage and deployments.                            *)

LEMMA CrashPreserves ==
  ASSUME IInv, NEW p \in Workers, CrashAssembly(p)
  PROVE  IInv'
<1>1. /\ w' = [w EXCEPT ![p] = Idle] /\ faults' \in Nat
      /\ plock' = [r \in Runs |-> IF plock[r] = p THEN None ELSE plock[r]]
      /\ alock' = [r \in Runs |-> IF alock[r] = p THEN None ELSE alock[r]]
      /\ UNCHANGED <<raw, staging, prow, arow, item, member, deployed>>
  BY DEF CrashAssembly, Crash, Fault, IInv, TypeInv
<1>2. Idle \in WorkerType /\ Idle.pc = "idle" /\ Idle.done = {} /\ Idle.loading = FALSE
  BY DEF Idle, WorkerType, Positions
<1>3. w' \in [Workers -> WorkerType] /\ w'[p] = Idle /\ \A q \in Workers : q # p => w'[q] = w[q]
  BY <1>1, <1>2 DEF IInv, TypeInv
<1>4. plock' \in [Runs -> Workers \cup {None}] /\ alock' \in [Runs -> Workers \cup {None}]
  BY <1>1 DEF IInv, TypeInv
<1>5. TypeInv'
  BY <1>1, <1>3, <1>4 DEF IInv, TypeInv, staging
<1>6. Grows /\ \A r \in Runs : ItemInv(r)'
  BY <1>1, NotReadyKeeps
<1>7. ProcessInv(p)' /\ AssembleInv(p)'
  BY <1>2, <1>3 DEF ProcessInv, AssembleInv, Certain
<1> QED BY <1>1, <1>3, <1>5, <1>6, <1>7, AssembleStep

LEMMA EnvironmentPreserves ==
  ASSUME IInv,
         \/ \E r \in Runs : LoseAssemblyLock(r)
         \/ \E l \in Logics : Deploy(l)
         \/ ProcessEnvironment /\ UNCHANGED avars
         \/ UNCHANGED vars
  PROVE  IInv'
<1>1. UNCHANGED <<document, revision, input, prow, w, arow, item, member>>
  BY DEF LoseAssemblyLock, Deploy, ProcessEnvironment, LoseProcessingLock, DamageRaw, vars, pvars, avars, staging
<1>2. /\ raw' \subseteq Docs /\ faults' \in Nat /\ deployed' \in Logics
  BY DEF LoseAssemblyLock, Deploy, ProcessEnvironment, LoseProcessingLock, DamageRaw, vars, pvars, avars,
         Fault, IInv, TypeInv
<1>3. /\ plock' \in [Runs -> Workers \cup {None}] /\ alock' \in [Runs -> Workers \cup {None}]
  BY DEF LoseAssemblyLock, Deploy, ProcessEnvironment, LoseProcessingLock, DamageRaw, vars, pvars, avars,
         IInv, TypeInv
<1>4. TypeInv' /\ StoreInv'
  BY <1>1, <1>2, <1>3 DEF IInv, TypeInv, StoreInv
<1>5. RunInv'
  BY <1>1 DEF IInv, RunInv, RowInv, ItemInv, Bound
<1>6. WorkerInv'
  <2>1. Grows
    BY <1>1 DEF Grows
  <2> QED BY <1>1, <2>1, OthersKeep DEF WorkerInv
<1> QED BY <1>4, <1>5, <1>6 DEF IInv

-----------------------------------------------------------------------------

LEMMA InitEstablishes == Init => IInv
<1> SUFFICES ASSUME Init PROVE IInv
  OBVIOUS
<1>1. Idle \in WorkerType /\ Idle.pc = "idle" /\ Idle.done = {} /\ Idle.loading = FALSE
  BY DEF Idle, WorkerType, Positions
<1>2. NoRow \in RowType /\ NoRow.state = "NONE" /\ NoRow.summary = None
  BY DEF NoRow, RowType, States
<1>3. w \in [Workers -> WorkerType] /\ prow \in [Runs -> RowType]
  BY <1>1, <1>2 DEF Init, ProcessingInit
<1>4. TypeInv
  BY <1>3, LogicsAssumption DEF Init, ProcessingInit, TypeInv
<1>5. StoreInv
  BY DEF Init, ProcessingInit, StoreInv
<1>6. RunInv
  BY <1>2 DEF Init, ProcessingInit, RunInv, RowInv, ItemInv
<1>7. WorkerInv
  BY <1>1 DEF Init, ProcessingInit, WorkerInv, ProcessInv, AssembleInv, Certain
<1> QED BY <1>4, <1>5, <1>6, <1>7 DEF IInv

LEMMA Inductive == IInv /\ [AssemblyNext]_vars => IInv'
<1> SUFFICES ASSUME IInv, [AssemblyNext]_vars PROVE IInv'
  OBVIOUS
<1>1. ASSUME NEW p \in Workers, NEW r \in Runs, Load(p, r) \/ (Acquire(p, r) /\ UNCHANGED avars) PROVE IInv'
  BY <1>1, LoadPreserves, AcquirePreserves
<1>2. ASSUME NEW p \in Workers, Process(p), UNCHANGED avars PROVE IInv'
  BY <1>2, OpenPreserves, ReadItemPreserves, SavePreserves, AttachPreserves, JudgePreserves,
     FinishPreserves, ExceptPreserves DEF Process
<1>3. ASSUME NEW p \in Workers, Assemble(p) PROVE IInv'
  BY <1>2, <1>3, CheckReadyPreserves, VerifiedPreserves, StartAssemblyPreserves, AssembleItemPreserves,
     FinishAssemblyPreserves, UnreadyEndPreserves DEF Assemble
<1>4. ASSUME NEW p \in Workers, AssembleTrouble(p) PROVE IInv'
  BY <1>4, UnreadyEndPreserves, AssemblyRaisesPreserves, CrashPreserves, OpenRaisesPreserves,
     WriteRaisesPreserves, ExceptPreserves DEF AssembleTrouble, ProcessTrouble
<1> QED BY <1>1, <1>3, <1>4, EnvironmentPreserves DEF AssemblyNext

\* process_run and assemble_run: checkpoints are whole, memberships are what
\* the inputs parse to, and every row, item and local is consistent with them.
THEOREM Invariance == Spec => []IInv
BY InitEstablishes, Inductive, PTL DEF Spec

\* process_run certifies only whole runs: READY and REVIEW_REQUIRED rows have
\* every input bound and the summary counts exactly the run's revisions.
THEOREM WholeWhenCertified == Spec => []CertifiedIsWhole
<1>1. IInv => CertifiedIsWhole
  BY RevisionsOfBound DEF IInv, RunInv, RowInv, CertifiedIsWhole, Bound
<1> QED BY <1>1, Invariance, PTL

\* canonical assembly: a READY assembly covers every certified revision and
\* was built by one version of the code.
THEOREM UniformWhenReady == Spec => []AssemblyIsUniform
<1>1. IInv => AssemblyIsUniform
  <2> SUFFICES ASSUME IInv, NEW r \in Runs, arow[r] = "READY"
               PROVE  /\ DOMAIN item[r] = staged_occurrences(r) /\ member[r] = RevisionsOf(r)
                      /\ prow[r].summary = RevisionsOf(r)
                      /\ \E l \in Logics : \A o \in DOMAIN item[r] : item[r][o] = <<o, l>>
    BY DEF AssemblyIsUniform, assemble
  <2> QED BY OccurrencesOfBound DEF IInv, RunInv, ItemInv
<1> QED BY <1>1, Invariance, PTL
-----------------------------------------------------------------------------

KeepsSummary == \A r \in Runs : prow[r].summary # None => prow'[r].summary = prow[r].summary

\* A step that writes a state only, or writes the summary of a finished
\* invocation, keeps the summaries that are there.
LEMMA StateKeepsSummary ==
  ASSUME TypeInv, NEW q \in Runs, NEW s, prow' = [prow EXCEPT ![q].state = s]
  PROVE  KeepsSummary
BY DEF TypeInv, RowType, KeepsSummary

LEMMA FinishKeepsSummary ==
  ASSUME IInv, NEW p \in Workers, w[p].pc = "finish", NEW s,
         prow' = [prow EXCEPT ![w[p].run] = [state |-> s, summary |-> w[p].summary]]
  PROVE  KeepsSummary
<1>1. w[p].summary = RevisionsOf(w[p].run) /\ prow \in [Runs -> RowType]
  BY DEF IInv, WorkerInv, ProcessInv, TypeInv
<1>2. \A r \in Runs : prow[r].summary # None => prow[r].summary = RevisionsOf(r)
  BY DEF IInv, RunInv, RowInv
<1>3. \A r \in Runs : r # w[p].run => prow'[r] = prow[r]
  BY <1>1
<1>4. w[p].run \in Runs => prow'[w[p].run].summary = RevisionsOf(w[p].run)
  BY <1>1
<1> QED BY <1>2, <1>3, <1>4 DEF KeepsSummary

LEMMA StepKeepsSummary == IInv /\ [AssemblyNext]_vars => KeepsSummary
<1> SUFFICES ASSUME IInv, [AssemblyNext]_vars PROVE KeepsSummary
  OBVIOUS
<1>0. prow' = prow => KeepsSummary
  BY DEF KeepsSummary
<1>1. ASSUME NEW p \in Workers, w[p].pc # "idle" PROVE w[p].run \in Runs
  BY <1>1 DEF IInv, WorkerInv, ProcessInv
<1>2. TypeInv
  BY DEF IInv
<1>3. ASSUME NEW p \in Workers, Process(p) PROVE KeepsSummary
  <2>1. CASE Open(p) \/ Except(p)
    BY <1>1, <1>2, <2>1, StateKeepsSummary DEF Open, Except
  <2>2. CASE Finish(p)
    BY <2>2, FinishKeepsSummary DEF Finish
  <2>3. CASE ReadItem(p) \/ Save(p) \/ Attach(p) \/ Judge(p)
    BY <1>0, <2>3 DEF ReadItem, Save, Attach, Judge
  <2> QED BY <1>3, <2>1, <2>2, <2>3 DEF Process
<1>4. ASSUME NEW p \in Workers, ProcessTrouble(p) PROVE KeepsSummary
  <2>1. ASSUME NEW b \in BOOLEAN, OpenRaises(p, b) PROVE KeepsSummary
    BY <1>0, <1>1, <1>2, <2>1, StateKeepsSummary DEF OpenRaises
  <2>2. ASSUME NEW b \in BOOLEAN, WriteRaises(p, b) PROVE KeepsSummary
    <3>1. CASE w[p].pc = "finish" /\ prow' # prow
      BY <2>2, <3>1, FinishKeepsSummary DEF WriteRaises
    <3>2. CASE ~(w[p].pc = "finish" /\ prow' # prow)
      BY <1>0, <2>2, <3>2 DEF WriteRaises
    <3> QED BY <3>1, <3>2
  <2>3. CASE ExceptRaises(p)
    BY <1>0, <2>3 DEF ExceptRaises
  <2> QED BY <1>4, <2>1, <2>2, <2>3 DEF ProcessTrouble
<1>5. ASSUME NEW p \in Workers, Assemble(p) PROVE KeepsSummary
  BY <1>0, <1>3, <1>5 DEF Assemble, CheckReady, CallProcess, Verified, StartAssembly, AssembleItem,
     FinishAssembly, Failed
<1>6. ASSUME NEW p \in Workers, AssembleTrouble(p) PROVE KeepsSummary
  BY <1>0, <1>4, <1>6 DEF AssembleTrouble, StartAssemblyRaises, AssemblyRaises, FailedRaises,
     CrashAssembly, Crash
<1>7. ASSUME NEW p \in Workers, NEW r \in Runs, Load(p, r) \/ Acquire(p, r) PROVE KeepsSummary
  BY <1>0, <1>7 DEF Load, Acquire
<1>8. CASE \/ UNCHANGED vars
           \/ \E r \in Runs : LoseAssemblyLock(r)
           \/ \E l \in Logics : Deploy(l)
           \/ ProcessEnvironment
  BY <1>0, <1>8 DEF vars, pvars, LoseAssemblyLock, Deploy, ProcessEnvironment, LoseProcessingLock, DamageRaw
<1> QED BY <1>5, <1>6, <1>7, <1>8 DEF AssemblyNext

\* process_run: a replay of a run, by whichever invocation and after whatever
\* failure, never reports another content set than the first one did.
THEOREM ReplaysAgreeAlways == Spec => ReplaysAgree
<1>1. IInv /\ [AssemblyNext]_vars =>
        [\A r \in Runs : prow[r].summary # None => prow'[r].summary = prow[r].summary]_pvars
  BY StepKeepsSummary DEF KeepsSummary
<1> QED BY <1>1, Invariance, PTL DEF Spec, ReplaysAgree

\* What holds of Spec holds under the operators' habits and the fairness that
\* the liveness runs assume.
THEOREM FairSpecs == (LoadSpec => Spec) /\ (ProcessAndLoadSpec => Spec)
<1>1. [AssemblyNext /\ NoNeedlessReplay]_vars => [AssemblyNext]_vars
  OBVIOUS
<1> QED BY <1>1, PTL DEF Spec, LoadSpec, ProcessAndLoadSpec
=============================================================================
