---------------------------- MODULE FetchRunProofs ----------------------------
(***************************************************************************)
(* Proofs for FetchRun: for every set of sources, every page size and every *)
(* catalogue, a run that mark_fetch_complete closed passes the manifest    *)
(* check of run_inputs, whatever raised, committed or was killed before.   *)
(*                                                                         *)
(* The argument.  While the engine lives, its memory and the ledger tell   *)
(* the same story: what it knows is what it selected, what it is fetching  *)
(* and what it queued, each once; every row of the ledger is one it wrote. *)
(* When the queue is empty the counts it writes are therefore the counts   *)
(* of the rows, by counting both along the selected observations.  After   *)
(* an exception that identity is lost, and no run is closed any more.      *)
(*                                                                         *)
(* What is stored is a true answer to its request (RowsInv), also after    *)
(* the engine is gone, so that the completeness check of a READY run can   *)
(* be believed: its conditions number the rows of a partition 1..total.    *)
(* What an answer calls for is planned, and over a catalogue that does not *)
(* move nothing else is (TruthInv).  A closed run then holds exactly that  *)
(* catalogue, both readings of it agree, and no code is derived from less. *)
(*                                                                         *)
(* The last section proves RawStore, the store the engine puts bodies in:  *)
(* what a put wrote and the ledger refers to survives, and none is torn.   *)
(***************************************************************************)
EXTENDS FetchRun, RawStore, FiniteSetTheorems, SequenceTheorems, TLAPS

InFlight == pc \in {"call", "store", "record"}
Live == pc \in {"start", "loop"} \/ InFlight

Queued == {queue[i] : i \in DOMAIN queue}
Done == {selectedIds[i][1] : i \in DOMAIN selectedIds}
Doing == IF InFlight THEN {cur} ELSE {}

\* A request for a page of a configured partition, or for a posting.
RequestOK(q) ==
    /\ q = Request(q.part, q.page, q.ord)
    /\ q.page \in Int
    /\ Kind = "job_alio" \/ q.part \in Partitions

BodyOK(b) == b.total \in Nat /\ b.size \in Nat \ {0} /\ \E S : b.rows \in Seq(S)

ConfigInv ==
    /\ source \in build_connector /\ max_pages \in Caps
    /\ DOMAIN catalog = Partitions
    /\ \A p \in Partitions : catalog[p] \in Catalogs[p]

\* Every known request is selected, in flight or queued, and only one of them.
QueueInv ==
    /\ queue \in Seq(known) /\ \A i, j \in DOMAIN queue : queue[i] = queue[j] => i = j
    /\ known = Done \cup Doing \cup Queued /\ known # {}
    /\ Queued \cap (Done \cup Doing) = {} /\ Done \cap Doing = {}
    /\ \A q \in known : RequestOK(q)

\* The selected observations, in memory and in the rows.
SelectedInv ==
    /\ selectedIds \in Seq(known \X Nat)
    /\ \A i, j \in DOMAIN selectedIds : selectedIds[i][1] = selectedIds[j][1] => i = j
    /\ DOMAIN requests = Done \cup Doing
    /\ \A i \in DOMAIN selectedIds :
          /\ requests[selectedIds[i][1]] = selectedIds[i]
          /\ \E o \in observations : o.id = selectedIds[i] /\ o.outcome = "SELECTED_SUCCESS"

\* Every attempt is recorded once, under its own number.
AttemptInv ==
    /\ \A o \in observations :
          /\ o.id \in (Done \cup Doing) \X Nat
          /\ o.outcome = "SELECTED_SUCCESS" => \E i \in DOMAIN selectedIds : selectedIds[i] = o.id
          /\ InFlight /\ o.id[1] = cur => o.id[2] < attempt
    /\ \A o, e \in observations : o.id = e.id => o = e
    /\ attemptIds = {o.id : o \in observations} \cup (IF pc \in {"store", "record"} THEN {ObsId} ELSE {})
    /\ InFlight => attempt \in Nat

ReplyInv ==
    /\ pc = "store" => Selected
    /\ pc \in {"store", "record"} /\ Selected => BodyOK(reply.body)

MemoryInv == QueueInv /\ SelectedInv /\ AttemptInv /\ ReplyInv

\* The row of the run is open as long as the engine lives.
RunInv ==
    /\ DOMAIN run = {"state", "stage", "planned", "successful", "attempts", "selected"}
    /\ pc = "start" => run = NoRun /\ requests = <<>> /\ observations = {} /\ selectedIds = <<>>
    /\ Live => ~Fetched
    /\ Live /\ pc # "start" => run.state = "RUNNING"
    /\ FetchedIsReplayable

IInv == ConfigInv /\ (Live => MemoryInv) /\ RunInv


-----------------------------------------------------------------------------
(* Sets and sequences.                                                     *)

\* An injective sequence counts the set of what it lists.
LEMMA CountedBy ==
    ASSUME NEW S, NEW n \in Nat, NEW f \in [1..n -> S],
           \A i, j \in 1..n : f[i] = f[j] => i = j, \A x \in S : \E i \in 1..n : f[i] = x
    PROVE  Cardinality(S) = n
<1>1. f \in Bijection(1..n, S)
  BY DEF Bijection, Injection, Surjection, IsInjective
<1>2. ExistsBijection(1..n, S)
  BY <1>1 DEF ExistsBijection
<1> QED BY <1>2, FS_CountingElements

\* The orders of a finite set are sequences that list each element once.
LEMMA OrderIsSequence ==
    ASSUME NEW S, IsFiniteSet(S), NEW s \in InOrder(S)
    PROVE  /\ s \in Seq(S) /\ {s[i] : i \in DOMAIN s} = S
           /\ \A i, j \in DOMAIN s : s[i] = s[j] => i = j
<1>1. Cardinality(S) \in Nat
  BY FS_CardinalityType
<1>2. s \in [1..Cardinality(S) -> S] /\ DOMAIN s = 1..Cardinality(S)
  BY DEF InOrder
<1>3. s \in Seq(S)
  BY <1>1, <1>2
<1>4. \A q \in S : \E i \in DOMAIN s : s[i] = q
  BY DEF InOrder
<1>5. \A i, j \in DOMAIN s : i < j => s[i] # s[j]
  BY DEF InOrder
<1>6. \A i, j \in DOMAIN s : s[i] = s[j] => i = j
  <2> SUFFICES ASSUME NEW i \in DOMAIN s, NEW j \in DOMAIN s, s[i] = s[j] PROVE i = j
    OBVIOUS
  <2>1. i \in Int /\ j \in Int
    BY <1>1, <1>2
  <2> QED BY <1>5, <2>1
<1> QED BY <1>2, <1>3, <1>4, <1>6

\* Requests over a finite index set.
LEMMA FiniteImage ==
    ASSUME NEW I, IsFiniteSet(I), NEW f, NEW S, S = {f[i] : i \in I}, DOMAIN f = I
    PROVE  IsFiniteSet(S)
<1> DEFINE g == [i \in I |-> f[i]]
<1>1. g \in Surjection(I, S)
  BY DEF Surjection
<1> QED BY <1>1, FS_Surjection

-----------------------------------------------------------------------------
(* The provider's answers and the requests they lead to.                   *)

LEMMA Cut ==
    ASSUME NEW c, NEW m \in Int, NEW n \in Int
    PROVE  \E S : SubSeq(c, m, n) \in Seq(S)
<1> DEFINE S == {c[i] : i \in m..n}
<1>1. SubSeq(c, m, n) \in Seq(S)
  BY SubSeqProperties
<1> QED BY <1>1

LEMMA SourceFacts ==
    ASSUME ConfigInv
    PROVE  /\ PageBase \in {0, 1} /\ PageSize \in Nat \ {0} /\ ServedSize \in Nat \ {0}
           /\ max_pages \in (Nat \ {0}) \cup {NoLimit}
           /\ IsFiniteSet(Partitions) /\ Partitions # {}
           /\ \A p \in Partitions : catalog[p] \in Seq({catalog[p][i] : i \in DOMAIN catalog[p]})
<1>1. source \in Sources /\ Partitions # {}
  BY DEF ConfigInv, build_connector, readiness, configured, Partitions
<1>2. ServedSize \in Nat \ {0}
  BY <1>1, FetchAssumption, ConnectorAssumption DEF ServedSize
<1>3. PageSize \in Nat \ {0}
  BY <1>1, ConnectorAssumption DEF PageSize
<1> QED BY <1>1, <1>2, <1>3, FetchAssumption, ConnectorAssumption DEF ConfigInv, PageBase, Caps, Partitions, Catalogs

\* The sizes the connector and parse_document read from a body.
LEMMA SizesRead ==
    ASSUME NEW b, BodyOK(b)
    PROVE  /\ SizeOf(b) \in Nat \ {0}
           /\ PageSize \in Nat \ {0} => page_size(b) \in Nat \ {0}
BY ConnectorAssumption DEF BodyOK, SizeOf, page_size

LEMMA AnswersAreBodies ==
    ASSUME ConfigInv, NEW q, RequestOK(q), NEW b \in Faithful(q) \cup Shortened(q)
    PROVE  BodyOK(b)
<1>1. /\ PageBase \in {0, 1} /\ ServedSize \in Nat \ {0}
      /\ \A p \in Partitions : catalog[p] \in Seq({catalog[p][i] : i \in DOMAIN catalog[p]})
  BY SourceFacts
<1>2. ASSUME NEW c, c \in Faithful(q) PROVE BodyOK(c) /\ DOMAIN c = {"total", "size", "form", "rows"}
  <2>1. CASE IsDetail(q)
    <3>1. c.total = 1 /\ c.size = 1 /\ DOMAIN c = {"total", "size", "form", "rows"} /\ (c.rows = <<>> \/ \E r : c.rows = <<r>>)
      BY <1>2, <2>1 DEF Faithful, DetailsOf
    <3>2. \E S : c.rows \in Seq(S)
      <4>1. CASE c.rows = <<>>
        BY <4>1
      <4>2. CASE \E r : c.rows = <<r>>
        <5>1. PICK r : c.rows = <<r>>
          BY <4>2
        <5>2. c.rows \in Seq({r})
          BY <5>1
        <5> QED BY <5>2
      <4> QED BY <3>1, <4>1, <4>2
    <3> QED BY <3>1, <3>2 DEF BodyOK
  <2>2. CASE ~IsDetail(q)
    <3>1. q.part \in Partitions /\ q.page \in Int
      BY <2>2 DEF IsDetail, RequestOK
    <3>2. c = PageOf(catalog[q.part], q.page) /\ Len(catalog[q.part]) \in Nat
      BY <1>1, <1>2, <2>2, <3>1 DEF Faithful
    <3> DEFINE m == (q.page - PageBase) * ServedSize + 1
               n == Least(Len(catalog[q.part]), (q.page - PageBase + 1) * ServedSize)
    <3>3. m \in Int /\ n \in Int
      BY <1>1, <3>1, <3>2 DEF Least
    <3>4. c = [total |-> Len(catalog[q.part]), size |-> ServedSize, form |-> NumberForm, rows |-> SubSeq(catalog[q.part], m, n)]
      BY <3>2 DEF PageOf
    <3> HIDE DEF m, n
    <3>5. \E S : SubSeq(catalog[q.part], m, n) \in Seq(S)
      BY <3>3, Cut
    <3>6. PICK rows : rows = SubSeq(catalog[q.part], m, n)
      OBVIOUS
    <3>7. /\ c.total = Len(catalog[q.part]) /\ c.size = ServedSize /\ c.rows = rows
          /\ DOMAIN c = {"total", "size", "form", "rows"}
      BY <3>4, <3>6
    <3>8. \E S : c.rows \in Seq(S)
      BY <3>5, <3>6, <3>7
    <3> QED BY <1>1, <3>2, <3>7, <3>8 DEF BodyOK
  <2> QED BY <2>1, <2>2
<1>3. CASE b \in Shortened(q)
  <2>1. PICK c \in Faithful(q) : b = [c EXCEPT !.rows = SubSeq(c.rows, 1, Len(c.rows) - 1)]
    BY <1>3 DEF Shortened
  <2>2. BodyOK(c) /\ DOMAIN c = {"total", "size", "form", "rows"}
    BY <1>2
  <2>3. PICK k : k = Len(c.rows) - 1
    OBVIOUS
  <2>4. 1 \in Int /\ k \in Int
    BY <2>2, <2>3 DEF BodyOK
  <2>5. PICK rows : rows = SubSeq(c.rows, 1, k)
    OBVIOUS
  <2>6. \E S : rows \in Seq(S)
    BY <2>4, <2>5, Cut
  <2>7. b.total = c.total /\ b.size = c.size /\ b.rows = rows
    BY <2>1, <2>2, <2>3, <2>5
  <2> QED BY <2>2, <2>6, <2>7 DEF BodyOK
<1> QED BY <1>2, <1>3

\* One response adds finitely many requests, each for a page or a posting.
LEMMA PlanIsFinite ==
    ASSUME ConfigInv, NEW q, RequestOK(q), NEW b, BodyOK(b)
    PROVE  /\ IsFiniteSet(remaining_requests(q, b, max_pages))
           /\ \A r \in remaining_requests(q, b, max_pages) : RequestOK(r)
<1>1. /\ PageBase \in {0, 1} /\ PageSize \in Nat \ {0} /\ max_pages \in (Nat \ {0}) \cup {NoLimit}
  BY SourceFacts
<1>2. PICK n : n = PlannedPages(b, max_pages)
  OBVIOUS
<1>3. n \in Int
  <2>1. \A x \in Nat, y \in Nat \ {0} : CeilDiv(x, y) \in Int
    BY DEF CeilDiv
  <2>2. PICK size \in Nat \ {0} : size = page_size(b)
    BY <1>1, SizesRead
  <2>3. PICK pages \in Int : pages = CeilDiv(b.total, size)
    BY <2>1, <2>2 DEF BodyOK
  <2>4. n = IF max_pages = NoLimit THEN pages ELSE Least(pages, max_pages)
    BY <1>2, <2>2, <2>3 DEF PlannedPages
  <2> QED BY <1>1, <2>3, <2>4 DEF Least
<1> DEFINE I == PageBase + 1 .. PageBase + n - 1
           further == [k \in I |-> Request(q.part, k, 0)]
           D == DOMAIN b.rows
           posting == [k \in D |-> Request(b.rows[k].id, NoPage, 0)]
<1>4. IsFiniteSet(I) /\ \A k \in I : k \in Int
  <2>1. PageBase + 1 \in Int /\ PageBase + n - 1 \in Int
    BY <1>1, <1>3
  <2> QED BY <2>1, FS_Interval
<1>5. IsFiniteSet(D)
  <2>1. PICK S : b.rows \in Seq(S)
    BY DEF BodyOK
  <2>2. D = 1..Len(b.rows) /\ Len(b.rows) \in Int
    BY <2>1
  <2> QED BY <2>2, FS_Interval
<1>6. FurtherPages(q, b, max_pages) = {further[k] : k \in I}
  BY <1>2 DEF FurtherPages
<1>7. {Request(i, NoPage, 0) : i \in Identities(b)} = {posting[k] : k \in D}
  BY DEF Identities
<1> HIDE DEF D
<1>8. IsFiniteSet(FurtherPages(q, b, max_pages))
  <2> HIDE DEF I
  <2>1. DOMAIN further = I
    OBVIOUS
  <2> HIDE DEF further
  <2> QED BY <1>4, <1>6, <2>1, FiniteImage
<1>9. IsFiniteSet({Request(i, NoPage, 0) : i \in Identities(b)})
  <2>1. DOMAIN posting = D
    OBVIOUS
  <2> HIDE DEF posting
  <2> QED BY <1>5, <1>7, <2>1, FiniteImage
<1>10. /\ \A r \in FurtherPages(q, b, max_pages) : RequestOK(r)
       /\ Kind = "job_alio" => \A r \in {Request(i, NoPage, 0) : i \in Identities(b)} : RequestOK(r)
       /\ RequestOK([q EXCEPT !.ord = 1])
  BY <1>2, <1>4 DEF FurtherPages, RequestOK, Request, NoPage
<1>11. \A A, B : IsFiniteSet(A) /\ IsFiniteSet(B) => IsFiniteSet(A \cup B)
  BY FS_Union
<1>12. IsFiniteSet({}) /\ IsFiniteSet({[q EXCEPT !.ord = 1]})
  BY FS_EmptySet, FS_Singleton
<1> QED BY <1>8, <1>9, <1>10, <1>11, <1>12 DEF remaining_requests


-----------------------------------------------------------------------------
(* The manifest.                                                           *)

\* With nothing queued and nothing in flight, the counts and the hashes
\* mark_fetch_complete writes are those of the rows.
LEMMA ManifestAgrees ==
    ASSUME MemoryInv, pc = "loop", queue = <<>>
    PROVE  /\ Len(selectedIds) \in Nat \ {0}
           /\ Cardinality(known) = Len(selectedIds)
           /\ Cardinality(InputObs) = Len(selectedIds)
           /\ DOMAIN requests = known
           /\ {o.id : o \in InputObs} = {selectedIds[i] : i \in DOMAIN selectedIds}
           /\ {o.id : o \in observations} = attemptIds
<1>1. PICK n : n = Len(selectedIds)
  OBVIOUS
<1>2. n \in Nat /\ DOMAIN selectedIds = 1..n
  BY <1>1 DEF MemoryInv, SelectedInv
<1>3. Done = known /\ DOMAIN requests = known /\ known # {}
  BY DEF MemoryInv, QueueInv, SelectedInv, Queued, Doing, InFlight
<1>4. n # 0
  BY <1>2, <1>3 DEF Done
<1>5. Cardinality(known) = n
  <2> DEFINE f == [i \in 1..n |-> selectedIds[i][1]]
  <2>1. f \in [1..n -> known] /\ \A x \in known : \E i \in 1..n : f[i] = x
    BY <1>2, <1>3 DEF Done
  <2>2. \A i, j \in 1..n : f[i] = f[j] => i = j
    BY <1>2 DEF MemoryInv, SelectedInv
  <2> HIDE DEF f
  <2> QED BY <1>2, <2>1, <2>2, CountedBy
<1>6. /\ \A o \in InputObs : \E i \in 1..n : selectedIds[i] = o.id
      /\ \A i \in 1..n : \E o \in InputObs : o.id = selectedIds[i]
  <2>1. ASSUME NEW o \in InputObs PROVE \E i \in 1..n : selectedIds[i] = o.id
    BY <1>2 DEF InputObs, MemoryInv, AttemptInv
  <2>2. ASSUME NEW i \in 1..n PROVE \E o \in InputObs : o.id = selectedIds[i]
    <3>1. PICK o \in observations : o.id = selectedIds[i] /\ o.outcome = "SELECTED_SUCCESS"
      BY <1>2 DEF MemoryInv, SelectedInv
    <3>2. selectedIds[i][1] \in DOMAIN requests /\ requests[selectedIds[i][1]] = selectedIds[i]
      BY <1>2, <1>3 DEF MemoryInv, SelectedInv, Done
    <3> QED BY <3>1, <3>2 DEF InputObs
  <2> QED BY <2>1, <2>2
<1>7. Cardinality(InputObs) = n
  <2> DEFINE f == [i \in 1..n |-> CHOOSE o \in InputObs : o.id = selectedIds[i]]
  <2>1. \A i \in 1..n : f[i] \in InputObs /\ f[i].id = selectedIds[i]
    BY <1>6
  <2>2. f \in [1..n -> InputObs]
    BY <2>1
  <2>3. \A i, j \in 1..n : f[i] = f[j] => i = j
    <3> SUFFICES ASSUME NEW i \in 1..n, NEW j \in 1..n, f[i] = f[j] PROVE i = j
      OBVIOUS
    <3>1. selectedIds[i] = selectedIds[j]
      BY <2>1
    <3> QED BY <1>2, <3>1 DEF MemoryInv, SelectedInv
  <2>4. \A o \in InputObs : \E i \in 1..n : f[i] = o
    <3> SUFFICES ASSUME NEW o \in InputObs PROVE \E i \in 1..n : f[i] = o
      OBVIOUS
    <3>1. PICK i \in 1..n : selectedIds[i] = o.id
      BY <1>6
    <3>2. f[i] \in InputObs /\ f[i].id = o.id
      BY <2>1, <3>1
    <3>3. f[i] \in observations /\ o \in observations
      BY <3>2 DEF InputObs
    <3>4. f[i] = o
      BY <3>2, <3>3 DEF MemoryInv, AttemptInv
    <3> QED BY <3>4
  <2> HIDE DEF f
  <2> QED BY <1>2, <2>2, <2>3, <2>4, CountedBy
<1>8. {o.id : o \in InputObs} = {selectedIds[i] : i \in DOMAIN selectedIds}
  <2>1. ASSUME NEW x \in {o.id : o \in InputObs} PROVE x \in {selectedIds[i] : i \in DOMAIN selectedIds}
    <3>1. PICK o \in InputObs : x = o.id
      OBVIOUS
    <3>2. PICK i \in 1..n : selectedIds[i] = o.id
      BY <1>6
    <3> QED BY <1>2, <3>1, <3>2
  <2>2. ASSUME NEW x \in {selectedIds[i] : i \in DOMAIN selectedIds} PROVE x \in {o.id : o \in InputObs}
    <3>1. PICK i \in 1..n : x = selectedIds[i]
      BY <1>2
    <3>2. PICK o \in InputObs : o.id = selectedIds[i]
      BY <1>6
    <3> QED BY <3>1, <3>2
  <2> QED BY <2>1, <2>2
<1>9. {o.id : o \in observations} = attemptIds
  BY DEF MemoryInv, AttemptInv
<1> QED BY <1>1, <1>2, <1>3, <1>4, <1>5, <1>7, <1>8, <1>9

-----------------------------------------------------------------------------
(* The steps.                                                              *)

\* The engine has ended, or is about to record that it failed.
LEMMA EngineEnds ==
    ASSUME IInv, ConfigInv', pc' \in {"failing", "done", "raised", "dead"},
           DOMAIN run' = DOMAIN run, FetchedIsReplayable'
    PROVE  IInv'
BY DEF IInv, RunInv, Live, InFlight

LEMMA ConfigKept == ASSUME ConfigInv, UNCHANGED <<source, max_pages, catalog>> PROVE ConfigInv'
BY DEF ConfigInv, Partitions, Catalogs, Caps

\* A run that was not closed is not closed by an exception either.
LEMMA StillOpen ==
    ASSUME IInv, Live, ConfigInv', pc' \in {"failing", "raised", "dead"}, run' = run
    PROVE  IInv'
BY EngineEnds DEF IInv, RunInv, FetchedIsReplayable, Fetched

LEMMA CompletePreserves ==
    ASSUME IInv, UNCHANGED <<source, max_pages>>, Complete \/ \E b \in BOOLEAN : CompleteRaises(b)
    PROVE  IInv'
<1>1. /\ pc = "loop" /\ queue = <<>> /\ UNCHANGED <<catalog, requests, observations>>
      /\ run' = run \/ run' = mark_fetch_complete
      /\ pc' \in {"done", "failing"}
  BY DEF Complete, CompleteRaises, EndAt, provider
<1>2. ConfigInv' /\ Live /\ MemoryInv
  BY <1>1, ConfigKept DEF IInv, Live
<1>3. CASE run' = run
  BY <1>1, <1>2, <1>3, EngineEnds DEF IInv, RunInv, FetchedIsReplayable, Fetched
<1>4. CASE run' = mark_fetch_complete
  <2>1. /\ run' = [run EXCEPT !.stage = "FETCHED", !.planned = Cardinality(known),
                              !.successful = Len(selectedIds), !.attempts = attemptIds,
                              !.selected = {selectedIds[i] : i \in DOMAIN selectedIds}]
        /\ DOMAIN run = {"state", "stage", "planned", "successful", "attempts", "selected"}
    BY <1>1, <1>2, <1>4 DEF mark_fetch_complete, IInv, RunInv
  <2>2. /\ run'.planned = Cardinality(known) /\ run'.successful = Len(selectedIds)
        /\ run'.attempts = attemptIds /\ run'.selected = {selectedIds[i] : i \in DOMAIN selectedIds}
        /\ DOMAIN run' = DOMAIN run
    BY <2>1
  <2>3. InputObs' = InputObs
    BY <1>1 DEF InputObs
  <2>4. /\ Len(selectedIds) \in Nat \ {0}
        /\ Cardinality(known) = Len(selectedIds)
        /\ Cardinality(InputObs) = Len(selectedIds)
        /\ DOMAIN requests = known
        /\ {o.id : o \in InputObs} = {selectedIds[i] : i \in DOMAIN selectedIds}
        /\ {o.id : o \in observations} = attemptIds
    BY <1>1, <1>2, ManifestAgrees
  <2>5. FetchedIsReplayable'
    BY <1>1, <2>2, <2>3, <2>4 DEF FetchedIsReplayable, run_inputs
  <2> QED BY <1>1, <1>2, <2>2, <2>5, EngineEnds
<1> QED BY <1>1, <1>3, <1>4

\* fail_run, or its own failure, never closes a run.
LEMMA FailPreserves ==
    ASSUME IInv, UNCHANGED <<source, max_pages>>, Fail \/ \E b \in BOOLEAN : FailRaises(b)
    PROVE  IInv'
<1>1. /\ UNCHANGED <<catalog, requests, observations>> /\ pc' = "raised"
      /\ run' = run \/ run' = fail_run
  BY DEF Fail, FailRaises, EndAt, provider
<1>2. ConfigInv' /\ DOMAIN run = {"state", "stage", "planned", "successful", "attempts", "selected"}
  BY <1>1, ConfigKept DEF IInv, RunInv
<1>3. run' = run \/ (run'.state = "FAILED" /\ DOMAIN run' = DOMAIN run)
  BY <1>1, <1>2 DEF fail_run
<1>4. FetchedIsReplayable'
  <2>1. CASE run' = run
    BY <1>1, <2>1 DEF IInv, RunInv, FetchedIsReplayable, Fetched, run_inputs, InputObs
  <2>2. CASE run'.state = "FAILED"
    BY <2>2 DEF FetchedIsReplayable, Fetched
  <2> QED BY <1>3, <2>1, <2>2
<1> QED BY <1>1, <1>2, <1>3, <1>4, EngineEnds


\* Between two ledger writes of a request: only the attempt and its reply move.
LEMMA Attempting ==
    ASSUME IInv, Live, ConfigInv', UNCHANGED <<source, ledger, queue, known, cur, attempt, selectedIds>>,
           pc' = pc \/ (InFlight /\ InFlight'),
           attemptIds' = {o.id : o \in observations} \cup (IF pc' \in {"store", "record"} THEN {ObsId} ELSE {}),
           ReplyInv'
    PROVE  IInv'
<1> USE DEF ledger
<1>1. InFlight' = InFlight /\ (pc' = "start" <=> pc = "start") /\ ObsId' = ObsId
  BY DEF InFlight, ObsId
<1>2. Done' = Done /\ Doing' = Doing /\ Queued' = Queued
  BY <1>1 DEF Done, Doing, Queued
<1>3. QueueInv'
  BY <1>2 DEF IInv, MemoryInv, QueueInv, RequestOK, Kind, Partitions
<1>4. SelectedInv'
  BY <1>2 DEF IInv, MemoryInv, SelectedInv
<1>5. AttemptInv'
  BY <1>1, <1>2 DEF IInv, MemoryInv, AttemptInv
<1>6. RunInv'
  BY <1>1 DEF IInv, RunInv, Live, FetchedIsReplayable, Fetched
<1> QED BY <1>3, <1>4, <1>5, <1>6 DEF IInv, MemoryInv

LEMMA CallPreserves ==
    ASSUME IInv, UNCHANGED <<source, max_pages>>,
           \/ Respond
           \/ \E o \in {"TRANSPORT_ERROR", "HTTP_ERROR", "RESPONSE_INVALID"}, r \in BOOLEAN : RespondBadly(o, r)
    PROVE  IInv'
<1>1. /\ pc = "call" /\ pc' \in {"store", "record"} /\ attemptIds' = attemptIds \cup {ObsId}
      /\ UNCHANGED <<catalog, ledger, queue, known, cur, attempt, selectedIds>>
  BY DEF Respond, RespondBadly, Call
<1>2. ConfigInv /\ ConfigInv' /\ Live /\ MemoryInv
  BY <1>1, ConfigKept DEF IInv, Live, InFlight
<1>3. attemptIds = {o.id : o \in observations}
  BY <1>1, <1>2 DEF MemoryInv, AttemptInv
<1>4. ReplyInv'
  <2>1. CASE Respond
    <3>1. PICK body \in Faithful(cur) \cup Shortened(cur) :
             reply' = [outcome |-> "SELECTED_SUCCESS", retry |-> FALSE, body |-> body]
      BY <2>1 DEF Respond
    <3>2. RequestOK(cur)
      BY <1>1, <1>2 DEF MemoryInv, QueueInv, Doing, InFlight
    <3>3. BodyOK(body)
      BY <1>2, <3>1, <3>2, AnswersAreBodies
    <3>4. reply'.outcome = "SELECTED_SUCCESS" /\ reply'.body = body
      BY <3>1
    <3> QED BY <3>3, <3>4 DEF ReplyInv, Selected, BodyOK
  <2>2. CASE \E o \in {"TRANSPORT_ERROR", "HTTP_ERROR", "RESPONSE_INVALID"}, r \in BOOLEAN : RespondBadly(o, r)
    <3>1. PICK o \in {"TRANSPORT_ERROR", "HTTP_ERROR", "RESPONSE_INVALID"}, r \in BOOLEAN : RespondBadly(o, r)
      BY <2>2
    <3>2. reply'.outcome = o /\ pc' = "record"
      BY <3>1 DEF RespondBadly
    <3> QED BY <3>1, <3>2 DEF ReplyInv, Selected
  <2> QED BY <2>1, <2>2
<1> QED BY <1>1, <1>2, <1>3, <1>4, Attempting DEF InFlight

LEMMA StorePreserves ==
    ASSUME IInv, UNCHANGED <<source, max_pages>>, StoreRaw \/ \E b \in BOOLEAN : StoreRaises(b)
    PROVE  IInv'
<1>1. /\ pc = "store" /\ pc' = "record"
      /\ UNCHANGED <<catalog, ledger, queue, known, cur, attempt, attemptIds, selectedIds>>
      /\ reply' = reply \/ reply' = [outcome |-> "STORAGE_ERROR", retry |-> FALSE, body |-> NoReply]
  BY DEF StoreRaw, StoreRaises, memory, provider
<1>2. ConfigInv' /\ Live /\ MemoryInv
  BY <1>1, ConfigKept DEF IInv, Live, InFlight
<1>3. attemptIds = {o.id : o \in observations} \cup {ObsId}
  BY <1>1, <1>2 DEF MemoryInv, AttemptInv
<1>4. ReplyInv'
  BY <1>1, <1>2 DEF MemoryInv, ReplyInv, Selected
<1> QED BY <1>1, <1>2, <1>3, <1>4, Attempting DEF InFlight

LEMMA ProviderPreserves ==
    ASSUME IInv, UNCHANGED <<source, max_pages>>, NEW p \in Partitions, NEW c \in Catalogs[p], ProviderChanges(p, c)
    PROVE  IInv'
<1>1. UNCHANGED <<ledger, pc, queue, known, cur, attempt, reply, attemptIds, selectedIds>>
  BY DEF ProviderChanges, memory
<1>2. ConfigInv'
  BY DEF IInv, ConfigInv, ProviderChanges, Partitions, Catalogs, Caps
<1>3. CASE Live
  <2>1. attemptIds = {o.id : o \in observations} \cup (IF pc \in {"store", "record"} THEN {ObsId} ELSE {})
    BY <1>3 DEF IInv, MemoryInv, AttemptInv
  <2>2. ReplyInv'
    BY <1>1, <1>3 DEF IInv, MemoryInv, ReplyInv, Selected
  <2> QED BY <1>1, <1>2, <1>3, <2>1, <2>2, Attempting
<1>4. CASE ~Live
  <2>1. ~Live' /\ RunInv'
    BY <1>1, <1>4 DEF IInv, RunInv, Live, InFlight, ledger, FetchedIsReplayable, Fetched, run_inputs, InputObs
  <2> QED BY <1>2, <2>1 DEF IInv
<1> QED BY <1>3, <1>4

LEMMA StartPreserves == ASSUME IInv, UNCHANGED <<source, max_pages>>, StartRun PROVE IInv'
<1>1. /\ pc = "start" /\ pc' = "loop" /\ run' = start_run
      /\ UNCHANGED <<catalog, requests, observations, queue, known, cur, attempt, reply, attemptIds, selectedIds>>
  BY DEF StartRun, provider, memory
<1>2. ConfigInv' /\ MemoryInv
  BY <1>1, ConfigKept DEF IInv, Live
<1>3. Done' = Done /\ Doing' = Doing /\ Queued' = Queued
  BY <1>1 DEF Done, Doing, Queued, InFlight
<1>4. MemoryInv'
  <2>1. QueueInv'
    BY <1>1, <1>2, <1>3 DEF MemoryInv, QueueInv, RequestOK, Kind, Partitions
  <2>2. SelectedInv'
    BY <1>1, <1>2, <1>3 DEF MemoryInv, SelectedInv
  <2>3. AttemptInv' /\ ReplyInv'
    BY <1>1, <1>2, <1>3 DEF MemoryInv, AttemptInv, ReplyInv, InFlight
  <2> QED BY <2>1, <2>2, <2>3 DEF MemoryInv
<1>5. RunInv'
  BY <1>1 DEF RunInv, start_run, NoRun, Fetched, FetchedIsReplayable
<1> QED BY <1>2, <1>4, <1>5 DEF IInv

\* The head of the queue moves into flight; the request is new to the ledger.
LEMMA PlanPreserves == ASSUME IInv, UNCHANGED <<source, max_pages>>, PlanRequest PROVE IInv'
<1>1. /\ pc = "loop" /\ pc' = "call" /\ queue # <<>> /\ attempt' = 1
      /\ cur' = Head(queue) /\ queue' = Tail(queue) /\ requests' = plan_request(Head(queue))
      /\ UNCHANGED <<catalog, run, observations, known, reply, attemptIds, selectedIds>>
  BY DEF PlanRequest, provider
<1>2. ConfigInv' /\ QueueInv /\ SelectedInv /\ AttemptInv /\ ~InFlight /\ InFlight'
  BY <1>1, ConfigKept DEF IInv, Live, MemoryInv, InFlight
<1>3. PICK n \in Nat \ {0} : n = Len(queue) /\ DOMAIN queue = 1..n
  BY <1>1, <1>2 DEF QueueInv
<1>4. /\ cur' = queue[1] /\ queue' \in Seq(known) /\ DOMAIN queue' = 1..(n - 1)
      /\ \A i \in 1..(n - 1) : queue'[i] = queue[i + 1]
  BY <1>1, <1>2, <1>3 DEF QueueInv
<1>5. \A i, j \in 1..n : queue[i] = queue[j] => i = j
  BY <1>2, <1>3 DEF QueueInv
<1>6. /\ Queued = {queue[i] : i \in 1..n} /\ Queued' = {queue[i + 1] : i \in 1..(n - 1)}
  BY <1>3, <1>4 DEF Queued
<1>7. cur' \in Queued /\ cur' \notin Queued' /\ Queued = Queued' \cup {cur'}
  <2>1. cur' \notin Queued'
    BY <1>3, <1>4, <1>5, <1>6
  <2>2. \A i \in 1..n : queue[i] \in Queued' \cup {cur'}
    <3> SUFFICES ASSUME NEW i \in 1..n, i # 1 PROVE queue[i] \in Queued'
      BY <1>4
    <3>1. i - 1 \in 1..(n - 1) /\ queue[i] = queue[(i - 1) + 1]
      BY <1>3
    <3> QED BY <1>6, <3>1
  <2>3. \A i \in 1..(n - 1) : queue[i + 1] \in Queued
    BY <1>3, <1>6
  <2> QED BY <1>3, <1>4, <1>6, <2>1, <2>2, <2>3
<1>8. Done' = Done /\ Doing = {} /\ Doing' = {cur'}
  BY <1>1, <1>2 DEF Done, Doing
<1>9. cur' \notin Done
  BY <1>2, <1>7 DEF QueueInv
<1>10. QueueInv'
  <2>1. \A i, j \in DOMAIN queue' : queue'[i] = queue'[j] => i = j
    <3> SUFFICES ASSUME NEW i \in 1..(n - 1), NEW j \in 1..(n - 1), queue'[i] = queue'[j] PROVE i = j
      BY <1>4
    <3>1. i + 1 \in 1..n /\ j + 1 \in 1..n
      BY <1>3
    <3>2. i + 1 = j + 1
      BY <1>4, <1>5, <3>1
    <3> QED BY <3>2
  <2>2. \A q \in known : RequestOK(q)'
    BY <1>2 DEF QueueInv, RequestOK, Kind, Partitions
  <2> QED BY <1>1, <1>2, <1>4, <1>7, <1>8, <1>9, <2>1, <2>2 DEF QueueInv
<1>11. /\ DOMAIN requests = Done /\ DOMAIN requests' = Done \cup {cur'}
       /\ \A q \in Done : requests'[q] = requests[q]
  <2>1. DOMAIN requests = Done
    BY <1>2, <1>8 DEF SelectedInv
  <2>2. requests' = [r \in DOMAIN requests \cup {cur'} |-> IF r = cur' THEN NoObs ELSE requests[r]]
    BY <1>1, <1>9, <2>1 DEF plan_request
  <2> QED BY <1>9, <2>1, <2>2
<1>12. SelectedInv'
  <2>1. \A i \in DOMAIN selectedIds : selectedIds[i][1] \in Done
    BY DEF Done
  <2> QED BY <1>1, <1>2, <1>8, <1>11, <2>1 DEF SelectedInv
<1>13. AttemptInv'
  <2>1. \A o \in observations : o.id \in Done \X Nat
    BY <1>2, <1>8 DEF AttemptInv
  <2>2. \A o \in observations : o.id \in (Done \cup {cur'}) \X Nat /\ o.id[1] # cur'
    BY <1>9, <2>1
  <2>3. attemptIds = {o.id : o \in observations}
    BY <1>1, <1>2 DEF AttemptInv
  <2> QED BY <1>1, <1>2, <1>8, <2>2, <2>3 DEF AttemptInv
<1>14. ReplyInv' /\ RunInv'
  BY <1>1, <1>2 DEF ReplyInv, RunInv, IInv, Live, InFlight, FetchedIsReplayable, Fetched
<1> QED BY <1>2, <1>10, <1>12, <1>13, <1>14 DEF IInv, MemoryInv

Distinct(q) == \A i, j \in DOMAIN q : q[i] = q[j] => i = j

\* r lists what q and s list.
Joined(r, q, s) ==
    /\ \A i \in DOMAIN r : (\E k \in DOMAIN q : r[i] = q[k]) \/ (\E k \in DOMAIN s : r[i] = s[k])
    /\ \A k \in DOMAIN q : \E i \in DOMAIN r : r[i] = q[k]
    /\ \A k \in DOMAIN s : \E i \in DOMAIN r : r[i] = s[k]

\* A queue extended by requests that are not yet known.
LEMMA Enqueued ==
    ASSUME NEW K, NEW q \in Seq(K), NEW N, N \cap K = {}, NEW s \in Seq(N),
           Distinct(q), Distinct(s), NEW r, r = q \o s
    PROVE  r \in Seq(K \cup N) /\ Distinct(r) /\ Joined(r, q, s)
<1> USE DEF Distinct
<1>1. PICK m \in Nat, n \in Nat : m = Len(q) /\ n = Len(s)
  OBVIOUS
<1>2. DOMAIN q = 1..m /\ DOMAIN s = 1..n /\ q \in Seq(K \cup N) /\ s \in Seq(K \cup N)
  BY <1>1
<1>4. /\ r \in Seq(K \cup N) /\ DOMAIN r = 1..(m + n)
      /\ \A i \in 1..(m + n) : r[i] = IF i <= m THEN q[i] ELSE s[i - m]
  <2>1. /\ q \o s \in Seq(K \cup N) /\ Len(q \o s) = Len(q) + Len(s)
        /\ \A i \in 1 .. Len(q) + Len(s) : (q \o s)[i] = IF i <= Len(q) THEN q[i] ELSE s[i - Len(q)]
    BY <1>2, ConcatProperties
  <2>2. r \in Seq(K \cup N) /\ Len(r) = m + n
    BY <1>1, <2>1
  <2> QED BY <1>1, <2>1, <2>2
<1>5. \A i \in 1..m : q[i] \in K
  BY <1>1
<1>6. \A i \in 1..n : s[i] \in N
  BY <1>1
<1>7. \A i, j \in 1..(m + n) : r[i] = r[j] => i = j
  <2> SUFFICES ASSUME NEW i \in 1..(m + n), NEW j \in 1..(m + n), r[i] = r[j] PROVE i = j
    OBVIOUS
  <2>1. CASE i <= m /\ j <= m
    BY <1>2, <1>4, <2>1
  <2>2. CASE ~(i <= m) /\ ~(j <= m)
    <3>1. i - m \in 1..n /\ j - m \in 1..n /\ s[i - m] = s[j - m]
      BY <1>4, <2>2
    <3>2. i - m = j - m
      BY <1>2, <3>1
    <3> QED BY <3>2
  <2>3. CASE (i <= m) # (j <= m)
    <3>1. \E a \in 1..m, b \in 1..n : q[a] = s[b]
      <4>1. CASE i <= m
        <5>1. i \in 1..m /\ j - m \in 1..n /\ q[i] = s[j - m]
          BY <1>4, <2>3, <4>1
        <5> QED BY <5>1
      <4>2. CASE j <= m
        <5>1. j \in 1..m /\ i - m \in 1..n /\ q[j] = s[i - m]
          BY <1>4, <2>3, <4>2
        <5> QED BY <5>1
      <4> QED BY <2>3, <4>1, <4>2
    <3> QED BY <1>5, <1>6, <3>1
  <2> QED BY <2>1, <2>2, <2>3
<1>8. \A i \in 1..(m + n) : (\E k \in 1..m : r[i] = q[k]) \/ (\E k \in 1..n : r[i] = s[k])
  <2> SUFFICES ASSUME NEW i \in 1..(m + n)
               PROVE  (\E k \in 1..m : r[i] = q[k]) \/ (\E k \in 1..n : r[i] = s[k])
    OBVIOUS
  <2>1. (i \in 1..m /\ r[i] = q[i]) \/ (i - m \in 1..n /\ r[i] = s[i - m])
    BY <1>4
  <2> QED BY <2>1
<1>9. \A k \in 1..m : \E i \in 1..(m + n) : r[i] = q[k]
  <2> SUFFICES ASSUME NEW k \in 1..m PROVE \E i \in 1..(m + n) : r[i] = q[k]
    OBVIOUS
  <2>1. k \in 1..(m + n) /\ r[k] = q[k]
    BY <1>4
  <2> QED BY <2>1
<1>10. \A k \in 1..n : \E i \in 1..(m + n) : r[i] = s[k]
  <2> SUFFICES ASSUME NEW k \in 1..n PROVE \E i \in 1..(m + n) : r[i] = s[k]
    OBVIOUS
  <2>1. k + m \in 1..(m + n) /\ ~(k + m <= m) /\ (k + m) - m = k
    OBVIOUS
  <2>2. r[k + m] = s[k]
    BY <1>4, <2>1
  <2> QED BY <2>1, <2>2
<1>11. \A i, j \in DOMAIN r : r[i] = r[j] => i = j
  BY <1>4, <1>7
<1>12. \A i \in DOMAIN r : (\E k \in DOMAIN q : r[i] = q[k]) \/ (\E k \in DOMAIN s : r[i] = s[k])
  BY <1>2, <1>4, <1>8
<1>13. /\ \A k \in DOMAIN q : \E i \in DOMAIN r : r[i] = q[k]
       /\ \A k \in DOMAIN s : \E i \in DOMAIN r : r[i] = s[k]
  BY <1>2, <1>4, <1>9, <1>10
<1> QED BY <1>4, <1>11, <1>12, <1>13 DEF Joined

\* An attempt that is recorded is a new row.
LEMMA Recorded ==
    ASSUME MemoryInv, pc = "record", record_attempt
    PROVE  /\ \E o : /\ observations' = observations \cup {o} /\ o.id = ObsId
                     /\ o.outcome = reply.outcome
           /\ \A o \in observations : o.id # ObsId
           /\ attempt \in Nat /\ cur \in DOMAIN requests /\ cur \notin Done
           /\ attemptIds = {o.id : o \in observations'}
           /\ Doing = {cur}
<1>1. PICK o : /\ observations' = observations \cup {o} /\ o.id = ObsId /\ o.outcome = reply.outcome
  <2> DEFINE o == [id |-> ObsId, outcome |-> reply.outcome, body |-> reply.body]
  <2>1. observations' = observations \cup {o} /\ o.id = ObsId /\ o.outcome = reply.outcome
    BY DEF record_attempt
  <2> QED BY <2>1
<1>2. attempt \in Nat /\ Doing = {cur} /\ InFlight
  BY DEF MemoryInv, AttemptInv, InFlight, Doing
<1>3. \A e \in observations : e.id # ObsId
  <2> SUFFICES ASSUME NEW e \in observations, e.id = ObsId PROVE FALSE
    OBVIOUS
  <2>1. e.id[1] = cur /\ e.id[2] = attempt
    BY DEF ObsId
  <2>2. e.id[2] < attempt
    BY <1>2, <2>1 DEF MemoryInv, AttemptInv
  <2> QED BY <1>2, <2>1, <2>2
<1>4. cur \in DOMAIN requests /\ cur \notin Done
  BY <1>2 DEF MemoryInv, QueueInv, SelectedInv
<1>5. attemptIds = {e.id : e \in observations} \cup {ObsId}
  BY DEF MemoryInv, AttemptInv
<1>6. attemptIds = {e.id : e \in observations'}
  BY <1>1, <1>5
<1> QED BY <1>1, <1>2, <1>3, <1>4, <1>6

LEMMA RetryPreserves ==
    ASSUME IInv, UNCHANGED <<source, max_pages>>, RecordFailure, Retries PROVE IInv'
<1>1. /\ pc = "record" /\ ~Selected /\ record_attempt /\ pc' = "call" /\ attempt' = attempt + 1
      /\ UNCHANGED <<catalog, run, requests, queue, known, cur, attemptIds, selectedIds>>
  BY DEF RecordFailure, record_attempt, provider
<1>2. ConfigInv' /\ MemoryInv /\ InFlight /\ InFlight' /\ Live
  BY <1>1, ConfigKept DEF IInv, Live, InFlight
<1>3. PICK o : observations' = observations \cup {o} /\ o.id = ObsId /\ o.outcome = reply.outcome
  BY <1>1, <1>2, Recorded
<1>4. /\ \A e \in observations : e.id # ObsId
      /\ attempt \in Nat /\ cur \in DOMAIN requests /\ cur \notin Done
      /\ attemptIds = {e.id : e \in observations'} /\ Doing = {cur}
  BY <1>1, <1>2, Recorded
<1>5. Done' = Done /\ Doing' = Doing /\ Queued' = Queued
  BY <1>1, <1>2 DEF Done, Doing, Queued
<1>6. QueueInv'
  BY <1>1, <1>2, <1>5 DEF MemoryInv, QueueInv, RequestOK, Kind, Partitions
<1>7. SelectedInv'
  BY <1>1, <1>2, <1>3, <1>5 DEF MemoryInv, SelectedInv
<1>8. AttemptInv'
  <2>1. o.outcome # "SELECTED_SUCCESS"
    BY <1>1, <1>3 DEF Selected
  <2>2. o.id[1] = cur /\ o.id[2] = attempt /\ o.id \in (Done \cup Doing) \X Nat
    BY <1>3, <1>4 DEF ObsId
  <2>3. \A e \in observations' :
          /\ e.id \in (Done \cup Doing) \X Nat
          /\ e.outcome = "SELECTED_SUCCESS" => \E i \in DOMAIN selectedIds : selectedIds[i] = e.id
          /\ e.id[1] = cur => e.id[2] < attempt + 1
    <3> SUFFICES ASSUME NEW e \in observations'
                 PROVE  /\ e.id \in (Done \cup Doing) \X Nat
                        /\ e.outcome = "SELECTED_SUCCESS" => \E i \in DOMAIN selectedIds : selectedIds[i] = e.id
                        /\ e.id[1] = cur => e.id[2] < attempt + 1
      OBVIOUS
    <3>1. CASE e = o
      BY <1>4, <2>1, <2>2, <3>1
    <3>2. CASE e \in observations
      <4>1. /\ e.id \in (Done \cup Doing) \X Nat
            /\ e.outcome = "SELECTED_SUCCESS" => \E i \in DOMAIN selectedIds : selectedIds[i] = e.id
            /\ e.id[1] = cur => e.id[2] < attempt
        BY <1>2, <3>2 DEF MemoryInv, AttemptInv
      <4>2. e.id[2] \in Nat
        BY <4>1
      <4> QED BY <1>4, <4>1, <4>2
    <3> QED BY <1>3, <3>1, <3>2
  <2>4. \A e, f \in observations' : e.id = f.id => e = f
    BY <1>2, <1>3, <1>4 DEF MemoryInv, AttemptInv
  <2> QED BY <1>1, <1>2, <1>4, <1>5, <2>3, <2>4 DEF AttemptInv
<1>9. ReplyInv' /\ RunInv'
  BY <1>1, <1>2 DEF ReplyInv, RunInv, IInv, Live, InFlight, FetchedIsReplayable, Fetched
<1> QED BY <1>2, <1>6, <1>7, <1>8, <1>9 DEF IInv, MemoryInv

\* The success is selected in the row and in memory, and what it leads to is
\* queued.
LEMMA SuccessPreserves ==
    ASSUME IInv, UNCHANGED <<source, max_pages>>, RecordSuccess,
           ~ExceedsCeiling(cur, reply.body, max_pages)
    PROVE  IInv'
<1>1. /\ pc = "record" /\ Selected /\ record_attempt /\ pc' = "loop"
      /\ selectedIds' = Append(selectedIds, ObsId) /\ enqueue(reply.body)
      /\ UNCHANGED <<catalog, run, attemptIds>>
      /\ requests' = [requests EXCEPT ![cur] = ObsId]
  BY DEF RecordSuccess, record_attempt, provider
<1>2. ConfigInv /\ ConfigInv' /\ MemoryInv /\ InFlight /\ ~InFlight' /\ Live
  BY <1>1, ConfigKept DEF IInv, Live, InFlight
<1>3. PICK o : observations' = observations \cup {o} /\ o.id = ObsId /\ o.outcome = "SELECTED_SUCCESS"
  BY <1>1, <1>2, Recorded DEF Selected
<1>4. /\ \A e \in observations : e.id # ObsId
      /\ attempt \in Nat /\ cur \in DOMAIN requests /\ cur \notin Done
      /\ attemptIds = {e.id : e \in observations'} /\ Doing = {cur}
  BY <1>1, <1>2, Recorded
<1>5. PICK rem : rem = remaining_requests(cur, reply.body, max_pages)
  OBVIOUS
<1>6. PICK s \in InOrder(rem \ known) : queue' = queue \o s /\ known' = known \cup rem
  BY <1>1, <1>5 DEF enqueue
<1>7. IsFiniteSet(rem) /\ \A q \in rem : RequestOK(q)
  <2>1. RequestOK(cur) /\ BodyOK(reply.body)
    BY <1>1, <1>2, <1>4 DEF MemoryInv, QueueInv, ReplyInv
  <2>2. /\ IsFiniteSet(remaining_requests(cur, reply.body, max_pages))
        /\ \A r \in remaining_requests(cur, reply.body, max_pages) : RequestOK(r)
    BY <1>2, <2>1, PlanIsFinite
  <2> QED BY <1>5, <2>2
<1> DEFINE N == rem \ known
<1>8. /\ s \in Seq(N) /\ {s[i] : i \in DOMAIN s} = N
      /\ \A i, j \in DOMAIN s : s[i] = s[j] => i = j
  <2>1. IsFiniteSet(N)
    BY <1>7, FS_Subset
  <2> QED BY <1>6, <2>1, OrderIsSequence
<1>9. N \cap known = {} /\ known' = known \cup N
  BY <1>6
<1> HIDE DEF N
<1>10. /\ queue' \in Seq(known') /\ \A i, j \in DOMAIN queue' : queue'[i] = queue'[j] => i = j
       /\ Queued' = Queued \cup N
  <2>1. queue \in Seq(known) /\ \A i, j \in DOMAIN queue : queue[i] = queue[j] => i = j
    BY <1>2 DEF MemoryInv, QueueInv
  <2>2. s \in Seq(N) /\ Distinct(s) /\ Distinct(queue)
    BY <1>8, <2>1 DEF Distinct
  <2>3. N \cap known = {}
    BY <1>9
  <2>4. PICK q : q = queue'
    OBVIOUS
  <2>5. q = queue \o s
    BY <1>6, <2>4
  <2>6. q \in Seq(known \cup N) /\ Distinct(q) /\ Joined(q, queue, s)
    BY ONLY <2>1, <2>2, <2>3, <2>5, Enqueued
  <2>7. queue' \in Seq(known') /\ \A i, j \in DOMAIN queue' : queue'[i] = queue'[j] => i = j
    BY <1>9, <2>4, <2>6 DEF Distinct
  <2>8. Queued = {queue[i] : i \in DOMAIN queue} /\ Queued' = {q[i] : i \in DOMAIN q}
    BY <2>4 DEF Queued
  <2>9. Queued' \subseteq Queued \cup N
    BY <1>8, <2>6, <2>8 DEF Joined
  <2>10. Queued \subseteq Queued'
    BY <2>6, <2>8 DEF Joined
  <2>11. N \subseteq Queued'
    BY <1>8, <2>6, <2>8 DEF Joined
  <2> QED BY <2>7, <2>9, <2>10, <2>11
<1>11. PICK n \in Nat : n = Len(selectedIds) /\ DOMAIN selectedIds = 1..n
  BY <1>2 DEF MemoryInv, SelectedInv
<1>12. /\ selectedIds' \in Seq(known' \X Nat) /\ DOMAIN selectedIds' = 1..(n + 1)
       /\ \A i \in 1..n : selectedIds'[i] = selectedIds[i]
       /\ selectedIds'[n + 1] = ObsId
  <2>1. cur \in known /\ ObsId \in known \X Nat
    BY <1>2, <1>4 DEF MemoryInv, QueueInv, ObsId
  <2>2. selectedIds \in Seq(known' \X Nat) /\ ObsId \in known' \X Nat
    BY <1>2, <1>9, <2>1 DEF MemoryInv, SelectedInv
  <2>3. /\ Append(selectedIds, ObsId) \in Seq(known' \X Nat)
        /\ Len(Append(selectedIds, ObsId)) = Len(selectedIds) + 1
        /\ \A i \in 1..Len(selectedIds) : Append(selectedIds, ObsId)[i] = selectedIds[i]
        /\ Append(selectedIds, ObsId)[Len(selectedIds) + 1] = ObsId
    BY <2>2, AppendProperties
  <2>4. /\ selectedIds' \in Seq(known' \X Nat) /\ Len(selectedIds') = n + 1
        /\ \A i \in 1..n : selectedIds'[i] = selectedIds[i] /\ selectedIds'[n + 1] = ObsId
    BY <1>1, <1>11, <2>3
  <2>5. selectedIds'[n + 1] = ObsId
    BY <1>1, <1>11, <2>3
  <2> QED BY <2>4, <2>5
<1>13. ObsId[1] = cur /\ ObsId[2] = attempt
  BY DEF ObsId
<1>14. Done' = Done \cup {cur} /\ Doing' = {}
  <2>1. Done = {selectedIds[i][1] : i \in 1..n} /\ Done' = {selectedIds'[i][1] : i \in 1..(n + 1)}
    BY <1>11, <1>12 DEF Done
  <2>2. \A i \in 1..(n + 1) : selectedIds'[i][1] \in Done \cup {cur}
    <3> SUFFICES ASSUME NEW i \in 1..(n + 1) PROVE selectedIds'[i][1] \in Done \cup {cur}
      OBVIOUS
    <3>1. i \in 1..n \/ i = n + 1
      OBVIOUS
    <3> QED BY <1>12, <1>13, <2>1, <3>1
  <2>3. \A i \in 1..n : selectedIds[i][1] \in Done'
    <3> SUFFICES ASSUME NEW i \in 1..n PROVE selectedIds[i][1] \in Done'
      OBVIOUS
    <3>1. i \in 1..(n + 1) /\ selectedIds'[i] = selectedIds[i]
      BY <1>12
    <3> QED BY <2>1, <3>1
  <2>4. cur \in Done'
    <3>1. n + 1 \in 1..(n + 1) /\ selectedIds'[n + 1][1] = cur
      BY <1>12, <1>13
    <3> QED BY <2>1, <3>1
  <2>5. Done' \subseteq Done \cup {cur} /\ Done \subseteq Done'
    BY <2>1, <2>2, <2>3
  <2> QED BY <1>2, <2>4, <2>5 DEF Doing
<1>15. QueueInv'
  <2>1. \A q \in known' : RequestOK(q)'
    BY <1>2, <1>6, <1>7 DEF MemoryInv, QueueInv, RequestOK, Kind, Partitions
  <2>2. /\ known = Done \cup {cur} \cup Queued /\ known # {} /\ Queued \cap (Done \cup {cur}) = {}
    BY <1>2, <1>4 DEF MemoryInv, QueueInv
  <2>3. /\ known' = Done' \cup Doing' \cup Queued' /\ known' # {}
        /\ Queued' \cap (Done' \cup Doing') = {} /\ Done' \cap Doing' = {}
    BY <1>9, <1>10, <1>14, <2>2
  <2> QED BY <1>10, <2>1, <2>3 DEF QueueInv
<1>16. SelectedInv'
  <2>1. \A i, j \in 1..(n + 1) : selectedIds'[i][1] = selectedIds'[j][1] => i = j
    <3> SUFFICES ASSUME NEW i \in 1..(n + 1), NEW j \in 1..(n + 1), selectedIds'[i][1] = selectedIds'[j][1]
                 PROVE  i = j
      OBVIOUS
    <3>1. (i \in 1..n \/ i = n + 1) /\ (j \in 1..n \/ j = n + 1)
      OBVIOUS
    <3>2. \A k \in 1..n : selectedIds'[k][1] # cur
      BY <1>4, <1>11, <1>12 DEF Done
    <3>3. \A k, l \in 1..n : selectedIds'[k][1] = selectedIds'[l][1] => k = l
      <4> SUFFICES ASSUME NEW k \in 1..n, NEW l \in 1..n, selectedIds'[k][1] = selectedIds'[l][1] PROVE k = l
        OBVIOUS
      <4>1. selectedIds[k][1] = selectedIds[l][1]
        BY <1>12
      <4> QED BY <1>2, <1>11, <4>1 DEF MemoryInv, SelectedInv
    <3> QED BY <1>12, <1>13, <3>1, <3>2, <3>3
  <2>2. /\ DOMAIN requests' = Done' \cup Doing' /\ requests'[cur] = ObsId
        /\ \A q \in DOMAIN requests : q # cur => requests'[q] = requests[q]
    BY <1>1, <1>2, <1>4, <1>14 DEF MemoryInv, SelectedInv
  <2>3. \A i \in 1..(n + 1) :
          /\ requests'[selectedIds'[i][1]] = selectedIds'[i]
          /\ \E e \in observations' : e.id = selectedIds'[i] /\ e.outcome = "SELECTED_SUCCESS"
    <3> SUFFICES ASSUME NEW i \in 1..(n + 1)
                 PROVE  /\ requests'[selectedIds'[i][1]] = selectedIds'[i]
                        /\ \E e \in observations' : e.id = selectedIds'[i] /\ e.outcome = "SELECTED_SUCCESS"
      OBVIOUS
    <3>1. CASE i = n + 1
      BY <1>3, <1>12, <1>13, <2>2, <3>1
    <3>2. CASE i \in 1..n
      <4>1. /\ selectedIds[i][1] \in DOMAIN requests /\ selectedIds[i][1] # cur
            /\ requests[selectedIds[i][1]] = selectedIds[i]
            /\ \E e \in observations : e.id = selectedIds[i] /\ e.outcome = "SELECTED_SUCCESS"
        BY <1>2, <1>4, <1>11, <3>2 DEF MemoryInv, SelectedInv, Done
      <4> QED BY <1>3, <1>12, <2>2, <3>2, <4>1
    <3>3. i \in 1..n \/ i = n + 1
      OBVIOUS
    <3> QED BY <3>1, <3>2, <3>3
  <2> QED BY <1>12, <2>1, <2>2, <2>3 DEF SelectedInv
<1>17. AttemptInv'
  <2>1. \A e \in observations' :
          /\ e.id \in Done' \X Nat
          /\ e.outcome = "SELECTED_SUCCESS" => \E i \in 1..(n + 1) : selectedIds'[i] = e.id
    <3> SUFFICES ASSUME NEW e \in observations'
                 PROVE  /\ e.id \in Done' \X Nat
                        /\ e.outcome = "SELECTED_SUCCESS" => \E i \in 1..(n + 1) : selectedIds'[i] = e.id
      OBVIOUS
    <3>1. CASE e = o
      <4>1. n + 1 \in 1..(n + 1) /\ selectedIds'[n + 1] = e.id
        BY <1>3, <1>12, <3>1
      <4>2. e.id \in Done' \X Nat
        <5>1. e.id = <<cur, attempt>>
          BY <1>3, <3>1 DEF ObsId
        <5>2. cur \in Done'
          BY <1>14
        <5> HIDE DEF Done
        <5> QED BY <1>4, <5>1, <5>2
      <4> QED BY <4>1, <4>2
    <3>2. CASE e \in observations
      <4>1. /\ e.id \in (Done \cup {cur}) \X Nat
            /\ e.outcome = "SELECTED_SUCCESS" => \E i \in DOMAIN selectedIds : selectedIds[i] = e.id
        BY <1>2, <1>4, <3>2 DEF MemoryInv, AttemptInv
      <4>2. e.outcome = "SELECTED_SUCCESS" => \E i \in 1..(n + 1) : selectedIds'[i] = e.id
        <5> SUFFICES ASSUME e.outcome = "SELECTED_SUCCESS" PROVE \E i \in 1..(n + 1) : selectedIds'[i] = e.id
          OBVIOUS
        <5>1. PICK i \in 1..n : selectedIds[i] = e.id
          BY <1>11, <4>1
        <5>2. i \in 1..(n + 1) /\ selectedIds'[i] = e.id
          BY <1>12, <5>1
        <5> QED BY <5>2
      <4> QED BY <1>14, <4>1, <4>2
    <3> QED BY <1>3, <3>1, <3>2
  <2>2. \A e, f \in observations' : e.id = f.id => e = f
    BY <1>2, <1>3, <1>4 DEF MemoryInv, AttemptInv
  <2>3. attemptIds' = {e.id : e \in observations'}
    BY <1>1, <1>4
  <2> QED BY <1>1, <1>2, <1>12, <1>14, <2>1, <2>2, <2>3 DEF AttemptInv
<1>18. ReplyInv' /\ RunInv'
  BY <1>1, <1>2 DEF ReplyInv, RunInv, IInv, Live, InFlight, FetchedIsReplayable, Fetched
<1> QED BY <1>2, <1>15, <1>16, <1>17, <1>18 DEF IInv, MemoryInv

\* The steps that end in an exception, before the run is closed.
LEMMA ExceptionPreserves ==
    ASSUME IInv, UNCHANGED <<source, max_pages>>,
           \/ CallRefused
           \/ RecordSuccess /\ ExceedsCeiling(cur, reply.body, max_pages)
           \/ RecordFailure /\ ~Retries
           \/ \E b \in BOOLEAN : PlanRaises(b) \/ RecordRaises(b)
    PROVE  IInv'
<1>1. UNCHANGED <<catalog, run>> /\ pc' = "failing" /\ pc \in {"loop", "call", "record"}
  BY DEF CallRefused, RecordSuccess, RecordFailure, PlanRaises, RecordRaises, EndAt, record_attempt,
         provider, ledger
<1>2. ConfigInv' /\ Live
  BY <1>1, ConfigKept DEF IInv, Live, InFlight
<1> QED BY <1>1, <1>2, StillOpen

LEMMA StartRaisesPreserves ==
    ASSUME IInv, UNCHANGED <<source, max_pages>>, \E b \in BOOLEAN : StartRaises(b) PROVE IInv'
<1>1. /\ pc = "start" /\ pc' = "raised" /\ UNCHANGED catalog
      /\ run' = run \/ run' = start_run
  BY DEF StartRaises, EndAt, provider
<1>2. ConfigInv' /\ Live /\ run = NoRun
  BY <1>1, ConfigKept DEF IInv, RunInv, Live
<1>3. DOMAIN run' = DOMAIN run /\ run'.stage # "FETCHED"
  <2>1. run'.stage \in {"NONE", "FETCHING"}
    <3>1. NoRun.stage = "NONE" /\ DOMAIN NoRun = {"state", "stage", "planned", "successful", "attempts", "selected"}
      BY DEF NoRun
    <3>2. start_run.stage = "FETCHING"
      BY <3>1 DEF start_run
    <3> QED BY <1>1, <1>2, <3>1, <3>2
  <2>2. DOMAIN run' = DOMAIN run
    BY <1>1, <1>2 DEF NoRun, start_run
  <2> QED BY <2>1, <2>2
<1> QED BY <1>1, <1>2, <1>3, EngineEnds DEF FetchedIsReplayable, Fetched

LEMMA CrashPreserves == ASSUME IInv, UNCHANGED <<source, max_pages>>, Crash PROVE IInv'
<1>1. pc' = "dead" /\ UNCHANGED <<catalog, run, requests, observations>>
  BY DEF Crash, EndAt, provider, ledger
<1>2. ConfigInv'
  BY <1>1, ConfigKept DEF IInv
<1>3. FetchedIsReplayable'
  BY <1>1 DEF IInv, RunInv, FetchedIsReplayable, Fetched, run_inputs, InputObs
<1> QED BY <1>1, <1>2, <1>3, EngineEnds

LEMMA InitSatisfies == Init => IInv
<1> SUFFICES ASSUME Init PROVE IInv
  OBVIOUS
<1>1. ConfigInv
  <2>1. \A p \in Partitions : catalog[p] \in Catalogs[p]
    BY DEF Init
  <2>2. DOMAIN catalog = Partitions
    BY DEF Init
  <2> QED BY <2>1, <2>2 DEF Init, ConfigInv
<1>2. /\ PageBase \in {0, 1} /\ IsFiniteSet(Partitions) /\ Partitions # {}
  BY <1>1, SourceFacts
<1>3. IsFiniteSet(initial_requests)
  <2> DEFINE f == [p \in Partitions |-> Request(p, PageBase, 0)]
  <2>1. initial_requests = {f[p] : p \in Partitions} /\ DOMAIN f = Partitions
    BY DEF initial_requests
  <2> HIDE DEF f
  <2> QED BY <1>2, <2>1, FiniteImage
<1>4. initial_requests # {} /\ \A q \in initial_requests : RequestOK(q)
  <2>1. initial_requests # {}
    BY <1>2 DEF initial_requests
  <2>2. ASSUME NEW q \in initial_requests PROVE RequestOK(q)
    <3>1. PICK p \in Partitions : q = [part |-> p, page |-> PageBase, ord |-> 0]
      BY DEF initial_requests, Request
    <3>2. q.part = p /\ q.page = PageBase /\ q.ord = 0 /\ PageBase \in Int
      BY <1>2, <3>1
    <3> QED BY <3>1, <3>2 DEF RequestOK, Request
  <2> QED BY <2>1, <2>2
<1>5. /\ queue \in Seq(known) /\ Queued = known
      /\ \A i, j \in DOMAIN queue : queue[i] = queue[j] => i = j
  <2>1. queue \in InOrder(initial_requests) /\ known = initial_requests
    BY DEF Init
  <2>2. /\ queue \in Seq(initial_requests) /\ {queue[i] : i \in DOMAIN queue} = initial_requests
        /\ \A i, j \in DOMAIN queue : queue[i] = queue[j] => i = j
    BY <1>3, <2>1, OrderIsSequence
  <2> QED BY <2>1, <2>2 DEF Queued
<1>6. /\ pc = "start" /\ selectedIds = <<>> /\ requests = <<>> /\ observations = {} /\ attemptIds = {}
      /\ run = NoRun /\ known = initial_requests
  BY DEF Init
<1>7. Done = {} /\ Doing = {} /\ ~InFlight
  BY <1>6 DEF Done, Doing, InFlight
<1>8. QueueInv
  BY <1>4, <1>5, <1>6, <1>7 DEF QueueInv
<1>9. SelectedInv
  BY <1>6, <1>7 DEF SelectedInv
<1>10. AttemptInv /\ ReplyInv
  BY <1>6, <1>7 DEF AttemptInv, ReplyInv
<1>11. RunInv
  BY <1>6 DEF RunInv, NoRun, Fetched, FetchedIsReplayable
<1> QED BY <1>1, <1>8, <1>9, <1>10, <1>11 DEF IInv, MemoryInv

LEMMA StutterPreserves == ASSUME IInv, UNCHANGED vars PROVE IInv'
<1>1. /\ UNCHANGED <<source, max_pages, catalog, run, requests, observations, pc, queue, known, cur,
                     attempt, reply, attemptIds, selectedIds>>
  BY DEF vars, provider, ledger, memory
<1>2. ConfigInv'
  BY <1>1, ConfigKept DEF IInv
<1>3. CASE Live
  <2>1. attemptIds = {o.id : o \in observations} \cup (IF pc \in {"store", "record"} THEN {ObsId} ELSE {})
    BY <1>3 DEF IInv, MemoryInv, AttemptInv
  <2>2. ReplyInv'
    BY <1>1, <1>3 DEF IInv, MemoryInv, ReplyInv, Selected, BodyOK
  <2>3. UNCHANGED ledger
    BY <1>1 DEF ledger
  <2> QED BY <1>1, <1>2, <1>3, <2>1, <2>2, <2>3, Attempting
<1>4. CASE ~Live
  <2>1. ~Live' /\ RunInv'
    BY <1>1, <1>4 DEF IInv, RunInv, Live, InFlight, FetchedIsReplayable, Fetched, run_inputs, InputObs
  <2> QED BY <1>2, <2>1 DEF IInv
<1> QED BY <1>3, <1>4

LEMMA Inductive == ASSUME IInv, [Next]_vars PROVE IInv'
<1>1. CASE UNCHANGED vars
  BY <1>1, StutterPreserves
<1>2. CASE Next
  <2>1. UNCHANGED <<source, max_pages>>
    BY <1>2 DEF Next
  <2>2. CASE Crash
    BY <2>1, <2>2, CrashPreserves
  <2>3. CASE \E p \in Partitions : \E c \in Catalogs[p] : ProviderChanges(p, c)
    BY <2>1, <2>3, ProviderPreserves
  <2>4. CASE StartRun
    BY <2>1, <2>4, StartPreserves
  <2>5. CASE PlanRequest
    BY <2>1, <2>5, PlanPreserves
  <2>6. CASE Respond \/ \E o \in {"TRANSPORT_ERROR", "HTTP_ERROR", "RESPONSE_INVALID"}, r \in BOOLEAN :
                           RespondBadly(o, r)
    BY <2>1, <2>6, CallPreserves
  <2>7. CASE StoreRaw \/ \E b \in BOOLEAN : StoreRaises(b)
    BY <2>1, <2>7, StorePreserves
  <2>8. CASE RecordSuccess
    BY <2>1, <2>8, SuccessPreserves, ExceptionPreserves
  <2>9. CASE RecordFailure
    BY <2>1, <2>9, RetryPreserves, ExceptionPreserves
  <2>10. CASE CallRefused \/ \E b \in BOOLEAN : PlanRaises(b) \/ RecordRaises(b)
    BY <2>1, <2>10, ExceptionPreserves
  <2>11. CASE Complete \/ \E b \in BOOLEAN : CompleteRaises(b)
    BY <2>1, <2>11, CompletePreserves
  <2>12. CASE Fail \/ \E b \in BOOLEAN : FailRaises(b)
    BY <2>1, <2>12, FailPreserves
  <2>13. CASE \E b \in BOOLEAN : StartRaises(b)
    BY <2>1, <2>13, StartRaisesPreserves
  <2> QED BY <1>2, <2>2, <2>3, <2>4, <2>5, <2>6, <2>7, <2>8, <2>9, <2>10, <2>11, <2>12, <2>13
          DEF Next, Engine
<1> QED BY <1>1, <1>2

-----------------------------------------------------------------------------
(* The theorems.                                                           *)

\* The engine's memory and the ledger's rows agree at every point of
\* FetchEngine.run where it has not yet raised, whatever raised, committed or
\* changed at the provider before.
THEOREM Invariance == Spec => []IInv
<1>1. Init => IInv
  BY InitSatisfies
<1>2. IInv /\ [Next]_vars => IInv'
  BY Inductive
<1> QED BY <1>1, <1>2, PTL DEF Spec

\* A run that mark_fetch_complete closed always passes the manifest check of
\* run_inputs: for every source, page size, catalogue and retry limit.
THEOREM ManifestIsTrue == Spec => []FetchedIsReplayable
<1>1. IInv => FetchedIsReplayable
  BY DEF IInv, RunInv
<1> QED BY <1>1, Invariance, PTL

-----------------------------------------------------------------------------
(* The evidence a closed run holds.                                        *)

\* A stored success answers its request, and is stored once.
EvidenceInv ==
    /\ \A o \in observations :
          o.outcome = "SELECTED_SUCCESS" =>
             /\ RequestOK(o.id[1]) /\ BodyOK(o.body)
             /\ IsDetail(o.id[1]) => Identities(o.body) = {o.id[1].part}
    /\ \A o, e \in observations : o.id = e.id => o = e

AnswerInv ==
    pc \in {"store", "record"} /\ Selected /\ IsDetail(cur) => Identities(reply.body) = {cur.part}

\* The first page of every partition is planned, and fetched when the run closes.
PlanInv ==
    /\ Live => initial_requests \subseteq known
    /\ Fetched => /\ initial_requests \subseteq DOMAIN requests
                  /\ \A q \in DOMAIN requests : \E o \in InputObs : o.id[1] = q

RowsInv == EvidenceInv /\ AnswerInv /\ PlanInv

\* What a step does to the evidence and to the plan.
Moves ==
    /\ UNCHANGED source
    /\ observations' = observations \/ (pc = "record" /\ record_attempt)
    /\ Live' => Live /\ known \subseteq known'
    /\ pc' \in {"store", "record"} =>
          \/ pc \in {"store", "record"} /\ UNCHANGED <<reply, cur>>
          \/ Respond
          \/ reply'.outcome # "SELECTED_SUCCESS"
    /\ Fetched' => /\ UNCHANGED <<requests, observations>>
                   /\ Fetched \/ (pc = "loop" /\ queue = <<>>)

LEMMA StepMoves == ASSUME IInv, IInv', [Next]_vars PROVE Moves
<1> USE DEF Live, InFlight, Fetched, provider, ledger, memory
<1>1. (Live => ~Fetched) /\ (Live' => ~Fetched')
  BY DEF IInv, RunInv
<1>2. CASE UNCHANGED vars
  BY <1>2 DEF Moves, vars
<1>3. CASE Next
  <2>1. UNCHANGED <<source, max_pages>>
    BY <1>3 DEF Next
  <2>2. CASE Crash
    BY <1>1, <2>1, <2>2 DEF Moves, Crash, EndAt
  <2>3. CASE \E p \in Partitions : \E c \in Catalogs[p] : ProviderChanges(p, c)
    BY <1>1, <2>1, <2>3 DEF Moves, ProviderChanges
  <2>4. CASE StartRun
    BY <1>1, <2>1, <2>4 DEF Moves, StartRun
  <2>5. CASE PlanRequest
    BY <1>1, <2>1, <2>5 DEF Moves, PlanRequest
  <2>6. CASE Respond
    BY <1>1, <2>1, <2>6 DEF Moves, Respond, Call
  <2>7. CASE \E o \in {"TRANSPORT_ERROR", "HTTP_ERROR", "RESPONSE_INVALID"}, r \in BOOLEAN : RespondBadly(o, r)
    <3>1. PICK o \in {"TRANSPORT_ERROR", "HTTP_ERROR", "RESPONSE_INVALID"}, r \in BOOLEAN : RespondBadly(o, r)
      BY <2>7
    <3>2. reply'.outcome = o /\ pc = "call" /\ pc' = "record" /\ UNCHANGED <<known, run, requests, observations>>
      BY <3>1 DEF RespondBadly, Call
    <3> QED BY <1>1, <2>1, <3>1, <3>2 DEF Moves
  <2>8. CASE StoreRaw
    BY <1>1, <2>1, <2>8 DEF Moves, StoreRaw
  <2>9. CASE \E b \in BOOLEAN : StoreRaises(b)
    <3>1. reply'.outcome = "STORAGE_ERROR" /\ pc = "store" /\ pc' = "record" /\ UNCHANGED <<known, run, requests, observations>>
      BY <2>9 DEF StoreRaises
    <3> QED BY <1>1, <2>1, <3>1 DEF Moves
  <2>10. CASE RecordSuccess
    <3>1. pc = "record" /\ record_attempt /\ run' = run /\ (pc' = "failing" \/ (pc' = "loop" /\ known \subseteq known'))
      BY <2>10 DEF RecordSuccess, record_attempt, enqueue, EndAt
    <3> QED BY <1>1, <2>1, <3>1 DEF Moves
  <2>11. CASE RecordFailure
    <3>1. pc = "record" /\ record_attempt /\ run' = run /\ (pc' = "failing" \/ (pc' = "call" /\ known' = known))
      BY <2>11 DEF RecordFailure, record_attempt, EndAt
    <3> QED BY <1>1, <2>1, <3>1 DEF Moves
  <2>12. CASE \E b \in BOOLEAN : RecordRaises(b)
    <3>1. pc = "record" /\ (record_attempt \/ observations' = observations) /\ run' = run /\ pc' = "failing"
      BY <2>12 DEF RecordRaises, record_attempt, EndAt
    <3> QED BY <1>1, <2>1, <3>1 DEF Moves
  <2>13. CASE CallRefused \/ \E b \in BOOLEAN : PlanRaises(b)
    <3>1. pc \in {"call", "loop"} /\ observations' = observations /\ run' = run /\ pc' = "failing"
      BY <2>13 DEF CallRefused, PlanRaises, EndAt
    <3> QED BY <1>1, <2>1, <3>1 DEF Moves
  <2>14. CASE Complete \/ \E b \in BOOLEAN : CompleteRaises(b)
    <3>1. /\ pc = "loop" /\ queue = <<>> /\ UNCHANGED <<requests, observations>> /\ pc' \in {"done", "failing"}
      BY <2>14 DEF Complete, CompleteRaises, EndAt
    <3> QED BY <1>1, <2>1, <3>1 DEF Moves
  <2>15. CASE Fail \/ \E b \in BOOLEAN : FailRaises(b)
    <3>1. /\ UNCHANGED <<requests, observations>> /\ pc' = "raised" /\ (run' = run \/ run' = fail_run)
      BY <2>15 DEF Fail, FailRaises, EndAt
    <3>2. run' = run \/ run'.state = "FAILED"
      BY <3>1 DEF fail_run, IInv, RunInv
    <3> QED BY <1>1, <2>1, <3>1, <3>2 DEF Moves
  <2>16. CASE \E b \in BOOLEAN : StartRaises(b)
    <3>1. /\ UNCHANGED <<requests, observations>> /\ pc = "start" /\ pc' = "raised" /\ (run' = run \/ run' = start_run)
      BY <2>16 DEF StartRaises, EndAt
    <3>2. start_run.stage = "FETCHING"
      BY DEF start_run, NoRun
    <3> QED BY <1>1, <2>1, <3>1, <3>2 DEF Moves
  <2> QED BY <1>3, <2>2, <2>3, <2>4, <2>5, <2>6, <2>7, <2>8, <2>9, <2>10, <2>11, <2>12, <2>13, <2>14,
             <2>15, <2>16 DEF Next, Engine
<1> QED BY <1>2, <1>3

LEMMA SourceKept ==
    ASSUME UNCHANGED source
    PROVE  /\ initial_requests' = initial_requests
           /\ \A q : RequestOK(q)' = RequestOK(q) /\ IsDetail(q)' = IsDetail(q)
BY DEF initial_requests, Partitions, PageBase, Kind, RequestOK, IsDetail

LEMMA EvidenceKept ==
    ASSUME IInv, RowsInv, Moves PROVE EvidenceInv'
<1>1. \A q : RequestOK(q)' = RequestOK(q) /\ IsDetail(q)' = IsDetail(q)
  BY SourceKept DEF Moves
<1>2. CASE observations' = observations
  BY <1>1, <1>2 DEF RowsInv, EvidenceInv
<1>3. CASE pc = "record" /\ record_attempt
  <2>1. MemoryInv
    BY <1>3 DEF IInv, Live, InFlight
  <2>2. PICK o : o = [id |-> ObsId, outcome |-> reply.outcome, body |-> reply.body]
    OBVIOUS
  <2>3. observations' = observations \cup {o} /\ o.id = ObsId /\ o.outcome = reply.outcome /\ o.body = reply.body
    BY <1>3, <2>2 DEF record_attempt
  <2>4. \A e \in observations : e.id # ObsId
    BY <1>3, <2>1, Recorded
  <2>5. o.id[1] = cur
    BY <2>3 DEF ObsId
  <2>6. ASSUME o.outcome = "SELECTED_SUCCESS"
        PROVE  /\ RequestOK(cur) /\ BodyOK(reply.body)
               /\ IsDetail(cur) => Identities(reply.body) = {cur.part}
    <3>1. Selected
      BY <2>3, <2>6 DEF Selected
    <3>2. RequestOK(cur)
      BY <1>3, <2>1 DEF MemoryInv, QueueInv, Doing, InFlight
    <3>3. BodyOK(reply.body)
      BY <1>3, <2>1, <3>1 DEF MemoryInv, ReplyInv
    <3> QED BY <1>3, <3>1, <3>2, <3>3 DEF RowsInv, AnswerInv
  <2>7. \A e \in observations' :
          e.outcome = "SELECTED_SUCCESS" =>
             /\ RequestOK(e.id[1]) /\ BodyOK(e.body)
             /\ IsDetail(e.id[1]) => Identities(e.body) = {e.id[1].part}
    BY <2>3, <2>5, <2>6 DEF RowsInv, EvidenceInv
  <2>8. \A e, f \in observations' : e.id = f.id => e = f
    BY <2>3, <2>4 DEF RowsInv, EvidenceInv
  <2> QED BY <1>1, <2>7, <2>8 DEF EvidenceInv
<1> QED BY <1>2, <1>3 DEF Moves

LEMMA AnswerKept == ASSUME IInv, RowsInv, Moves PROVE AnswerInv'
<1>1. \A q : IsDetail(q)' = IsDetail(q)
  BY SourceKept DEF Moves
<1> SUFFICES ASSUME (pc \in {"store", "record"} /\ Selected /\ IsDetail(cur))'
             PROVE  (Identities(reply.body) = {cur.part})'
  BY DEF AnswerInv
<1>2. reply'.outcome = "SELECTED_SUCCESS"
  BY DEF Selected
<1>3. CASE pc \in {"store", "record"} /\ UNCHANGED <<reply, cur>>
  BY <1>1, <1>3 DEF RowsInv, AnswerInv, Selected, Identities, IsDetail, Kind, Partitions, Moves
<1>4. CASE Respond
  <2>1. PICK body : validate_response(cur, body) /\ reply' = [outcome |-> "SELECTED_SUCCESS", retry |-> FALSE, body |-> body]
    BY <1>4 DEF Respond
  <2>2. cur' = cur /\ reply'.body = body
    BY <1>4, <2>1 DEF Respond, Call
  <2>3. IsDetail(cur)
    BY <2>2 DEF IsDetail, Kind, Partitions, Moves
  <2>4. Identities(body) = {cur.part}
    BY <2>1, <2>3 DEF validate_response, IsDetail
  <2> QED BY <2>2, <2>4 DEF Identities
<1> QED BY <1>2, <1>3, <1>4 DEF Moves

LEMMA PlanKept == ASSUME IInv, RowsInv, Moves PROVE PlanInv'
<1>1. initial_requests' = initial_requests
  BY SourceKept DEF Moves
<1>2. Live' => (initial_requests \subseteq known)'
  BY <1>1 DEF Moves, RowsInv, PlanInv
<1>3. ASSUME Fetched' PROVE /\ initial_requests \subseteq DOMAIN requests
                            /\ \A q \in DOMAIN requests : \E o \in InputObs : o.id[1] = q
  <2>1. CASE Fetched
    BY <2>1 DEF RowsInv, PlanInv
  <2>2. CASE pc = "loop" /\ queue = <<>>
    <3>1. MemoryInv /\ Live
      BY <2>2 DEF IInv, Live
    <3>2. DOMAIN requests = known
      BY <2>2, <3>1, ManifestAgrees
    <3>3. initial_requests \subseteq known
      BY <3>1 DEF RowsInv, PlanInv
    <3>4. ASSUME NEW q \in DOMAIN requests PROVE \E o \in InputObs : o.id[1] = q
      <4>1. Doing = {}
        BY <2>2 DEF Doing, InFlight
      <4>2. PICK i \in DOMAIN selectedIds : q = selectedIds[i][1]
        BY <3>1, <4>1 DEF MemoryInv, SelectedInv, Done
      <4>3. PICK o \in observations : o.id = selectedIds[i] /\ o.outcome = "SELECTED_SUCCESS"
        BY <3>1 DEF MemoryInv, SelectedInv
      <4>4. requests[q] = selectedIds[i]
        BY <3>1, <4>2 DEF MemoryInv, SelectedInv
      <4>5. o \in InputObs /\ o.id[1] = q
        BY <4>2, <4>3, <4>4 DEF InputObs
      <4> QED BY <4>5
    <3> QED BY <3>2, <3>3, <3>4
  <2> QED BY <1>3, <2>1, <2>2 DEF Moves
<1>4. Fetched' => UNCHANGED <<requests, observations>>
  BY DEF Moves
<1>5. Fetched' => InputObs' = InputObs
  BY <1>4 DEF InputObs
<1> QED BY <1>1, <1>2, <1>3, <1>4, <1>5 DEF PlanInv

\* FetchEngine.run: every success in the rows answers its request and is there
\* once, and a closed run has one for every request, the first page of every
\* partition among them.
THEOREM EvidenceIsSound == Spec => []RowsInv
<1>1. Init => RowsInv
  BY DEF Init, RowsInv, EvidenceInv, AnswerInv, PlanInv, NoRun, Fetched
<1>2. IInv /\ IInv' /\ RowsInv /\ [Next]_vars => RowsInv'
  <2> SUFFICES ASSUME IInv, IInv', RowsInv, [Next]_vars PROVE RowsInv'
    OBVIOUS
  <2>1. Moves
    BY StepMoves
  <2> QED BY <2>1, EvidenceKept, AnswerKept, PlanKept DEF RowsInv
<1> QED BY <1>1, <1>2, Invariance, PTL DEF Spec

-----------------------------------------------------------------------------
(* Numbering the rows of the pages.                                        *)

LEMMA Times == ASSUME NEW s \in Nat \ {0}, NEW a \in Int, NEW b \in Int, a < b PROVE a * s + s <= b * s
<1>1. (b - a - 1) * s >= 0
  <2>1. \A x, y \in Nat : x * y >= 0
    OBVIOUS
  <2> QED BY <2>1
<1>2. (b - a - 1) * s = b * s - a * s - s
  OBVIOUS
<1>3. a * s \in Int /\ b * s \in Int
  OBVIOUS
<1> QED BY <1>1, <1>2, <1>3

\* A row has one number.
LEMMA NumberUnique ==
    ASSUME NEW s \in Nat \ {0}, NEW k \in Int, NEW l \in Int, NEW i \in 1..s, NEW m \in 1..s,
           (k - 1) * s + i = (l - 1) * s + m
    PROVE  k = l /\ i = m
<1>1. ASSUME k < l PROVE FALSE
  <2>1. (k - 1) * s + s <= (l - 1) * s
    BY <1>1, Times
  <2>2. (k - 1) * s \in Int /\ (l - 1) * s \in Int
    OBVIOUS
  <2> QED BY <2>1, <2>2
<1>2. ASSUME l < k PROVE FALSE
  <2>1. (l - 1) * s + s <= (k - 1) * s
    BY <1>2, Times
  <2>2. (k - 1) * s \in Int /\ (l - 1) * s \in Int
    OBVIOUS
  <2> QED BY <2>1, <2>2
<1>3. k = l
  BY <1>1, <1>2
<1>4. (k - 1) * s \in Int
  OBVIOUS
<1> QED BY <1>3, <1>4

\* Division with remainder.
LEMMA Division ==
    ASSUME NEW s \in Nat \ {0}, NEW a \in Nat
    PROVE  \E q \in Nat : q * s <= a /\ a < q * s + s /\ q = a \div s
<1>1. PICK q : q = a \div s
  OBVIOUS
<1>2. q \in Nat /\ q * s <= a /\ a < q * s + s
  BY <1>1
<1> QED BY <1>1, <1>2

\* Every number up to the total is that of a row of one of the pages.
LEMMA NumberExists ==
    ASSUME NEW s \in Nat \ {0}, NEW n \in Nat \ {0}, NEW j \in 1..n
    PROVE  \E k \in 1..CeilDiv(n, s) : \E i \in 1..Least(s, n - (k - 1) * s) : j = (k - 1) * s + i
<1>1. PICK P \in Nat : P * s <= n + s - 1 /\ n + s - 1 < P * s + s /\ P = (n + s - 1) \div s
  <2>1. n + s - 1 \in Nat
    OBVIOUS
  <2> QED BY <2>1, Division
<1>2. PICK q \in Nat : q * s <= j - 1 /\ j - 1 < q * s + s
  <2>1. j - 1 \in Nat
    OBVIOUS
  <2> QED BY <2>1, Division
<1>3. q * s \in Int /\ P * s \in Int
  OBVIOUS
<1>4. q < P
  <2> SUFFICES ASSUME P <= q PROVE FALSE
    OBVIOUS
  <2>1. CASE P = q
    BY <1>1, <1>2, <1>3, <2>1
  <2>2. CASE P < q
    <3>1. P * s + s <= q * s
      BY <2>2, Times
    <3> QED BY <1>1, <1>2, <1>3, <3>1
  <2> QED BY <2>1, <2>2
<1> DEFINE i == j - q * s
<1>5. i \in 1..s /\ i <= n - q * s /\ n - q * s \in Int
  BY <1>2, <1>3
<1>6. i \in 1..Least(s, n - q * s) /\ j = q * s + i
  BY <1>3, <1>5 DEF Least
<1>7. q + 1 \in 1..P /\ ((q + 1) - 1) * s = q * s /\ CeilDiv(n, s) = P
  <2>1. (q + 1) - 1 = q
    OBVIOUS
  <2> QED BY <1>1, <1>4, <2>1 DEF CeilDiv
<1>8. PICK k : k = q + 1
  OBVIOUS
<1>9. k \in 1..CeilDiv(n, s) /\ i \in 1..Least(s, n - (k - 1) * s) /\ j = (k - 1) * s + i
  BY <1>6, <1>7, <1>8
<1> HIDE DEF i
<1> QED BY <1>9

\* The number of a row of a page is at most the total.
LEMMA NumberBounded ==
    ASSUME NEW s \in Nat \ {0}, NEW n \in Nat \ {0}, NEW k \in Nat \ {0},
           NEW i \in 1..Least(s, n - (k - 1) * s)
    PROVE  i \in 1..s /\ (k - 1) * s + i \in 1..n
<1>1. (k - 1) * s \in Nat
  <2>1. k - 1 \in Nat
    OBVIOUS
  <2> QED BY <2>1
<1>2. PICK a \in Nat : a = (k - 1) * s
  BY <1>1
<1> QED BY <1>2 DEF Least

\* A page within the plan has a row.
LEMMA Left ==
    ASSUME NEW s \in Nat \ {0}, NEW n \in Nat \ {0}, NEW k \in 1..CeilDiv(n, s)
    PROVE  n - (k - 1) * s \in Nat \ {0} /\ CeilDiv(n, s) \in Nat \ {0} /\ k \in Nat \ {0}
<1>1. PICK P \in Nat : P * s <= n + s - 1 /\ P = CeilDiv(n, s)
  <2>1. n + s - 1 \in Nat
    OBVIOUS
  <2> QED BY <2>1, Division DEF CeilDiv
<1>2. k \in Nat \ {0} /\ P \in Nat \ {0} /\ k - 1 < P
  BY <1>1
<1>3. (k - 1) * s + s <= P * s
  BY <1>2, Times
<1>4. (k - 1) * s \in Int /\ P * s \in Int
  BY <1>2
<1> QED BY <1>1, <1>2, <1>3, <1>4

\* slot lists the rows of the pages as pairs of page and position.
Numbers(slot, pages, n) ==
    /\ \A j \in 1..n : slot[j][1] \in pages /\ slot[j][2] \in DOMAIN slot[j][1].body.rows
    /\ \A j, k \in 1..n : slot[j][1] = slot[k][1] /\ slot[j][2] = slot[k][2] => j = k
    /\ \A d \in pages : \A i \in DOMAIN d.body.rows : \E j \in 1..n : slot[j] = <<d, i>>

\* The rows of pages that are there once each are numbered 1..n.
LEMMA PagesAreNumbered ==
    ASSUME NEW pages, NEW s \in Nat \ {0}, NEW n \in Nat \ {0}, Contiguous(pages, CeilDiv(n, s)),
           \A d \in pages : DOMAIN d.body.rows = 1..Least(s, n - (d.req.page - 1) * s)
    PROVE  \E slot : Numbers(slot, pages, n)
<1> DEFINE At(j, x) == /\ x[1] \in pages /\ x[2] \in DOMAIN x[1].body.rows
                       /\ j = (x[1].req.page - 1) * s + x[2]
<1>1. \A d \in pages : d.req.page \in 1..CeilDiv(n, s) /\ d.req.page \in Nat \ {0}
  <2>1. \A d \in pages : d.req.page \in 1..CeilDiv(n, s)
    BY DEF Contiguous
  <2> QED BY <2>1, Left
<1>2. \A d \in pages : \A i \in DOMAIN d.body.rows : i \in 1..s /\ (d.req.page - 1) * s + i \in 1..n
  <2> SUFFICES ASSUME NEW d \in pages, NEW i \in DOMAIN d.body.rows
               PROVE  i \in 1..s /\ (d.req.page - 1) * s + i \in 1..n
    OBVIOUS
  <2>1. PICK k \in Nat \ {0} : k = d.req.page
    BY <1>1
  <2>2. i \in 1..Least(s, n - (k - 1) * s)
    BY <2>1
  <2>3. i \in 1..s /\ (k - 1) * s + i \in 1..n
    BY ONLY s \in Nat \ {0}, n \in Nat \ {0}, <2>2, NumberBounded
  <2> QED BY <2>1, <2>3
<1>3. \A j \in 1..n : \E x \in pages \X Nat : At(j, x)
  <2> SUFFICES ASSUME NEW j \in 1..n PROVE \E x \in pages \X Nat : At(j, x)
    OBVIOUS
  <2>1. PICK k \in 1..CeilDiv(n, s) : \E i \in 1..Least(s, n - (k - 1) * s) : j = (k - 1) * s + i
    BY NumberExists
  <2>2. PICK i \in 1..Least(s, n - (k - 1) * s) : j = (k - 1) * s + i
    BY <2>1
  <2>3. PICK d \in pages : d.req.page = k
    BY DEF Contiguous
  <2>4. i \in DOMAIN d.body.rows /\ j = (d.req.page - 1) * s + i
    BY <2>2, <2>3
  <2>5. PICK x : x = <<d, i>>
    OBVIOUS
  <2>6. x \in pages \X Nat /\ x[1] = d /\ x[2] = i
    BY <1>2, <2>4, <2>5
  <2>7. At(j, x)
    BY <2>4, <2>6
  <2> HIDE DEF At
  <2> QED BY <2>6, <2>7
<1>4. ASSUME NEW j, NEW d \in pages, NEW i \in DOMAIN d.body.rows, j = (d.req.page - 1) * s + i,
             NEW x \in pages \X Nat, At(j, x)
      PROVE  x = <<d, i>>
  <2>1. PICK e \in pages, m \in Nat : x = <<e, m>>
    OBVIOUS
  <2>2. m \in DOMAIN e.body.rows /\ j = (e.req.page - 1) * s + m
    <3>1. x[1] = e /\ x[2] = m
      BY <2>1
    <3> QED BY <1>4, <3>1
  <2>3. PICK k \in Int, l \in Int : k = d.req.page /\ l = e.req.page
    BY <1>1
  <2>4. i \in 1..s /\ m \in 1..s /\ (k - 1) * s + i = (l - 1) * s + m
    BY <1>2, <1>4, <2>2, <2>3
  <2>5. k = l /\ i = m
    <3>1. PICK u \in 1..s, v \in 1..s : u = i /\ v = m
      BY <2>4
    <3>2. (k - 1) * s + u = (l - 1) * s + v
      BY <2>4, <3>1
    <3>3. k = l /\ u = v
      BY ONLY s \in Nat \ {0}, k \in Int, l \in Int, u \in 1..s, v \in 1..s, <3>2, NumberUnique
    <3> QED BY <3>1, <3>3
  <2> QED BY <2>1, <2>3, <2>5 DEF Contiguous
<1> HIDE DEF At
<1>5. PICK slot : slot = [j \in 1..n |-> CHOOSE x \in pages \X Nat : At(j, x)]
  OBVIOUS
<1>6. \A j \in 1..n : slot[j] \in pages \X Nat /\ At(j, slot[j])
  BY <1>3, <1>5
<1>7. \A j \in 1..n : slot[j][1] \in pages /\ slot[j][2] \in DOMAIN slot[j][1].body.rows
  BY <1>6 DEF At
<1>8. \A j, k \in 1..n : slot[j][1] = slot[k][1] /\ slot[j][2] = slot[k][2] => j = k
  BY <1>6 DEF At
<1>9. \A d \in pages : \A i \in DOMAIN d.body.rows : \E j \in 1..n : slot[j] = <<d, i>>
  <2> SUFFICES ASSUME NEW d \in pages, NEW i \in DOMAIN d.body.rows PROVE \E j \in 1..n : slot[j] = <<d, i>>
    OBVIOUS
  <2>1. PICK j : j = (d.req.page - 1) * s + i
    OBVIOUS
  <2>2. j \in 1..n
    BY <1>2, <2>1
  <2>3. slot[j] \in pages \X Nat /\ At(j, slot[j])
    BY <1>6, <2>2
  <2>4. slot[j] = <<d, i>>
    BY <1>4, <2>1, <2>3
  <2> QED BY <2>2, <2>4
<1> QED BY <1>7, <1>8, <1>9 DEF Numbers

\* The pages of a complete partition hold as many identities as they declare.
LEMMA PagesAddUp ==
    ASSUME NEW pages, pages # {},
           \A d \in pages : BodyOK(d.body) /\ Accepted(d) = DOMAIN d.body.rows,
           \A d, e \in pages : d.req.page = e.req.page /\ d.req.ord = e.req.ord => d = e,
           UniqueIdentities(pages), StablePagination(pages),
           NEW one \in pages,
           IF one.body.total = 0 THEN ConfirmedEmpty(pages) ELSE EveryPage(pages, one.body.total, SizeOf(one.body))
    PROVE  \A d \in pages : Cardinality(UNION {Identities(e.body) : e \in pages}) = d.body.total
<1> DEFINE ids == UNION {Identities(e.body) : e \in pages}
<1>1. PICK n \in Nat, s \in Nat \ {0} : n = one.body.total /\ s = SizeOf(one.body)
  BY SizesRead DEF BodyOK
<1>2. \A d \in pages : d.body.total = n
  BY <1>1 DEF StablePagination
<1>3. \A x : x \in ids <=> \E d \in pages : \E i \in DOMAIN d.body.rows : x = d.body.rows[i].id
  BY DEF Identities
<1> HIDE DEF ids
<1>4. CASE n = 0
  <2>1. \A d \in pages : d.body.rows = <<>>
    BY <1>1, <1>4 DEF ConfirmedEmpty
  <2>2. ids = {}
    BY <1>3, <2>1
  <2>3. Cardinality(ids) = 0
    BY <2>2, FS_EmptySet
  <2> QED BY <1>2, <1>4, <2>3 DEF ids
<1>5. CASE n # 0
  <2>1. EveryPage(pages, n, s) /\ n \in Nat \ {0}
    BY <1>1, <1>5
  <2>2. \A d \in pages : DOMAIN d.body.rows = 1..Least(s, n - (d.req.page - 1) * s)
    <3> SUFFICES ASSUME NEW d \in pages PROVE DOMAIN d.body.rows = 1..Least(s, n - (d.req.page - 1) * s)
      OBVIOUS
    <3>1. PICK S : d.body.rows \in Seq(S)
      BY DEF BodyOK
    <3>2. Len(d.body.rows) = Least(s, n - (d.req.page - 1) * s)
      BY <2>1 DEF EveryPage
    <3> QED BY <3>1, <3>2
  <2>3. Contiguous(pages, CeilDiv(n, s))
    BY <2>1 DEF EveryPage, Contiguous
  <2>4. PICK slot : Numbers(slot, pages, n)
    BY <2>1, <2>2, <2>3, PagesAreNumbered
  <2>5. PICK f : f = [j \in 1..n |-> slot[j][1].body.rows[slot[j][2]].id]
    OBVIOUS
  <2>6. f \in [1..n -> ids]
    BY <1>3, <2>4, <2>5 DEF Numbers
  <2>7. \A j, k \in 1..n : f[j] = f[k] => j = k
    <3> SUFFICES ASSUME NEW j \in 1..n, NEW k \in 1..n, f[j] = f[k] PROVE j = k
      OBVIOUS
    <3>1. PICK d, i : d = slot[j][1] /\ i = slot[j][2]
      OBVIOUS
    <3>2. PICK e, m : e = slot[k][1] /\ m = slot[k][2]
      OBVIOUS
    <3>3. d \in pages /\ e \in pages /\ i \in Accepted(d) /\ m \in Accepted(e)
      BY <2>4, <3>1, <3>2 DEF Numbers
    <3>4. d.body.rows[i].id = e.body.rows[m].id
      BY <2>5, <3>1, <3>2
    <3>5. d = e /\ i = m
      BY <3>3, <3>4 DEF UniqueIdentities
    <3> QED BY <2>4, <3>1, <3>2, <3>5 DEF Numbers
  <2>8. \A x \in ids : \E j \in 1..n : f[j] = x
    <3> SUFFICES ASSUME NEW x \in ids PROVE \E j \in 1..n : f[j] = x
      OBVIOUS
    <3>1. PICK d \in pages : \E i \in DOMAIN d.body.rows : x = d.body.rows[i].id
      BY <1>3
    <3>2. PICK i \in DOMAIN d.body.rows : x = d.body.rows[i].id
      BY <3>1
    <3>3. PICK j \in 1..n : slot[j] = <<d, i>>
      BY <2>4 DEF Numbers
    <3>4. f[j] = x
      BY <2>5, <3>2, <3>3
    <3> QED BY <3>4
  <2>9. Cardinality(ids) = n
    BY <2>6, <2>7, <2>8, CountedBy, SMTT(60)
  <2> QED BY <1>2, <2>9 DEF ids
<1> QED BY <1>4, <1>5

\* The documents later stages read, and what the rows say of them.
LEMMA InputsAreEvidence ==
    ASSUME EvidenceInv
    PROVE  /\ \A d \in Inputs : /\ RequestOK(d.req) /\ BodyOK(d.body)
                                /\ IsDetail(d.req) => Identities(d.body) = {d.req.part}
           /\ \A d, e \in Inputs : d.req = e.req => d = e
<1>1. \A o \in InputObs : /\ o \in observations /\ o.outcome = "SELECTED_SUCCESS" /\ requests[o.id[1]] = o.id
  BY DEF InputObs
<1>2. ASSUME NEW d \in Inputs PROVE \E o \in InputObs : d = [req |-> o.id[1], body |-> o.body]
  BY DEF Inputs
<1>3. ASSUME NEW d \in Inputs
      PROVE  /\ RequestOK(d.req) /\ BodyOK(d.body)
             /\ IsDetail(d.req) => Identities(d.body) = {d.req.part}
  <2>1. PICK o \in InputObs : d = [req |-> o.id[1], body |-> o.body]
    BY <1>2
  <2>2. d.req = o.id[1] /\ d.body = o.body
    BY <2>1
  <2> QED BY <1>1, <2>2 DEF EvidenceInv
<1>4. ASSUME NEW d \in Inputs, NEW e \in Inputs, d.req = e.req PROVE d = e
  <2>1. PICK o \in InputObs : d = [req |-> o.id[1], body |-> o.body]
    BY <1>2
  <2>2. PICK a \in InputObs : e = [req |-> a.id[1], body |-> a.body]
    BY <1>2
  <2>3. o.id[1] = a.id[1]
    BY <1>4, <2>1, <2>2
  <2>4. o = a
    BY <1>1, <2>3 DEF EvidenceInv
  <2> QED BY <2>1, <2>2, <2>4
<1> QED BY <1>3, <1>4

LEMMA ReadyRows == ASSUME ConfigInv, RowsInv PROVE ReadyHasEveryRow
<1> SUFFICES ASSUME Ready, NEW p \in Partitions
             PROVE  /\ Pages(Inputs, p) # {}
                    /\ \A d \in Pages(Inputs, p) : Cardinality(Collected(p)) = d.body.total
                    /\ Kind = "job_alio" => \A i \in Collected(p) : Collected(i) = {i}
  BY DEF ReadyHasEveryRow
<1>1. Fetched /\ validate_completeness(Inputs) /\ ~Rejected(Inputs)
  BY DEF Ready, run_inputs, Verdict
<1>2. /\ \A d \in Inputs : /\ RequestOK(d.req) /\ BodyOK(d.body)
                           /\ IsDetail(d.req) => Identities(d.body) = {d.req.part}
      /\ \A d, e \in Inputs : d.req = e.req => d = e
  BY InputsAreEvidence DEF RowsInv
<1>3. \A d \in Inputs : Accepted(d) = DOMAIN d.body.rows
  BY <1>1 DEF Rejected
<1>4. PICK first \in Inputs : first.req.part = p
  <2>1. Request(p, PageBase, 0) \in DOMAIN requests
    BY <1>1 DEF RowsInv, PlanInv, initial_requests
  <2>2. PICK o \in InputObs : o.id[1] = Request(p, PageBase, 0)
    BY <1>1, <2>1 DEF RowsInv, PlanInv
  <2>3. PICK d : d = [req |-> o.id[1], body |-> o.body]
    OBVIOUS
  <2>4. d \in Inputs /\ d.req = Request(p, PageBase, 0)
    BY <2>2, <2>3 DEF Inputs
  <2>5. d.req.part = p
    BY <2>4 DEF Request
  <2> QED BY <2>4, <2>5
<1>5. PICK pages : pages = Pages(Inputs, p)
  OBVIOUS
<1>6. first \in pages /\ \A d \in pages : d \in Inputs /\ d.req.part = p
  BY <1>4, <1>5 DEF Pages
<1>7. \A d \in pages : Cardinality(UNION {Identities(e.body) : e \in pages}) = d.body.total
  <2>1. CompletePartition(pages)
    BY <1>1, <1>4, <1>5 DEF validate_completeness, Parts
  <2>2. PICK one \in pages : one = CHOOSE d \in pages : TRUE
    BY <1>6
  <2>3. ~IsDetail(one.req)
    BY <1>6, <2>2 DEF IsDetail
  <2>4. /\ UniqueIdentities(pages) /\ StablePagination(pages)
        /\ IF one.body.total = 0 THEN ConfirmedEmpty(pages) ELSE EveryPage(pages, one.body.total, SizeOf(one.body))
    BY <2>1, <2>2, <2>3 DEF CompletePartition
  <2>5. \A d \in pages : BodyOK(d.body) /\ Accepted(d) = DOMAIN d.body.rows
    BY <1>2, <1>3, <1>6
  <2>6. \A d, e \in pages : d.req.page = e.req.page /\ d.req.ord = e.req.ord => d = e
    BY <1>2, <1>6 DEF RequestOK
  <2> QED BY ONLY <1>6, <2>4, <2>5, <2>6, PagesAddUp
<1>8. Collected(p) = UNION {Identities(e.body) : e \in pages}
  BY <1>5 DEF Collected
<1>9. ASSUME Kind = "job_alio", NEW i \in Collected(p) PROVE Collected(i) = {i}
  <2>1. PICK d \in pages : i \in Identities(d.body)
    BY <1>8
  <2>2. ~IsDetail(d.req) /\ d \in Inputs
    BY <1>6 DEF IsDetail
  <2>3. i \in Listed(Inputs)
    BY <1>3, <2>1, <2>2 DEF Listed, Identities
  <2>4. i \in Detailed(Inputs)
    BY <1>1, <1>9, <2>3 DEF validate_completeness
  <2>5. PICK e \in Inputs : IsDetail(e.req) /\ e.req.part = i
    BY <2>4 DEF Detailed
  <2>6. \A c \in Pages(Inputs, i) : Identities(c.body) = {i}
    <3> SUFFICES ASSUME NEW c \in Pages(Inputs, i) PROVE Identities(c.body) = {i}
      OBVIOUS
    <3>1. c \in Inputs /\ c.req.part = i
      BY DEF Pages
    <3>2. IsDetail(c.req)
      BY <2>5, <3>1 DEF IsDetail
    <3> QED BY <1>2, <3>1, <3>2
  <2>7. e \in Pages(Inputs, i)
    BY <2>5 DEF Pages
  <2>8. \A x : x \in Collected(i) <=> \E c \in Pages(Inputs, i) : x \in Identities(c.body)
    BY DEF Collected
  <2> QED BY <2>6, <2>7, <2>8
<1> QED BY <1>5, <1>6, <1>7, <1>8, <1>9

\* validate_completeness over run_inputs: a run that would be READY holds, for
\* every configured partition, exactly as many identities as each of its pages
\* declares, and one detail per listed posting; for every page size and total.
THEOREM ReadyIsComplete == Spec => []ReadyHasEveryRow
<1>1. IInv /\ RowsInv => ReadyHasEveryRow
  BY ReadyRows DEF IInv
<1> QED BY <1>1, Invariance, EvidenceIsSound, PTL

-----------------------------------------------------------------------------
(* What a run holds of the provider's catalogue.                           *)

\* Nothing cut the plan short, and the connector plans with the size it is
\* served.
Uncapped == max_pages = NoLimit /\ PlansAsServed

\* The requests a catalogue calls for: its pages, an empty one twice, and the
\* postings it lists.
PagePlanned(q) ==
    /\ q.part \in Partitions
    /\ IF Len(catalog[q.part]) = 0
       THEN q.page = PageBase /\ q.ord \in {0, 1}
       ELSE /\ q.ord = 0
            /\ q.page \in PageBase .. PageBase + CeilDiv(Len(catalog[q.part]), ServedSize) - 1

DetailPlanned(q) ==
    /\ IsDetail(q) /\ q.page = NoPage /\ q.ord = 0
    /\ \E p \in Partitions : q.part \in CatalogIds(p)

Planned(q) == PagePlanned(q) \/ DetailPlanned(q)

Success(o) == o.outcome = "SELECTED_SUCCESS"

\* What was recorded is in the raw store.
SnapshotInv ==
    /\ \A o \in observations : Success(o) => o.body \in raw
    /\ pc = "record" /\ Selected => reply.body \in raw
    /\ Fetched => run.planned \in Nat \ {0}

\* What an answer calls for is planned, and fetched when the run closes.
CalledInv ==
    \A o \in observations : Success(o) =>
        /\ Live => remaining_requests(o.id[1], o.body, max_pages) \subseteq known
        /\ Fetched => remaining_requests(o.id[1], o.body, max_pages) \subseteq DOMAIN requests

\* While the provider does not move, every answer is about its catalogue,
FaithfulInv ==
    ~drift => /\ \A o \in observations : Success(o) => o.body \in Faithful(o.id[1])
              /\ pc \in {"store", "record"} /\ Selected => reply.body \in Faithful(cur)

\* and nothing is planned that the catalogue does not call for.
PlannedInv ==
    ~drift /\ Uncapped =>
        /\ Live => \A q \in known : Planned(q)
        /\ Fetched => \A q \in DOMAIN requests : Planned(q)

TruthInv == SnapshotInv /\ CalledInv /\ FaithfulInv /\ PlannedInv

\* What a step does to the provider, the store, the plan and the reply.
Grows ==
    /\ UNCHANGED <<source, max_pages>> /\ raw \subseteq raw'
    /\ ~drift' => ~drift /\ catalog' = catalog
    /\ Live' => \/ /\ pc = "record" /\ Selected /\ record_attempt
                   /\ known' = known \cup remaining_requests(cur, reply.body, max_pages)
                \/ known' = known /\ pc = "record" /\ ~Selected /\ record_attempt
                \/ known' = known /\ observations' = observations
    /\ pc' = "record" /\ Selected' => UNCHANGED <<reply, cur>> /\ (pc = "record" \/ (pc = "store" /\ reply.body \in raw'))
    /\ pc' = "store" => Respond \/ (pc = "store" /\ UNCHANGED <<reply, cur>>)
    /\ Fetched' => \/ Fetched /\ run' = run
                   \/ pc = "loop" /\ queue = <<>> /\ run'.planned = Cardinality(known)

LEMMA StepGrows == ASSUME IInv, IInv', [Next]_vars PROVE Grows
<1> USE DEF Live, InFlight, Fetched, provider, ledger, memory
<1>1. (Live => ~Fetched) /\ (Live' => ~Fetched')
  BY DEF IInv, RunInv
<1>2. CASE UNCHANGED vars
  BY <1>2 DEF Grows, vars, Selected
<1>3. CASE Next
  <2>1. UNCHANGED <<source, max_pages>>
    BY <1>3 DEF Next
  <2>2. CASE Crash
    BY <1>1, <2>1, <2>2 DEF Grows, Crash, EndAt
  <2>3. CASE \E p \in Partitions : \E c \in Catalogs[p] : ProviderChanges(p, c)
    BY <1>1, <2>1, <2>3 DEF Grows, ProviderChanges, Selected
  <2>4. CASE StartRun
    BY <1>1, <2>1, <2>4 DEF Grows, StartRun
  <2>5. CASE PlanRequest
    BY <1>1, <2>1, <2>5 DEF Grows, PlanRequest
  <2>6. CASE Respond
    <3>1. /\ UNCHANGED <<catalog, known, observations, raw, run>> /\ pc = "call" /\ pc' = "store"
          /\ \E body : drift' = (drift \/ body \notin Faithful(cur))
      BY <2>6 DEF Respond, Call
    <3> QED BY <1>1, <2>1, <2>6, <3>1 DEF Grows
  <2>7. CASE \E o \in {"TRANSPORT_ERROR", "HTTP_ERROR", "RESPONSE_INVALID"}, r \in BOOLEAN : RespondBadly(o, r)
    <3>1. PICK o \in {"TRANSPORT_ERROR", "HTTP_ERROR", "RESPONSE_INVALID"}, r \in BOOLEAN : RespondBadly(o, r)
      BY <2>7
    <3>2. reply'.outcome = o /\ pc = "call" /\ pc' = "record" /\ UNCHANGED <<catalog, drift, raw, known, run, observations>>
      BY <3>1 DEF RespondBadly, Call
    <3>3. ~Selected'
      BY <3>2 DEF Selected
    <3> QED BY <1>1, <2>1, <3>2, <3>3 DEF Grows
  <2>8. CASE StoreRaw
    BY <1>1, <2>1, <2>8 DEF Grows, StoreRaw
  <2>9. CASE \E b \in BOOLEAN : StoreRaises(b)
    <3>1. /\ reply'.outcome = "STORAGE_ERROR" /\ pc = "store" /\ pc' = "record"
          /\ UNCHANGED <<catalog, drift, known, run, observations>> /\ raw \subseteq raw'
      BY <2>9 DEF StoreRaises
    <3>2. ~Selected'
      BY <3>1 DEF Selected
    <3> QED BY <1>1, <2>1, <3>1, <3>2 DEF Grows
  <2>10. CASE RecordSuccess
    <3>1. /\ pc = "record" /\ Selected /\ record_attempt /\ UNCHANGED <<run, catalog, drift, raw>>
          /\ pc' = "failing" \/ (pc' = "loop" /\ known' = known \cup remaining_requests(cur, reply.body, max_pages))
      BY <2>10 DEF RecordSuccess, record_attempt, enqueue, EndAt
    <3> QED BY <1>1, <2>1, <3>1 DEF Grows
  <2>11. CASE RecordFailure
    <3>1. /\ pc = "record" /\ ~Selected /\ record_attempt /\ UNCHANGED <<run, catalog, drift, raw>>
          /\ pc' = "failing" \/ (pc' = "call" /\ known' = known)
      BY <2>11 DEF RecordFailure, record_attempt, EndAt
    <3> QED BY <1>1, <2>1, <3>1 DEF Grows
  <2>12. CASE \E b \in BOOLEAN : RecordRaises(b)
    <3>1. UNCHANGED <<run, catalog, drift, raw>> /\ pc' = "failing" /\ pc = "record"
      BY <2>12 DEF RecordRaises, record_attempt, EndAt
    <3> QED BY <1>1, <2>1, <3>1 DEF Grows
  <2>13. CASE CallRefused \/ \E b \in BOOLEAN : PlanRaises(b)
    <3>1. UNCHANGED <<run, catalog, drift, raw>> /\ pc' = "failing" /\ pc \in {"call", "loop"}
      BY <2>13 DEF CallRefused, PlanRaises, EndAt
    <3> QED BY <1>1, <2>1, <3>1 DEF Grows
  <2>14. CASE Complete \/ \E b \in BOOLEAN : CompleteRaises(b)
    <3>1. /\ pc = "loop" /\ queue = <<>> /\ UNCHANGED <<catalog, drift, raw>> /\ pc' \in {"done", "failing"}
          /\ run' = run \/ run' = mark_fetch_complete
      BY <2>14 DEF Complete, CompleteRaises, EndAt
    <3>2. run' = mark_fetch_complete => run'.planned = Cardinality(known)
      BY <3>1, <1>1 DEF mark_fetch_complete, IInv, RunInv
    <3> QED BY <1>1, <2>1, <3>1, <3>2 DEF Grows
  <2>15. CASE Fail \/ \E b \in BOOLEAN : FailRaises(b)
    <3>1. /\ UNCHANGED <<catalog, drift, raw>> /\ pc' = "raised" /\ (run' = run \/ run' = fail_run)
      BY <2>15 DEF Fail, FailRaises, EndAt
    <3>2. run' = run \/ run'.state = "FAILED"
      BY <3>1 DEF fail_run, IInv, RunInv
    <3> QED BY <1>1, <2>1, <3>1, <3>2 DEF Grows
  <2>16. CASE \E b \in BOOLEAN : StartRaises(b)
    <3>1. /\ UNCHANGED <<catalog, drift, raw>> /\ pc' = "raised" /\ (run' = run \/ run' = start_run)
      BY <2>16 DEF StartRaises, EndAt
    <3>2. start_run.stage = "FETCHING"
      BY DEF start_run, NoRun
    <3> QED BY <1>1, <2>1, <3>1, <3>2 DEF Grows
  <2> QED BY <1>3, <2>2, <2>3, <2>4, <2>5, <2>6, <2>7, <2>8, <2>9, <2>10, <2>11, <2>12, <2>13, <2>14,
             <2>15, <2>16 DEF Next, Engine
<1> QED BY <1>2, <1>3

\* The answers and the plan are functions of the source and the catalogue.
LEMMA AnswersKept ==
    ASSUME UNCHANGED <<source, max_pages>>
    PROVE  /\ \A q, b : remaining_requests(q, b, max_pages)' = remaining_requests(q, b, max_pages)
           /\ Uncapped' = Uncapped
           /\ catalog' = catalog => \A q : /\ Faithful(q)' = Faithful(q)
                                           /\ Planned(q)' = Planned(q)
<1>1. /\ Kind' = Kind /\ PageBase' = PageBase /\ Partitions' = Partitions
      /\ PageSize' = PageSize /\ ServedSize' = ServedSize /\ NumberForm' = NumberForm
      /\ \A q : IsDetail(q)' = IsDetail(q)
  BY DEF Kind, PageBase, Partitions, PageSize, ServedSize, NumberForm, IsDetail
<1>2. \A b : PlannedPages(b, max_pages)' = PlannedPages(b, max_pages)
  BY <1>1 DEF PlannedPages, page_size
<1>3. \A q, b : FurtherPages(q, b, max_pages)' = FurtherPages(q, b, max_pages)
  BY <1>1, <1>2 DEF FurtherPages
<1>4. \A q, b : remaining_requests(q, b, max_pages)' = remaining_requests(q, b, max_pages)
  BY <1>1, <1>3 DEF remaining_requests
<1>5. Uncapped' = Uncapped
  BY <1>1 DEF Uncapped, PlansAsServed
<1>6. ASSUME catalog' = catalog PROVE \A q : Faithful(q)' = Faithful(q) /\ Planned(q)' = Planned(q)
  <2>1. \A i : RowsFor(i)' = RowsFor(i)
    BY <1>1, <1>6 DEF RowsFor
  <2>2. \A i : DetailsOf(i)' = DetailsOf(i)
    BY <2>1 DEF DetailsOf
  <2>3. \A c, n : PageOf(c, n)' = PageOf(c, n)
    BY <1>1 DEF PageOf
  <2>4. \A q : Faithful(q)' = Faithful(q)
    BY <1>1, <1>6, <2>2, <2>3 DEF Faithful
  <2>5. \A p : CatalogIds(p)' = CatalogIds(p)
    BY <1>6 DEF CatalogIds
  <2>6. \A q : PagePlanned(q)' = PagePlanned(q)
    BY <1>1, <1>6 DEF PagePlanned
  <2>7. \A q : DetailPlanned(q)' = DetailPlanned(q)
    BY <1>1, <2>5 DEF DetailPlanned
  <2> QED BY <2>4, <2>6, <2>7 DEF Planned
<1> QED BY <1>4, <1>5, <1>6

\* The row record_attempt adds.
LEMMA NewObservation ==
    ASSUME record_attempt
    PROVE  \E o : /\ observations' = observations \cup {o}
                  /\ o.id[1] = cur /\ o.body = reply.body /\ (Success(o) <=> Selected)
<1>1. PICK o : o = [id |-> ObsId, outcome |-> reply.outcome, body |-> reply.body]
  OBVIOUS
<1>2. observations' = observations \cup {o} /\ o.id = ObsId /\ o.outcome = reply.outcome /\ o.body = reply.body
  BY <1>1 DEF record_attempt
<1>3. o.id[1] = cur
  BY <1>2 DEF ObsId
<1> QED BY <1>2, <1>3 DEF Success, Selected

LEMMA SnapshotKept == ASSUME IInv, TruthInv, Moves, Grows PROVE SnapshotInv'
<1>1. /\ \A o \in observations : Success(o) => o.body \in raw'
      /\ pc = "record" /\ Selected => reply.body \in raw'
  BY DEF TruthInv, SnapshotInv, Grows
<1>2. \A o \in observations' : Success(o) => o.body \in raw'
  <2>1. CASE observations' = observations
    BY <1>1, <2>1
  <2>2. CASE pc = "record" /\ record_attempt
    <3>1. PICK n : /\ observations' = observations \cup {n} /\ n.body = reply.body /\ (Success(n) <=> Selected)
      BY <2>2, NewObservation
    <3> QED BY <1>1, <2>2, <3>1
  <2> QED BY <2>1, <2>2 DEF Moves
<1>3. (pc = "record" /\ Selected)' => reply'.body \in raw'
  <2> SUFFICES ASSUME pc' = "record", Selected' PROVE reply'.body \in raw'
    OBVIOUS
  <2>1. UNCHANGED <<reply, cur>> /\ (pc = "record" \/ (pc = "store" /\ reply.body \in raw'))
    BY DEF Grows
  <2>2. Selected
    BY <2>1 DEF Selected
  <2> QED BY <1>1, <2>1, <2>2
<1>4. Fetched' => run'.planned \in Nat \ {0}
  <2>1. CASE Fetched /\ run' = run
    BY <2>1 DEF TruthInv, SnapshotInv
  <2>2. CASE pc = "loop" /\ queue = <<>> /\ run'.planned = Cardinality(known)
    <3>1. MemoryInv
      BY <2>2 DEF IInv, Live
    <3> QED BY <2>2, <3>1, ManifestAgrees
  <2> QED BY <2>1, <2>2 DEF Grows
<1> QED BY <1>2, <1>3, <1>4 DEF SnapshotInv, Success

LEMMA CalledKept == ASSUME IInv, TruthInv, Moves, Grows PROVE CalledInv'
<1>1. \A q, b : remaining_requests(q, b, max_pages)' = remaining_requests(q, b, max_pages)
  BY AnswersKept DEF Grows
<1>2. ASSUME Live', NEW o \in observations', Success(o)
      PROVE  remaining_requests(o.id[1], o.body, max_pages) \subseteq known'
  <2>1. Live
    BY <1>2 DEF Moves
  <2>2. CASE /\ pc = "record" /\ Selected /\ record_attempt
             /\ known' = known \cup remaining_requests(cur, reply.body, max_pages)
    <3>1. PICK n : /\ observations' = observations \cup {n} /\ n.body = reply.body /\ n.id[1] = cur
      BY <2>2, NewObservation
    <3>2. CASE o = n
      BY <2>2, <3>1, <3>2
    <3>3. CASE o \in observations
      BY <1>2, <2>1, <2>2, <3>3 DEF TruthInv, CalledInv
    <3> QED BY <3>1, <3>2, <3>3
  <2>3. CASE known' = known /\ pc = "record" /\ ~Selected /\ record_attempt
    <3>1. PICK n : observations' = observations \cup {n} /\ (Success(n) <=> Selected)
      BY <2>3, NewObservation
    <3>2. o \in observations
      BY <1>2, <2>3, <3>1
    <3> QED BY <1>2, <2>1, <2>3, <3>2 DEF TruthInv, CalledInv
  <2>4. CASE known' = known /\ observations' = observations
    BY <1>2, <2>1, <2>4 DEF TruthInv, CalledInv
  <2> QED BY <1>2, <2>2, <2>3, <2>4 DEF Grows
<1>3. ASSUME Fetched', NEW o \in observations', Success(o)
      PROVE  remaining_requests(o.id[1], o.body, max_pages) \subseteq DOMAIN requests'
  <2>1. UNCHANGED <<requests, observations>>
    BY <1>3 DEF Moves
  <2>2. CASE Fetched
    BY <1>3, <2>1, <2>2 DEF TruthInv, CalledInv
  <2>3. CASE pc = "loop" /\ queue = <<>>
    <3>1. MemoryInv /\ Live
      BY <2>3 DEF IInv, Live
    <3>2. DOMAIN requests = known
      BY <2>3, <3>1, ManifestAgrees
    <3> QED BY <1>3, <2>1, <3>1, <3>2 DEF TruthInv, CalledInv
  <2> QED BY <1>3, <2>2, <2>3 DEF Moves
<1> QED BY <1>1, <1>2, <1>3 DEF CalledInv, Success

LEMMA FaithfulKept == ASSUME IInv, TruthInv, Moves, Grows PROVE FaithfulInv'
<1> SUFFICES ASSUME ~drift'
             PROVE  /\ \A o \in observations' : Success(o) => o.body \in Faithful(o.id[1])'
                    /\ (pc \in {"store", "record"} /\ Selected)' => reply'.body \in Faithful(cur)'
  BY DEF FaithfulInv, Success
<1>1. ~drift /\ catalog' = catalog
  BY DEF Grows
<1>2. \A q : Faithful(q)' = Faithful(q)
  BY <1>1, AnswersKept DEF Grows
<1>3. \A o \in observations' : Success(o) => o.body \in Faithful(o.id[1])
  <2>1. CASE observations' = observations
    BY <1>1, <2>1 DEF TruthInv, FaithfulInv
  <2>2. CASE pc = "record" /\ record_attempt
    <3>1. PICK n : /\ observations' = observations \cup {n} /\ n.body = reply.body /\ n.id[1] = cur
                   /\ (Success(n) <=> Selected)
      BY <2>2, NewObservation
    <3>2. Success(n) => n.body \in Faithful(n.id[1])
      BY <1>1, <2>2, <3>1 DEF TruthInv, FaithfulInv
    <3> QED BY <1>1, <3>1, <3>2 DEF TruthInv, FaithfulInv
  <2> QED BY <2>1, <2>2 DEF Moves
<1>4. ASSUME pc' \in {"store", "record"}, Selected' PROVE reply'.body \in Faithful(cur')
  <2>1. CASE pc \in {"store", "record"} /\ UNCHANGED <<reply, cur>>
    <3>1. Selected
      BY <1>4, <2>1 DEF Selected
    <3> QED BY <1>1, <2>1, <3>1 DEF TruthInv, FaithfulInv
  <2>2. CASE Respond
    <3>1. PICK body : /\ drift' = (drift \/ body \notin Faithful(cur))
                      /\ reply' = [outcome |-> "SELECTED_SUCCESS", retry |-> FALSE, body |-> body]
      BY <2>2 DEF Respond
    <3>2. cur' = cur /\ reply'.body = body
      BY <2>2, <3>1 DEF Respond, Call
    <3> QED BY <3>1, <3>2
  <2> QED BY <1>4, <2>1, <2>2 DEF Grows
<1>5. Faithful(cur)' = Faithful(cur')
  BY <1>1 DEF Grows, Faithful, IsDetail, Kind, Partitions, DetailsOf, RowsFor, PageOf, PageBase, ServedSize, NumberForm
<1> QED BY <1>2, <1>3, <1>4, <1>5

\* A page as the provider serves it.
LEMMA FaithfulPage ==
    ASSUME ConfigInv, NEW q, RequestOK(q), ~IsDetail(q), q.page >= PageBase, NEW b \in Faithful(q),
           NEW a, a = (q.page - PageBase) * ServedSize, NEW n, n = Len(catalog[q.part])
    PROVE  /\ q.part \in Partitions /\ n \in Nat /\ a \in Nat /\ DOMAIN catalog[q.part] = 1..n
           /\ b.total = n /\ b.size = ServedSize /\ b.form = NumberForm
           /\ DOMAIN b.rows = 1..Len(b.rows) /\ Len(b.rows) = IF a < n THEN Least(ServedSize, n - a) ELSE 0
           /\ \A i \in DOMAIN b.rows : a + i \in 1..n /\ b.rows[i] = catalog[q.part][a + i]
<1>1. /\ PageBase \in {0, 1} /\ ServedSize \in Nat \ {0}
      /\ \A p \in Partitions : catalog[p] \in Seq({catalog[p][i] : i \in DOMAIN catalog[p]})
  BY SourceFacts
<1>2. q.part \in Partitions /\ q.page \in Int
  BY DEF IsDetail, RequestOK
<1>3. PICK cat : cat = catalog[q.part]
  OBVIOUS
<1>4. cat \in Seq({cat[i] : i \in DOMAIN cat}) /\ n = Len(cat)
  BY <1>1, <1>2, <1>3
<1>5. n \in Nat /\ DOMAIN cat = 1..n
  BY <1>4
<1>6. a \in Nat /\ (q.page - PageBase + 1) * ServedSize = a + ServedSize
  <2>1. PICK k \in Nat : k = q.page - PageBase
    BY <1>1, <1>2
  <2>2. k * ServedSize \in Nat /\ (k + 1) * ServedSize = k * ServedSize + ServedSize
    BY <1>1
  <2> QED BY <2>1, <2>2
<1>7. PICK m : m = Least(n, a + ServedSize)
  OBVIOUS
<1>8. b = [total |-> n, size |-> ServedSize, form |-> NumberForm, rows |-> SubSeq(cat, a + 1, m)]
  BY <1>3, <1>6, <1>7 DEF Faithful, PageOf
<1>9. PICK rows : rows = SubSeq(cat, a + 1, m)
  OBVIOUS
<1>10. b.total = n /\ b.size = ServedSize /\ b.form = NumberForm /\ b.rows = rows
  BY <1>8, <1>9
<1>11. m \in Int /\ a + 1 \in Int
  BY <1>1, <1>5, <1>6, <1>7 DEF Least
<1> DEFINE S == {cat[i] : i \in (a + 1)..m}
<1>12. \A i \in (a + 1)..m : cat[i] \in S
  OBVIOUS
<1> HIDE DEF S
<1>13. PICK l : l = a + 1
  OBVIOUS
<1>14. /\ rows \in Seq(S) /\ Len(rows) = IF l <= m THEN m - l + 1 ELSE 0
       /\ \A i \in 1..(m - l + 1) : rows[i] = cat[l + i - 1]
  <2>1. l \in Int /\ m \in Int /\ rows = SubSeq(cat, l, m) /\ \A i \in l..m : cat[i] \in S
    BY <1>9, <1>11, <1>12, <1>13
  <2> QED BY ONLY <2>1, SubSeqProperties
<1>15. DOMAIN rows = 1..Len(rows)
  BY <1>14
<1>16. /\ a < n => l <= m /\ m - l + 1 = Least(ServedSize, n - a)
       /\ ~(a < n) => ~(l <= m)
       /\ m <= n
  <2>1. ServedSize \in Nat /\ n \in Nat /\ a \in Nat /\ l = a + 1 /\ m = Least(n, a + ServedSize)
    BY <1>1, <1>5, <1>6, <1>7, <1>13
  <2>2. CASE n < a + ServedSize
    <3>1. m = n /\ Least(ServedSize, n - a) = n - a
      BY ONLY <2>1, <2>2 DEF Least
    <3> QED BY ONLY <2>1, <3>1
  <2>3. CASE ~(n < a + ServedSize)
    <3>1. m = a + ServedSize /\ Least(ServedSize, n - a) = ServedSize
      <4>1. m = a + ServedSize
        BY <2>1, <2>3 DEF Least
      <4>2. ServedSize < n - a \/ ServedSize = n - a
        BY ONLY <2>1, <2>3
      <4> QED BY <4>1, <4>2 DEF Least
    <3>2. ServedSize \in Nat \ {0}
      BY <1>1
    <3> QED BY ONLY <2>1, <2>3, <3>1, <3>2
  <2> QED BY <2>2, <2>3
<1>17. l \in Int /\ m \in Int
  BY <1>11, <1>13
<1>18. Len(rows) = IF a < n THEN Least(ServedSize, n - a) ELSE 0
  BY <1>14, <1>16
<1>19. ASSUME NEW i \in DOMAIN rows PROVE a + i \in 1..n /\ rows[i] = cat[a + i]
  <2>1. i \in 1..(m - l + 1) /\ a + i \in 1..n
    <3>1. CASE l <= m
      <4>1. i \in 1..(m - l + 1)
        BY <1>14, <1>15, <3>1
      <4> QED BY ONLY <1>5, <1>6, <1>13, <1>16, <1>17, <4>1
    <3>2. CASE ~(l <= m)
      <4>1. DOMAIN rows = 1..0
        BY <1>14, <1>15, <3>2
      <4> QED BY <4>1
    <3> QED BY <3>1, <3>2
  <2>2. l + i - 1 = a + i
    BY <1>6, <1>13, <2>1
  <2> QED BY <1>14, <2>1, <2>2
<1> QED BY <1>2, <1>3, <1>5, <1>6, <1>10, <1>15, <1>18, <1>19

\* The detail of a listed posting is a row that lists it.
LEMMA FaithfulDetail ==
    ASSUME NEW q, DetailPlanned(q), NEW b \in Faithful(q)
    PROVE  \E p \in Partitions : \E k \in DOMAIN catalog[p] :
              b.rows = <<catalog[p][k]>> /\ catalog[p][k].id = q.part
<1>1. IsDetail(q) /\ b \in DetailsOf(q.part)
  BY DEF DetailPlanned, Faithful
<1>2. RowsFor(q.part) # {}
  <2>1. PICK p \in Partitions : q.part \in CatalogIds(p)
    BY DEF DetailPlanned
  <2>2. PICK k \in DOMAIN catalog[p] : catalog[p][k].id = q.part
    BY <2>1 DEF CatalogIds
  <2>3. catalog[p][k] \in RowsFor(q.part)
    BY <2>2 DEF RowsFor
  <2> QED BY <2>3
<1>3. PICK r \in RowsFor(q.part) : b = [total |-> 1, size |-> 1, form |-> "int", rows |-> <<r>>]
  BY <1>1, <1>2 DEF DetailsOf
<1>4. PICK p \in Partitions : \E k \in DOMAIN catalog[p] : r = catalog[p][k] /\ catalog[p][k].id = q.part
  BY <1>3 DEF RowsFor
<1>5. b.rows = <<r>>
  BY <1>3
<1> QED BY <1>4, <1>5

\* The identity of a posting is no partition.
LEMMA PostingsAreDetails ==
    ASSUME ConfigInv, Kind = "job_alio", NEW p \in Partitions, NEW i \in CatalogIds(p)
    PROVE  i \notin Partitions /\ Partitions = {p}
<1>1. source \in Sources /\ source.id = "job_alio"
  BY DEF ConfigInv, build_connector, Kind
<1>2. catalog[p] \in source.catalogs[p] /\ p \in source.partitions
  BY DEF ConfigInv, Catalogs, Partitions
<1>3. source.partitions = {p} /\ \A k \in DOMAIN catalog[p] : catalog[p][k].id # p
  BY <1>1, <1>2, CatalogAssumption
<1> QED BY <1>3 DEF CatalogIds, Partitions

\* A faithful answer to a planned request calls for planned requests.
LEMMA CallsArePlanned ==
    ASSUME ConfigInv, Uncapped, NEW q, RequestOK(q), Planned(q), NEW b \in Faithful(q),
           NEW r \in remaining_requests(q, b, max_pages)
    PROVE  Planned(r)
<1>1. ~IsDetail(q)
  BY DEF remaining_requests
<1>2. PagePlanned(q)
  BY <1>1 DEF Planned, DetailPlanned
<1>3. /\ PageBase \in {0, 1} /\ ServedSize \in Nat \ {0}
  BY SourceFacts
<1>4. PICK n, a : n = Len(catalog[q.part]) /\ a = (q.page - PageBase) * ServedSize
  OBVIOUS
<1>5. q.page >= PageBase /\ q.part \in Partitions
  BY <1>2, <1>3 DEF PagePlanned
<1>6. /\ n \in Nat /\ DOMAIN catalog[q.part] = 1..n /\ b.total = n /\ b.size = ServedSize /\ b.form = NumberForm
      /\ \A i \in DOMAIN b.rows : a + i \in 1..n /\ b.rows[i] = catalog[q.part][a + i]
  BY <1>1, <1>4, <1>5, FaithfulPage
<1>7. CASE n = 0
  <2>1. r = [q EXCEPT !.ord = 1]
    BY <1>1, <1>6, <1>7 DEF remaining_requests
  <2>2. q = [part |-> q.part, page |-> q.page, ord |-> q.ord]
    BY DEF RequestOK, Request
  <2>3. r.part = q.part /\ r.page = q.page /\ r.ord = 1
    BY <2>1, <2>2
  <2>4. q.page = PageBase
    BY <1>2, <1>4, <1>7 DEF PagePlanned
  <2> QED BY <1>4, <1>5, <1>7, <2>3, <2>4 DEF Planned, PagePlanned
<1>8. CASE n # 0
  <2>1. r \in FurtherPages(q, b, max_pages) \/ (Kind = "job_alio" /\ \E i \in Identities(b) : r = Request(i, NoPage, 0))
    BY <1>1, <1>6, <1>8 DEF remaining_requests
  <2>2. CASE r \in FurtherPages(q, b, max_pages)
    <3>1. PlannedPages(b, max_pages) = CeilDiv(n, ServedSize)
      BY <1>6 DEF PlannedPages, page_size, Uncapped, PlansAsServed
    <3>2. PICK k \in PageBase + 1 .. PageBase + CeilDiv(n, ServedSize) - 1 : r = Request(q.part, k, 0)
      BY <2>2, <3>1 DEF FurtherPages
    <3>3. r.part = q.part /\ r.page = k /\ r.ord = 0
      BY <3>2 DEF Request
    <3>4. CeilDiv(n, ServedSize) \in Int
      BY <1>3, <1>6 DEF CeilDiv
    <3>5. k \in PageBase .. PageBase + CeilDiv(n, ServedSize) - 1
      BY <1>3, <3>2, <3>4
    <3> QED BY <1>4, <1>5, <1>8, <3>3, <3>5 DEF Planned, PagePlanned
  <2>3. CASE Kind = "job_alio" /\ \E i \in Identities(b) : r = Request(i, NoPage, 0)
    <3>1. PICK i \in Identities(b) : r = Request(i, NoPage, 0)
      BY <2>3
    <3>2. PICK k \in DOMAIN b.rows : i = b.rows[k].id
      BY DEF Identities
    <3>3. i \in CatalogIds(q.part)
      BY <1>6, <3>2 DEF CatalogIds
    <3>4. i \notin Partitions
      BY <1>5, <2>3, <3>3, PostingsAreDetails
    <3>5. r.part = i /\ r.page = NoPage /\ r.ord = 0
      BY <3>1 DEF Request
    <3> QED BY <1>5, <2>3, <3>3, <3>4, <3>5 DEF Planned, DetailPlanned, IsDetail
  <2> QED BY <2>1, <2>2, <2>3
<1> QED BY <1>7, <1>8

LEMMA PlannedKept == ASSUME IInv, TruthInv, Moves, Grows PROVE PlannedInv'
<1> SUFFICES ASSUME ~drift', Uncapped'
             PROVE  /\ Live' => \A q \in known' : Planned(q)'
                    /\ Fetched' => \A q \in DOMAIN requests' : Planned(q)'
  BY DEF PlannedInv
<1>1. ~drift /\ catalog' = catalog
  BY DEF Grows
<1>2. Uncapped /\ \A q : Planned(q)' = Planned(q)
  BY <1>1, AnswersKept DEF Grows
<1>3. ASSUME Live', NEW q \in known' PROVE Planned(q)
  <2>1. Live /\ MemoryInv /\ ConfigInv
    BY <1>3 DEF Moves, IInv
  <2>2. \A r \in known : Planned(r)
    BY <1>1, <1>2, <2>1 DEF TruthInv, PlannedInv
  <2>3. CASE /\ pc = "record" /\ Selected /\ record_attempt
             /\ known' = known \cup remaining_requests(cur, reply.body, max_pages)
    <3>1. cur \in known
      BY <2>1, <2>3 DEF MemoryInv, QueueInv, Doing, InFlight
    <3>2. RequestOK(cur)
      BY <2>1, <3>1 DEF MemoryInv, QueueInv
    <3>3. reply.body \in Faithful(cur)
      BY <1>1, <2>3 DEF TruthInv, FaithfulInv
    <3>4. \A r \in remaining_requests(cur, reply.body, max_pages) : Planned(r)
      BY <1>2, <2>1, <2>2, <3>1, <3>2, <3>3, CallsArePlanned
    <3> QED BY <1>3, <2>2, <2>3, <3>4
  <2>4. CASE known' = known
    BY <1>3, <2>2, <2>4
  <2> QED BY <1>3, <2>3, <2>4 DEF Grows
<1>4. ASSUME Fetched', NEW q \in DOMAIN requests' PROVE Planned(q)
  <2>1. UNCHANGED requests
    BY <1>4 DEF Moves
  <2>2. CASE Fetched
    BY <1>1, <1>2, <1>4, <2>1, <2>2 DEF TruthInv, PlannedInv
  <2>3. CASE pc = "loop" /\ queue = <<>>
    <3>1. MemoryInv /\ Live
      BY <2>3 DEF IInv, Live
    <3>2. DOMAIN requests = known
      BY <2>3, <3>1, ManifestAgrees
    <3> QED BY <1>1, <1>2, <1>4, <2>1, <3>1, <3>2 DEF TruthInv, PlannedInv
  <2> QED BY <1>4, <2>2, <2>3 DEF Moves
<1> QED BY <1>2, <1>3, <1>4

LEMMA TruthAtStart == Init => TruthInv
<1> SUFFICES ASSUME Init PROVE TruthInv
  OBVIOUS
<1>1. ConfigInv
  BY InitSatisfies DEF IInv
<1>2. observations = {} /\ pc = "start" /\ ~Fetched /\ known = initial_requests
  BY DEF Init, NoRun, Fetched
<1>3. ASSUME NEW q \in initial_requests PROVE Planned(q)
  <2>1. PICK p \in Partitions : q = Request(p, PageBase, 0)
    BY DEF initial_requests
  <2>2. q.part = p /\ q.page = PageBase /\ q.ord = 0
    BY <2>1 DEF Request
  <2>3. PageBase \in {0, 1} /\ ServedSize \in Nat \ {0} /\ Len(catalog[p]) \in Nat
    BY <1>1, SourceFacts
  <2>4. Len(catalog[p]) # 0 => PageBase \in PageBase .. PageBase + CeilDiv(Len(catalog[p]), ServedSize) - 1
    <3> SUFFICES ASSUME Len(catalog[p]) # 0
                 PROVE  PageBase \in PageBase .. PageBase + CeilDiv(Len(catalog[p]), ServedSize) - 1
      OBVIOUS
    <3>1. PICK n \in Nat \ {0} : n = Len(catalog[p])
      BY <2>3
    <3>2. 1 \in 1..n
      BY <3>1
    <3>3. \E k : k \in 1..CeilDiv(n, ServedSize)
      BY <2>3, <3>2, NumberExists
    <3>4. CeilDiv(n, ServedSize) \in Int
      BY <2>3 DEF CeilDiv
    <3> QED BY <2>3, <3>1, <3>3, <3>4
  <2> QED BY <2>2, <2>4 DEF Planned, PagePlanned
<1>4. SnapshotInv /\ CalledInv /\ FaithfulInv
  BY <1>2 DEF SnapshotInv, CalledInv, FaithfulInv
<1> QED BY <1>2, <1>3, <1>4 DEF TruthInv, PlannedInv

\* FetchEngine.run and the connectors: what is recorded is stored, what an
\* answer calls for is fetched before the run closes, and over a catalogue that
\* does not move every answer is that catalogue's and no request but those it
\* calls for is made.
THEOREM PlanFollowsCatalogue == Spec => []TruthInv
<1>1. IInv /\ IInv' /\ TruthInv /\ [Next]_vars => TruthInv'
  <2> SUFFICES ASSUME IInv, IInv', TruthInv, [Next]_vars PROVE TruthInv'
    OBVIOUS
  <2>1. Moves /\ Grows
    BY StepMoves, StepGrows
  <2> QED BY <2>1, SnapshotKept, CalledKept, FaithfulKept, PlannedKept DEF TruthInv
<1> QED BY <1>1, TruthAtStart, Invariance, PTL DEF Spec

-----------------------------------------------------------------------------
(* The second reading of the documents, that of partition_config.          *)

\* As many identities as numbers leave no room for two equal rows.
LEMMA RowsSqueezed ==
    ASSUME NEW pages, NEW s \in Nat \ {0}, NEW n \in Nat \ {0}, Contiguous(pages, CeilDiv(n, s)),
           \A d \in pages : DOMAIN d.body.rows = 1..Least(s, n - (d.req.page - 1) * s),
           Cardinality({r.id : r \in RowsOf(pages)}) = n
    PROVE  Cardinality(RowsOf(pages)) = n
<1>1. PICK slot : Numbers(slot, pages, n)
  BY PagesAreNumbered
<1>2. PICK R : R = RowsOf(pages)
  OBVIOUS
<1>3. \A r : r \in R <=> \E d \in pages : \E i \in DOMAIN d.body.rows : r = d.body.rows[i]
  BY <1>2 DEF RowsOf
<1>4. PICK f : f = [j \in 1..n |-> slot[j][1].body.rows[slot[j][2]]]
  OBVIOUS
<1>5. f \in [1..n -> R]
  BY <1>1, <1>3, <1>4 DEF Numbers
<1>6. ASSUME NEW r \in R PROVE \E j \in 1..n : f[j] = r
  <2>1. PICK d \in pages : \E i \in DOMAIN d.body.rows : r = d.body.rows[i]
    BY <1>3
  <2>2. PICK i \in DOMAIN d.body.rows : r = d.body.rows[i]
    BY <2>1
  <2>3. PICK j \in 1..n : slot[j] = <<d, i>>
    BY <1>1 DEF Numbers
  <2>4. f[j] = r
    BY <1>4, <2>2, <2>3
  <2> QED BY <2>4
<1>7. f \in Surjection(1..n, R)
  BY <1>5, <1>6 DEF Surjection
<1>8. IsFiniteSet(1..n) /\ Cardinality(1..n) = n
  <2>1. 1 \in Int /\ n \in Int /\ 1 <= n
    OBVIOUS
  <2>2. IsFiniteSet(1..n) /\ Cardinality(1..n) = n - 1 + 1
    BY <2>1, FS_Interval
  <2> QED BY <2>2
<1>9. IsFiniteSet(R) /\ Cardinality(R) <= n
  BY <1>7, <1>8, FS_Surjection
<1>10. PICK I : I = {r.id : r \in R}
  OBVIOUS
<1>11. PICK g : g = [r \in R |-> r.id]
  OBVIOUS
<1>12. g \in Surjection(R, I)
  BY <1>10, <1>11 DEF Surjection
<1>13. Cardinality(I) <= Cardinality(R)
  BY <1>9, <1>12, FS_Surjection
<1>14. Cardinality(R) \in Nat
  BY <1>9, FS_CardinalityType
<1> QED BY <1>2, <1>9, <1>10, <1>13, <1>14

\* What validate_completeness let pass, the stricter reading lets pass.
LEMMA ReadingsAgree ==
    ASSUME NEW pages, NEW s \in Nat \ {0}, NEW n \in Nat \ {0}, EveryPage(pages, n, s),
           \A d \in pages : BodyOK(d.body),
           \A d, e \in pages : d.req.page = e.req.page /\ d.req.ord = e.req.ord => d = e
    PROVE  /\ Contiguous(pages, CeilDiv(n, s)) /\ FullPages(pages, n, s)
           /\ \A d \in pages : DOMAIN d.body.rows = 1..Least(s, n - (d.req.page - 1) * s)
<1>1. Contiguous(pages, CeilDiv(n, s))
  BY DEF EveryPage, Contiguous
<1>2. ASSUME NEW d \in pages
      PROVE  /\ n - (d.req.page - 1) * s \in Nat \ {0}
             /\ Len(d.body.rows) = Least(s, n - (d.req.page - 1) * s)
             /\ DOMAIN d.body.rows = 1..Len(d.body.rows)
  <2>1. PICK k \in 1..CeilDiv(n, s) : k = d.req.page
    BY <1>1 DEF Contiguous
  <2>2. n - (k - 1) * s \in Nat \ {0}
    BY Left
  <2>3. Len(d.body.rows) = Least(s, n - (d.req.page - 1) * s)
    BY DEF EveryPage
  <2>4. PICK S : d.body.rows \in Seq(S)
    BY DEF BodyOK
  <2> QED BY <2>1, <2>2, <2>3, <2>4
<1>3. \A d \in pages : ~(n - (d.req.page - 1) * s < 0)
  BY <1>2
<1>4. FullPages(pages, n, s)
  BY <1>2, <1>3 DEF FullPages
<1> QED BY <1>1, <1>2, <1>4

\* Pages that declare n rows in pages of s, and hold them.
Whole(pages, n, s) ==
    /\ n \in Nat /\ s \in Nat \ {0} /\ StablePagination(pages)
    /\ Cardinality({r.id : r \in RowsOf(pages)}) = n
    /\ n = 0 => \A d \in pages : d.req.page = 1 /\ d.body.rows = <<>>
    /\ n # 0 => /\ Contiguous(pages, CeilDiv(n, s)) /\ FullPages(pages, n, s)
                /\ Cardinality(RowsOf(pages)) = n
                /\ \A d \in pages : d.req.ord = 0

\* A partition of a READY run, as process.py read it.
LEMMA ReadyPartition ==
    ASSUME ConfigInv, RowsInv, Ready, NEW p \in Partitions, NEW one \in Pages(Inputs, p)
    PROVE  Whole(Pages(Inputs, p), one.body.total, SizeOf(one.body))
<1> DEFINE pages == Pages(Inputs, p)
           n == one.body.total
           s == SizeOf(one.body)
<1>1. validate_completeness(Inputs) /\ ~Rejected(Inputs)
  BY DEF Ready, run_inputs, Verdict
<1>2. /\ \A d \in Inputs : RequestOK(d.req) /\ BodyOK(d.body)
      /\ \A d, e \in Inputs : d.req = e.req => d = e
  BY InputsAreEvidence DEF RowsInv
<1>3. \A d \in pages : d \in Inputs /\ d.req.part = p
  BY DEF Pages
<1>4. \A d \in pages : BodyOK(d.body) /\ Accepted(d) = DOMAIN d.body.rows
  BY <1>1, <1>2, <1>3 DEF Rejected
<1>5. \A d, e \in pages : d.req.page = e.req.page /\ d.req.ord = e.req.ord => d = e
  BY <1>2, <1>3 DEF RequestOK
<1>6. CompletePartition(pages)
  BY <1>1, <1>3 DEF validate_completeness, Parts
<1>7. PICK first \in pages : first = CHOOSE d \in pages : TRUE
  OBVIOUS
<1>8. ~IsDetail(first.req)
  BY <1>3, <1>7 DEF IsDetail
<1>9. /\ UniqueIdentities(pages) /\ StablePagination(pages)
      /\ IF first.body.total = 0 THEN ConfirmedEmpty(pages) ELSE EveryPage(pages, first.body.total, SizeOf(first.body))
  BY <1>6, <1>7, <1>8 DEF CompletePartition
<1>10. first.body.total = n /\ SizeOf(first.body) = s
  BY <1>9 DEF StablePagination
<1>11. n \in Nat /\ s \in Nat \ {0}
  BY <1>4, SizesRead DEF BodyOK
<1>12. one \in pages /\ n = one.body.total
  OBVIOUS
<1> HIDE DEF pages, n, s
<1>13. Cardinality({r.id : r \in RowsOf(pages)}) = n
  <2>1. \A d \in pages : Cardinality(UNION {Identities(e.body) : e \in pages}) = d.body.total
    BY ONLY <1>4, <1>5, <1>7, <1>9, PagesAddUp
  <2>2. {r.id : r \in RowsOf(pages)} = UNION {Identities(e.body) : e \in pages}
    BY DEF RowsOf, Identities
  <2> QED BY <1>12, <2>1, <2>2
<1>14. n = 0 => \A d \in pages : d.req.page = 1 /\ d.body.rows = <<>>
  BY <1>9, <1>10 DEF ConfirmedEmpty
<1>15. ASSUME n # 0
       PROVE  /\ Contiguous(pages, CeilDiv(n, s)) /\ FullPages(pages, n, s)
              /\ Cardinality(RowsOf(pages)) = n
              /\ \A d \in pages : d.req.ord = 0
  <2>1. EveryPage(pages, n, s) /\ n \in Nat \ {0}
    BY <1>9, <1>10, <1>11, <1>15
  <2>2. /\ Contiguous(pages, CeilDiv(n, s)) /\ FullPages(pages, n, s)
        /\ \A d \in pages : DOMAIN d.body.rows = 1..Least(s, n - (d.req.page - 1) * s)
    <3>1. \A d \in pages : BodyOK(d.body)
      BY <1>4
    <3> QED BY ONLY <1>5, <1>11, <2>1, <3>1, ReadingsAgree
  <2>3. Cardinality(RowsOf(pages)) = n
    BY <1>11, <1>13, <2>1, <2>2, RowsSqueezed
  <2>4. \A d \in pages : d.req.ord = 0
    BY <2>1 DEF EveryPage
  <2> QED BY <2>2, <2>3, <2>4
<1>16. Whole(pages, n, s)
  BY <1>9, <1>11, <1>13, <1>14, <1>15 DEF Whole
<1> QED BY <1>16 DEF pages, n, s

\* Every configured partition of a closed run has its first page.
LEMMA FirstPage ==
    ASSUME RowsInv, Fetched, NEW p \in Partitions
    PROVE  \E d \in Pages(Inputs, p) : d.req = Request(p, PageBase, 0)
<1>1. Request(p, PageBase, 0) \in DOMAIN requests
  BY DEF RowsInv, PlanInv, initial_requests
<1>2. PICK o \in InputObs : o.id[1] = Request(p, PageBase, 0)
  BY <1>1 DEF RowsInv, PlanInv
<1>3. PICK d : d = [req |-> o.id[1], body |-> o.body]
  OBVIOUS
<1>4. d \in Inputs /\ d.req = Request(p, PageBase, 0)
  BY <1>2, <1>3 DEF Inputs
<1>5. d.req.part = p
  BY <1>4 DEF Request
<1> QED BY <1>4, <1>5 DEF Pages

ToTheLetter ==
    \A r \in RowsOf(Inputs) : r.id \notin Unlike /\ (Kind = "ncs_qualification" => r.id \notin Odd)

LEMMA ReadyDerivesCodes == ASSUME ConfigInv, RowsInv, TruthInv PROVE ReadyDerives
<1> SUFFICES ASSUME Ready, max_pages = NoLimit,
                    CASE Kind = "ncs_competency" -> Allowed \subseteq {r.fact : r \in RowsOf(Inputs)}
                      [] Kind = "ncs_qualification" -> \E r \in RowsOf(Inputs) : TRUE
                      [] OTHER -> FALSE
             PROVE  DerivedCodes # {} <=> Stated(Inputs) /\ ToTheLetter
  BY DEF ReadyDerives, ToTheLetter
<1>1. run_inputs /\ Fetched
  BY DEF Ready, run_inputs
<1>2. selected_run_documents
  <2>1. run.planned >= 1 /\ run.successful = run.planned /\ Cardinality(InputObs) = run.successful
    <3>1. run.planned \in Nat \ {0}
      BY <1>1 DEF TruthInv, SnapshotInv
    <3> QED BY <1>1, <3>1 DEF run_inputs
  <2>2. \A o \in InputObs : o.body \in raw
    BY DEF InputObs, TruthInv, SnapshotInv, Success
  <2> QED BY <1>1, <2>1, <2>2 DEF selected_run_documents, read_snapshot
<1>3. DerivedCodes = derive(Inputs)
  BY <1>2 DEF DerivedCodes
<1>4. Kind \in {"ncs_competency", "ncs_qualification"}
  OBVIOUS
<1>5. \A d \in Inputs : RequestOK(d.req) /\ d.req.part \in Partitions
  <2>1. \A d \in Inputs : RequestOK(d.req)
    BY InputsAreEvidence DEF RowsInv
  <2> QED BY <1>4, <2>1 DEF RequestOK
<1>6. ~Rejected(Inputs)
  BY DEF Ready, Verdict
<1>7. CASE Kind = "ncs_competency"
  <2>1. Partitions = {"all"}
    BY <1>7, PartitionAssumption DEF ConfigInv, build_connector, Kind, Partitions
  <2>2. Inputs = Pages(Inputs, "all")
    BY <1>5, <2>1 DEF Pages
  <2>3. Inputs # {}
    BY <1>1, <2>1, <2>2, FirstPage
  <2>4. PICK one \in Inputs : one = CHOOSE d \in Inputs : TRUE
    BY <2>3
  <2>5. PICK n, s : n = one.body.total /\ s = SizeOf(one.body)
    OBVIOUS
  <2>6. Whole(Inputs, n, s)
    <3>1. "all" \in Partitions /\ one \in Pages(Inputs, "all")
      BY <2>1, <2>2, <2>4
    <3>2. Whole(Pages(Inputs, "all"), one.body.total, SizeOf(one.body))
      BY <3>1, ReadyPartition
    <3> QED BY <2>2, <2>5, <3>2
  <2>7. Allowed \subseteq {r.fact : r \in RowsOf(Inputs)}
    BY <1>7
  <2>8. PICK w \in RowsOf(Inputs) : w.fact \in Allowed
    BY <2>7, PartitionAssumption
  <2>9. n # 0
    BY <2>6, <2>8 DEF RowsOf, Whole
  <2>10. CeilDiv(n, s) # 0
    <3>1. n \in Nat \ {0} /\ 1 \in 1..n
      BY <2>6, <2>9 DEF Whole
    <3>2. \E k : k \in 1..CeilDiv(n, s)
      BY <2>6, <3>1, NumberExists DEF Whole
    <3> QED BY <3>2
  <2>11. \A r \in RowsOf(Inputs) : normalize(r)
    BY <1>6 DEF RowsOf, Rejected, Accepted
  <2>12. \A d \in Inputs : d.req.part = "all"
    BY <1>5, <2>1
  <2>13. ASSUME Stated(Inputs) PROVE complete_ncs_records(Inputs)
    <3>1. s = one.body.size
      BY <2>4, <2>5, <2>13 DEF Stated, SizeOf
    <3> QED BY <2>3, <2>4, <2>5, <2>6, <2>9, <2>10, <2>11, <2>12, <2>13, <3>1 DEF complete_ncs_records, Whole
  <2>14. PICK allowed : allowed = {r \in RowsOf(Inputs) : r.fact \in Allowed}
    OBVIOUS
  <2>15. {r.fact : r \in allowed} = Allowed
    BY <2>7, <2>14
  <2>16. derive(Inputs) = IF complete_ncs_records(Inputs) /\ ToTheLetter THEN {r.id : r \in allowed} ELSE {}
    BY <1>7, <2>14, <2>15 DEF derive, derive_ncs_qualification_codes, ToTheLetter
  <2>17. w \in allowed
    BY <2>8, <2>14
  <2>18. complete_ncs_records(Inputs) => Stated(Inputs)
    BY DEF complete_ncs_records
  <2> QED BY <1>3, <2>13, <2>16, <2>17, <2>18
<1>8. CASE Kind = "ncs_qualification"
  <2>1. ASSUME Stated(Inputs), NEW p \in Parts(Inputs), NEW pages, pages = Pages(Inputs, p),
               NEW one, one = CHOOSE d \in pages : TRUE
        PROVE  /\ StablePagination(pages)
               /\ IF one.body.total = 0
                  THEN \A d \in pages : d.req.page = 1 /\ d.body.rows = <<>>
                  ELSE /\ Contiguous(pages, CeilDiv(one.body.total, one.body.size))
                       /\ FullPages(pages, one.body.total, one.body.size)
                       /\ Cardinality(RowsOf(pages)) = one.body.total
    <3>1. p \in Partitions /\ pages # {}
      BY <1>5, <2>1 DEF Parts, Pages
    <3>2. one \in pages
      BY <2>1, <3>1
    <3>3. Whole(Pages(Inputs, p), one.body.total, SizeOf(one.body))
      BY <2>1, <3>1, <3>2, ReadyPartition
    <3>4. SizeOf(one.body) = one.body.size
      BY <2>1, <3>2 DEF Pages, Stated, SizeOf
    <3> QED BY <2>1, <3>3, <3>4 DEF Whole
  <2>2. complete_qualification_records(Inputs) <=>
           Stated(Inputs) /\ \A r \in RowsOf(Inputs) : r.id \notin Unlike
    BY <2>1 DEF complete_qualification_records
  <2>3. derive(Inputs) = IF Stated(Inputs) /\ ToTheLetter THEN {r.id : r \in RowsOf(Inputs)} ELSE {}
    <3>1. ToTheLetter <=> /\ \A r \in RowsOf(Inputs) : r.id \notin Unlike
                          /\ \A r \in RowsOf(Inputs) : r.id \notin Odd
      BY <1>8 DEF ToTheLetter
    <3>2. derive(Inputs) = derive_qnet_item_codes(Inputs)
      BY <1>8 DEF derive
    <3> QED BY <2>2, <3>1, <3>2 DEF derive_qnet_item_codes
  <2>4. PICK r \in RowsOf(Inputs) : TRUE
    BY <1>8
  <2>5. r.id \in {x.id : x \in RowsOf(Inputs)}
    BY <2>4
  <2> QED BY <1>3, <2>3, <2>5
<1> QED BY <1>4, <1>7, <1>8

\* dependency_settings over process_run: the stricter reading of
\* partition_config refuses the documents of a READY run exactly when a number
\* in them is no JSON integer or a code or name is not to the letter (given
\* that there is something on the allowlist), so that nothing else keeps the
\* dependent source from its refreshes; for every page size, total and number
\* of partitions.
THEOREM ReadyRunsAreUsable == Spec => []ReadyDerives
<1>1. IInv /\ RowsInv /\ TruthInv => ReadyDerives
  BY ReadyDerivesCodes DEF IInv
<1> QED BY <1>1, Invariance, EvidenceIsSound, PlanFollowsCatalogue, PTL

\* The documents of a closed run over a catalogue that did not move.
LEMMA InputsAreFaithful ==
    ASSUME TruthInv, ~drift, NEW d \in Inputs
    PROVE  d.body \in Faithful(d.req)
<1>1. PICK o \in InputObs : d = [req |-> o.id[1], body |-> o.body]
  BY DEF Inputs
<1>2. d.req = o.id[1] /\ d.body = o.body
  BY <1>1
<1>3. o \in observations /\ Success(o)
  BY DEF InputObs, Success
<1> QED BY <1>2, <1>3 DEF TruthInv, FaithfulInv

\* Pages that miss none hold the rows of the catalogue.
LEMMA PagesHoldCatalogue ==
    ASSUME ConfigInv, RowsInv, TruthInv, ~drift, NEW p \in Partitions,
           \A d \in Pages(Inputs, p) : d.req.page >= PageBase,
           \A k \in 1..CeilDiv(Len(catalog[p]), ServedSize) :
              Len(catalog[p]) # 0 => \E d \in Pages(Inputs, p) : d.req.page = PageBase + k - 1
    PROVE  RowsOf(Pages(Inputs, p)) = {catalog[p][k] : k \in DOMAIN catalog[p]}
<1>1. /\ PageBase \in {0, 1} /\ ServedSize \in Nat \ {0}
      /\ catalog[p] \in Seq({catalog[p][i] : i \in DOMAIN catalog[p]})
  BY SourceFacts
<1>2. PICK n : n = Len(catalog[p])
  OBVIOUS
<1>3. n \in Nat /\ DOMAIN catalog[p] = 1..n
  BY <1>1, <1>2
<1>4. ASSUME NEW d \in Pages(Inputs, p), NEW a, a = (d.req.page - PageBase) * ServedSize
      PROVE  /\ DOMAIN d.body.rows = 1..Len(d.body.rows)
             /\ Len(d.body.rows) = IF a < n THEN Least(ServedSize, n - a) ELSE 0
             /\ \A i \in DOMAIN d.body.rows : a + i \in 1..n /\ d.body.rows[i] = catalog[p][a + i]
  <2>1. d \in Inputs /\ d.req.part = p
    BY DEF Pages
  <2>2. PICK q, b : q = d.req /\ b = d.body
    OBVIOUS
  <2>3. RequestOK(q) /\ ~IsDetail(q)
    BY <2>1, <2>2, InputsAreEvidence DEF RowsInv, IsDetail
  <2>4. b \in Faithful(q)
    BY <2>1, <2>2, InputsAreFaithful
  <2>5. q.page >= PageBase /\ n = Len(catalog[q.part]) /\ a = (q.page - PageBase) * ServedSize
    BY <1>2, <1>4, <2>1, <2>2
  <2>6. /\ DOMAIN b.rows = 1..Len(b.rows) /\ Len(b.rows) = IF a < n THEN Least(ServedSize, n - a) ELSE 0
        /\ \A i \in DOMAIN b.rows : a + i \in 1..n /\ b.rows[i] = catalog[q.part][a + i]
    BY ONLY ConfigInv, <2>3, <2>4, <2>5, FaithfulPage
  <2> QED BY <2>1, <2>2, <2>6
<1>5. ASSUME NEW r \in RowsOf(Pages(Inputs, p)) PROVE \E k \in DOMAIN catalog[p] : r = catalog[p][k]
  <2>1. PICK d \in Pages(Inputs, p) : \E i \in DOMAIN d.body.rows : r = d.body.rows[i]
    BY DEF RowsOf
  <2>2. PICK i \in DOMAIN d.body.rows : r = d.body.rows[i]
    BY <2>1
  <2>3. PICK a : a = (d.req.page - PageBase) * ServedSize
    OBVIOUS
  <2>4. a + i \in 1..n /\ d.body.rows[i] = catalog[p][a + i]
    BY <1>4, <2>3
  <2> QED BY <1>3, <2>2, <2>4
<1>6. ASSUME NEW j \in DOMAIN catalog[p] PROVE catalog[p][j] \in RowsOf(Pages(Inputs, p))
  <2>1. n \in Nat \ {0} /\ j \in 1..n
    BY <1>3
  <2>2. PICK k \in 1..CeilDiv(n, ServedSize) :
           \E i \in 1..Least(ServedSize, n - (k - 1) * ServedSize) : j = (k - 1) * ServedSize + i
    BY <1>1, <2>1, NumberExists
  <2>3. PICK i \in 1..Least(ServedSize, n - (k - 1) * ServedSize) : j = (k - 1) * ServedSize + i
    BY <2>2
  <2>4. PICK d \in Pages(Inputs, p) : d.req.page = PageBase + k - 1
    BY <1>2, <2>1
  <2>5. n - (k - 1) * ServedSize \in Nat \ {0} /\ k \in Nat \ {0}
    BY <1>1, <2>1, Left
  <2>6. PICK a : a = (d.req.page - PageBase) * ServedSize
    OBVIOUS
  <2>7. a = (k - 1) * ServedSize /\ a \in Int
    <3>1. d.req.page - PageBase = k - 1
      BY <1>1, <2>4, <2>5
    <3>2. (k - 1) * ServedSize \in Int
      BY <1>1, <2>5
    <3> QED BY <2>6, <3>1, <3>2
  <2>8. a < n
    BY <2>1, <2>5, <2>7
  <2>9. i \in DOMAIN d.body.rows /\ d.body.rows[i] = catalog[p][a + i]
    <3>1. /\ DOMAIN d.body.rows = 1..Len(d.body.rows)
          /\ Len(d.body.rows) = IF a < n THEN Least(ServedSize, n - a) ELSE 0
          /\ \A m \in DOMAIN d.body.rows : a + m \in 1..n /\ d.body.rows[m] = catalog[p][a + m]
      BY <1>4, <2>6
    <3> QED BY <2>3, <2>7, <2>8, <3>1
  <2>10. d.body.rows[i] = catalog[p][j]
    BY <2>3, <2>7, <2>9
  <2> QED BY <2>9, <2>10 DEF RowsOf
<1> QED BY <1>5, <1>6

\* What partition_config requires of a partition's pages.
Covered(pages, n, s) ==
    /\ n \in Nat /\ s \in Nat \ {0}
    /\ \A d \in pages : d.body.total = n /\ d.body.size = s
    /\ Cardinality(RowsOf(pages)) = n
    /\ \A d \in pages : d.req.page \in Nat \ {0}
    /\ n = 0 => \A d \in pages : d.req.page = 1
    /\ n # 0 => \A k \in 1..CeilDiv(n, s) : \E d \in pages : d.req.page = k

LEMMA CompetencyCovered ==
    ASSUME NEW docs, complete_ncs_records(docs), \A d \in docs : BodyOK(d.body)
    PROVE  \E n, s : Covered(docs, n, s)
<1>1. PICK one \in docs : one = CHOOSE d \in docs : TRUE
  BY DEF complete_ncs_records
<1>2. PICK n \in Nat, s \in Nat \ {0} : n = one.body.total /\ s = one.body.size
  BY DEF BodyOK
<1>3. PICK P : P = IF CeilDiv(n, s) = 0 THEN 1 ELSE CeilDiv(n, s)
  OBVIOUS
<1>4. /\ Contiguous(docs, P) /\ FullPages(docs, n, s)
      /\ Cardinality({r.id : r \in RowsOf(docs)}) = n
  BY <1>1, <1>2, <1>3 DEF complete_ncs_records
<1>5. \A d \in docs : d.body.total = n /\ d.body.size = s
  BY <1>1, <1>2 DEF complete_ncs_records, StablePagination, Stated, SizeOf
<1>6. CASE n = 0
  <2>1. CeilDiv(n, s) = 0
    <3>1. PICK q \in Nat : q * s <= s - 1 /\ q = (s - 1) \div s
      <4>1. s - 1 \in Nat
        OBVIOUS
      <4> QED BY <4>1, Division
    <3>2. ~(0 < q)
      <4> SUFFICES ASSUME 0 < q PROVE FALSE
        OBVIOUS
      <4>1. 0 * s + s <= q * s
        BY Times
      <4>2. q * s \in Int /\ 0 * s = 0
        OBVIOUS
      <4> QED BY <3>1, <4>1, <4>2
    <3>3. q = 0 /\ n + s - 1 = s - 1
      BY <1>6, <3>2
    <3> QED BY <3>1, <3>3 DEF CeilDiv
  <2>2. \A d \in docs : d.req.page = 1
    <3>1. {d.req.page : d \in docs} = 1..1
      BY <1>3, <1>4, <2>1 DEF Contiguous
    <3>2. \A d \in docs : d.req.page \in 1..1
      BY <3>1
    <3> QED BY <3>2
  <2>3. \A d \in docs : d.body.rows = <<>>
    <3> SUFFICES ASSUME NEW d \in docs PROVE d.body.rows = <<>>
      OBVIOUS
    <3>1. PICK left : left = n - (d.req.page - 1) * s
      OBVIOUS
    <3>2. left = 0
      BY <1>6, <2>2, <3>1
    <3>3. Len(d.body.rows) = IF left < 0 THEN 0 ELSE Least(s, left)
      BY <1>4, <3>1 DEF FullPages
    <3>4. Len(d.body.rows) = 0
      BY <3>2, <3>3 DEF Least
    <3>5. PICK S : d.body.rows \in Seq(S)
      BY DEF BodyOK
    <3> QED BY <3>4, <3>5
  <2>4. RowsOf(docs) = {}
    BY <2>3 DEF RowsOf
  <2>5. Cardinality(RowsOf(docs)) = n
    BY <1>6, <2>4, FS_EmptySet
  <2>6. Covered(docs, n, s)
    BY <1>5, <1>6, <2>2, <2>5 DEF Covered
  <2> QED BY <2>6
<1>7. CASE n # 0
  <2>1. n \in Nat \ {0} /\ 1 \in 1..n
    BY <1>7
  <2>2. PICK k : k \in 1..CeilDiv(n, s)
    BY <2>1, NumberExists
  <2>3. CeilDiv(n, s) \in Nat \ {0}
    BY <2>1, <2>2, Left
  <2>4. Contiguous(docs, CeilDiv(n, s))
    BY <1>3, <1>4, <2>3
  <2>5. ASSUME NEW d \in docs
        PROVE  d.req.page \in Nat \ {0} /\ DOMAIN d.body.rows = 1..Least(s, n - (d.req.page - 1) * s)
    <3>1. PICK m \in 1..CeilDiv(n, s) : m = d.req.page
      BY <2>4 DEF Contiguous
    <3>2. n - (m - 1) * s \in Nat \ {0} /\ m \in Nat \ {0}
      BY <2>1, Left
    <3>3. PICK left \in Nat \ {0} : left = n - (d.req.page - 1) * s
      BY <3>1, <3>2
    <3>4. Len(d.body.rows) = IF left < 0 THEN 0 ELSE Least(s, left)
      BY <1>4, <3>3 DEF FullPages
    <3>5. Len(d.body.rows) = Least(s, left)
      BY <3>3, <3>4
    <3>6. PICK S : d.body.rows \in Seq(S)
      BY DEF BodyOK
    <3> QED BY <3>1, <3>2, <3>3, <3>5, <3>6
  <2>6. Cardinality(RowsOf(docs)) = n
    BY <1>4, <2>1, <2>4, <2>5, RowsSqueezed
  <2>7. Covered(docs, n, s)
    BY <1>5, <1>7, <2>4, <2>5, <2>6 DEF Covered, Contiguous
  <2> QED BY <2>7
<1> QED BY <1>6, <1>7

LEMMA QualificationCovered ==
    ASSUME NEW docs, complete_qualification_records(docs), \A d \in docs : BodyOK(d.body),
           NEW p \in Parts(docs)
    PROVE  \E n, s : Covered(Pages(docs, p), n, s)
<1>1. PICK pages : pages = Pages(docs, p)
  OBVIOUS
<1>2. pages # {} /\ \A d \in pages : BodyOK(d.body) /\ d.body.form = "int"
  BY <1>1 DEF Pages, Parts, complete_qualification_records, Stated
<1>3. PICK one \in pages : one = CHOOSE d \in pages : TRUE
  BY <1>2
<1>4. PICK n \in Nat, s \in Nat \ {0} : n = one.body.total /\ s = one.body.size
  BY <1>2 DEF BodyOK
<1>5. /\ StablePagination(pages)
      /\ IF n = 0
         THEN \A d \in pages : d.req.page = 1 /\ d.body.rows = <<>>
         ELSE /\ Contiguous(pages, CeilDiv(n, s))
              /\ Cardinality(RowsOf(pages)) = n
  BY <1>1, <1>3, <1>4 DEF complete_qualification_records
<1>6. \A d \in pages : d.body.total = n /\ d.body.size = s
  BY <1>2, <1>3, <1>4, <1>5 DEF StablePagination, SizeOf
<1>7. CASE n = 0
  <2>1. RowsOf(pages) = {}
    BY <1>5, <1>7 DEF RowsOf
  <2>2. Cardinality(RowsOf(pages)) = n
    BY <1>7, <2>1, FS_EmptySet
  <2>3. Covered(pages, n, s)
    BY <1>5, <1>6, <1>7, <2>2 DEF Covered
  <2> QED BY <1>1, <2>3
<1>8. CASE n # 0
  <2>1. n \in Nat \ {0}
    BY <1>8
  <2>2. \A d \in pages : d.req.page \in Nat \ {0}
    <3>1. \A d \in pages : d.req.page \in 1..CeilDiv(n, s)
      BY <1>5, <1>8 DEF Contiguous
    <3> QED BY <2>1, <3>1, Left
  <2>3. Covered(pages, n, s)
    BY <1>5, <1>6, <1>8, <2>2 DEF Covered, Contiguous
  <2> QED BY <1>1, <2>3
<1> QED BY <1>7, <1>8

LEMMA DerivedRows == ASSUME ConfigInv, RowsInv, TruthInv PROVE DerivedIsWhole
<1> SUFFICES ASSUME DerivedCodes # {}
             PROVE  /\ \A p \in Partitions : \A d \in Pages(Inputs, p) :
                          Cardinality(RowsOf(Pages(Inputs, p))) = d.body.total
                    /\ ~drift => DerivedCodes = CatalogCodes
  BY DEF DerivedIsWhole
<1>1. selected_run_documents /\ DerivedCodes = derive(Inputs)
  BY DEF DerivedCodes
<1>2. Fetched
  BY <1>1 DEF selected_run_documents
<1>3. \A d \in Inputs : RequestOK(d.req) /\ BodyOK(d.body)
  BY InputsAreEvidence DEF RowsInv
<1>4. Kind = "ncs_competency" \/ Kind = "ncs_qualification"
  BY <1>1 DEF derive
<1>5. \A d \in Inputs : d.req.part \in Partitions
  BY <1>3, <1>4 DEF RequestOK
<1>6. Kind = "ncs_competency" =>
         /\ complete_ncs_records(Inputs)
         /\ DerivedCodes = {r.id : r \in {r \in RowsOf(Inputs) : r.fact \in Allowed}}
  BY <1>1 DEF derive, derive_ncs_qualification_codes
<1>7. Kind = "ncs_qualification" =>
         complete_qualification_records(Inputs) /\ DerivedCodes = {r.id : r \in RowsOf(Inputs)}
  BY <1>1 DEF derive, derive_qnet_item_codes
<1>8. ASSUME NEW p \in Partitions PROVE \E n, s : Covered(Pages(Inputs, p), n, s)
  <2>1. PICK first \in Pages(Inputs, p) : first.req = Request(p, PageBase, 0)
    BY <1>2, FirstPage
  <2>2. first \in Inputs /\ first.req.part = p
    BY DEF Pages
  <2>3. CASE Kind = "ncs_competency"
    <3>1. \A d \in Inputs : d.req.part = "all"
      BY <1>6, <2>3 DEF complete_ncs_records
    <3>2. Inputs = Pages(Inputs, p)
      BY <2>2, <3>1 DEF Pages
    <3>3. \E n, s : Covered(Inputs, n, s)
      BY <1>3, <1>6, <2>3, CompetencyCovered
    <3> QED BY <3>2, <3>3
  <2>4. CASE Kind = "ncs_qualification"
    <3>1. p \in Parts(Inputs)
      BY <2>2 DEF Parts
    <3> QED BY <1>3, <1>7, <2>4, <3>1, QualificationCovered
  <2> QED BY <1>4, <2>3, <2>4
<1>9. ASSUME NEW p \in Partitions, NEW d \in Pages(Inputs, p)
      PROVE  Cardinality(RowsOf(Pages(Inputs, p))) = d.body.total
  BY <1>8 DEF Covered
<1>10. ASSUME ~drift PROVE DerivedCodes = CatalogCodes
  <2>1. ASSUME NEW p \in Partitions
        PROVE  RowsOf(Pages(Inputs, p)) = {catalog[p][k] : k \in DOMAIN catalog[p]}
    <3>1. PICK pages : pages = Pages(Inputs, p)
      OBVIOUS
    <3>2. PICK n, s : Covered(pages, n, s)
      BY <1>8, <3>1
    <3>3. PICK first \in pages : first.req = Request(p, PageBase, 0)
      BY <1>2, <3>1, FirstPage
    <3>4. first.req.page = PageBase /\ first.req.part = p /\ first \in Inputs
      BY <3>1, <3>3 DEF Request, Pages
    <3>5. PageBase = 1
      <4>1. PageBase \in {0, 1}
        BY SourceFacts
      <4>2. first.req.page \in Nat \ {0}
        BY <3>2, <3>3 DEF Covered
      <4> QED BY <3>4, <4>1, <4>2
    <3>6. n = Len(catalog[p]) /\ s = ServedSize
      <4>1. PICK q, b : q = first.req /\ b = first.body
        OBVIOUS
      <4>2. PICK a : a = (q.page - PageBase) * ServedSize
        OBVIOUS
      <4>3. RequestOK(q) /\ ~IsDetail(q) /\ q.part = p /\ q.page = PageBase
        BY <1>3, <1>5, <3>4, <4>1 DEF IsDetail
      <4>4. b \in Faithful(q)
        BY <1>10, <3>4, <4>1, InputsAreFaithful
      <4>5. q.page >= PageBase
        BY <3>5, <4>3
      <4>6. b.total = Len(catalog[q.part]) /\ b.size = ServedSize
        BY <4>2, <4>3, <4>4, <4>5, FaithfulPage
      <4> QED BY <3>2, <4>1, <4>3, <4>6 DEF Covered
    <3>7. \A d \in pages : d.req.page \in Nat \ {0}
      BY <3>2 DEF Covered
    <3>8. \A d \in pages : d.req.page >= PageBase
      BY <3>5, <3>7
    <3>9. \A k \in 1..CeilDiv(Len(catalog[p]), ServedSize) :
             Len(catalog[p]) # 0 => \E d \in pages : d.req.page = PageBase + k - 1
      <4> SUFFICES ASSUME NEW k \in 1..CeilDiv(Len(catalog[p]), ServedSize), Len(catalog[p]) # 0
                   PROVE  \E d \in pages : d.req.page = PageBase + k - 1
        OBVIOUS
      <4>1. PICK d \in pages : d.req.page = k
        BY <3>2, <3>6 DEF Covered
      <4>2. PageBase + k - 1 = k
        BY <3>5, <3>7, <4>1
      <4> QED BY <4>1, <4>2
    <3> QED BY <1>10, <3>1, <3>8, <3>9, PagesHoldCatalogue
  <2>2. PICK R : R = UNION {{catalog[p][k] : k \in DOMAIN catalog[p]} : p \in Partitions}
    OBVIOUS
  <2>3. \A r : r \in R <=> \E p \in Partitions : r \in RowsOf(Pages(Inputs, p))
    BY <2>1, <2>2
  <2>4. \A r : r \in RowsOf(Inputs) <=> \E p \in Partitions : r \in RowsOf(Pages(Inputs, p))
    <3>1. \A r, docs : r \in RowsOf(docs) <=> \E d \in docs : r \in {d.body.rows[i] : i \in DOMAIN d.body.rows}
      BY DEF RowsOf
    <3>2. \A p, d : d \in Pages(Inputs, p) <=> d \in Inputs /\ d.req.part = p
      BY DEF Pages
    <3> QED BY <1>5, <3>1, <3>2
  <2>5. RowsOf(Inputs) = R
    BY <2>3, <2>4
  <2>6. CatalogCodes = {r.id : r \in {r \in R : Kind = "ncs_competency" => r.fact \in Allowed}}
    BY <2>2 DEF CatalogCodes
  <2>7. CASE Kind = "ncs_competency"
    BY <1>6, <2>5, <2>6, <2>7
  <2>8. CASE Kind = "ncs_qualification"
    BY <1>7, <2>5, <2>6, <2>8
  <2> QED BY <1>4, <2>7, <2>8
<1> QED BY <1>9, <1>10

\* derive_ncs_qualification_codes and derive_qnet_item_codes: codes are only
\* ever derived from documents that hold every row their pages declare, and over
\* a catalogue that did not move they are exactly that catalogue's codes.
THEOREM CodesAreWhole == Spec => []DerivedIsWhole
<1>1. IInv /\ RowsInv /\ TruthInv => DerivedIsWhole
  BY DerivedRows DEF IInv
<1> QED BY <1>1, Invariance, EvidenceIsSound, PlanFollowsCatalogue, PTL

-----------------------------------------------------------------------------
(* A closed run over a catalogue that did not move.                        *)

Clean == Fetched /\ ~drift /\ Uncapped

\* Its documents are the planned requests, and answer them.
LEMMA CleanInputs ==
    ASSUME ConfigInv, RowsInv, TruthInv, Clean
    PROVE  /\ \A d \in Inputs : /\ RequestOK(d.req) /\ BodyOK(d.body) /\ Planned(d.req) /\ d.body \in Faithful(d.req)
                                /\ \A q \in remaining_requests(d.req, d.body, max_pages) :
                                      \E e \in Inputs : e.req = q
           /\ \A d, e \in Inputs : d.req = e.req => d = e
<1>1. \A q \in DOMAIN requests : \E e \in Inputs : e.req = q
  <2> SUFFICES ASSUME NEW q \in DOMAIN requests PROVE \E e \in Inputs : e.req = q
    OBVIOUS
  <2>1. PICK o \in InputObs : o.id[1] = q
    BY DEF RowsInv, PlanInv, Clean
  <2>2. PICK e : e = [req |-> o.id[1], body |-> o.body]
    OBVIOUS
  <2>3. e \in Inputs /\ e.req = q
    BY <2>1, <2>2 DEF Inputs
  <2> QED BY <2>3
<1>2. ASSUME NEW d \in Inputs
      PROVE  /\ Planned(d.req)
             /\ \A q \in remaining_requests(d.req, d.body, max_pages) : \E e \in Inputs : e.req = q
  <2>1. PICK o \in InputObs : d = [req |-> o.id[1], body |-> o.body]
    BY DEF Inputs
  <2>2. d.req = o.id[1] /\ d.body = o.body
    BY <2>1
  <2>3. o \in observations /\ Success(o) /\ o.id[1] \in DOMAIN requests
    BY DEF InputObs, Success
  <2>4. Planned(d.req)
    BY <2>2, <2>3 DEF TruthInv, PlannedInv, Clean
  <2>5. remaining_requests(d.req, d.body, max_pages) \subseteq DOMAIN requests
    BY <2>2, <2>3 DEF TruthInv, CalledInv, Clean
  <2> QED BY <1>1, <2>4, <2>5
<1>3. \A d \in Inputs : d.body \in Faithful(d.req)
  BY InputsAreFaithful DEF Clean
<1>4. /\ \A d \in Inputs : RequestOK(d.req) /\ BodyOK(d.body)
      /\ \A d, e \in Inputs : d.req = e.req => d = e
  BY InputsAreEvidence DEF RowsInv
<1> QED BY <1>2, <1>3, <1>4

\* A page of its documents.
LEMMA CleanPage ==
    ASSUME ConfigInv, RowsInv, TruthInv, Clean, NEW p \in Partitions, NEW d \in Pages(Inputs, p),
           NEW n, n = Len(catalog[p]), NEW a, a = (d.req.page - PageBase) * ServedSize
    PROVE  /\ d \in Inputs /\ d.req.part = p /\ PagePlanned(d.req) /\ ~IsDetail(d.req)
           /\ d.req.page \in Int /\ d.req.page >= PageBase
           /\ n \in Nat /\ a \in Nat /\ DOMAIN catalog[p] = 1..n
           /\ d.body.total = n /\ d.body.size = ServedSize /\ d.body.form = NumberForm
           /\ DOMAIN d.body.rows = 1..Len(d.body.rows)
           /\ Len(d.body.rows) = IF a < n THEN Least(ServedSize, n - a) ELSE 0
           /\ \A i \in DOMAIN d.body.rows : a + i \in 1..n /\ d.body.rows[i] = catalog[p][a + i]
<1>1. d \in Inputs /\ d.req.part = p
  BY DEF Pages
<1>2. PICK q, b : q = d.req /\ b = d.body
  OBVIOUS
<1>3. RequestOK(q) /\ Planned(q) /\ b \in Faithful(q)
  BY <1>1, <1>2, CleanInputs
<1>4. ~IsDetail(q) /\ PagePlanned(q) /\ q.page \in Int
  BY <1>1, <1>2, <1>3 DEF IsDetail, Planned, DetailPlanned, RequestOK
<1>5. PageBase \in {0, 1}
  BY SourceFacts
<1>6. q.page >= PageBase
  BY <1>4, <1>5 DEF PagePlanned
<1>7. n = Len(catalog[q.part]) /\ a = (q.page - PageBase) * ServedSize
  BY <1>1, <1>2
<1>8. /\ q.part \in Partitions /\ n \in Nat /\ a \in Nat /\ DOMAIN catalog[q.part] = 1..n
      /\ b.total = n /\ b.size = ServedSize /\ b.form = NumberForm
      /\ DOMAIN b.rows = 1..Len(b.rows) /\ Len(b.rows) = IF a < n THEN Least(ServedSize, n - a) ELSE 0
      /\ \A i \in DOMAIN b.rows : a + i \in 1..n /\ b.rows[i] = catalog[q.part][a + i]
  BY ONLY ConfigInv, <1>3, <1>4, <1>6, <1>7, FaithfulPage
<1> QED BY <1>1, <1>2, <1>4, <1>6, <1>8

\* Every page of the catalogue is there, an empty one twice.
LEMMA CleanPlan ==
    ASSUME ConfigInv, RowsInv, TruthInv, Clean, NEW p \in Partitions, NEW n, n = Len(catalog[p])
    PROVE  /\ n = 0 => \A o \in {0, 1} : \E d \in Pages(Inputs, p) : d.req = Request(p, PageBase, o)
           /\ n # 0 => \A k \in 1..CeilDiv(n, ServedSize) :
                          \E d \in Pages(Inputs, p) : d.req = Request(p, PageBase + k - 1, 0)
<1>1. PICK first \in Pages(Inputs, p) : first.req = Request(p, PageBase, 0)
  BY FirstPage DEF Clean
<1>2. PICK a : a = (first.req.page - PageBase) * ServedSize
  OBVIOUS
<1>3. /\ first \in Inputs /\ ~IsDetail(first.req) /\ first.body.total = n /\ first.body.size = ServedSize /\ first.body.form = NumberForm /\ n \in Nat
  BY <1>2, CleanPage
<1>4. first.req.part = p /\ first.req.page = PageBase /\ first.req.ord = 0
  BY <1>1 DEF Request
<1>5. \A q : q.part = p /\ q \in remaining_requests(first.req, first.body, max_pages) =>
             \E d \in Pages(Inputs, p) : d.req = q
  <2> SUFFICES ASSUME NEW q, q.part = p, q \in remaining_requests(first.req, first.body, max_pages)
               PROVE  \E d \in Pages(Inputs, p) : d.req = q
    OBVIOUS
  <2>1. PICK e \in Inputs : e.req = q
    BY <1>3, CleanInputs
  <2> QED BY <2>1 DEF Pages
<1>6. ASSUME n = 0, NEW o \in {0, 1} PROVE \E d \in Pages(Inputs, p) : d.req = Request(p, PageBase, o)
  <2>1. CASE o = 0
    BY <1>1, <2>1
  <2>2. CASE o = 1
    <3>1. PICK q : q = Request(p, PageBase, 1)
      OBVIOUS
    <3>2. q = [first.req EXCEPT !.ord = 1] /\ q.part = p
      BY <1>1, <3>1 DEF Request
    <3>3. remaining_requests(first.req, first.body, max_pages) = {[first.req EXCEPT !.ord = 1]}
      BY <1>3, <1>4, <1>6 DEF remaining_requests
    <3>4. \E d \in Pages(Inputs, p) : d.req = q
      BY <1>5, <3>2, <3>3
    <3> QED BY <2>2, <3>1, <3>4
  <2> QED BY <2>1, <2>2
<1>7. ASSUME n # 0, NEW k \in 1..CeilDiv(n, ServedSize)
      PROVE  \E d \in Pages(Inputs, p) : d.req = Request(p, PageBase + k - 1, 0)
  <2>1. PageBase \in {0, 1} /\ ServedSize \in Nat \ {0}
    BY SourceFacts
  <2>2. n \in Nat \ {0}
    BY <1>3, <1>7
  <2>3. k \in Nat \ {0} /\ CeilDiv(n, ServedSize) \in Nat \ {0}
    BY <2>1, <2>2, Left
  <2>4. CASE k = 1
    <3>1. PageBase + k - 1 = PageBase
      BY <2>1, <2>4
    <3> QED BY <1>1, <3>1
  <2>5. CASE k # 1
    <3>1. PlannedPages(first.body, max_pages) = CeilDiv(n, ServedSize)
      BY <1>3 DEF PlannedPages, page_size, Uncapped, PlansAsServed, Clean
    <3>2. PICK m : m = PageBase + k - 1
      OBVIOUS
    <3>3. m \in PageBase + 1 .. PageBase + CeilDiv(n, ServedSize) - 1
      BY <2>1, <2>3, <2>5, <3>2
    <3>4. PICK q : q = Request(p, m, 0)
      OBVIOUS
    <3>5. q \in FurtherPages(first.req, first.body, max_pages) /\ q.part = p
      BY <1>4, <3>1, <3>3, <3>4 DEF FurtherPages, Request
    <3>6. q \in remaining_requests(first.req, first.body, max_pages)
      BY <1>3, <1>4, <1>7, <3>5 DEF remaining_requests
    <3> QED BY <1>5, <3>2, <3>4, <3>5, <3>6
  <2> QED BY <2>4, <2>5
<1> QED BY <1>6, <1>7

\* It holds the catalogue.
LEMMA CleanRows ==
    ASSUME ConfigInv, RowsInv, TruthInv, Clean, NEW p \in Partitions
    PROVE  Collected(p) = CatalogIds(p)
<1>1. \A d \in Pages(Inputs, p) : d.req.page >= PageBase
  BY CleanPage
<1>2. \A k \in 1..CeilDiv(Len(catalog[p]), ServedSize) :
         Len(catalog[p]) # 0 => \E d \in Pages(Inputs, p) : d.req.page = PageBase + k - 1
  <2> SUFFICES ASSUME NEW k \in 1..CeilDiv(Len(catalog[p]), ServedSize), Len(catalog[p]) # 0
               PROVE  \E d \in Pages(Inputs, p) : d.req.page = PageBase + k - 1
    OBVIOUS
  <2>1. PICK d \in Pages(Inputs, p) : d.req = Request(p, PageBase + k - 1, 0)
    BY CleanPlan
  <2> QED BY <2>1 DEF Request
<1>3. RowsOf(Pages(Inputs, p)) = {catalog[p][k] : k \in DOMAIN catalog[p]}
  BY <1>1, <1>2, PagesHoldCatalogue DEF Clean
<1>4. Collected(p) = {r.id : r \in RowsOf(Pages(Inputs, p))}
  BY DEF Collected, RowsOf, Identities
<1>5. CatalogIds(p) = {r.id : r \in {catalog[p][k] : k \in DOMAIN catalog[p]}}
  BY DEF CatalogIds
<1> QED BY <1>3, <1>4, <1>5

\* The identities of its pages are distinct.
LEMMA CleanIdentities ==
    ASSUME ConfigInv, RowsInv, TruthInv, Clean, NEW p \in Partitions
    PROVE  UniqueIdentities(Pages(Inputs, p))
<1> SUFFICES ASSUME NEW d \in Pages(Inputs, p), NEW e \in Pages(Inputs, p),
                    NEW i \in Accepted(d), NEW j \in Accepted(e), d.body.rows[i].id = e.body.rows[j].id
             PROVE  d = e /\ i = j
  BY DEF UniqueIdentities
<1>1. i \in DOMAIN d.body.rows /\ j \in DOMAIN e.body.rows
  BY DEF Accepted
<1>2. PageBase \in {0, 1} /\ ServedSize \in Nat \ {0}
  BY SourceFacts
<1>3. PICK n, a, b : /\ n = Len(catalog[p]) /\ a = (d.req.page - PageBase) * ServedSize
                     /\ b = (e.req.page - PageBase) * ServedSize
  OBVIOUS
<1>4. /\ d \in Inputs /\ d.req.part = p /\ PagePlanned(d.req) /\ d.req.page \in Int
      /\ n \in Nat /\ a \in Nat /\ DOMAIN catalog[p] = 1..n
      /\ DOMAIN d.body.rows = 1..Len(d.body.rows)
      /\ Len(d.body.rows) = IF a < n THEN Least(ServedSize, n - a) ELSE 0
      /\ a + i \in 1..n /\ d.body.rows[i] = catalog[p][a + i]
  BY <1>1, <1>3, CleanPage
<1>5. /\ e \in Inputs /\ e.req.part = p /\ PagePlanned(e.req) /\ e.req.page \in Int
      /\ b \in Nat /\ DOMAIN e.body.rows = 1..Len(e.body.rows)
      /\ Len(e.body.rows) = IF b < n THEN Least(ServedSize, n - b) ELSE 0
      /\ b + j \in 1..n /\ e.body.rows[j] = catalog[p][b + j]
  BY <1>1, <1>3, CleanPage
<1>6. \A k, l \in DOMAIN catalog[p] : catalog[p][k].id = catalog[p][l].id => k = l
  <2>1. source \in Sources /\ catalog[p] \in source.catalogs[p] /\ p \in source.partitions
    BY DEF ConfigInv, build_connector, Catalogs, Partitions
  <2> QED BY <2>1, CatalogAssumption
<1>7. a + i = b + j
  BY <1>4, <1>5, <1>6
<1>8. i \in 1..ServedSize /\ j \in 1..ServedSize
  <2>1. i \in 1..ServedSize
    BY <1>1, <1>2, <1>4 DEF Least
  <2>2. j \in 1..ServedSize
    BY <1>1, <1>2, <1>4, <1>5 DEF Least
  <2> QED BY <2>1, <2>2
<1>9. PICK k \in Int, l \in Int : k = d.req.page - PageBase + 1 /\ l = e.req.page - PageBase + 1
  <2>1. PICK x \in Int, y \in Int, z \in Int : x = d.req.page /\ y = e.req.page /\ z = PageBase
    BY <1>2, <1>4, <1>5
  <2>2. x - z + 1 \in Int /\ y - z + 1 \in Int
    OBVIOUS
  <2> QED BY <2>1, <2>2
<1>10. k - 1 = d.req.page - PageBase /\ l - 1 = e.req.page - PageBase /\ (k = l => d.req.page = e.req.page)
  <2>1. PICK x \in Int, y \in Int, z \in Int : x = d.req.page /\ y = e.req.page /\ z = PageBase
    BY <1>2, <1>4, <1>5
  <2>2. k = x - z + 1 /\ l = y - z + 1
    BY <1>9, <2>1
  <2>3. k - 1 = x - z /\ l - 1 = y - z /\ (k = l => x = y)
    BY ONLY x \in Int, y \in Int, z \in Int, k \in Int, l \in Int, <2>2
  <2> QED BY <2>1, <2>3
<1>11. (k - 1) * ServedSize + i = (l - 1) * ServedSize + j
  BY <1>3, <1>7, <1>10
<1>12. k = l /\ i = j
  BY ONLY <1>2, <1>8, k \in Int, l \in Int, <1>11, NumberUnique
<1>13. d.req.page = e.req.page
  BY <1>10, <1>12
<1>14. d.req.ord = 0 /\ e.req.ord = 0
  <2>1. n # 0
    BY <1>4
  <2> QED BY <1>3, <1>4, <1>5, <2>1 DEF PagePlanned
<1>15. d.req = e.req
  BY <1>4, <1>5, <1>13, <1>14, CleanInputs DEF RequestOK
<1> QED BY <1>4, <1>5, <1>12, <1>15, CleanInputs

\* Its partitions are complete, with a row on every page or empty twice,
LEMMA CleanPartition ==
    ASSUME ConfigInv, RowsInv, TruthInv, Clean, Supported, CheckedAsServed, NEW p \in Partitions
    PROVE  CompletePartition(Pages(Inputs, p))
<1>1. PICK pages : pages = Pages(Inputs, p)
  OBVIOUS
<1>2. PageBase = 1 /\ ServedSize \in Nat \ {0}
  <2>1. PageBase \in {0, 1} /\ ServedSize \in Nat \ {0}
    BY SourceFacts
  <2>2. source \in Sources /\ source.id # "saramin"
    BY DEF ConfigInv, build_connector, Supported, Kind
  <2>3. source.base # 0
    BY <2>2, CatalogAssumption
  <2> QED BY <2>1, <2>3 DEF PageBase
<1>3. PICK n : n = Len(catalog[p])
  OBVIOUS
<1>4. ASSUME NEW d \in pages, NEW a, a = (d.req.page - 1) * ServedSize
      PROVE  /\ d \in Inputs /\ d.req.part = p /\ PagePlanned(d.req) /\ ~IsDetail(d.req)
             /\ d.req.page \in Int /\ d.req.page >= 1 /\ n \in Nat /\ a \in Nat
             /\ d.body.total = n /\ d.body.size = ServedSize /\ d.body.form = NumberForm
             /\ Len(d.body.rows) = IF a < n THEN Least(ServedSize, n - a) ELSE 0
  BY <1>1, <1>2, <1>3, <1>4, CleanPage
<1>5. \A d \in pages : /\ d \in Inputs /\ d.req.part = p /\ PagePlanned(d.req) /\ ~IsDetail(d.req)
                       /\ d.body.total = n /\ SizeOf(d.body) = ServedSize /\ n \in Nat
  BY <1>4 DEF SizeOf, CheckedAsServed
<1>6. PICK first \in pages : first.req = Request(p, PageBase, 0)
  BY <1>1, FirstPage DEF Clean
<1>7. PICK one \in pages : one = CHOOSE d \in pages : TRUE
  BY <1>6
<1>8. UniqueIdentities(pages)
  BY <1>1, CleanIdentities
<1>9. StablePagination(pages) /\ ~IsDetail(one.req) /\ one.body.total = n /\ SizeOf(one.body) = ServedSize /\ n \in Nat
  BY <1>5, <1>7 DEF StablePagination
<1>10. \A d, e \in pages : d.req.page = e.req.page /\ d.req.ord = e.req.ord => d = e
  BY <1>5, CleanInputs DEF RequestOK
<1>11. CASE n = 0
  <2>1. PICK d0 \in pages : d0.req = Request(p, PageBase, 0)
    BY <1>6
  <2>2. PICK d1 \in pages : d1.req = Request(p, PageBase, 1)
    BY <1>1, <1>3, <1>11, CleanPlan
  <2>3. /\ d0.req.page = PageBase /\ d0.req.ord = 0 /\ d1.req.page = PageBase /\ d1.req.ord = 1
    BY <2>1, <2>2 DEF Request
  <2>4. \A d \in pages : d.req.page = PageBase /\ d.req.ord \in {0, 1}
    BY <1>3, <1>5, <1>11 DEF PagePlanned
  <2>5. \A d \in pages : d = d0 \/ d = d1
    BY <1>10, <2>3, <2>4
  <2>6. Cardinality(pages) = 2
    <3>0. PICK t \in Nat : t = 2
      OBVIOUS
    <3>1. PICK f : f = [i \in 1..t |-> IF i = 1 THEN d0 ELSE d1]
      OBVIOUS
    <3>2. f \in [1..t -> pages] /\ f[1] = d0 /\ f[2] = d1 /\ \A i \in 1..t : i = 1 \/ i = 2
      BY <3>0, <3>1
    <3>3. d0 # d1
      BY <2>3
    <3>4. \A i, j \in 1..t : f[i] = f[j] => i = j
      BY <3>2, <3>3
    <3>5. \A x \in pages : \E i \in 1..t : f[i] = x
      BY <2>5, <3>0, <3>2
    <3>6. Cardinality(pages) = t
      BY <3>2, <3>4, <3>5, CountedBy
    <3> QED BY <3>0, <3>6
  <2>7. {d.req.ord : d \in pages} = {0, 1}
    BY <2>3, <2>4
  <2>8. \A d \in pages : d.req.page = 1 /\ d.body.rows = <<>>
    <3> SUFFICES ASSUME NEW d \in pages PROVE d.req.page = 1 /\ d.body.rows = <<>>
      OBVIOUS
    <3>1. PICK a : a = (d.req.page - 1) * ServedSize
      OBVIOUS
    <3>2. Len(d.body.rows) = 0
      BY <1>4, <1>11, <3>1
    <3>3. PICK S : d.body.rows \in Seq(S)
      BY <1>5, CleanInputs DEF BodyOK
    <3>4. d.body.rows = <<>>
      BY <3>2, <3>3
    <3> QED BY <1>2, <2>4, <3>4
  <2>9. ConfirmedEmpty(pages)
    BY <2>6, <2>7, <2>8 DEF ConfirmedEmpty
  <2> QED BY <1>1, <1>7, <1>8, <1>9, <1>11, <2>9 DEF CompletePartition
<1>12. CASE n # 0
  <2>1. n \in Nat \ {0}
    BY <1>9, <1>12
  <2>2. PICK C : C = CeilDiv(n, ServedSize)
    OBVIOUS
  <2>3. \A k \in 1..C : \E d \in pages : d.req.page = k /\ d.req.ord = 0
    <3> SUFFICES ASSUME NEW k \in 1..C PROVE \E d \in pages : d.req.page = k /\ d.req.ord = 0
      OBVIOUS
    <3>1. PICK d \in pages : d.req = Request(p, PageBase + k - 1, 0)
      BY <1>1, <1>3, <1>12, <2>2, CleanPlan
    <3>2. k \in Nat
      BY <1>2, <2>1, <2>2, Left
    <3>3. PageBase + k - 1 = k
      BY <1>2, <3>2
    <3> QED BY <3>1, <3>3 DEF Request
  <2>4. C \in Nat
    <3>1. 1 \in 1..n
      BY <2>1
    <3>2. PICK k : k \in 1..C
      BY <1>2, <2>1, <2>2, <3>1, NumberExists
    <3> QED BY <1>2, <2>1, <2>2, <3>2, Left
  <2>5. \A d \in pages : d.req.ord = 0 /\ d.req.page \in 1..C
    <3> SUFFICES ASSUME NEW d \in pages PROVE d.req.ord = 0 /\ d.req.page \in 1..C
      OBVIOUS
    <3>1. d.req.ord = 0 /\ d.req.page \in PageBase .. PageBase + C - 1
      BY <1>3, <1>5, <1>12, <2>2 DEF PagePlanned
    <3>2. PageBase + C - 1 = C
      BY <1>2, <2>4
    <3> QED BY <1>2, <3>1, <3>2
  <2>6. {d.req.page : d \in pages} = 1..C
    BY <2>3, <2>5
  <2>7. Cardinality(pages) = C
    <3>1. PICK f : f = [k \in 1..C |-> CHOOSE d \in pages : d.req.page = k /\ d.req.ord = 0]
      OBVIOUS
    <3>2. \A k \in 1..C : f[k] \in pages /\ f[k].req.page = k
      BY <2>3, <3>1
    <3>3. f \in [1..C -> pages]
      BY <3>1, <3>2
    <3>4. \A j, k \in 1..C : f[j] = f[k] => j = k
      BY <3>2
    <3>5. \A x \in pages : \E k \in 1..C : f[k] = x
      <4> SUFFICES ASSUME NEW x \in pages PROVE \E k \in 1..C : f[k] = x
        OBVIOUS
      <4>1. PICK k \in 1..C : k = x.req.page
        BY <2>5
      <4>2. f[k] \in pages /\ f[k].req.page = x.req.page /\ f[k].req.ord = x.req.ord
        BY <2>5, <3>2, <4>1
      <4>3. f[k] = x
        BY <1>10, <4>2
      <4> QED BY <4>3
    <3> QED BY <2>4, <3>3, <3>4, <3>5, CountedBy
  <2>8. \A d \in pages : Len(d.body.rows) = Least(ServedSize, n - (d.req.page - 1) * ServedSize)
    <3> SUFFICES ASSUME NEW d \in pages
                 PROVE  Len(d.body.rows) = Least(ServedSize, n - (d.req.page - 1) * ServedSize)
      OBVIOUS
    <3>1. PICK a : a = (d.req.page - 1) * ServedSize
      OBVIOUS
    <3>2. n - a \in Nat \ {0}
      <4>1. PICK k \in 1..C : k = d.req.page
        BY <2>5
      <4>2. n - (k - 1) * ServedSize \in Nat \ {0}
        BY <1>2, <2>1, <2>2, Left
      <4> QED BY <3>1, <4>1, <4>2
    <3>3. a \in Nat /\ Len(d.body.rows) = IF a < n THEN Least(ServedSize, n - a) ELSE 0
      BY <1>4, <3>1
    <3>4. a < n
      BY <2>1, <3>2, <3>3
    <3> QED BY <3>1, <3>3, <3>4
  <2>9. EveryPage(pages, n, ServedSize)
    BY <2>2, <2>5, <2>6, <2>7, <2>8 DEF EveryPage
  <2> QED BY <1>1, <1>7, <1>8, <1>9, <1>12, <2>9 DEF CompletePartition
<1> QED BY <1>11, <1>12

\* and so is a posting, with the one row of its detail.
LEMMA CleanDetail ==
    ASSUME ConfigInv, RowsInv, TruthInv, Clean, NEW p \in Parts(Inputs), p \notin Partitions
    PROVE  CompletePartition(Pages(Inputs, p))
<1>1. PICK pages : pages = Pages(Inputs, p)
  OBVIOUS
<1>2. pages # {} /\ \A d \in pages : d \in Inputs /\ d.req.part = p
  BY <1>1 DEF Pages, Parts
<1>3. PICK one \in pages : one = CHOOSE d \in pages : TRUE
  BY <1>2
<1>4. ASSUME NEW d \in pages
      PROVE  /\ d.req = Request(p, NoPage, 0) /\ IsDetail(d.req)
             /\ Len(d.body.rows) = 1 /\ DOMAIN d.body.rows = 1..1
  <2>1. RequestOK(d.req) /\ Planned(d.req) /\ d.body \in Faithful(d.req)
    BY <1>2, CleanInputs
  <2>2. DetailPlanned(d.req)
    BY <1>2, <2>1 DEF Planned, PagePlanned
  <2>3. d.req = Request(p, NoPage, 0) /\ IsDetail(d.req)
    BY <1>2, <2>1, <2>2 DEF DetailPlanned, RequestOK
  <2>4. PICK r : d.body.rows = <<r>>
    BY <2>1, <2>2, FaithfulDetail
  <2> QED BY <2>3, <2>4
<1>5. \A d \in pages : d = one
  BY <1>2, <1>3, <1>4, CleanInputs
<1>6. pages = {one}
  BY <1>3, <1>5
<1>7. Cardinality(pages) = 1
  BY <1>6, FS_Singleton
<1>8. UniqueIdentities(pages)
  <2>1. \A d \in pages : \A i \in Accepted(d) : i \in 1..1
    BY <1>4 DEF Accepted
  <2>2. \A i, j \in 1..1 : i = j
    OBVIOUS
  <2> QED BY <1>5, <2>1, <2>2 DEF UniqueIdentities
<1> QED BY <1>1, <1>3, <1>4, <1>7, <1>8 DEF CompletePartition

\* The postings it lists are the ones it has details of.
LEMMA CleanListing ==
    ASSUME ConfigInv, RowsInv, TruthInv, Clean, ~Rejected(Inputs), Kind = "job_alio"
    PROVE  Listed(Inputs) = Detailed(Inputs)
<1>1. \A d \in Inputs : Accepted(d) = DOMAIN d.body.rows
  BY DEF Rejected
<1>2. ASSUME NEW i \in Listed(Inputs) PROVE i \in Detailed(Inputs)
  <2>1. PICK d \in Inputs : ~IsDetail(d.req) /\ \E k \in DOMAIN d.body.rows : i = d.body.rows[k].id
    BY <1>1 DEF Listed
  <2>2. PICK k \in DOMAIN d.body.rows : i = d.body.rows[k].id
    BY <2>1
  <2>3. PICK p \in Partitions : d.req.part = p
    BY <2>1 DEF IsDetail
  <2>4. d \in Pages(Inputs, p)
    BY <2>3 DEF Pages
  <2>5. PICK n, a : n = Len(catalog[p]) /\ a = (d.req.page - PageBase) * ServedSize
    OBVIOUS
  <2>6. /\ n \in Nat /\ DOMAIN catalog[p] = 1..n /\ d.body.total = n
        /\ a + k \in 1..n /\ d.body.rows[k] = catalog[p][a + k]
    BY <2>4, <2>5, CleanPage
  <2>7. d.body.total # 0
    BY <2>6
  <2>8. i \in CatalogIds(p)
    BY <2>2, <2>6 DEF CatalogIds
  <2>9. i \notin Partitions
    BY <2>8, PostingsAreDetails
  <2>10. Request(i, NoPage, 0) \in remaining_requests(d.req, d.body, max_pages)
    <3>1. i \in Identities(d.body)
      BY <2>2 DEF Identities
    <3> QED BY <2>1, <2>7, <3>1 DEF remaining_requests
  <2>11. PICK e \in Inputs : e.req = Request(i, NoPage, 0)
    BY <2>10, CleanInputs
  <2>12. e.req.part = i /\ IsDetail(e.req)
    BY <2>9, <2>11 DEF Request, IsDetail
  <2> QED BY <2>12 DEF Detailed
<1>3. ASSUME NEW i \in Detailed(Inputs) PROVE i \in Listed(Inputs)
  <2>1. PICK e \in Inputs : IsDetail(e.req) /\ e.req.part = i
    BY DEF Detailed
  <2>2. DetailPlanned(e.req)
    <3>1. Planned(e.req)
      BY CleanInputs
    <3> QED BY <2>1, <3>1 DEF Planned, PagePlanned, IsDetail
  <2>3. PICK p \in Partitions : i \in CatalogIds(p)
    BY <2>1, <2>2 DEF DetailPlanned
  <2>4. i \in Collected(p)
    BY <2>3, CleanRows
  <2>5. PICK d \in Pages(Inputs, p) : i \in Identities(d.body)
    BY <2>4 DEF Collected
  <2>6. d \in Inputs /\ ~IsDetail(d.req)
    BY DEF Pages, IsDetail
  <2> QED BY <1>1, <2>5, <2>6 DEF Listed, Identities
<1> QED BY <1>2, <1>3

\* A list and a detail of a posting show the same row of the catalogue.
LEMMA CleanPairs ==
    ASSUME ConfigInv, RowsInv, TruthInv, Clean, Kind = "job_alio"
    PROVE  validate_posting_pairs(Inputs)
<1>1. ASSUME NEW d \in Inputs, NEW i \in Accepted(d)
      PROVE  \E p \in Partitions : \E k \in DOMAIN catalog[p] : d.body.rows[i] = catalog[p][k]
  <2>1. i \in DOMAIN d.body.rows
    BY DEF Accepted
  <2>2. RequestOK(d.req) /\ Planned(d.req) /\ d.body \in Faithful(d.req)
    BY CleanInputs
  <2>3. CASE PagePlanned(d.req)
    <3>1. PICK p \in Partitions : d.req.part = p
      BY <2>3 DEF PagePlanned
    <3>2. d \in Pages(Inputs, p)
      BY <3>1 DEF Pages
    <3>3. PICK n, a : n = Len(catalog[p]) /\ a = (d.req.page - PageBase) * ServedSize
      OBVIOUS
    <3>4. DOMAIN catalog[p] = 1..n /\ a + i \in 1..n /\ d.body.rows[i] = catalog[p][a + i]
      BY <2>1, <3>2, <3>3, CleanPage
    <3> QED BY <3>4
  <2>4. CASE DetailPlanned(d.req)
    <3>1. PICK p \in Partitions : \E k \in DOMAIN catalog[p] : d.body.rows = <<catalog[p][k]>>
      BY <2>2, <2>4, FaithfulDetail
    <3>2. PICK k \in DOMAIN catalog[p] : d.body.rows = <<catalog[p][k]>>
      BY <3>1
    <3>3. i = 1 /\ d.body.rows[1] = catalog[p][k]
      BY <2>1, <3>2
    <3> QED BY <3>3
  <2> QED BY <2>2, <2>3, <2>4 DEF Planned
<1>2. source \in Sources /\ source.id = "job_alio"
  BY DEF ConfigInv, build_connector, Kind
<1>3. ASSUME NEW p \in Partitions
      PROVE  Partitions = {p} /\ \A k, l \in DOMAIN catalog[p] : catalog[p][k].id = catalog[p][l].id => k = l
  <2>1. catalog[p] \in source.catalogs[p] /\ p \in source.partitions
    BY DEF ConfigInv, Catalogs, Partitions
  <2> QED BY <1>2, <2>1, CatalogAssumption DEF Partitions
<1> SUFFICES ASSUME NEW d \in Inputs, NEW e \in Inputs, NEW i \in Accepted(d), NEW j \in Accepted(e),
                    d.body.rows[i].id = e.body.rows[j].id
             PROVE  d.body.rows[i].fact = e.body.rows[j].fact
  BY DEF validate_posting_pairs
<1>4. PICK p \in Partitions : \E k \in DOMAIN catalog[p] : d.body.rows[i] = catalog[p][k]
  BY <1>1
<1>5. PICK k \in DOMAIN catalog[p] : d.body.rows[i] = catalog[p][k]
  BY <1>4
<1>6. PICK q \in Partitions : \E l \in DOMAIN catalog[q] : e.body.rows[j] = catalog[q][l]
  BY <1>1
<1>7. PICK l \in DOMAIN catalog[q] : e.body.rows[j] = catalog[q][l]
  BY <1>6
<1>8. q = p
  BY <1>3
<1>9. k = l
  BY <1>3, <1>5, <1>7, <1>8
<1> QED BY <1>5, <1>7, <1>8, <1>9

\* A READY run over a catalogue that did not move holds as many identities as
\* the catalogue, all of them from it.
LEMMA ReadyIsExact ==
    ASSUME ConfigInv, RowsInv, TruthInv, Fetched, ~drift, Ready, NEW p \in Partitions
    PROVE  Collected(p) = CatalogIds(p)
<1>1. PICK first \in Pages(Inputs, p) : first.req = Request(p, PageBase, 0)
  BY FirstPage
<1>2. PICK cat : cat = catalog[p]
  OBVIOUS
<1>3. cat \in Seq({cat[i] : i \in DOMAIN cat}) /\ \A i, j \in DOMAIN cat : cat[i].id = cat[j].id => i = j
  <2>1. catalog[p] \in source.catalogs[p] /\ p \in source.partitions /\ source \in Sources
    BY DEF ConfigInv, Catalogs, Partitions, build_connector
  <2>2. catalog[p] \in Seq({catalog[p][i] : i \in DOMAIN catalog[p]})
    BY SourceFacts
  <2> QED BY <1>2, <2>1, <2>2, CatalogAssumption
<1>4. PICK n \in Nat : n = Len(cat) /\ DOMAIN cat = 1..n
  BY <1>3
<1>5. ASSUME NEW d \in Pages(Inputs, p)
      PROVE  d.body.total = n /\ Identities(d.body) \subseteq CatalogIds(p)
  <2>1. d \in Inputs /\ d.req.part = p
    BY DEF Pages
  <2>2. PICK q, b : q = d.req /\ b = d.body
    OBVIOUS
  <2>3. RequestOK(q) /\ ~IsDetail(q)
    BY <2>1, <2>2, InputsAreEvidence DEF RowsInv, IsDetail
  <2>4. b \in Faithful(q)
    BY <2>1, <2>2, InputsAreFaithful
  <2>5. q.page >= PageBase
    <3>1. PICK m, s : m = d.body.total /\ s = SizeOf(d.body)
      OBVIOUS
    <3>2. Whole(Pages(Inputs, p), m, s)
      BY <3>1, ReadyPartition
    <3>3. d.req.page \in Nat \ {0}
      <4>1. CASE m = 0
        BY <3>2, <4>1 DEF Whole
      <4>2. CASE m # 0
        <5>1. d.req.page \in 1..CeilDiv(m, s) /\ m \in Nat \ {0} /\ s \in Nat \ {0}
          BY <3>2, <4>2 DEF Whole, Contiguous
        <5> QED BY <5>1, Left
      <4> QED BY <4>1, <4>2
    <3>4. PageBase \in {0, 1}
      BY SourceFacts
    <3> QED BY <2>2, <3>3, <3>4
  <2>6. PICK a : a = (q.page - PageBase) * ServedSize
    OBVIOUS
  <2>7. n = Len(catalog[q.part])
    BY <1>2, <1>4, <2>1, <2>2
  <2>8. /\ b.total = n /\ DOMAIN catalog[q.part] = 1..n
        /\ \A i \in DOMAIN b.rows : a + i \in 1..n /\ b.rows[i] = catalog[q.part][a + i]
    BY ONLY ConfigInv, <2>3, <2>4, <2>5, <2>6, <2>7, FaithfulPage
  <2> QED BY <2>1, <2>2, <2>8 DEF Identities, CatalogIds
<1>6. Collected(p) \subseteq CatalogIds(p)
  BY <1>5 DEF Collected
<1>7. Cardinality(Collected(p)) = n
  BY <1>1, <1>5, ReadyRows DEF ReadyHasEveryRow
<1>8. IsFiniteSet(CatalogIds(p)) /\ Cardinality(CatalogIds(p)) = n
  <2>1. PICK f : f = [k \in 1..n |-> cat[k].id]
    OBVIOUS
  <2>2. f \in [1..n -> CatalogIds(p)] /\ \A x \in CatalogIds(p) : \E k \in 1..n : f[k] = x
    BY <1>2, <1>4, <2>1 DEF CatalogIds
  <2>3. \A k, l \in 1..n : f[k] = f[l] => k = l
    BY <1>3, <1>4, <2>1
  <2>4. Cardinality(CatalogIds(p)) = n
    BY <2>2, <2>3, CountedBy
  <2>5. f \in Surjection(1..n, CatalogIds(p))
    BY <2>2 DEF Surjection
  <2>6. IsFiniteSet(1..n)
    BY FS_Interval
  <2> QED BY <2>4, <2>5, <2>6, FS_Surjection
<1> QED BY <1>6, <1>7, <1>8, FS_Subset

LEMMA CleanVerdict == ASSUME ConfigInv, RowsInv, TruthInv, FetchedIsReplayable PROVE CleanRunIsExact
<1> SUFFICES ASSUME Fetched, ~drift, max_pages = NoLimit, ~Rejected(Inputs)
             PROVE  /\ Supported /\ PlansAsServed /\ CheckedAsServed => Verdict(Inputs) = "READY"
                    /\ PlansAsServed \/ Verdict(Inputs) = "READY" =>
                          \A p \in Partitions : Collected(p) = CatalogIds(p)
  BY DEF CleanRunIsExact
<1>1. PlansAsServed => Clean
  BY DEF Clean, Uncapped
<1>2. PlansAsServed => \A p \in Partitions : Collected(p) = CatalogIds(p)
  BY <1>1, CleanRows
<1>3. Verdict(Inputs) = "READY" => \A p \in Partitions : Collected(p) = CatalogIds(p)
  BY ReadyIsExact DEF Ready, FetchedIsReplayable
<1>4. ASSUME Supported, PlansAsServed, CheckedAsServed PROVE Verdict(Inputs) = "READY"
  <2>1. \A p \in Parts(Inputs) : CompletePartition(Pages(Inputs, p))
    BY <1>1, <1>4, CleanPartition, CleanDetail
  <2>2. Kind = "job_alio" => Listed(Inputs) = Detailed(Inputs)
    BY <1>1, <1>4, CleanListing
  <2>3. validate_completeness(Inputs)
    BY <2>1, <2>2 DEF validate_completeness
  <2>4. Kind = "job_alio" => validate_posting_pairs(Inputs)
    BY <1>1, <1>4, CleanPairs
  <2>5. ASSUME NEW d \in Inputs PROVE parse_document(d)
    <3>1. CASE IsDetail(d.req)
      BY <3>1 DEF parse_document
    <3>2. CASE ~IsDetail(d.req)
      <4>1. PICK p : p = d.req.part
        OBVIOUS
      <4>2. RequestOK(d.req)
        BY InputsAreEvidence DEF RowsInv
      <4>3. p \in Partitions /\ d \in Pages(Inputs, p)
        BY <3>2, <4>1, <4>2 DEF IsDetail, RequestOK, Pages
      <4>4. PICK n, a : n = Len(catalog[p]) /\ a = (d.req.page - PageBase) * ServedSize
        OBVIOUS
      <4>5. d.body.form = NumberForm
        BY <1>1, <1>4, <4>3, <4>4, CleanPage
      <4> QED BY <1>4, <4>5 DEF CheckedAsServed, parse_document
    <3> QED BY <3>1, <3>2
  <2> QED BY <1>4, <2>3, <2>4, <2>5 DEF Verdict
<1> QED BY <1>2, <1>3, <1>4

\* The connectors' remaining_requests and validate_completeness: a run that is
\* not capped, over a catalogue that did not move, with no row rejected, holds
\* exactly the catalogue if its connector plans with the size it is served,
\* and is READY if the completeness check can read that size as well; where
\* the sizes differ, a run that is READY all the same holds the catalogue.
\* For every size asked for, served and assumed, every total and remainder,
\* every form of the numbers, and whatever was retried.
THEOREM CleanRunsAreReady == Spec => []CleanRunIsExact
<1>1. IInv /\ RowsInv /\ TruthInv => CleanRunIsExact
  BY CleanVerdict DEF IInv, RunInv
<1> QED BY <1>1, Invariance, EvidenceIsSound, PlanFollowsCatalogue, PTL

-----------------------------------------------------------------------------
(***************************************************************************)
(* The raw store that the engine writes bodies to.  A writer that is about *)
(* to link has flushed its file (LinksFlushedData), so the object is whole *)
(* whenever it is there.  Once there it only vanishes in a power loss      *)
(* before its directory was flushed, and then every writer is gone as      *)
(* well: a writer past the link finds it there (LinkedIsThere), one that   *)
(* returned, or a row that was written, has it flushed (ReturnedIsDurable) *)
(* or loses it with the shard, when every row that refers to it is         *)
(* orphaned.  A shard that was on the disk stays there (KnownShard).       *)
(***************************************************************************)

PutPositions == {"idle", "look", "write", "fsync", "link", "unlink", "fsyncdir",
              "return", "reuse", "raise"}

\* Every variable has its type; the object is never partly written.
StoreTypeOK ==
    /\ shard \in {"absent", "named", "durable"}
    /\ target \in {"absent", "whole"}
    /\ flushed \in BOOLEAN
    /\ temp \in [Writers -> {"absent", "buffered", "whole"}]
    /\ putPc \in [Writers -> PutPositions]
    /\ recorded \subseteq {"written", "reused", "orphaned"}
    /\ faults \in Nat

LinksFlushedData == \A v \in Writers : putPc[v] = "link" => temp[v] = "whole"

LinkedIsThere == \A v \in Writers : putPc[v] \in {"unlink", "fsyncdir", "return"} => target = "whole"

ReturnedIsDurable ==
    ("written" \in recorded \/ \E v \in Writers : putPc[v] = "return") => target = "whole" /\ flushed

\* The inductive invariant.
StoreInv == StoreTypeOK /\ LinksFlushedData /\ LinkedIsThere /\ ReturnedIsDurable

-----------------------------------------------------------------------------

USE DEF PutPositions, StoreTypeOK, LinksFlushedData, LinkedIsThere, ReturnedIsDurable, StoreInv, Goto, Fault

LEMMA StoreInitEstablishes == StoreInit => StoreInv
<1> SUFFICES ASSUME StoreInit PROVE StoreInv
  OBVIOUS
<1>1. StoreTypeOK
  BY Zenon DEF StoreInit
<1>2. LinksFlushedData /\ LinkedIsThere /\ ReturnedIsDurable
  BY DEF StoreInit
<1> QED BY <1>1, <1>2

\* No step of put, of a fault or of a power loss disturbs the invariant.
LEMMA StoreInductive == StoreInv /\ [StoreNext]_storeVars => StoreInv'
<1> SUFFICES ASSUME StoreInv, [StoreNext]_storeVars PROVE StoreInv'
  OBVIOUS
<1>1. ASSUME NEW v \in Writers, Put(v) PROVE StoreInv'
  BY <1>1 DEF Put
<1>2. ASSUME NEW v \in Writers, Look(v) PROVE StoreInv'
  BY <1>2 DEF Look, Verified
<1>3. ASSUME NEW v \in Writers, Write(v) PROVE StoreInv'
  BY <1>3 DEF Write
<1>4. ASSUME NEW v \in Writers, Fsync(v) PROVE StoreInv'
  BY <1>4 DEF Fsync
<1>5. ASSUME NEW v \in Writers, Link(v) PROVE StoreInv'
  BY <1>5 DEF Link, Verified
<1>6. ASSUME NEW v \in Writers, Unlink(v) PROVE StoreInv'
  BY <1>6 DEF Unlink
<1>7. ASSUME NEW v \in Writers, FsyncDirectory(v) PROVE StoreInv'
  BY <1>7 DEF FsyncDirectory
<1>8. ASSUME NEW v \in Writers, Record(v) PROVE StoreInv'
  BY <1>8 DEF Record
<1>9. ASSUME NEW v \in Writers, Raise(v) PROVE StoreInv'
  BY <1>9 DEF Raise
<1>10. ASSUME NEW v \in Writers, DiskRaises(v) PROVE StoreInv'
  BY <1>10, RawStoreAssumption DEF DiskRaises
<1>11. ASSUME NEW v \in Writers, Kill(v) PROVE StoreInv'
  BY <1>11, RawStoreAssumption DEF Kill
<1>12. ASSUME PowerLoss PROVE StoreInv'
  <2>1. CASE shard' = "absent" /\ target' = "absent" /\ recorded' = {"orphaned" : row \in recorded}
    BY <1>12, <2>1, RawStoreAssumption DEF PowerLoss
  <2>2. CASE UNCHANGED recorded
    BY <1>12, <2>2, RawStoreAssumption DEF PowerLoss
  <2> QED BY <1>12, <2>1, <2>2 DEF PowerLoss
<1>13. CASE UNCHANGED storeVars
  BY <1>13 DEF storeVars
<1> QED BY <1>1, <1>2, <1>3, <1>4, <1>5, <1>6, <1>7, <1>8, <1>9, <1>10, <1>11, <1>12, <1>13
        DEF StoreNext, Step

\* The strengthened invariant holds of every behaviour of put.
THEOREM StoreInvariance == StoreSpec => []StoreInv
BY StoreInitEstablishes, StoreInductive, PTL DEF StoreSpec

\* RawFileStore.put: an object that put wrote and a ledger row refers to is
\* there and whole, whatever is killed, fails or loses power, unless the name
\* of its new shard went with the power.
THEOREM DurablyRecorded == StoreSpec => []RecordedIsStored
<1>1. StoreInv => RecordedIsStored
  BY DEF RecordedIsStored
<1> QED BY <1>1, StoreInvariance, PTL

KnownShard == shard = "durable" /\ "orphaned" \notin recorded

\* RawFileStore.put's mkdir: where the shard was on the disk before, no row is
\* ever orphaned, so DurablyRecorded then speaks of every row that was written.
THEOREM KnownShardsKeepRows == StoreSpec /\ shard = "durable" => []KnownShard
<1>1. StoreInit /\ shard = "durable" => KnownShard
  BY DEF StoreInit, KnownShard
<1>2. KnownShard /\ [StoreNext]_storeVars => KnownShard'
  BY DEF KnownShard, StoreNext, Step, Put, Look, Write, Fsync, Link, Unlink, FsyncDirectory,
         Record, Raise, DiskRaises, Kill, PowerLoss, storeVars
<1> QED BY <1>1, <1>2, PTL DEF StoreSpec

===============================================================================
