------------------------- MODULE DatasetLoadsProofs -------------------------
(***************************************************************************)
(* Proofs for CatalogueLoad, JobkoreaLoad and DatasetLoads: for any number *)
(* of releases, receipts, chunks, refreshes, kills and failures, what dies *)
(* in the middle leaves a graph that its receipt can restore, and a READY  *)
(* dataset and its inputs are whole.                                       *)
(*                                                                         *)
(* The argument.  The catalogue: the native process writes for the receipt *)
(* that owns the fence, which took its typed graph before it started the   *)
(* process, and the fence changes hands only when no native process is     *)
(* left (CatInv).  The dataset: the rows of a run are its chunks up to the *)
(* checkpoint, whichever importer appended them, a line that cannot be     *)
(* appended is not among them, the rejected ones are on record (RunInv),   *)
(* and only an importer that has seen READY goes on to the graph (ImpInv). *)
(* The inputs: a bundle is written before its batch receipt and that       *)
(* before the checkpoint, and provenance comes first or not at all         *)
(* (InputInv).                                                             *)
(***************************************************************************)
EXTENDS DatasetLoads, TLAPS

RunType == [state : {"NONE", "LOADING", "READY", "REVIEW_REQUIRED", "FAILED"},
            next : 1 .. NChunk + 1, graph : BOOLEAN]

\* The rows of the run are the chunks before its checkpoint; finalize has
\* decided on all of them.
RunInv ==
    /\ run \in RunType
    /\ bad \in 0 .. NChunk /\ flawed \in 0 .. NChunk
    /\ rows \in Seq(Nat) /\ Len(rows) = run.next - 1 /\ \A c \in 1 .. Len(rows) : rows[c] = c
    /\ bad # 0 => bad >= run.next
    /\ rejected = {c \in 1 .. run.next - 1 : c = flawed}
    /\ Sealed => run.next = NChunk + 1 /\ (run.state = "READY" <=> rejected = {})
    /\ run.graph => run.state = "READY"

\* An importer on its way to the graph has found the run READY.
ImpInv ==
    /\ imp \in [Importers -> [pc : {"none", "begin", "append", "seal", "graph", "done", "abort"}, at : Nat]]
    /\ \A i \in Importers : imp[i].pc = "graph" => run.state = "READY"

Tag == IF prov THEN "bound" ELSE "bare"

PrepType == [pc : {"none", "select", "batch", "checkpoint", "ok", "failed"}, ident : BOOLEAN]
CkType == [status : {"NONE", "RUNNING", "VERIFIED"}, ident : BOOLEAN, before : Nat, cursor : Nat]

InputType ==
    /\ prov \in BOOLEAN
    /\ bundles \in [Chunks -> {"none", "bound", "bare"}]
    /\ prep \in [Dirs -> PrepType]
    /\ ck \in [Dirs -> CkType]
    /\ batch \in [Dirs -> 0 .. NChunk]
    /\ work \in Nat

\* What a preparation has written before it goes on.
DirInv(d) ==
    /\ ck[d].cursor <= batch[d]
    /\ \A p \in 1 .. batch[d] : bundles[p] # "none"
    /\ ck[d].status = "VERIFIED" => Coverage
    /\ prep[d].pc \in {"batch", "checkpoint"} => Next1(d) \in Chunks /\ bundles[Next1(d)] # "none"
    /\ prep[d].pc = "checkpoint" => Next1(d) <= batch[d]

InputInv ==
    /\ InputType
    /\ \A p \in Chunks : bundles[p] \in {"none", Tag}
    /\ \A d \in Dirs : DirInv(d)

LdType ==
    [pc : {"none", "before", "base", "install", "archive", "load", "loading", "replay", "replaying",
           "verify", "release"}, rcpt : Nat]
JvmPositions ==
    {"none", "import", "acquire", "preflight", "edges", "finish", "activate", "done", "abort"}
JvmType == [task : {"none", "catalogue"}, pc : JvmPositions, scheme : Schemes, release : Nat]
Graph == [nodes : Nat, edges : Nat]
Receipt ==
    [scheme : Schemes, release : Nat,
     status : {"PREPARING", "VERIFIED", "FAILED_FENCED", "RESUMING_PREWRITE", "RESUMING_PREGRAPH"},
     before : BOOLEAN, based : {<<>>} \cup {<<u>> : u \in SUBSET Graph}, installed : Nat,
     archived : BOOLEAN, retry : BOOLEAN]

CatType ==
    /\ ld \in LdType
    /\ receipts \in Seq(Receipt)
    /\ fence \in 0 .. Len(receipts)
    /\ jvm \in JvmType
    /\ graph \in [Schemes -> Graph]
    /\ target \in [Schemes -> Nat]
    /\ current \in [Schemes -> Nat]

\* The loader owns the fence; a native process is its own while it waits for
\* one; what comes after the snapshot has it.
LoaderInv ==
    ld # NoLd =>
        /\ ld.rcpt \in 1 .. Len(receipts) /\ fence = ld.rcpt
        /\ ld.pc \notin {"loading", "replaying"} => jvm = NoJvm
        /\ ld.pc \in {"install", "archive", "load", "replay", "loading", "replaying", "verify"} =>
              Cur.based # <<>>
        /\ ld.pc = "release" => Cur.status = "VERIFIED" /\ Whole(Cur.scheme, current[Cur.scheme])

\* The receipt that owns the fence can restore the graph of a scheme.
Recoverable(s) == fence # 0 /\ receipts[fence].based # <<>> /\ receipts[fence].scheme = s

CatInv ==
    /\ CatType
    /\ LoaderInv
    /\ jvm # NoJvm => jvm.task = "catalogue" /\ Recoverable(jvm.scheme)
    /\ \A s \in Schemes : ~Whole(s, current[s]) => Recoverable(s)

\* The inductive invariant.
IInv == RunInv /\ ImpInv /\ InputInv /\ CatInv

-----------------------------------------------------------------------------
(* The dataset.                                                             *)

\* An importer moves.
LEMMA ImpMoves ==
  ASSUME ImpInv, NEW i \in Importers,
         NEW pc \in {"none", "begin", "append", "seal", "graph", "done", "abort"}, NEW n \in Nat,
         imp' = [imp EXCEPT ![i] = [pc |-> pc, at |-> n]],
         pc = "graph" => run'.state = "READY", run.state = "READY" => run'.state = "READY"
  PROVE  ImpInv'
<1>1. [pc |-> pc, at |-> n] \in [pc : {"none", "begin", "append", "seal", "graph", "done", "abort"}, at : Nat]
  OBVIOUS
<1>2. imp' \in [Importers -> [pc : {"none", "begin", "append", "seal", "graph", "done", "abort"}, at : Nat]]
  BY <1>1 DEF ImpInv
<1>3. imp'[i].pc = pc /\ \A k \in Importers : k # i => imp'[k] = imp[k]
  BY DEF ImpInv
<1> QED BY <1>2, <1>3 DEF ImpInv

\* It goes to another position, or it ends.
LEMMA ImpGoes ==
  ASSUME ImpInv, NEW i \in Importers,
         NEW pc \in {"none", "begin", "append", "seal", "graph", "done", "abort"},
         imp' = [imp EXCEPT ![i].pc = pc],
         pc = "graph" => run'.state = "READY", run.state = "READY" => run'.state = "READY"
  PROVE  ImpInv'
<1>1. imp[i] \in [pc : {"none", "begin", "append", "seal", "graph", "done", "abort"}, at : Nat]
  BY DEF ImpInv
<1>2. PICK n \in Nat : n = imp[i].at
  BY <1>1
<1>3. [imp[i] EXCEPT !.pc = pc] = [pc |-> pc, at |-> n]
  BY <1>1, <1>2
<1>4. imp' = [imp EXCEPT ![i] = [pc |-> pc, at |-> n]]
  BY <1>3
<1> QED BY <1>4, ImpMoves

LEMMA ImpFinishes ==
  ASSUME ImpInv, NEW i \in Importers, NEW pc \in {"done", "abort"}, ImpEnds(i, pc) \/ imp' = [imp EXCEPT ![i] = NoImp],
         run.state = "READY" => run'.state = "READY"
  PROVE  ImpInv'
<1>1. PICK x \in {"none", "done", "abort"} : imp' = [imp EXCEPT ![i] = [pc |-> x, at |-> 1]]
  BY DEF ImpEnds, NoImp
<1> QED BY <1>1, ImpMoves

\* Only the importers write the run.
LEMMA ImportKeeps ==
  ASSUME RunInv, ImpInv, NEW i \in Importers, Imports(i), bad' = bad, flawed' = flawed
  PROVE  RunInv' /\ ImpInv'
<1>0. NChunk \in Nat \ {0}
  BY DatasetAssumption
<1>1. /\ run \in RunType /\ run.next \in Nat
      /\ rows \in Seq(Nat) /\ Len(rows) = run.next - 1
      /\ imp[i].at \in Nat
  BY <1>0 DEF RunInv, ImpInv, RunType
<1>2. ASSUME UNCHANGED <<run, rows, rejected>> PROVE RunInv'
  BY <1>2 DEF RunInv, Sealed
<1>3. ASSUME rows' = rows, rejected' = rejected,
             NEW s \in {"LOADING", "READY", "REVIEW_REQUIRED", "FAILED"}, run' = [run EXCEPT !.state = s],
             ~Sealed,
             s \in {"READY", "REVIEW_REQUIRED"} => run.next = NChunk + 1 /\ (s = "READY" <=> rejected = {})
      PROVE  RunInv' /\ run'.state = s
  <2>1. run' \in RunType /\ run'.next = run.next /\ run'.state = s /\ run'.graph = run.graph
    BY <1>1, <1>3 DEF RunType
  <2>2. ~run.graph
    BY <1>3 DEF RunInv, Sealed
  <2> QED BY <1>3, <2>1, <2>2 DEF RunInv, Sealed
<1>4. CASE BeginImport(i)
  <2>1. RunInv' /\ (run.state = "READY" => run'.state = "READY")
    <3>1. CASE run.state = "NONE"
      BY <1>3, <1>4, <3>1 DEF BeginImport, Sealed
    <3>2. CASE run.state # "NONE"
      BY <1>2, <1>4, <3>2 DEF BeginImport
    <3> QED BY <3>1, <3>2
  <2>2. CASE run.state = "FAILED"
    BY <1>4, <2>1, <2>2, ImpFinishes DEF BeginImport
  <2>3. CASE run.state # "FAILED"
    <3>1. PICK pc \in {"seal", "append"} : imp' = [imp EXCEPT ![i] = [pc |-> pc, at |-> run.next]]
      BY <1>4, <2>3 DEF BeginImport
    <3> QED BY <1>1, <2>1, <3>1, ImpMoves
  <2> QED BY <2>1, <2>2, <2>3
<1>5. CASE AppendBatch(i)
  <2>1. imp[i].pc = "append" /\ run.state = "LOADING" /\ imp' = [imp EXCEPT ![i].at = @ + 1]
    BY <1>5 DEF AppendBatch, Appends
  <2>2. PICK n \in Nat : n = imp[i].at + 1
    BY <1>1
  <2>3. imp' = [imp EXCEPT ![i] = [pc |-> "append", at |-> n]]
    <3>1. imp[i] \in [pc : {"none", "begin", "append", "seal", "graph", "done", "abort"}, at : Nat]
      BY DEF ImpInv
    <3>2. [imp[i] EXCEPT !.at = n] = [pc |-> "append", at |-> n]
      BY <2>1, <3>1
    <3> QED BY <2>1, <2>2, <3>2
  <2>4. ImpInv'
    BY <2>1, <2>3, ImpMoves
  <2>5. CASE UNCHANGED <<run, rows, rejected>>
    BY <1>2, <2>4, <2>5
  <2>6. CASE /\ Appends(i) /\ run' = [run EXCEPT !.next = @ + 1] /\ rows' = Append(rows, imp[i].at)
             /\ rejected' = rejected \cup ({imp[i].at} \cap {flawed})
    <3>1. imp[i].at = run.next /\ imp[i].at # bad /\ run.next \in 1 .. NChunk
      BY <1>5, <2>6 DEF AppendBatch, Appends, Chunks
    <3>2. run' \in RunType /\ run'.next = run.next + 1 /\ run'.state = "LOADING" /\ run'.graph = run.graph
      BY <1>0, <1>1, <2>1, <2>6, <3>1 DEF RunType
    <3>3. rows' \in Seq(Nat) /\ Len(rows') = run.next /\ \A c \in 1 .. Len(rows') : rows'[c] = c
      BY <1>1, <2>6, <3>1 DEF RunInv
    <3>4. bad # 0 => bad >= run.next + 1
      BY <1>0, <1>1, <3>1 DEF RunInv
    <3>5. rejected' = {c \in 1 .. run.next : c = flawed}
      <4>1. rejected = {c \in 1 .. run.next - 1 : c = flawed}
        BY DEF RunInv
      <4>2. 1 .. run.next = (1 .. run.next - 1) \cup {run.next}
        BY <3>1
      <4>3. rejected' = rejected \cup ({run.next} \cap {flawed})
        BY <2>6, <3>1
      <4> QED BY <4>1, <4>2, <4>3
    <3>6. ~run.graph /\ ~Sealed'
      BY <2>1, <3>2 DEF RunInv, Sealed
    <3> QED BY <1>1, <2>4, <3>2, <3>3, <3>4, <3>5, <3>6 DEF RunInv
  <2> QED BY <1>5, <2>5, <2>6 DEF AppendBatch
<1>6. CASE MarkFailure(i)
  <2>1. UNCHANGED <<rows, rejected>> /\ ImpEnds(i, "abort")
    BY <1>6 DEF MarkFailure
  <2>2. RunInv' /\ (run.state = "READY" => run'.state = "READY")
    <3>1. CASE run' = run
      BY <1>2, <2>1, <3>1
    <3>2. CASE run' # run
      BY <1>3, <1>6, <2>1, <3>2 DEF MarkFailure, Sealed
    <3> QED BY <3>1, <3>2
  <2> QED BY <2>1, <2>2, ImpFinishes
<1>7. CASE SealImport(i)
  <2>1. UNCHANGED <<rows, rejected>>
    BY <1>7 DEF SealImport
  <2>2. RunInv' /\ (run.state = "READY" => run'.state = "READY")
    <3>1. CASE Seals
      <4>1. PICK s \in {"READY", "REVIEW_REQUIRED"} :
               run' = [run EXCEPT !.state = s] /\ (s = "READY" <=> rejected = {})
        BY <1>7, <3>1 DEF SealImport, Issues
      <4> QED BY <1>3, <2>1, <3>1, <4>1 DEF Seals, Sealed
    <3>2. CASE ~Seals
      BY <1>2, <1>7, <2>1, <3>2 DEF SealImport
    <3> QED BY <3>1, <3>2
  <2>3. CASE run'.state = "READY" /\ Issues = {}
    BY <1>7, <2>2, <2>3, ImpGoes DEF SealImport, ImpTo
  <2>4. CASE ~(run'.state = "READY" /\ Issues = {})
    BY <1>7, <2>2, <2>4, ImpFinishes DEF SealImport
  <2> QED BY <2>2, <2>3, <2>4
<1>8. CASE LoadGraph(i)
  <2>1. UNCHANGED <<rows, rejected>> /\ run' = [run EXCEPT !.graph = TRUE] /\ ImpEnds(i, "done")
    BY <1>8 DEF LoadGraph
  <2>2. run' \in RunType /\ run'.next = run.next /\ run'.state = run.state
    BY <1>1, <2>1 DEF RunType
  <2>3. run.state = "READY"
    BY <1>8 DEF LoadGraph, ImpInv
  <2>4. RunInv'
    BY <2>1, <2>2, <2>3 DEF RunInv, Sealed
  <2> QED BY <2>1, <2>2, <2>4, ImpFinishes
<1> QED BY <1>4, <1>5, <1>6, <1>7, <1>8 DEF Imports

LEMMA RunInductive == RunInv /\ ImpInv /\ [Next]_vars => RunInv' /\ ImpInv'
<1> SUFFICES ASSUME RunInv, ImpInv, [Next]_vars PROVE RunInv' /\ ImpInv'
  OBVIOUS
<1>0. "load" \in Importers /\ "hand" \in Importers
  BY DEF Importers
<1>1. ASSUME UNCHANGED <<run, rows, rejected, bad, flawed>>, ImpInv' PROVE RunInv' /\ ImpInv'
  BY <1>1 DEF RunInv, Sealed
<1>2. ASSUME UNCHANGED <<run, imp>> PROVE ImpInv'
  BY <1>2 DEF ImpInv
<1>3. CASE UNCHANGED vars \/ Refresh \/ Catalogue
  BY <1>1, <1>2, <1>3 DEF vars, jkvars, source, Refresh, Catalogue
<1>4. ASSUME NEW i \in Importers, Imports(i), bad' = bad, flawed' = flawed PROVE RunInv' /\ ImpInv'
  BY <1>4, ImportKeeps
<1>5. CASE Jobkorea
  <2>1. UNCHANGED <<bad, flawed>>
    BY <1>5 DEF Jobkorea
  <2>2. CASE ImportArchived \/ ResumeNdjson
    <3>1. UNCHANGED <<run, rows, rejected>> /\ \E i \in Importers : imp' = [imp EXCEPT ![i].pc = "begin"]
      BY <1>0, <2>2 DEF ImportArchived, ResumeNdjson, source
    <3>2. ImpInv'
      BY <3>1, ImpGoes
    <3> QED BY <1>1, <2>1, <3>1, <3>2
  <2>3. CASE ImportEnds \/ FailedReview(work)
    <3>1. UNCHANGED <<run, rows, rejected>> /\ (imp' = [imp EXCEPT !["load"] = NoImp] \/ imp' = imp)
      BY <2>3 DEF ImportEnds, FailedReview, source
    <3>2. ImpInv'
      BY <1>0, <1>2, <3>1, ImpFinishes
    <3> QED BY <1>1, <2>1, <3>1, <3>2
  <2>4. CASE \/ ArchiveComposition \/ RegisterProvenance \/ Conclude(work) \/ StartJobkorea(work)
             \/ \E d \in Dirs : StartPreparation(d, work) \/ Prepares(d, work)
    BY <1>1, <1>2, <2>1, <2>4 DEF ArchiveComposition, RegisterProvenance, Conclude, StartJobkorea,
       StartPreparation, Prepares, PrepareInputs, WriteBatch, WriteCheckpoint, Finish, source
  <2>5. "load" \in Dirs /\ "own" \in Dirs
    BY DEF Dirs
  <2> QED BY <1>0, <1>4, <1>5, <2>1, <2>2, <2>3, <2>4, <2>5 DEF Jobkorea, Supervises, ImportsByHand, PreparesByHand
<1>6. CASE Faults
  <2>1. CASE UNCHANGED jkvars
    BY <1>1, <1>2, <2>1 DEF jkvars, source
  <2>2. CASE JkFaults /\ UNCHANGED <<bad, flawed>>
    <3>1. UNCHANGED <<run, rows, rejected>>
      BY <2>2 DEF JkFaults, SupervisorKilled, ImporterDies, PreparationDies, source
    <3>2. ImpInv'
      <4>1. CASE SupervisorKilled
        BY <1>0, <1>2, <3>1, <4>1, ImpFinishes DEF SupervisorKilled
      <4>2. CASE \E i \in Importers : ImporterDies(i)
        BY <3>1, <4>2, ImpFinishes DEF ImporterDies
      <4>3. CASE \E d \in Dirs : PreparationDies(d)
        BY <1>2, <3>1, <4>3 DEF PreparationDies
      <4> QED BY <2>2, <4>1, <4>2, <4>3 DEF JkFaults
    <3> QED BY <1>1, <2>2, <3>1, <3>2
  <2> QED BY <1>6, <2>1, <2>2 DEF Faults
<1> QED BY <1>3, <1>5, <1>6 DEF Next

LEMMA RunInit == Init => RunInv /\ ImpInv
<1> SUFFICES ASSUME Init PROVE RunInv /\ ImpInv
  OBVIOUS
<1>1. NChunk \in Nat \ {0}
  BY DatasetAssumption
<1>2. /\ run = [state |-> "NONE", next |-> 1, graph |-> FALSE] /\ rows = <<>> /\ rejected = {}
      /\ bad \in 0 .. NChunk /\ flawed \in 0 .. NChunk /\ imp = [i \in Importers |-> NoImp]
  BY DEF Init, JkInit
<1>3. 1 \in 1 .. NChunk + 1 /\ FALSE \in BOOLEAN
  BY <1>1
<1>4. run \in RunType
  BY <1>2, <1>3 DEF RunType
<1>5. ImpInv
  BY <1>2 DEF ImpInv, NoImp
<1> QED BY <1>1, <1>2, <1>4, <1>5 DEF RunInv, Sealed

\* load_jobkorea_dataset over seal and finalize: a run that is decided on holds
\* every chunk of the archive once and in order, however many importers worked
\* on it and wherever they died; it is READY exactly when no row was rejected,
\* and only then does it reach the graph.
THEOREM DatasetWhole == Spec => []ReadyIsWhole
<1>1. RunInv => ReadyIsWhole
  <2> SUFFICES ASSUME RunInv, Sealed PROVE rows = [c \in Chunks |-> c] /\ bad = 0 /\ rejected = {flawed} \ {0}
    BY DEF ReadyIsWhole, RunInv
  <2>1. NChunk \in Nat \ {0} /\ Len(rows) = NChunk /\ rows \in Seq(Nat) /\ \A c \in 1 .. Len(rows) : rows[c] = c
    BY DatasetAssumption DEF RunInv
  <2>2. rows = [c \in Chunks |-> c]
    BY <2>1 DEF Chunks
  <2>3. bad = 0 /\ rejected = {flawed} \ {0}
    BY <2>1 DEF RunInv
  <2> QED BY <2>2, <2>3
<1> QED BY <1>1, RunInit, RunInductive, PTL DEF Spec

-----------------------------------------------------------------------------
(* The inputs.                                                              *)

\* What a preparation of another directory or a step of nobody leaves alone.
LEMMA DirKeeps ==
  ASSUME InputInv, NEW d \in Dirs, prov' = prov, bundles' \in [Chunks -> {"none", "bound", "bare"}],
         \A p \in Chunks : bundles'[p] = bundles[p] \/ bundles'[p] = Tag,
         ck'[d] = ck[d], batch'[d] = batch[d],
         prep'[d].pc = prep[d].pc \/ prep'[d].pc \notin {"batch", "checkpoint"}
  PROVE  DirInv(d)'
<1>1. \A p \in Chunks : bundles[p] # "none" => bundles'[p] # "none"
  BY DEF Tag
<1>2. DirInv(d) /\ batch[d] \in 0 .. NChunk /\ NChunk \in Nat
  BY DatasetAssumption DEF InputInv, InputType
<1>3. Coverage => Coverage'
  BY DEF Coverage, Tag
<1> QED BY <1>1, <1>2, <1>3 DEF DirInv, Next1, Chunks

\* The parts of InputInv for a step that keeps prov.
LEMMA InputStep ==
  ASSUME InputInv, prov' = prov, work' = work, bundles' \in [Chunks -> {"none", "bound", "bare"}],
         \A p \in Chunks : bundles'[p] = bundles[p] \/ bundles'[p] = Tag,
         NEW d \in Dirs,
         prep' \in [Dirs -> PrepType], ck' \in [Dirs -> CkType], batch' \in [Dirs -> 0 .. NChunk],
         \A e \in Dirs : e # d => prep'[e] = prep[e] /\ ck'[e] = ck[e] /\ batch'[e] = batch[e],
         DirInv(d)'
  PROVE  InputInv'
<1>1. \A e \in Dirs : DirInv(e)'
  BY DirKeeps
<1>2. InputType'
  BY DEF InputInv, InputType
<1>3. \A p \in Chunks : bundles'[p] \in {"none", Tag'}
  BY DEF InputInv, Tag
<1> QED BY <1>1, <1>2, <1>3 DEF InputInv

\* A preparation ends or goes on, and nothing but that happens.
LEMMA PrepEnds ==
  ASSUME InputInv, UNCHANGED <<prov, bundles, ck, batch, work>>, prep' \in [Dirs -> PrepType],
         \A d \in Dirs : prep'[d].pc = prep[d].pc \/ prep'[d].pc \notin {"batch", "checkpoint"}
  PROVE  InputInv'
<1>1. \A d \in Dirs : DirInv(d)'
  BY DirKeeps DEF InputInv, InputType
<1> QED BY <1>1 DEF InputInv, InputType, Tag

LEMMA StartPreparationKeeps ==
  ASSUME InputInv, NEW d \in Dirs, StartPreparation(d, work), work' = work
  PROVE  InputInv'
<1>1. UNCHANGED <<prov, bundles, batch>> /\ prov \in BOOLEAN /\ work \in Nat
  BY DEF StartPreparation, InputInv, InputType
<1>2. prep' = [prep EXCEPT ![d] = [pc |-> "select", ident |-> prov]] /\ prep \in [Dirs -> PrepType]
  BY DEF StartPreparation, Identity, InputInv, InputType
<1>3. [pc |-> "select", ident |-> prov] \in PrepType
  BY <1>1 DEF PrepType
<1>4. prep' \in [Dirs -> PrepType] /\ prep'[d].pc = "select" /\ \A e \in Dirs : e # d => prep'[e] = prep[e]
  BY <1>2, <1>3
<1>5. CASE ck' = ck
  <2>1. \A e \in Dirs : prep'[e].pc = prep[e].pc \/ prep'[e].pc \notin {"batch", "checkpoint"}
    BY <1>4
  <2> QED BY <1>1, <1>4, <1>5, <2>1, PrepEnds
<1>6. CASE ck' # ck
  <2> DEFINE c == [status |-> "RUNNING", ident |-> prov, before |-> work, cursor |-> 0]
  <2>1. ck' = [ck EXCEPT ![d] = c] /\ ck \in [Dirs -> CkType]
    BY <1>6 DEF StartPreparation, ReadsCheckpoint, Identity, InputInv, InputType
  <2>2. c \in CkType /\ c.status = "RUNNING" /\ c.cursor = 0
    BY <1>1 DEF CkType
  <2> HIDE DEF c
  <2>3. ck' \in [Dirs -> CkType] /\ ck'[d].status = "RUNNING" /\ ck'[d].cursor = 0
        /\ \A e \in Dirs : e # d => ck'[e] = ck[e]
    BY <2>1, <2>2
  <2>4. DirInv(d) /\ batch[d] \in 0 .. NChunk
    BY DEF InputInv, InputType
  <2>5. DirInv(d)'
    BY <1>1, <1>4, <2>3, <2>4 DEF DirInv
  <2>6. bundles \in [Chunks -> {"none", "bound", "bare"}] /\ batch \in [Dirs -> 0 .. NChunk]
    BY DEF InputInv, InputType
  <2> QED BY <1>1, <1>4, <2>3, <2>5, <2>6, InputStep
<1> QED BY <1>5, <1>6

\* One position of a preparation to the next.
LEMMA PrepMoves ==
  ASSUME InputInv, NEW d \in Dirs, NEW pc \in {"select", "batch", "checkpoint", "ok", "failed"},
         prep' = [prep EXCEPT ![d].pc = pc]
  PROVE  prep' \in [Dirs -> PrepType] /\ prep'[d].pc = pc /\ \A e \in Dirs : e # d => prep'[e] = prep[e]
<1>1. prep \in [Dirs -> PrepType] /\ prep[d] \in PrepType
  BY DEF InputInv, InputType
<1>2. [prep[d] EXCEPT !.pc = pc] \in PrepType /\ [prep[d] EXCEPT !.pc = pc].pc = pc
  BY <1>1 DEF PrepType
<1> QED BY <1>1, <1>2

LEMMA PreparesKeeps ==
  ASSUME InputInv, NEW d \in Dirs, Prepares(d, work), work' = work
  PROVE  InputInv'
<1>0. /\ NChunk \in Nat \ {0} /\ prov \in BOOLEAN /\ DirInv(d)
      /\ bundles \in [Chunks -> {"none", "bound", "bare"}]
      /\ prep \in [Dirs -> PrepType] /\ ck \in [Dirs -> CkType] /\ batch \in [Dirs -> 0 .. NChunk]
  BY DatasetAssumption DEF InputInv, InputType
<1>1. ck[d].cursor \in Nat /\ batch[d] \in Nat
  BY <1>0 DEF CkType
<1>2. CASE PrepareInputs(d)
  <2>1. Next1(d) \in Chunks /\ bundles' = [bundles EXCEPT ![Next1(d)] = Tag] /\ UNCHANGED <<prov, ck, batch>>
    BY <1>2 DEF PrepareInputs, Tag
  <2>2. /\ bundles' \in [Chunks -> {"none", "bound", "bare"}] /\ bundles'[Next1(d)] = Tag /\ Tag # "none"
        /\ \A p \in Chunks : bundles'[p] = bundles[p] \/ bundles'[p] = Tag
    BY <1>0, <2>1 DEF Tag
  <2>3. prep' \in [Dirs -> PrepType] /\ prep'[d].pc = "batch" /\ \A e \in Dirs : e # d => prep'[e] = prep[e]
    BY <1>2, PrepMoves DEF PrepareInputs
  <2>4. Coverage => Coverage'
    BY <2>1, <2>2 DEF Coverage, Tag
  <2>5. \A p \in 1 .. batch[d] : bundles'[p] # "none"
    BY <1>0, <2>2 DEF DirInv, Chunks
  <2>6. DirInv(d)'
    BY <1>0, <2>1, <2>2, <2>3, <2>4, <2>5 DEF DirInv, Next1
  <2> QED BY <1>0, <2>1, <2>2, <2>3, <2>6, InputStep
<1>3. CASE WriteBatch(d)
  <2>1. UNCHANGED <<prov, bundles, ck>> /\ prep[d].pc = "batch" /\ Next1(d) \in Chunks
    BY <1>0, <1>3 DEF WriteBatch, DirInv
  <2>2. PICK b \in 0 .. NChunk : b = IF batch[d] < Next1(d) THEN Next1(d) ELSE batch[d]
    BY <1>0, <2>1 DEF Chunks
  <2>3. batch' = [batch EXCEPT ![d] = b]
    BY <1>0, <1>3, <2>2 DEF WriteBatch
  <2>4. batch' \in [Dirs -> 0 .. NChunk] /\ batch'[d] = b /\ \A e \in Dirs : e # d => batch'[e] = batch[e]
    BY <1>0, <2>3
  <2>5. prep' \in [Dirs -> PrepType] /\ prep'[d].pc = "checkpoint" /\ \A e \in Dirs : e # d => prep'[e] = prep[e]
    BY <1>3, PrepMoves DEF WriteBatch
  <2>6. ck[d].cursor <= batch[d] /\ Next1(d) = ck[d].cursor + 1
    BY <1>0 DEF DirInv, Next1
  <2>7. \A p \in 1 .. b : bundles[p] # "none"
    BY <1>0, <1>1, <2>1, <2>2, <2>6 DEF DirInv
  <2>8. Coverage' = Coverage
    BY <2>1 DEF Coverage
  <2>9. DirInv(d)'
    BY <1>0, <1>1, <2>1, <2>2, <2>4, <2>5, <2>6, <2>7, <2>8 DEF DirInv, Next1
  <2> QED BY <1>0, <2>1, <2>4, <2>5, <2>9, InputStep
<1>4. CASE WriteCheckpoint(d)
  <2>1. UNCHANGED <<prov, bundles, batch>> /\ prep[d].pc = "checkpoint" /\ ck' = [ck EXCEPT ![d].cursor = @ + 1]
    BY <1>4 DEF WriteCheckpoint
  <2>2. PICK n \in Nat : n = ck[d].cursor + 1
    BY <1>1
  <2>3. [ck[d] EXCEPT !.cursor = n] \in CkType /\ ck' = [ck EXCEPT ![d] = [ck[d] EXCEPT !.cursor = n]]
    BY <1>0, <2>1, <2>2 DEF CkType
  <2>4. /\ ck' \in [Dirs -> CkType] /\ ck'[d].cursor = n /\ ck'[d].status = ck[d].status
        /\ \A e \in Dirs : e # d => ck'[e] = ck[e]
    BY <1>0, <2>3 DEF CkType
  <2>5. prep' \in [Dirs -> PrepType] /\ prep'[d].pc = "select" /\ \A e \in Dirs : e # d => prep'[e] = prep[e]
    BY <1>4, PrepMoves DEF WriteCheckpoint
  <2>6. Coverage' = Coverage
    BY <2>1 DEF Coverage
  <2>7. DirInv(d)'
    BY <1>0, <1>1, <2>1, <2>2, <2>4, <2>5, <2>6 DEF DirInv, Next1
  <2> QED BY <1>0, <2>1, <2>4, <2>5, <2>7, InputStep
<1>5. CASE Finish(d, work)
  <2>1. UNCHANGED <<prov, bundles, batch>>
    BY <1>5 DEF Finish
  <2>2. prep' \in [Dirs -> PrepType] /\ prep'[d].pc \in {"none", "ok", "failed"}
        /\ \A e \in Dirs : e # d => prep'[e] = prep[e]
    <3>1. CASE d = "own"
      <4>1. prep' = [prep EXCEPT ![d] = NoPrep] /\ NoPrep \in PrepType /\ NoPrep.pc = "none"
        BY <1>5, <3>1 DEF Finish, NoPrep, PrepType
      <4> QED BY <1>0, <4>1
    <3>2. CASE d # "own"
      <4>1. PICK pc \in {"ok", "failed"} : prep' = [prep EXCEPT ![d].pc = pc]
        BY <1>0, <1>5, <3>2 DEF Finish
      <4> QED BY <4>1, PrepMoves
    <3> QED BY <3>1, <3>2
  <2>3. CASE MayVerify(d, work)
    <3>1. ck' = [ck EXCEPT ![d].status = "VERIFIED"] /\ Coverage
      BY <1>5, <2>3 DEF Finish, MayVerify
    <3>2. /\ ck' \in [Dirs -> CkType] /\ ck'[d].cursor = ck[d].cursor
          /\ \A e \in Dirs : e # d => ck'[e] = ck[e]
      BY <1>0, <3>1 DEF CkType
    <3>3. Coverage'
      BY <2>1, <3>1 DEF Coverage
    <3>4. DirInv(d)'
      BY <1>0, <2>1, <2>2, <3>2, <3>3 DEF DirInv
    <3> QED BY <1>0, <2>1, <2>2, <3>2, <3>4, InputStep
  <2>4. CASE ~MayVerify(d, work)
    <3>1. ck' = ck
      BY <1>5, <2>4 DEF Finish
    <3>2. \A e \in Dirs : prep'[e].pc = prep[e].pc \/ prep'[e].pc \notin {"batch", "checkpoint"}
      BY <2>2
    <3> QED BY <2>1, <2>2, <3>1, <3>2, PrepEnds
  <2> QED BY <2>3, <2>4
<1> QED BY <1>2, <1>3, <1>4, <1>5 DEF Prepares

\* Provenance is registered before any bundle, or was there.
LEMMA RegisterKeeps ==
  ASSUME InputInv, RegisterProvenance, work' = work
  PROVE  InputInv'
<1>0. NChunk \in Nat \ {0} /\ prov \in BOOLEAN /\ prov' = TRUE /\ UNCHANGED <<bundles, prep, ck, batch>>
  BY DatasetAssumption DEF InputInv, InputType, RegisterProvenance
<1>1. CASE prov
  <2>1. prov' = prov
    BY <1>0, <1>1
  <2> QED BY <1>0, <2>1, PrepEnds DEF InputInv, InputType
<1>2. CASE ~prov
  <2>1. NoInputs
    BY <1>2 DEF RegisterProvenance, MayRegister
  <2>2. ~Coverage
    <3>1. 1 \in Chunks
      BY <1>0 DEF Chunks
    <3> QED BY <1>2, <2>1, <3>1 DEF Coverage, NoInputs
  <2>3. \A d \in Dirs : DirInv(d)'
    BY <1>0, <2>2 DEF InputInv, DirInv, Next1
  <2>4. \A p \in Chunks : bundles'[p] \in {"none", Tag'}
    BY <1>0, <2>1 DEF NoInputs
  <2>5. InputType'
    BY <1>0 DEF InputInv, InputType
  <2> QED BY <2>3, <2>4, <2>5 DEF InputInv
<1> QED BY <1>1, <1>2

LEMMA InputInductive == InputInv /\ [Next]_vars => InputInv'
<1> SUFFICES ASSUME InputInv, [Next]_vars PROVE InputInv'
  OBVIOUS
<1>0. /\ prep \in [Dirs -> PrepType] /\ NoPrep \in PrepType /\ NoPrep.pc = "none"
      /\ "load" \in Dirs /\ "own" \in Dirs
  BY DEF InputInv, InputType, NoPrep, PrepType, Dirs
<1>1. CASE UNCHANGED <<prov, bundles, prep, ck, batch>> /\ work' \in Nat
  <2>1. \A d \in Dirs : DirInv(d)'
    BY <1>1 DEF InputInv, DirInv, Next1, Coverage
  <2> QED BY <1>1, <2>1 DEF InputInv, InputType, Tag
<1>2. work \in Nat
  BY DEF InputInv, InputType
<1>3. CASE UNCHANGED vars \/ Refresh \/ Catalogue
  BY <1>1, <1>2, <1>3 DEF vars, jkvars, inputs, Refresh, Catalogue
<1>4. ASSUME NEW d \in Dirs, prep' = [prep EXCEPT ![d] = NoPrep], UNCHANGED <<prov, bundles, ck, batch, work>>
      PROVE  InputInv'
  <2>1. prep' \in [Dirs -> PrepType]
    BY <1>0, <1>4
  <2>2. \A e \in Dirs : prep'[e].pc = prep[e].pc \/ prep'[e].pc \notin {"batch", "checkpoint"}
    BY <1>0, <1>4
  <2> QED BY <1>4, <2>1, <2>2, PrepEnds
<1>5. ASSUME NEW d \in Dirs, StartPreparation(d, work) \/ Prepares(d, work), work' = work PROVE InputInv'
  BY <1>5, StartPreparationKeeps, PreparesKeeps
<1>6. CASE Jobkorea
  <2>0. work' = work
    BY <1>6 DEF Jobkorea
  <2>1. CASE ArchiveComposition \/ ImportArchived \/ ImportEnds \/ StartJobkorea(work) \/ ResumeNdjson
    BY <1>1, <1>2, <2>0, <2>1 DEF ArchiveComposition, ImportArchived, ImportEnds, StartJobkorea, ResumeNdjson, inputs
  <2>2. CASE Conclude(work) \/ FailedReview(work)
    BY <1>0, <1>4, <2>0, <2>2 DEF Conclude, FailedReview
  <2>3. CASE RegisterProvenance
    BY <2>0, <2>3, RegisterKeeps
  <2>4. ASSUME NEW i, Imports(i) PROVE InputInv'
    BY <1>1, <1>2, <2>0, <2>4 DEF Imports, BeginImport, AppendBatch, MarkFailure, SealImport, LoadGraph, inputs
  <2>5. CASE \E d \in Dirs : StartPreparation(d, work) \/ Prepares(d, work)
    BY <1>5, <2>0, <2>5
  <2> QED BY <1>0, <1>6, <2>1, <2>2, <2>3, <2>4, <2>5 DEF Jobkorea, Supervises, ImportsByHand, PreparesByHand
<1>7. CASE Faults
  <2>0. work' = work
    BY <1>7 DEF Faults
  <2>1. CASE UNCHANGED jkvars
    BY <1>1, <1>2, <2>0, <2>1 DEF jkvars, inputs
  <2>2. CASE SupervisorKilled
    BY <1>0, <1>4, <2>0, <2>2 DEF SupervisorKilled
  <2>3. ASSUME NEW i \in Importers, ImporterDies(i) PROVE InputInv'
    BY <1>1, <1>2, <2>0, <2>3 DEF ImporterDies, inputs
  <2>4. ASSUME NEW d \in Dirs, PreparationDies(d) PROVE InputInv'
    BY <1>4, <2>0, <2>4 DEF PreparationDies
  <2> QED BY <1>7, <2>1, <2>2, <2>3, <2>4 DEF Faults, JkFaults
<1> QED BY <1>3, <1>6, <1>7 DEF Next

LEMMA InputInit == Init => InputInv
<1> SUFFICES ASSUME Init PROVE InputInv
  OBVIOUS
<1>0. NChunk \in Nat \ {0} /\ 1 \in Chunks
  BY DatasetAssumption DEF Chunks
<1>1. FALSE \in BOOLEAN /\ 0 \in Nat /\ 0 \in 0 .. NChunk
  BY <1>0
<1>2. NoPrep \in PrepType /\ NoCk \in CkType /\ NoPrep.pc = "none" /\ NoCk.cursor = 0 /\ NoCk.status = "NONE"
  BY <1>1 DEF NoPrep, NoCk, PrepType, CkType
<1>3. /\ prov = FALSE /\ bundles = [p \in Chunks |-> "none"] /\ work = 0
      /\ prep = [d \in Dirs |-> NoPrep] /\ ck = [d \in Dirs |-> NoCk] /\ batch = [d \in Dirs |-> 0]
  BY DEF Init, JkInit
<1>4. InputType
  BY <1>1, <1>2, <1>3 DEF InputType
<1>5. \A d \in Dirs : DirInv(d)
  BY <1>0, <1>2, <1>3 DEF DirInv
<1> QED BY <1>3, <1>4, <1>5 DEF InputInv

\* prepare_inputs: all bundles of a run rest on one provenance, and a
\* checkpoint never runs ahead of its batch receipts and bundles.
THEOREM InputsConsistent == Spec => []InputsShareProvenance
<1>1. InputInv => InputsShareProvenance
  BY DEF InputInv, DirInv, InputsShareProvenance, Tag
<1> QED BY <1>1, InputInit, InputInductive, PTL DEF Spec

-----------------------------------------------------------------------------
(* The catalogue.                                                           *)

\* A write to the receipt of the loader.
LEMMA ReceiptWrite ==
  ASSUME CatInv, ld # NoLd, NEW x \in Receipt, receipts' = [receipts EXCEPT ![ld.rcpt] = x]
  PROVE  /\ receipts' \in Seq(Receipt) /\ Len(receipts') = Len(receipts) /\ receipts'[ld.rcpt] = x
         /\ \A i \in 1 .. Len(receipts) : i # ld.rcpt => receipts'[i] = receipts[i]
<1>1. receipts \in Seq(Receipt) /\ ld.rcpt \in 1 .. Len(receipts)
  BY DEF CatInv, CatType, LoaderInv
<1> QED BY <1>1

LEMMA CurIsReceipt ==
  ASSUME CatInv, ld # NoLd
  PROVE  Cur \in Receipt /\ ld.rcpt \in 1 .. Len(receipts) /\ fence = ld.rcpt /\ ld \in LdType
BY DEF CatInv, CatType, LoaderInv, Cur

LEMMA AtIsLd ==
  ASSUME NEW pc, pc # "none", At(pc)
  PROVE  ld # NoLd
BY DEF At, NoLd

\* The loader goes on: it keeps its fence and the snapshot, if there is one.
LEMMA LoaderStep ==
  ASSUME CatInv, ld # NoLd,
         NEW pc \in {"base", "install", "archive", "load", "loading", "replay", "replaying", "verify", "release"},
         ld' = [ld EXCEPT !.pc = pc],
         NEW x \in Receipt, receipts' = [receipts EXCEPT ![ld.rcpt] = x],
         x.scheme = Cur.scheme, x.based = Cur.based \/ x.based # <<>>,
         UNCHANGED <<fence, graph, target, current>>,
         jvm' \in JvmType,
         jvm' # NoJvm => jvm'.task = "catalogue" /\ jvm'.scheme = x.scheme /\ x.based # <<>>,
         pc \notin {"loading", "replaying"} => jvm' = NoJvm,
         pc \in {"install", "archive", "load", "replay", "loading", "replaying", "verify"} => x.based # <<>>,
         pc = "release" => x.status = "VERIFIED" /\ Whole(x.scheme, current[x.scheme])
  PROVE  CatInv'
<1>1. /\ receipts' \in Seq(Receipt) /\ Len(receipts') = Len(receipts) /\ receipts'[ld.rcpt] = x
      /\ \A i \in 1 .. Len(receipts) : i # ld.rcpt => receipts'[i] = receipts[i]
  BY ReceiptWrite
<1>2. Cur \in Receipt /\ ld.rcpt \in 1 .. Len(receipts) /\ fence = ld.rcpt /\ ld \in LdType
  BY CurIsReceipt
<1>3. ld' \in LdType /\ ld'.pc = pc /\ ld'.rcpt = ld.rcpt
  BY <1>2 DEF LdType
<1>4. CatType'
  BY <1>1, <1>3 DEF CatInv, CatType
<1>5. LoaderInv'
  BY <1>1, <1>2, <1>3 DEF LoaderInv, Cur, Whole
<1>6. \A s \in Schemes : Recoverable(s) => Recoverable(s)'
  BY <1>1, <1>2 DEF Recoverable, Cur
<1>7. (jvm # NoJvm => jvm.task = "catalogue" /\ Recoverable(jvm.scheme))'
  BY <1>1, <1>2 DEF Recoverable
<1>8. \A s \in Schemes : Whole(s, current[s])' = Whole(s, current[s])
  BY DEF Whole
<1> QED BY <1>4, <1>5, <1>6, <1>7, <1>8 DEF CatInv

\* Steps of the loader.
LEMMA LoaderKeeps ==
  ASSUME CatInv,
         \/ CaptureBefore \/ CaptureGraph \/ InstallRuntime \/ ArchiveBundle \/ RunWorkflow \/ WorkflowEnds
         \/ \E t \in {touched} : MarkVerified(t)
  PROVE  CatInv'
<1>0. /\ NoJvm \in JvmType
      /\ jvm \in JvmType
  BY DEF CatInv, CatType, NoJvm, Schemes, JvmType, JvmPositions
<1>1. ld # NoLd
  <2>1. ld.pc # "none"
    BY DEF CaptureBefore, CaptureGraph, InstallRuntime, ArchiveBundle, RunWorkflow, WorkflowEnds, MarkVerified, At
  <2> QED BY <2>1 DEF NoLd
<1>2. /\ Cur \in Receipt /\ ld.rcpt \in 1 .. Len(receipts) /\ receipts \in Seq(Receipt)
      /\ receipts[ld.rcpt] = Cur
  BY <1>1, CurIsReceipt DEF CatInv, CatType, Cur
<1>3. /\ ld.pc \notin {"loading", "replaying"} => jvm = NoJvm
      /\ ld.pc \in {"install", "archive", "load", "replay", "loading", "replaying", "verify"} => Cur.based # <<>>
  BY <1>1 DEF CatInv, LoaderInv
<1>4. ASSUME receipts' = receipts PROVE receipts' = [receipts EXCEPT ![ld.rcpt] = Cur]
  BY <1>2, <1>4
<1>5. CASE CaptureBefore
  <2> DEFINE x == [Cur EXCEPT !["before"] = TRUE]
  <2>1. x \in Receipt /\ x.scheme = Cur.scheme /\ x.based = Cur.based
    BY <1>2 DEF Receipt
  <2>2. receipts' = [receipts EXCEPT ![ld.rcpt] = x]
    BY <1>2, <1>5 DEF CaptureBefore, Note, Cur
  <2> HIDE DEF x
  <2>3. jvm' = NoJvm /\ ld' = [ld EXCEPT !.pc = "base"] /\ UNCHANGED <<fence, graph, target, current>>
    BY <1>3, <1>5 DEF CaptureBefore, Goto, At, catalog
  <2> QED BY <1>0, <1>1, <2>1, <2>2, <2>3, LoaderStep
<1>6. CASE CaptureGraph
  <2> DEFINE x == [Cur EXCEPT !["based"] = <<Unowned>>]
  <2>0. Unowned \in SUBSET Graph
    BY DEF CatInv, CatType, Unowned
  <2>1. x \in Receipt /\ x.scheme = Cur.scheme /\ x.based = <<Unowned>>
    BY <1>2, <2>0 DEF Receipt
  <2>2. receipts' = [receipts EXCEPT ![ld.rcpt] = x]
    BY <1>2, <1>6 DEF CaptureGraph, Note, Cur
  <2> HIDE DEF x
  <2>3. jvm' = NoJvm /\ ld' = [ld EXCEPT !.pc = "install"] /\ UNCHANGED <<fence, graph, target, current>>
    BY <1>3, <1>6 DEF CaptureGraph, Goto, At, catalog
  <2>4. x.based # <<>>
    BY <2>1
  <2> QED BY <1>0, <1>1, <2>1, <2>2, <2>3, <2>4, LoaderStep
<1>7. CASE InstallRuntime
  <2>0. jvm' = NoJvm /\ Cur.based # <<>> /\ UNCHANGED <<fence, graph, target, current>>
    BY <1>3, <1>7 DEF InstallRuntime, At, catalog
  <2>1. CASE WriteRuntime /\ Goto(IF Cur.installed + 1 = Files THEN "archive" ELSE "install")
    <3>1. PICK n \in Nat : n = Cur.installed + 1
      BY <1>2 DEF Receipt
    <3> DEFINE x == [Cur EXCEPT !["installed"] = n]
    <3>2. x \in Receipt /\ x.scheme = Cur.scheme /\ x.based = Cur.based
      BY <1>2 DEF Receipt
    <3>3. receipts' = [receipts EXCEPT ![ld.rcpt] = x]
      BY <1>2, <2>1, <3>1 DEF WriteRuntime, Note, Cur
    <3> HIDE DEF x
    <3>4. PICK pc \in {"archive", "install"} : ld' = [ld EXCEPT !.pc = pc]
      BY <2>1 DEF Goto
    <3> QED BY <1>0, <1>1, <2>0, <3>2, <3>3, <3>4, LoaderStep
  <2>2. CASE Goto("load") /\ UNCHANGED receipts
    BY <1>0, <1>1, <1>2, <1>4, <2>0, <2>2, LoaderStep DEF Goto
  <2> QED BY <1>7, <2>1, <2>2 DEF InstallRuntime
<1>8. CASE ArchiveBundle
  <2> DEFINE x == [Cur EXCEPT !["archived"] = TRUE]
  <2>1. x \in Receipt /\ x.scheme = Cur.scheme /\ x.based = Cur.based
    BY <1>2 DEF Receipt
  <2>2. receipts' = [receipts EXCEPT ![ld.rcpt] = x]
    BY <1>2, <1>8 DEF ArchiveBundle, Note, Cur
  <2> HIDE DEF x
  <2>3. /\ jvm' = NoJvm /\ ld' = [ld EXCEPT !.pc = "load"] /\ UNCHANGED <<fence, graph, target, current>>
        /\ Cur.based # <<>>
    BY <1>3, <1>8 DEF ArchiveBundle, Goto, At, catalog
  <2> QED BY <1>0, <1>1, <2>1, <2>2, <2>3, LoaderStep
<1>9. CASE RunWorkflow
  <2>1. PICK pc \in {"loading", "replaying"} : ld' = [ld EXCEPT !.pc = pc]
    BY <1>9 DEF RunWorkflow, Goto
  <2>2. Cur.based # <<>> /\ receipts' = receipts /\ UNCHANGED <<fence, graph, target, current>>
    BY <1>3, <1>9 DEF RunWorkflow, catalog
  <2>3. PICK q \in {"acquire", "import"} :
          jvm' = [task |-> "catalogue", pc |-> q, scheme |-> Cur.scheme, release |-> Cur.release]
    BY <1>9 DEF RunWorkflow
  <2>4. /\ jvm' \in JvmType
        /\ jvm'.task = "catalogue" /\ jvm'.scheme = Cur.scheme
    BY <1>2, <2>3 DEF Receipt, JvmType, JvmPositions
  <2> QED BY <1>0, <1>1, <1>2, <1>4, <2>1, <2>2, <2>4, LoaderStep
<1>10. CASE WorkflowEnds
  <2>1. PICK pc \in {"replay", "verify"} : ld' = [ld EXCEPT !.pc = pc]
    BY <1>10 DEF WorkflowEnds, Goto
  <2>2. Cur.based # <<>> /\ receipts' = receipts /\ jvm' = NoJvm /\ UNCHANGED <<fence, graph, target, current>>
    BY <1>3, <1>10 DEF WorkflowEnds, catalog
  <2> QED BY <1>0, <1>1, <1>2, <1>4, <2>1, <2>2, LoaderStep
<1>11. ASSUME NEW t, MarkVerified(t) PROVE CatInv'
  <2> DEFINE x == [Cur EXCEPT !["status"] = "VERIFIED"]
  <2>1. x \in Receipt /\ x.scheme = Cur.scheme /\ x.based = Cur.based /\ x.status = "VERIFIED"
    BY <1>2 DEF Receipt
  <2>2. receipts' = [receipts EXCEPT ![ld.rcpt] = x]
    BY <1>2, <1>11 DEF MarkVerified, Note, Cur
  <2>3. Whole(x.scheme, current[x.scheme])
    BY <1>11, <2>1 DEF MarkVerified, VerifyExpectedGraph
  <2> HIDE DEF x
  <2>4. jvm' = NoJvm /\ ld' = [ld EXCEPT !.pc = "release"] /\ UNCHANGED <<fence, graph, target, current>>
    BY <1>3, <1>11 DEF MarkVerified, Goto, At, catalog
  <2> QED BY <1>0, <1>1, <2>1, <2>2, <2>3, <2>4, LoaderStep
<1> QED BY <1>5, <1>6, <1>7, <1>8, <1>9, <1>10, <1>11

\* The loader ends, by an exception or a kill: the fence and the receipt stay.
LEMMA LoaderEndsKeeps ==
  ASSUME CatInv, ld # NoLd, ld' = NoLd, receipts' = receipts \/ Note("status", "FAILED_FENCED"),
         UNCHANGED <<fence, graph, target, current>>, jvm' = jvm \/ jvm' = NoJvm
  PROVE  CatInv'
<1>0. /\ NoJvm \in JvmType
      /\ NoLd \in LdType
  BY DEF NoJvm, NoLd, Schemes, JvmType, JvmPositions, LdType
<1>1. Cur \in Receipt /\ ld.rcpt \in 1 .. Len(receipts) /\ fence = ld.rcpt /\ receipts \in Seq(Receipt)
  BY CurIsReceipt DEF CatInv, CatType
<1> DEFINE x == [Cur EXCEPT !["status"] = "FAILED_FENCED"]
<1>2. x \in Receipt /\ x.scheme = Cur.scheme /\ x.based = Cur.based
  BY <1>1 DEF Receipt
<1>3. receipts' = receipts \/ receipts' = [receipts EXCEPT ![ld.rcpt] = x]
  BY <1>1 DEF Note, Cur
<1> HIDE DEF x
<1>4. /\ receipts' \in Seq(Receipt) /\ Len(receipts') = Len(receipts)
      /\ receipts'[fence].based = receipts[fence].based /\ receipts'[fence].scheme = receipts[fence].scheme
  BY <1>1, <1>2, <1>3 DEF Cur
<1>5. CatType'
  BY <1>0, <1>4 DEF CatInv, CatType
<1>6. \A s \in Schemes : (Recoverable(s) => Recoverable(s)') /\ Whole(s, current[s])' = Whole(s, current[s])
  BY <1>4 DEF Recoverable, Whole
<1>7. (jvm # NoJvm => jvm.task = "catalogue" /\ Recoverable(jvm.scheme))'
  BY <1>4 DEF CatInv, Recoverable
<1> QED BY <1>5, <1>6, <1>7 DEF CatInv, LoaderInv

\* A step of the native process, which writes for its own scheme.
LEMMA NativeKeeps ==
  ASSUME CatInv, Mine, UNCHANGED <<ld, receipts, fence>>, NEW pc \in JvmPositions, JvmTo(pc),
         graph' \in [Schemes -> Graph], target' \in [Schemes -> Nat], current' \in [Schemes -> Nat],
         \A s \in Schemes : s # jvm.scheme => graph'[s] = graph[s] /\ current'[s] = current[s]
  PROVE  CatInv'
<1>1. /\ jvm \in JvmType
      /\ jvm.task = "catalogue" /\ jvm # NoJvm
  BY DEF CatInv, CatType, Mine, NoJvm, JvmType
<1>2. /\ jvm' \in JvmType
      /\ jvm'.task = "catalogue" /\ jvm'.scheme = jvm.scheme
  BY <1>1 DEF JvmTo, JvmType
<1>3. CatType'
  BY <1>2 DEF CatInv, CatType
<1>4. ld # NoLd => ld.pc \in {"loading", "replaying"}
  BY <1>1 DEF CatInv, LoaderInv
<1>5. LoaderInv'
  BY <1>4 DEF CatInv, LoaderInv, Cur
<1>6. Recoverable(jvm.scheme)
  BY <1>1 DEF CatInv
<1>7. (jvm # NoJvm => jvm.task = "catalogue" /\ Recoverable(jvm.scheme))'
  BY <1>2, <1>6 DEF Recoverable
<1>8. ASSUME NEW s \in Schemes PROVE ~Whole(s, current[s])' => Recoverable(s)'
  <2>1. CASE s = jvm.scheme
    BY <1>6, <2>1 DEF Recoverable
  <2>2. CASE s # jvm.scheme
    BY <2>2 DEF CatInv, Whole, Recoverable
  <2> QED BY <2>1, <2>2
<1> QED BY <1>3, <1>5, <1>7, <1>8 DEF CatInv

LEMMA ReleaseKeeps ==
  ASSUME CatInv, ReleaseFence
  PROVE  CatInv'
<1>0. NoJvm \in JvmType /\ NoLd \in LdType
  BY DEF NoJvm, NoLd, Schemes, JvmType, JvmPositions, LdType
<1>1. /\ ld.pc = "release" /\ fence = ld.rcpt /\ fence' = 0 /\ ld' = NoLd
      /\ UNCHANGED <<jvm, graph, target, current>>
  BY DEF ReleaseFence, At, ReleaseOwn, catalog
<1>2. ld # NoLd
  BY <1>1 DEF NoLd
<1>3. /\ Cur \in Receipt /\ ld.rcpt \in 1 .. Len(receipts) /\ receipts \in Seq(Receipt)
      /\ jvm = NoJvm /\ Whole(Cur.scheme, current[Cur.scheme])
  BY <1>1, <1>2, CurIsReceipt DEF CatInv, CatType, LoaderInv
<1> DEFINE x == [Cur EXCEPT !.before = FALSE, !.based = <<>>]
<1>4. x \in Receipt
  BY <1>3 DEF Receipt
<1>5. receipts' = [receipts EXCEPT ![ld.rcpt] = x]
  BY <1>3 DEF ReleaseFence, Cur
<1> HIDE DEF x
<1>6. CatType'
  BY <1>0, <1>1, <1>3, <1>4, <1>5 DEF CatInv, CatType
<1>7. \A s \in Schemes : Whole(s, current[s])
  BY <1>1, <1>2, <1>3 DEF CatInv, Recoverable, Cur
<1>8. \A s \in Schemes : Whole(s, current[s])'
  BY <1>1, <1>7 DEF Whole
<1> QED BY <1>1, <1>3, <1>6, <1>8 DEF CatInv, LoaderInv

\* A new receipt takes the fence over: from nobody, or from a receipt whose
\* snapshot it inherits.
LEMMA SuccessorKeeps ==
  ASSUME CatInv, jvm = NoJvm, NEW c \in Receipt, NEW pc \in {"before", "base", "install"},
         receipts' = Append(receipts, c), fence' = Len(receipts'), ld' = [pc |-> pc, rcpt |-> Len(receipts')],
         UNCHANGED <<jvm, catalog>>,
         pc = "install" => c.based # <<>>,
         fence # 0 => c.based = receipts[fence].based /\ c.scheme = receipts[fence].scheme
  PROVE  CatInv'
<1>1. receipts \in Seq(Receipt) /\ Len(receipts) \in Nat
  BY DEF CatInv, CatType
<1>2. PICK n \in Nat : n = Len(receipts) + 1
  BY <1>1
<1>3. /\ receipts' \in Seq(Receipt) /\ Len(receipts') = n /\ receipts'[n] = c /\ n \in 1 .. Len(receipts')
  BY <1>1, <1>2
<1>4. ld' \in LdType /\ ld'.pc = pc /\ ld'.rcpt = n /\ fence' = n /\ n # 0
  BY <1>2, <1>3 DEF LdType
<1>5. UNCHANGED <<graph, target, current>>
  BY DEF catalog
<1>6. CatType'
  BY <1>3, <1>4, <1>5 DEF CatInv, CatType
<1>7. LoaderInv'
  BY <1>3, <1>4 DEF LoaderInv, Cur
<1>8. ASSUME NEW s \in Schemes PROVE ~Whole(s, current[s])' => Recoverable(s)'
  BY <1>3, <1>4, <1>5 DEF CatInv, Whole, Recoverable
<1> QED BY <1>6, <1>7, <1>8 DEF CatInv

LEMMA OperatorKeeps ==
  ASSUME CatInv, CatOperator
  PROVE  CatInv'
<1>0. receipts \in Seq(Receipt) /\ fence \in 0 .. Len(receipts)
  BY DEF CatInv, CatType
<1>1. ASSUME NEW s \in Schemes, NEW r \in Nat, StartLoad(s, r) PROVE CatInv'
  <2>1. FirstReceipt(s, r) \in Receipt
    BY <1>1 DEF FirstReceipt, Receipt
  <2> QED BY <1>1, <2>1, SuccessorKeeps DEF StartLoad, Idle, OwnFence
<1>2. ASSUME NEW i \in DOMAIN receipts, PrewriteResume(i) PROVE CatInv'
  <2> DEFINE c == [receipts[i] EXCEPT !.status = "RESUMING_PREWRITE"]
  <2>0. receipts[i] \in Receipt
    BY <1>0
  <2>1. c \in Receipt /\ c.based = receipts[i].based /\ c.scheme = receipts[i].scheme
    BY <2>0 DEF Receipt
  <2>2. Successor(i, "base", c)
    BY <1>2 DEF PrewriteResume
  <2> HIDE DEF c
  <2>3. /\ jvm = NoJvm /\ fence = i /\ receipts' = Append(receipts, c) /\ fence' = Len(receipts')
        /\ ld' = [pc |-> "base", rcpt |-> Len(receipts')] /\ UNCHANGED <<jvm, catalog>>
    BY <2>2 DEF Successor, Idle, OwnFence, Failed
  <2> QED BY <2>1, <2>2, <2>3, SuccessorKeeps
<1>3. ASSUME NEW i \in DOMAIN receipts, PregraphResume(i) PROVE CatInv'
  <2> DEFINE c == [receipts[i] EXCEPT !.status = "RESUMING_PREGRAPH", !.retry = TRUE]
  <2>0. receipts[i] \in Receipt
    BY <1>0
  <2>1. c \in Receipt /\ c.based = receipts[i].based /\ c.scheme = receipts[i].scheme
    BY <2>0 DEF Receipt
  <2>2. Successor(i, "install", c) /\ receipts[i].based # <<>>
    BY <1>3 DEF PregraphResume, PregraphOnly
  <2> HIDE DEF c
  <2>3. /\ jvm = NoJvm /\ fence = i /\ receipts' = Append(receipts, c) /\ fence' = Len(receipts')
        /\ ld' = [pc |-> "install", rcpt |-> Len(receipts')] /\ UNCHANGED <<jvm, catalog>>
    BY <2>2 DEF Successor, Idle, OwnFence, Failed
  <2> QED BY <2>1, <2>2, <2>3, SuccessorKeeps
<1>4. "catalogue" \in Schemes /\ "details" \in Schemes /\ CatalogueBundles \subseteq Nat /\ DetailBundles \subseteq Nat
  BY DatasetAssumption DEF Schemes, CatalogueBundles, DetailBundles
<1> QED BY <1>1, <1>2, <1>3, <1>4 DEF CatOperator

\* The pipelines of the workflow, and what ends it.
LEMMA WorkflowKeeps ==
  ASSUME CatInv,
         \/ ImportLocal \/ BeginGraphLoad \/ WriteNodes \/ WriteRelationships
         \/ FinishGraphLoad \/ ActivateCatalog \/ FailGraphLoad \/ NativeKilled
  PROVE  CatInv'
<1>0. /\ graph \in [Schemes -> Graph] /\ target \in [Schemes -> Nat] /\ current \in [Schemes -> Nat]
      /\ jvm.scheme \in Schemes /\ jvm.release \in Nat
  BY DEF CatInv, CatType, JvmType
<1>1. Mine /\ UNCHANGED <<ld, receipts, fence>>
  BY DEF ImportLocal, BeginGraphLoad, WriteNodes, WriteRelationships, FinishGraphLoad, ActivateCatalog,
     FailGraphLoad, NativeKilled, MineAt, catvars
<1>2. CASE ImportLocal \/ BeginGraphLoad \/ FailGraphLoad \/ NativeKilled
  <2>1. PICK pc \in JvmPositions : JvmTo(pc)
    BY <1>2 DEF ImportLocal, BeginGraphLoad, FailGraphLoad, NativeKilled, JvmPositions
  <2>2. UNCHANGED <<graph, target, current>>
    BY <1>2 DEF ImportLocal, BeginGraphLoad, FailGraphLoad, NativeKilled, catvars, catalog
  <2> QED BY <1>0, <1>1, <2>1, <2>2, NativeKeeps
<1>3. CASE WriteNodes \/ WriteRelationships
  <2>1. PICK pc \in JvmPositions : JvmTo(pc)
    BY <1>3 DEF WriteNodes, WriteRelationships, JvmPositions
  <2>2. \/ graph' = [graph EXCEPT ![jvm.scheme].nodes = jvm.release]
        \/ graph' = [graph EXCEPT ![jvm.scheme].edges = jvm.release]
    BY <1>3 DEF WriteNodes, WriteRelationships
  <2>3. graph' \in [Schemes -> Graph] /\ \A s \in Schemes : s # jvm.scheme => graph'[s] = graph[s]
    BY <1>0, <2>2 DEF Graph
  <2>4. UNCHANGED <<target, current>>
    BY <1>3 DEF WriteNodes, WriteRelationships
  <2> QED BY <1>0, <1>1, <2>1, <2>3, <2>4, NativeKeeps
<1>4. CASE FinishGraphLoad
  <2>1. JvmTo("activate") /\ "activate" \in JvmPositions /\ UNCHANGED <<graph, current>>
    BY <1>4 DEF FinishGraphLoad, JvmPositions
  <2>2. target' \in [Schemes -> Nat]
    BY <1>0, <1>4 DEF FinishGraphLoad
  <2> QED BY <1>0, <1>1, <2>1, <2>2, NativeKeeps
<1>5. CASE ActivateCatalog
  <2>1. JvmTo("done") /\ "done" \in JvmPositions /\ UNCHANGED <<graph, target>>
    BY <1>5 DEF ActivateCatalog, JvmPositions
  <2>2. current' \in [Schemes -> Nat] /\ \A s \in Schemes : s # jvm.scheme => current'[s] = current[s]
    BY <1>0, <1>5 DEF ActivateCatalog
  <2> QED BY <1>0, <1>1, <2>1, <2>2, NativeKeeps
<1> QED BY <1>2, <1>3, <1>4, <1>5

LEMMA UnseenKeeps ==
  ASSUME CatInv, NativeUnseen
  PROVE  CatInv'
<1>1. /\ jvm' = NoJvm /\ NoJvm \in JvmType /\ ld.pc \notin {"loading", "replaying"}
      /\ UNCHANGED <<ld, receipts, fence, graph, target, current>>
  BY DEF NativeUnseen, NoJvm, JvmType, JvmPositions, Schemes, catvars, catalog
<1>2. CatType' /\ LoaderInv'
  BY <1>1 DEF CatInv, CatType, LoaderInv, Cur, Whole
<1> QED BY <1>1, <1>2 DEF CatInv, Whole, Recoverable

LEMMA CatInductive == CatInv /\ [Next]_vars => CatInv'
<1> SUFFICES ASSUME CatInv, [Next]_vars PROVE CatInv'
  OBVIOUS
<1>1. CASE UNCHANGED <<catvars, jvm>>
  BY <1>1 DEF catvars, catalog, CatInv, CatType, LoaderInv, Cur, Whole, Recoverable
<1>2. CASE UNCHANGED vars \/ Refresh \/ Jobkorea
  BY <1>1, <1>2 DEF vars, Refresh, Jobkorea
<1>3. CASE FailFenced /\ (jvm' = jvm \/ jvm' = NoJvm)
  BY <1>3, LoaderEndsKeeps DEF FailFenced, catalog
<1>4. CASE Catalogue
  <2>1. CASE CatSteps(touched)
    BY <1>3, <2>1, LoaderKeeps, ReleaseKeeps, WorkflowKeeps, UnseenKeeps DEF CatSteps, VerifyFails, WorkflowFails
  <2> QED BY <1>4, <2>1, OperatorKeeps DEF Catalogue
<1>5. CASE Faults
  <2>1. CASE CatFaults
    <3>1. CASE LoaderKilled
      BY <3>1, LoaderEndsKeeps DEF LoaderKilled, catalog
    <3> QED BY <1>3, <2>1, <3>1, WorkflowKeeps DEF CatFaults, LoaderFails
  <2> QED BY <1>1, <1>5, <2>1 DEF Faults
<1> QED BY <1>2, <1>4, <1>5 DEF Next

LEMMA CatInitial == Init => CatInv
<1> SUFFICES ASSUME Init PROVE CatInv
  OBVIOUS
<1>1. /\ ld = NoLd /\ receipts = <<>> /\ fence = 0 /\ jvm = NoJvm
      /\ graph = [s \in Schemes |-> [nodes |-> 0, edges |-> 0]]
      /\ target = [s \in Schemes |-> 0] /\ current = [s \in Schemes |-> 0]
  BY DEF Init, CatInit
<1>2. NoJvm \in JvmType /\ NoLd \in LdType
  BY DEF NoJvm, NoLd, Schemes, JvmType, JvmPositions, LdType
<1>3. CatType
  BY <1>1, <1>2 DEF CatType, Graph
<1> QED BY <1>1, <1>3 DEF CatInv, LoaderInv, Whole

\* The three invariants of the loads (import, preparation, catalogue) hold of
\* every interleaving of loaders, importers, hand-started work and kills.
THEOREM Invariance == Spec => []IInv
<1>1. Init => IInv
  BY RunInit, InputInit, CatInitial DEF IInv
<1>2. IInv /\ [Next]_vars => IInv'
  BY RunInductive, InputInductive, CatInductive DEF IInv
<1> QED BY <1>1, <1>2, PTL DEF Spec

\* load_onet_catalogue, load_onet_details: wherever a load dies, a graph that
\* is not the current release is fenced, and the receipt that owns the fence
\* holds the snapshot from before.
THEOREM TornIsRecoverable == Spec => []TornGraphIsRecoverable
<1>1. IInv => TornGraphIsRecoverable
  BY DEF IInv, CatInv, Recoverable, TornGraphIsRecoverable
<1> QED BY <1>1, Invariance, PTL

-----------------------------------------------------------------------------
(* The action property.                                                     *)

\* What a step does to the receipts and the fence: nothing that matters, or
\* the verdict of a load that compared what it had to.
LiftStep ==
    /\ \A i \in DOMAIN receipts :
         receipts'[i].status = "VERIFIED" /\ receipts[i].status # "VERIFIED" =>
             /\ receipts[i].before /\ ~touched /\ jvm = NoJvm
             /\ current[receipts[i].scheme] = receipts[i].release /\ Whole(receipts[i].scheme, receipts[i].release)
    /\ fence # 0 /\ fence' = 0 => receipts[fence].status = "VERIFIED"

\* A write to another field than the status, or of FAILED_FENCED.
LEMMA NoteLifts ==
  ASSUME CatInv, ld # NoLd, NEW x \in Receipt, receipts' = [receipts EXCEPT ![ld.rcpt] = x],
         x.status \in {Cur.status, "FAILED_FENCED"}, fence' = fence
  PROVE  LiftStep
BY ReceiptWrite DEF LiftStep, Cur, CatInv, CatType

LEMMA SuccessorLifts ==
  ASSUME CatInv, NEW c, receipts' = Append(receipts, c), fence' = Len(receipts')
  PROVE  LiftStep
<1>1. receipts \in Seq(Receipt) /\ Len(receipts) \in Nat
  BY DEF CatInv, CatType
<1>2. fence' # 0 /\ \A i \in DOMAIN receipts : receipts'[i] = receipts[i]
  BY <1>1
<1> QED BY <1>2 DEF LiftStep

LEMMA LoaderLifts ==
  ASSUME CatInv, CatSteps(touched) \/ CatFaults \/ CatOperator
  PROVE  LiftStep
<1>1. UNCHANGED <<receipts, fence>> => LiftStep
  BY DEF LiftStep
<1>2. ld.pc # "none" => ld # NoLd
  BY DEF NoLd
<1>3. ASSUME ld # NoLd PROVE /\ Cur \in Receipt /\ ld.rcpt \in 1 .. Len(receipts) /\ fence = ld.rcpt
                             /\ receipts \in Seq(Receipt)
  BY <1>3, CurIsReceipt DEF CatInv, CatType
<1>4. CASE CaptureBefore \/ CaptureGraph \/ ArchiveBundle \/ InstallRuntime
  <2>1. ld # NoLd /\ fence' = fence
    BY <1>2, <1>4 DEF CaptureBefore, CaptureGraph, ArchiveBundle, InstallRuntime, At
  <2>2. CASE receipts' = receipts
    BY <1>1, <2>1, <2>2
  <2>3. PICK f \in {"before", "based", "archived", "installed"} : \E v : receipts' = receipts \/ Note(f, v)
    BY <1>4 DEF CaptureBefore, CaptureGraph, ArchiveBundle, InstallRuntime, WriteRuntime
  <2>4. PICK v : receipts' = receipts \/ Note(f, v)
    BY <2>3
  <2>5. CASE Note(f, v)
    <3> DEFINE x == [Cur EXCEPT ![f] = v]
    <3>1. receipts' = [receipts EXCEPT ![ld.rcpt] = x]
      BY <1>3, <2>1, <2>5 DEF Note, Cur
    <3>2. x.status = Cur.status
      BY <1>3, <2>1, <2>3 DEF Receipt
    <3> HIDE DEF x
    <3>3. \A i \in DOMAIN receipts : receipts'[i].status = receipts[i].status
      BY <1>3, <2>1, <3>1, <3>2 DEF Cur
    <3> QED BY <2>1, <3>3 DEF LiftStep
  <2> QED BY <2>2, <2>4, <2>5
<1>5. CASE FailFenced
  <2> DEFINE x == [Cur EXCEPT !["status"] = "FAILED_FENCED"]
  <2>1. ld # NoLd /\ fence' = fence
    BY <1>5 DEF FailFenced
  <2>2. x \in Receipt /\ x.status = "FAILED_FENCED"
    BY <1>3, <2>1 DEF Receipt
  <2>3. receipts' = [receipts EXCEPT ![ld.rcpt] = x]
    BY <1>3, <1>5, <2>1 DEF FailFenced, Note, Cur
  <2> HIDE DEF x
  <2> QED BY <2>1, <2>2, <2>3, NoteLifts
<1>6. CASE MarkVerified(touched)
  <2>1. ld # NoLd /\ fence' = fence /\ ld.pc = "verify"
    BY <1>2, <1>6 DEF MarkVerified, At
  <2>2. jvm = NoJvm
    BY <2>1 DEF CatInv, LoaderInv
  <2>3. \A i \in DOMAIN receipts : i # ld.rcpt => receipts'[i] = receipts[i]
    BY <1>3, <1>6, <2>1 DEF MarkVerified, Note
  <2>4. /\ Cur.before /\ ~touched /\ current[Cur.scheme] = Cur.release /\ Whole(Cur.scheme, Cur.release)
    BY <1>6 DEF MarkVerified, Preserved, VerifyExpectedGraph
  <2> QED BY <2>1, <2>2, <2>3, <2>4 DEF LiftStep, Cur
<1>7. CASE ReleaseFence
  <2>1. ld.pc = "release" /\ fence = ld.rcpt
    BY <1>7 DEF ReleaseFence, At, ReleaseOwn
  <2>2. ld # NoLd
    BY <1>2, <2>1
  <2>3. Cur.status = "VERIFIED"
    BY <2>1, <2>2 DEF CatInv, LoaderInv
  <2>4. \A i \in DOMAIN receipts : i # ld.rcpt => receipts'[i] = receipts[i]
    BY <1>3, <1>7, <2>2 DEF ReleaseFence
  <2> QED BY <2>1, <2>3, <2>4 DEF LiftStep, Cur
<1>8. CASE \/ RunWorkflow \/ WorkflowEnds \/ ImportLocal \/ BeginGraphLoad \/ WriteNodes \/ WriteRelationships
           \/ FinishGraphLoad \/ ActivateCatalog \/ NativeUnseen \/ FailGraphLoad \/ LoaderKilled \/ NativeKilled
  BY <1>1, <1>8 DEF RunWorkflow, WorkflowEnds, ImportLocal, BeginGraphLoad, WriteNodes, WriteRelationships,
     FinishGraphLoad, ActivateCatalog, NativeUnseen, FailGraphLoad, LoaderKilled, NativeKilled, catvars
<1>9. CASE CatOperator
  <2>1. PICK c : receipts' = Append(receipts, c) /\ fence' = Len(receipts')
    BY <1>9 DEF CatOperator, StartLoad, PrewriteResume, PregraphResume, Successor, OwnFence
  <2> QED BY <2>1, SuccessorLifts
<1> QED BY <1>4, <1>5, <1>6, <1>7, <1>8, <1>9 DEF CatSteps, CatFaults, VerifyFails, WorkflowFails, LoaderFails

\* A load is marked verified only over data no other work touched, with no
\* native writer left and its own release whole and current; and no fence is
\* lifted that is not verified.
THEOREM LiftsOnlyVerified == Spec => LiftedOnlyVerified
<1>1. IInv /\ [Next]_vars => [LiftStep]_vars
  <2> SUFFICES ASSUME IInv, Next PROVE LiftStep
    OBVIOUS
  <2>1. UNCHANGED <<receipts, fence>> => LiftStep
    BY DEF LiftStep
  <2>2. CASE UNCHANGED catvars
    BY <2>1, <2>2 DEF catvars
  <2> QED BY <2>2, LoaderLifts DEF IInv, Next, Refresh, Catalogue, Jobkorea, Faults
<1> QED BY <1>1, Invariance, PTL DEF Spec, LiftedOnlyVerified, LiftStep
=============================================================================
