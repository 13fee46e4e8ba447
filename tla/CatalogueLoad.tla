---------------------------- MODULE CatalogueLoad ----------------------------
(***************************************************************************)
(* load_onet_catalogue.py and load_onet_details.py: one fenced native load *)
(* of a pinned O*NET release, with a backup and a snapshot of the graph    *)
(* before it, and the two resumes that a failed first load may take.  The  *)
(* loads of ingestions/onet/sql/002_graph.sql overwrite the graph in place *)
(* and move target and current only after they have verified it.           *)
(***************************************************************************)
EXTENDS Integers, Sequences, SequencesExt, FiniteSets

CONSTANTS Releases,   \* catalogue releases in the order of their import, 1..n
          MaxLoads    \* receipts

VARIABLES ld,        \* the loader: pc, its receipt
          receipts,  \* the private receipts, by number
          fence,     \* the receipt that owns the scheduler fence, 0 when absent
          jvm,       \* the native process: none, a loader's or the importer's
          imported,  \* catalog_release READY, in the order of import, by scheme
          graph,     \* release of the nodes and of the edges, by scheme
          load,      \* the latest graph_load by scheme
          target,    \* graph_target, the last verified release, by scheme
          current    \* catalog_current by scheme

catalog == <<imported, graph, load, target, current>>
catvars == <<ld, receipts, fence, catalog>>

Schemes == {"catalogue", "details"}
NoJvm == [task |-> "none", pc |-> "none", scheme |-> "catalogue", release |-> 0]
NoLd == [pc |-> "none", rcpt |-> 0]
NoLoad == [state |-> "NONE", release |-> 0, first |-> TRUE]
Whole(s, r) == graph[s] = [nodes |-> r, edges |-> r]
Writers == {s \in Schemes : load[s].state = "RUNNING"}

Cur == receipts[ld.rcpt]
At(pc) == ld.pc = pc
Goto(pc) == ld' = [ld EXCEPT !.pc = pc]
Note(f, v) == receipts' = [receipts EXCEPT ![ld.rcpt][f] = v]
Idle == jvm = NoJvm /\ Writers = {}

(* own_fence and release_fence: the fence names its receipt.                *)
OwnFence(i) == fence' = i
ReleaseOwn == fence = ld.rcpt /\ fence' = 0

--------------------------------------------------------------------------
(* execute without a resume, under refresh.lock.                            *)
FirstReceipt(s, r) == [scheme |-> s, release |-> r, status |-> "PREPARING", before |-> FALSE,
                       based |-> <<>>, installed |-> 0, archived |-> FALSE, retry |-> FALSE]
StartLoad(s, r) ==
    /\ ld = NoLd /\ Idle /\ fence = 0 /\ Len(receipts) < MaxLoads
    /\ receipts' = Append(receipts, FirstReceipt(s, r))
    /\ OwnFence(Len(receipts')) /\ ld' = [pc |-> "before", rcpt |-> Len(receipts')]
    /\ UNCHANGED <<jvm, catalog>>

(* legacy_state: fingerprints of the protected rows; then the typed graph   *)
(* and the backup.  Protected rows only go forward, so fingerprints agree   *)
(* as long as nothing was touched since they were taken.                    *)
CaptureBefore ==
    /\ At("before") /\ Goto("base") /\ Note("before", TRUE)
    /\ UNCHANGED <<fence, jvm, catalog>>
TakesBaseline == At("before") /\ ld'.pc = "base"
Unowned == {graph[s] : s \in Schemes \ {Cur.scheme}}
CaptureGraph ==
    /\ At("base") /\ Goto("install") /\ Note("based", <<Unowned>>)
    /\ UNCHANGED <<fence, jvm, catalog>>

(* write_runtime, file by file; then the immutable archive.  A pregraph     *)
(* resume has both and only rewrites its preflights.                        *)
Files == 2
WriteRuntime == Cur.installed < Files /\ Note("installed", Cur.installed + 1)
InstallRuntime ==
    /\ At("install")
    /\ \/ WriteRuntime /\ Goto(IF Cur.installed + 1 = Files THEN "archive" ELSE "install")
       \/ Cur.installed = Files /\ Goto("load") /\ UNCHANGED receipts
    /\ UNCHANGED <<fence, jvm, catalog>>
ArchiveBundle ==
    /\ At("archive") /\ Goto("load") /\ Note("archived", TRUE)
    /\ UNCHANGED <<fence, jvm, catalog>>

(* native: load_catalog twice, load_details once; a retry replays READY.    *)
RunWorkflow ==
    /\ ld.pc \in {"load", "replay"} /\ jvm = NoJvm
    /\ jvm' = [task |-> "catalogue", pc |-> IF Cur.retry THEN "acquire" ELSE "import",
               scheme |-> Cur.scheme, release |-> Cur.release]
    /\ Goto(IF At("load") THEN "loading" ELSE "replaying")
    /\ UNCHANGED <<receipts, fence, catalog>>
WorkflowEnds ==
    /\ ld.pc \in {"loading", "replaying"} /\ jvm.pc = "done" /\ jvm' = NoJvm
    /\ Goto(IF At("loading") /\ Cur.scheme = "catalogue" THEN "replay" ELSE "verify")
    /\ UNCHANGED <<receipts, fence, catalog>>

(* Mutant: the baseline is kept but not compared.                           *)
PreservedUnread(touched) == Cur.before

(* require_graph_preserved: what the load does not own is as it was; then   *)
(* verify_expected_graph and the pinned state.                              *)
GraphPreserved == Cur.based = <<Unowned>>
VerifyExpectedGraph(s, r) == current[s] = r /\ load[s].state = "VERIFIED" /\ Whole(s, r)
Preserved(touched) == Cur.before /\ ~touched
MarkVerified(touched) ==
    /\ At("verify") /\ Preserved(touched) /\ GraphPreserved /\ VerifyExpectedGraph(Cur.scheme, Cur.release)
    /\ Note("status", "VERIFIED") /\ Goto("release")
    /\ UNCHANGED <<fence, jvm, catalog>>
(* release_fence, after the status is on disk; the baselines are not read   *)
(* any more.                                                                *)
ReleaseFence ==
    /\ At("release") /\ ReleaseOwn /\ ld' = NoLd
    /\ receipts' = [receipts EXCEPT ![ld.rcpt] = [@ EXCEPT !.before = FALSE, !.based = <<>>]]
    /\ UNCHANGED <<jvm, catalog>>

(* Mutant: a failed load gives the fence back.                              *)
FailReleases ==
    /\ ld # NoLd /\ Note("status", "FAILED_FENCED") /\ ld' = NoLd /\ fence' = 0
    /\ UNCHANGED catalog

(* The except clause: FAILED_FENCED, the fence stays.  An interrupt reaches *)
(* the supervisor only: a workflow under way goes on in its container.      *)
FailFenced ==
    /\ ld # NoLd /\ Note("status", "FAILED_FENCED") /\ ld' = NoLd
    /\ UNCHANGED <<fence, catalog>>
WorkflowFails ==
    /\ ld.pc \in {"loading", "replaying"} /\ jvm.pc = "abort" /\ jvm' = NoJvm
    /\ FailFenced
VerifyFails(touched) == At("verify") /\ ~Preserved(touched) /\ FailFenced /\ UNCHANGED jvm
LoaderFails == jvm.pc \notin {"done", "abort"} /\ FailFenced /\ UNCHANGED jvm
LoaderKilled == ld # NoLd /\ ld' = NoLd /\ UNCHANGED <<receipts, fence, jvm, catalog>>

--------------------------------------------------------------------------
(* prewrite_resume: nothing was written yet; pregraph_resume: the first     *)
(* load failed in its preflight and the namespace is still empty.  Either   *)
(* replaces the fence by one that names the new receipt.                    *)
Failed(i) == fence = i /\ receipts[i].status = "FAILED_FENCED" /\ receipts[i].scheme = "catalogue"
PrewriteOnly(c) == c.installed = 0 /\ c.before /\ c.based = <<>> /\ ~c.archived
PregraphOnly(c) == c.installed = Files /\ c.before /\ c.based # <<>> /\ c.archived /\ ~c.retry
EmptyTarget == /\ load["catalogue"].state = "FAILED" /\ load["catalogue"].first
               /\ Whole("catalogue", 0) /\ target["catalogue"] = 0 /\ current["catalogue"] = 0
               /\ Len(imported["catalogue"]) = 1

Successor(i, pc, c) ==
    /\ ld = NoLd /\ Idle /\ Len(receipts) < MaxLoads /\ Failed(i)
    /\ receipts' = Append(receipts, c) /\ OwnFence(Len(receipts')) /\ ld' = [pc |-> pc, rcpt |-> Len(receipts')]
    /\ UNCHANGED <<jvm, catalog>>
PrewriteResume(i) ==
    /\ PrewriteOnly(receipts[i]) /\ imported["catalogue"] = <<>> /\ load["catalogue"] = NoLoad
    /\ Successor(i, "base", [receipts[i] EXCEPT !.status = "RESUMING_PREWRITE"])
PregraphResume(i) ==
    /\ PregraphOnly(receipts[i]) /\ EmptyTarget
    /\ Successor(i, "install", [receipts[i] EXCEPT !.status = "RESUMING_PREGRAPH", !.retry = TRUE])

--------------------------------------------------------------------------
(* The workflow: import, graph_start, preflights, nodes, edges, finish and  *)
(* activate, each a pipeline of its own.                                    *)
Mine == jvm.task = "catalogue"
MineAt(pc) == Mine /\ jvm.pc = pc
JvmTo(pc) == jvm' = [jvm EXCEPT !.pc = pc]

ImportLocal ==
    /\ MineAt("import") /\ JvmTo("acquire")
    /\ imported' = IF jvm.release \in Range(imported[jvm.scheme]) THEN imported
                   ELSE [imported EXCEPT ![jvm.scheme] = Append(@, jvm.release)]
    /\ UNCHANGED <<ld, receipts, fence, graph, load, target, current>>

(* begin_graph_load: one RUNNING load a database; a release imported before *)
(* the verified one is stale.                                               *)
Order(s, r) == IF r \in Range(imported[s]) THEN CHOOSE i \in DOMAIN imported[s] : imported[s][i] = r ELSE 0
MayBegin(s, r) == /\ load[s].state # "RUNNING" /\ r \in Range(imported[s])
                  /\ r = target[s] \/ Order(s, r) > Order(s, target[s])
BeginGraphLoad ==
    /\ MineAt("acquire") /\ MayBegin(jvm.scheme, jvm.release)
    /\ load' = [load EXCEPT ![jvm.scheme] = [state |-> "RUNNING", release |-> jvm.release, first |-> target[jvm.scheme] = 0]]
    /\ JvmTo("preflight") /\ UNCHANGED <<ld, receipts, fence, imported, graph, target, current>>

(* Every owned object is in its old or its new form, and the occupations    *)
(* that details refer to are there.                                         *)
OldOrNew(s, r) == {graph[s].nodes, graph[s].edges} \subseteq {target[s], r}
Occupations(s) == s = "details" => current["catalogue"] # 0 /\ Whole("catalogue", current["catalogue"])
Preflight(s, r) == OldOrNew(s, r) /\ Occupations(s)
WriteNodes ==
    /\ MineAt("preflight") /\ Preflight(jvm.scheme, jvm.release)
    /\ graph' = [graph EXCEPT ![jvm.scheme].nodes = jvm.release]
    /\ JvmTo("edges") /\ UNCHANGED <<ld, receipts, fence, imported, load, target, current>>
WriteRelationships ==
    /\ MineAt("edges") /\ graph' = [graph EXCEPT ![jvm.scheme].edges = jvm.release]
    /\ JvmTo("finish") /\ UNCHANGED <<ld, receipts, fence, imported, load, target, current>>
FinishGraphLoad ==
    /\ MineAt("finish") /\ Whole(jvm.scheme, jvm.release) /\ Occupations(jvm.scheme)
    /\ load' = [load EXCEPT ![jvm.scheme].state = "VERIFIED"]
    /\ target' = [target EXCEPT ![jvm.scheme] = jvm.release]
    /\ JvmTo("activate") /\ UNCHANGED <<ld, receipts, fence, imported, graph, current>>
ActivateCatalog ==
    /\ MineAt("activate") /\ current' = [current EXCEPT ![jvm.scheme] = target[jvm.scheme]]
    /\ JvmTo("done") /\ UNCHANGED <<ld, receipts, fence, imported, graph, load, target>>

(* A failure after graph_start runs graph_fail; before it, it only aborts.  *)
FailGraphLoad ==
    /\ Mine /\ jvm.pc \notin {"done", "abort"} /\ JvmTo("abort")
    /\ load' = IF jvm.pc \in {"import", "acquire"} \/ load[jvm.scheme].state # "RUNNING" THEN load
               ELSE [load EXCEPT ![jvm.scheme].state = "FAILED"]
    /\ UNCHANGED <<ld, receipts, fence, imported, graph, target, current>>
Refused == /\ Mine
           /\ ~(CASE jvm.pc = "acquire" -> MayBegin(jvm.scheme, jvm.release)
                  [] jvm.pc = "preflight" -> Preflight(jvm.scheme, jvm.release)
                  [] OTHER -> TRUE)
NativeKilled ==
    /\ Mine /\ jvm.pc \notin {"done", "abort"}
    /\ JvmTo("abort") /\ UNCHANGED catvars
NativeUnseen ==
    /\ Mine /\ jvm.pc \in {"done", "abort"} /\ ld.pc \notin {"loading", "replaying"}
    /\ jvm' = NoJvm /\ UNCHANGED catvars

CatInit ==
    /\ ld = NoLd /\ receipts = <<>> /\ fence = 0
    /\ imported = [s \in Schemes |-> <<>>]
    /\ graph = [s \in Schemes |-> [nodes |-> 0, edges |-> 0]]
    /\ load = [s \in Schemes |-> NoLoad]
    /\ target = [s \in Schemes |-> 0] /\ current = [s \in Schemes |-> 0]

CatSteps(touched) ==
    \/ CaptureBefore \/ CaptureGraph \/ InstallRuntime \/ ArchiveBundle \/ RunWorkflow \/ WorkflowEnds
    \/ MarkVerified(touched) \/ ReleaseFence \/ VerifyFails(touched) \/ WorkflowFails
    \/ ImportLocal \/ BeginGraphLoad \/ WriteNodes \/ WriteRelationships
    \/ FinishGraphLoad \/ ActivateCatalog \/ NativeUnseen \/ (Refused /\ FailGraphLoad)
CatFaults == LoaderFails \/ LoaderKilled \/ FailGraphLoad \/ NativeKilled
(* bundle_identity: what a reviewed bundle may hold.                        *)
CatalogueBundles == {r \in Releases : r <= target["catalogue"] + 1}
DetailBundles == {1}
CatOperator == \/ \E r \in CatalogueBundles : StartLoad("catalogue", r)
               \/ \E r \in DetailBundles : StartLoad("details", r)
               \/ \E i \in DOMAIN receipts : PrewriteResume(i) \/ PregraphResume(i)
==============================================================================
