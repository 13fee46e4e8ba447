---------------------------- MODULE DatasetLoads ----------------------------
(***************************************************************************)
(* The O*NET loads and the JobKorea load on one host: refresh.lock and the *)
(* scheduler fence between them, one Hop container, and the scheduler that *)
(* goes on refreshing.  What is started by hand takes neither.             *)
(***************************************************************************)
EXTENDS CatalogueLoad, JobkoreaLoad

CONSTANTS MaxFaults,  \* kills and failures
          MaxWork     \* refreshes and paid calls that change protected data

VARIABLES work,    \* preservation_state and counters: requests, attempts, runs
          touched, \* a protected row changed since the fenced load took its baseline
          faults

vars == <<catvars, jvm, jkvars, work, touched, faults>>

ASSUME DatasetAssumption ==
    /\ {NChunk, MaxLoads} \subseteq Nat \ {0} /\ {MaxFaults, MaxWork} \subseteq Nat
    /\ \A r \in Releases : r \in Nat \ {0}

(* legacy_state and pg_state fingerprint every row, JobKorea's too.         *)
LegacyState == <<work, run, prov, bundles>>
LockFree == ld = NoLd /\ jk = NoJk
NativeIdle == jvm = NoJvm /\ \A i \in Importers : imp[i] = NoImp

Init == CatInit /\ jvm = NoJvm /\ JkInit /\ work = 0 /\ touched = FALSE /\ faults = 0

(* A scheduled refresh, whole: the lock, no fence.                          *)
Refresh ==
    /\ LockFree /\ fence = 0 /\ work < MaxWork /\ work' = work + 1
    /\ UNCHANGED <<catvars, jvm, jkvars, faults>>

Catalogue ==
    /\ \/ CatSteps(touched)
       \/ LockFree /\ NativeIdle /\ CatOperator
    /\ UNCHANGED <<jkvars, work, faults>>
Jobkorea ==
    /\ \/ Supervises(work)
       \/ LockFree /\ NativeIdle /\ StartJobkorea(work)
       \/ Imports("load") \/ ImportsByHand \/ PreparesByHand(work)
    /\ UNCHANGED <<bad, flawed, catvars, jvm, work, faults>>
Faults ==
    /\ faults < MaxFaults /\ faults' = faults + 1 /\ UNCHANGED work
    /\ \/ CatFaults /\ UNCHANGED jkvars
       \/ JkFaults /\ UNCHANGED <<bad, flawed, catvars, jvm>>

(* legacy_state after a load differs from the one before it.                *)
LegacyChanges ==
    touched' = (fence' # 0 /\ ~TakesBaseline /\ (touched \/ LegacyState' # LegacyState))

Next == (Refresh \/ Catalogue \/ Jobkorea \/ Faults) /\ LegacyChanges

Spec == Init /\ [][Next]_vars

(* What an operator repeats until it is through.                            *)
ByHand(A) == A /\ UNCHANGED <<bad, flawed, catvars, jvm, work, faults>> /\ LegacyChanges
FairSpec == Spec /\ WF_vars(ByHand(ImportsByHand)) /\ WF_vars(ByHand(PreparesByHand(work)))

--------------------------------------------------------------------------
(* Wherever a load dies, a graph that is not the current release is fenced  *)
(* off from the scheduler, and the receipt that owns the fence holds the    *)
(* backup and the typed graph from before.                                  *)
TornGraphIsRecoverable ==
    \A s \in Schemes : ~Whole(s, current[s]) => fence # 0 /\ receipts[fence].based # <<>> /\ receipts[fence].scheme = s

(* A load is marked verified only over data that no other work touched      *)
(* since its baseline, with no native writer left and its own release whole *)
(* and current; and no fence is lifted that is not verified.                *)
LiftedOnlyVerified == [][
    /\ \A i \in DOMAIN receipts :
         receipts'[i].status = "VERIFIED" /\ receipts[i].status # "VERIFIED" =>
             /\ receipts[i].before /\ ~touched /\ jvm = NoJvm
             /\ current[receipts[i].scheme] = receipts[i].release /\ Whole(receipts[i].scheme, receipts[i].release)
    /\ fence # 0 /\ fence' = 0 => receipts[fence].status = "VERIFIED"]_vars

(* A run that finalize has decided on holds every chunk of the archive once *)
(* and in order, however many importers worked on it and wherever they      *)
(* died; it is READY exactly when none of its rows was rejected, and only   *)
(* a READY run has reached the graph.                                       *)
ReadyIsWhole ==
    /\ Sealed => rows = [c \in Chunks |-> c] /\ bad = 0 /\ rejected = {flawed} \ {0}
    /\ Sealed => (run.state = "READY" <=> rejected = {})
    /\ run.graph => run.state = "READY"

(* All input bundles of a run rest on one provenance, and a checkpoint      *)
(* never runs ahead of its batch receipts and bundles.                      *)
InputsShareProvenance ==
    /\ {bundles[p] : p \in Chunks} \ {"none"} \subseteq {IF prov THEN "bound" ELSE "bare"}
    /\ \A d \in Dirs : /\ ck[d].cursor <= batch[d]
                       /\ \A p \in 1..batch[d] : bundles[p] # "none"
                       /\ ck[d].status = "VERIFIED" => Coverage

(* An interrupted import is brought to an end by its native resume, and a   *)
(* preparation by running it again, unless the counters it froze at its     *)
(* first start, or the provenance, have changed since.                      *)
InputsAreFrozen ==
    []<>(/\ run.state # "LOADING"
         /\ run.state = "READY" => \/ ck["own"].status = "VERIFIED" \/ ck["own"].before # work
                                   \/ ck["own"].ident # prov)
==============================================================================
