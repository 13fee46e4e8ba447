------------------------------ MODULE Assembly ------------------------------
(***************************************************************************)
(* assemble_run of pipeline/canonical.py: turn one READY processing run    *)
(* into canonical revisions.  It calls process_run first, to check rights, *)
(* raw hashes and completeness again, so it rewrites the row of the very   *)
(* run it is based on.  Each item is a checkpoint of its own transaction,  *)
(* verified by the hash of its bundle when the load is repeated.           *)
(*                                                                         *)
(* An item is one staged occurrence (a posting's list and detail pair is   *)
(* one occurrence here).  Its bundle is a pure function of the occurrence  *)
(* and of the assembler's code; logic is the code an invocation runs.      *)
(***************************************************************************)
EXTENDS Processing

CONSTANTS Logics      \* code deployed under one ASSEMBLER_VERSION

ASSUME LogicsAssumption == 1 \in Logics

VARIABLES arow,       \* control.canonical_run: run -> state
          alock,      \* advisory lock canonical:{run_id}
          item,       \* canonical.assembly_item: run -> (item -> bundle hash)
          member,     \* canonical.assembly_input: run -> staging revisions
          deployed    \* the code new invocations run

avars == <<arow, alock, item, member, deployed>>
vars == <<pvars, avars>>

Init ==
    /\ ProcessingInit
    /\ arow = [r \in Runs |-> "NONE"]
    /\ alock = [r \in Runs |-> None]
    /\ item = [r \in Runs |-> [o \in {} |-> None]]
    /\ member = [r \in Runs |-> {}]
    /\ deployed = 1

TypeOK ==
    /\ ProcessingTypeOK
    /\ \A r \in Runs : /\ arow[r] \in {"NONE", "RUNNING", "READY", "FAILED"}
                       /\ alock[r] \in Workers \cup {None}
                       /\ member[r] \subseteq AllRevs
                       /\ \A o \in DOMAIN item[r] : item[r][o] \in {o} \X Logics
    /\ deployed \in Logics

-----------------------------------------------------------------------------

\* staged_occurrences: a revision at a place of a member document.
staged_occurrences(r) == {<<d, v>> : d \in Members(r), v \in AllRevs} \cap
                         UNION {{d} \X document[d] : d \in Members(r)}

InputIds(r) == {o[2] : o \in staged_occurrences(r)}

Release(p) ==
    /\ alock' = [alock EXCEPT ![w[p].run] = IF @ = p THEN None ELSE @]
    /\ w' = [w EXCEPT ![p] = Idle]

\* load canonical, for one run or for the latest of every source.
Load(p, r) ==
    /\ w[p].pc = "idle"
    /\ alock[r] = None
    /\ alock' = [alock EXCEPT ![r] = p]
    /\ w' = [w EXCEPT ![p] = [Idle EXCEPT !.pc = "check", !.run = r, !.loading = TRUE,
                                          !.logic = deployed]]
    /\ UNCHANGED <<raw, staging, prow, plock, faults, arow, item, member, deployed>>

CheckReady(p) ==
    /\ w[p].pc = "check"
    /\ Goto(p, IF prow[w[p].run].state = "READY" THEN "call" ELSE "failed")
    /\ UNCHANGED <<raw, staging, prow, plock, faults, avars>>

\* process_run; PIPELINE_BUSY when another invocation processes the run.
CallProcess(p) ==
    LET r == w[p].run
    IN  /\ w[p].pc = "call"
        /\ IF plock[r] = None
           THEN plock' = [plock EXCEPT ![r] = p] /\ Goto(p, "open")
           ELSE UNCHANGED plock /\ Goto(p, "failed")
        /\ UNCHANGED <<raw, staging, prow, faults, avars>>

\* The manifest of what is staged equals what process_run reported.
Verified(p) ==
    LET r == w[p].run
    IN  /\ w[p].pc = "verified"
        /\ Goto(p, IF w[p].result = "READY" /\ InputIds(r) = w[p].summary
                   THEN "start" ELSE "failed")
        /\ UNCHANGED <<raw, staging, prow, plock, faults, avars>>

StartAssembly(p) ==
    /\ w[p].pc = "start"
    /\ arow' = [arow EXCEPT ![w[p].run] = "RUNNING"]
    /\ Goto(p, "assemble")
    /\ UNCHANGED <<raw, staging, prow, plock, faults, alock, item, member, deployed>>

\* The upsert raises outside of any handler.
StartAssemblyRaises(p, committed) ==
    /\ w[p].pc = "start"
    /\ Fault("write")
    /\ arow' = IF committed THEN [arow EXCEPT ![w[p].run] = "RUNNING"] ELSE arow
    /\ Release(p)
    /\ UNCHANGED <<raw, staging, prow, plock, item, member, deployed>>

Remaining(p) == staged_occurrences(w[p].run) \ w[p].done

\* Groups are taken in the order of their keys, which is some fixed order.
NextItem(p) == CHOOSE o \in Remaining(p) : TRUE

\* The bundle (by its hash) that assemble, at this code, makes of an item.
assemble(o, logic) == <<o, logic>>

SaveItem(r, o, bundle) ==
    /\ item' = [item EXCEPT ![r] = [q \in DOMAIN item[r] \cup {o} |->
                                       IF q = o THEN bundle ELSE item[r][q]]]
    /\ member' = [member EXCEPT ![r] = @ \cup {o[2]}]

\* Mutant: an item that is there counts as done.
TrustItem(p) ==
    LET r == w[p].run
        o == NextItem(p)
    IN  /\ w[p].pc = "assemble" /\ Remaining(p) # {}
        /\ IF o \in DOMAIN item[r] THEN UNCHANGED <<item, member>>
           ELSE SaveItem(r, o, assemble(o, w[p].logic))
        /\ w' = [w EXCEPT ![p].done = @ \cup {o}]
        /\ UNCHANGED <<raw, staging, prow, plock, faults, arow, alock, deployed>>

\* Mutant: an item that is there is an error.
RefuseItem(p) ==
    LET r == w[p].run
        o == NextItem(p)
    IN  /\ w[p].pc = "assemble" /\ Remaining(p) # {}
        /\ IF o \in DOMAIN item[r]
           THEN UNCHANGED <<item, member>> /\ Goto(p, "failed")
           ELSE SaveItem(r, o, assemble(o, w[p].logic)) /\ w' = [w EXCEPT ![p].done = @ \cup {o}]
        /\ UNCHANGED <<raw, staging, prow, plock, faults, arow, alock, deployed>>

\* One transaction: bundle, memberships and checkpoint of an item, or the
\* check that an earlier load left the same bundle.
AssembleItem(p) ==
    LET r == w[p].run
        o == NextItem(p)
    IN  /\ w[p].pc = "assemble" /\ Remaining(p) # {}
        /\ IF o \in DOMAIN item[r]
           THEN /\ UNCHANGED <<item, member>>
                /\ w' = IF item[r][o] = assemble(o, w[p].logic)
                        THEN [w EXCEPT ![p].done = @ \cup {o}]
                        ELSE [w EXCEPT ![p].pc = "failed"]
           ELSE /\ SaveItem(r, o, assemble(o, w[p].logic))
                /\ w' = [w EXCEPT ![p].done = @ \cup {o}]
        /\ UNCHANGED <<raw, staging, prow, plock, faults, arow, alock, deployed>>

\* The output manifest, then READY.
FinishAssembly(p) ==
    LET r == w[p].run
    IN  /\ w[p].pc = "assemble" /\ Remaining(p) = {}
        /\ IF member[r] = w[p].summary
           THEN arow' = [arow EXCEPT ![r] = "READY"] /\ Release(p)
           ELSE UNCHANGED <<arow, alock>> /\ Goto(p, "failed")
        /\ UNCHANGED <<raw, staging, prow, plock, faults, item, member, deployed>>

\* A transaction of the loop raises, before or after it committed.
AssemblyRaises(p, committed) ==
    LET r == w[p].run
    IN  /\ w[p].pc = "assemble"
        /\ Fault("write")
        /\ Goto(p, "failed")
        /\ IF ~committed THEN UNCHANGED <<arow, item, member>>
           ELSE IF Remaining(p) = {}
           THEN /\ member[r] = w[p].summary
                /\ arow' = [arow EXCEPT ![r] = "READY"]
                /\ UNCHANGED <<item, member>>
           ELSE /\ NextItem(p) \notin DOMAIN item[r]
                /\ SaveItem(r, NextItem(p), assemble(NextItem(p), w[p].logic))
                /\ UNCHANGED arow
        /\ UNCHANGED <<raw, staging, prow, plock, alock, deployed>>

\* _failed is an UPDATE: it finds no row before the first start.
Failed(p) ==
    /\ w[p].pc = "failed"
    /\ arow' = [arow EXCEPT ![w[p].run] = IF @ = "NONE" THEN @ ELSE "FAILED"]
    /\ Release(p)
    /\ UNCHANGED <<raw, staging, prow, plock, faults, item, member, deployed>>

FailedRaises(p) ==
    /\ w[p].pc = "failed"
    /\ Fault("write")
    /\ Release(p)
    /\ UNCHANGED <<raw, staging, prow, plock, arow, item, member, deployed>>

-----------------------------------------------------------------------------

CrashAssembly(p) ==
    /\ Crash(p)
    /\ alock' = [r \in Runs |-> IF alock[r] = p THEN None ELSE alock[r]]
    /\ UNCHANGED <<arow, item, member, deployed>>

LoseAssemblyLock(r) ==
    /\ alock[r] # None
    /\ Fault("lock")
    /\ alock' = [alock EXCEPT ![r] = None]
    /\ UNCHANGED <<raw, staging, prow, plock, w, arow, item, member, deployed>>

\* The assembler's code changes and its version does not.
Deploy(l) ==
    /\ l = deployed + 1
    /\ deployed' = l
    /\ UNCHANGED <<faults, raw, staging, prow, plock, w, arow, alock, item, member>>

Assemble(p) ==
    \/ CheckReady(p) \/ CallProcess(p) \/ Verified(p) \/ StartAssembly(p)
    \/ AssembleItem(p) \/ FinishAssembly(p) \/ Failed(p)
    \/ Process(p) /\ UNCHANGED avars

AssembleTrouble(p) ==
    \/ \E b \in BOOLEAN : StartAssemblyRaises(p, b) \/ AssemblyRaises(p, b)
    \/ FailedRaises(p) \/ CrashAssembly(p)
    \/ ProcessTrouble(p) /\ UNCHANGED avars

AssemblyNext ==
    \/ \E p \in Workers :
          \/ \E r \in Runs : Load(p, r) \/ (Acquire(p, r) /\ UNCHANGED avars)
          \/ Assemble(p) \/ AssembleTrouble(p)
    \/ \E r \in Runs : LoseAssemblyLock(r)
    \/ \E l \in Logics : Deploy(l)
    \/ ProcessEnvironment /\ UNCHANGED avars

Spec == Init /\ [][AssemblyNext]_vars

\* Nobody repeats "process run" for a run that is READY already.
NoNeedlessReplay ==
    \A p \in Workers : w[p].pc = "idle" /\ w'[p].pc = "open" =>
        prow[w'[p].run].state # "READY"

\* The operator repeats a load, and an invocation keeps going.
LoadSpec ==
    /\ Init /\ [][AssemblyNext /\ NoNeedlessReplay]_vars
    /\ \A p \in Workers : WF_vars(Assemble(p))
    /\ \A r \in Runs : SF_vars(\E p \in Workers : Load(p, r))

\* The operator also repeats "process run" for a run that is not READY.
ProcessAndLoadSpec ==
    /\ LoadSpec
    /\ \A r \in Runs : SF_vars(\E p \in Workers : /\ prow[r].state # "READY"
                                                  /\ Acquire(p, r)
                                                  /\ UNCHANGED avars)

-----------------------------------------------------------------------------
(* Properties.                                                              *)

\* A READY assembly covers every revision its processing run certified, item
\* by item, and one version of the code built all of it, although loads were
\* interrupted, repeated, overlapped after a lost lock or redeployed between.
AssemblyIsUniform ==
    \A r \in Runs : arow[r] = "READY" =>
        /\ DOMAIN item[r] = staged_occurrences(r)
        /\ member[r] = RevisionsOf(r)
        /\ prow[r].summary = RevisionsOf(r)
        /\ \E l \in Logics : \A o \in DOMAIN item[r] : item[r][o] = assemble(o, l)

Intact(r) == \A i \in DOMAIN InputDocs[r] : InputDocs[r][i] \in raw
Outdated(r) == \E o \in DOMAIN item[r] : item[r][o] # assemble(o, deployed)

\* "Failed or interrupted work can resume": once its processing run is READY,
\* repeating a load makes the assembly READY, unless raw bytes are gone or the
\* code was changed after items were built.
LoadsResume ==
    \A r \in Runs : prow[r].state = "READY" ~> (arow[r] = "READY" \/ ~Intact(r) \/ Outdated(r))

\* With "process run" repeated as well, every run that passes its checks is
\* processed and loaded, whatever crashed, raised, lost its lock or lost a
\* race for a document that two runs share.
RunsGetLoaded ==
    \A r \in Runs : Verdict[r] = "READY" => []<>(arow[r] = "READY" \/ ~Intact(r) \/ Outdated(r))
=============================================================================
