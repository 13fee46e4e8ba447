----------------------------- MODULE OnetMatching -----------------------------
(***************************************************************************)
(* run_onet_matches.py, onet_continuation.py and verify_onet_projection.py *)
(* over the accounting of hop/llm/onet/sql: a frozen cohort of postings is *)
(* matched by paid model calls in batches, under one budget that a task    *)
(* shares with its continuation; the validated matches are then published. *)
(* A host process supervises the native JVM that makes the calls; either   *)
(* may die, and an answer may be lost after it was charged.                *)
(***************************************************************************)
EXTENDS Integers, FiniteSets, FiniteSetsExt

CONSTANTS NPosting,   \* postings of the original cohort
          PilotSize,  \* postings of a pilot batch
          BatchSize,  \* postings of a full batch
          Workers,    \* parallel request workers of one execution
          Reserve,    \* request_reserve_usd
          Cap,        \* the budget's cap_usd
          PilotCap,   \* max_cost_usd of a pilot batch
          Answers,    \* what the provider may answer, see Answer
          MaxExec,    \* executions
          MaxFaults,  \* kills, failures and answers that are neither "ok" nor "bad"
          NoCandidates, \* postings whose frozen shortlist is empty
          Rejectable  \* postings whose match a reviewer may reject

Postings == 1..NPosting
Tasks == {1, 2}            \* the original task and its continuation
Execs == 1..MaxExec

(* response_cost and the route of an answer.  "route": a shared-capacity    *)
(* answer whose first BYOK attempt may have been charged as well; "lost":   *)
(* nothing readable came back; "filtered": 404 before any dispatch.         *)
Answer == {"ok", "bad", "route", "lost", "filtered", "breach"}

ASSUME OnetAssumption ==
    /\ {NPosting, PilotSize, BatchSize, Workers, Reserve, Cap, PilotCap} \subseteq Nat \ {0}
    /\ {MaxExec, MaxFaults} \subseteq Nat /\ Rejectable \cup NoCandidates \subseteq Postings
    /\ Answers \subseteq Answer /\ Reserve > 1

VARIABLES files,    \* artifacts of llm/onet in the Hop container, by native stage
          host,     \* the supervisor: its stage, where it is, its task and batch
          jvm,      \* the native process: stage, execution, requests not tried yet, calls in flight
          inputs,   \* onet_matching.input and freeze: rows[t] and whether sealed
          scope,    \* the rows of each task's local manifest
          gate,     \* scale_gate
          stopped,  \* task_stop
          att,      \* onet_matching.attempt, with its reconciliation or acknowledgement
          batches,  \* onet_matching.batch
          execs,    \* execution, execution_stop and execution_end
          guard,    \* the latest graph_guard of each task, with its plan
          writer,   \* retention.writer holds the publication's lease
          rejected, \* candidate_decision REJECT
          edges,    \* INFERRED_ONET_OCCUPATION relationships
          accepted, \* an independent acceptance receipt exists
          bill,     \* what the provider really charged, by posting and task
          faults

ledger == <<inputs, scope, gate, stopped, att, batches, execs>>
graph == <<guard, writer, rejected, edges, accepted>>
vars == <<files, host, jvm, ledger, graph, bill, faults>>

NoHost == [stage |-> "none", pc |-> "none", task |-> 1, batch |-> 0]
NoJvm == [stage |-> "none", pc |-> "none", task |-> 1, exec |-> 0, batch |-> 0, resume |-> FALSE,
          todo |-> {}, flight |-> {}]
NoAtt == [st |-> "NONE", answer |-> "none", batch |-> 0, exec |-> 0, settled |-> FALSE]
NoGuard == [state |-> "NONE", rows |-> {}]

--------------------------------------------------------------------------
(* The accounting of 001, 005 and 006.                                      *)
Paid(a) == a.st \in {"RESERVED", "VALIDATED", "REJECTED", "ERROR"}
Cost(a) == CASE a.answer \in {"ok", "bad", "route"} -> 1
             [] a.answer = "breach" -> Reserve + 1
             [] OTHER -> 0
CostKnown(a) == a.answer \in {"ok", "bad", "route", "breach"}
IsByok(a) == a.answer \in {"ok", "bad", "breach"}

EffectiveKnown(a) == CostKnown(a) \/ a.settled

(* accounted_attempt: an acknowledged route incident counts its whole       *)
(* reserve, a reconciled no-dispatch answer nothing.                        *)
Accounted(a) == CASE ~Paid(a) -> 0
                  [] a.answer = "route" /\ a.settled -> Reserve
                  [] EffectiveKnown(a) -> Cost(a)
                  [] OTHER -> Reserve

AttemptsOf(t) == {p \in Postings : att[t][p].st # "NONE"}
All(P(_)) == \A t \in Tasks, p \in Postings : P(att[t][p])
Some(P(_)) == \E t \in Tasks, p \in Postings : P(att[t][p])

(* sum(accounted_usd), counted unit by unit: a row holds the units 1, 2 ... *)
(* up to what it is accounted with, and the sum is how many are held.       *)
HeldUnits(T, S) == {u \in (T \X S) \X (1..(Reserve + 1)) : u[2] <= Accounted(att[u[1][1]][u[1][2]])}
HeldBy(t, S) == Cardinality(HeldUnits({t}, S))
Held == Cardinality(HeldUnits(Tasks, Postings))
BatchRows(b) == {p \in Postings : att[batches[b].task][p].batch = b}

UnknownHold(a) == Paid(a) /\ ~EffectiveKnown(a)
Ended(e) == execs[e].end # "none"
Live(e) == execs[e].batch # 0 /\ ~execs[e].stop /\ ~Ended(e)
LastExec(b) == LET E == {e \in Execs : execs[e].batch = b} IN IF E = {} THEN 0 ELSE Max(E)

(* request_context: no call while an earlier charge is unknown, was routed  *)
(* elsewhere, or is reserved by an execution that is over.                  *)
Anomalous(a) == \/ a.st \in {"VALIDATED", "REJECTED", "ERROR"}
                      /\ (~EffectiveKnown(a) \/ (~IsByok(a) /\ ~a.settled))
                \/ a.st = "RESERVED" /\ ~Live(a.exec)
RequestContext(t, p, e) ==
    /\ att[t][p].st = "PLANNED" /\ att[t][p].batch = execs[e].batch /\ Live(e)
    /\ ~stopped[t] /\ ~Some(Anomalous)

(* The same frozen request under another task.                              *)
AlreadyPaid(p) == \E t \in Tasks : Paid(att[t][p])

(* Mutant: what is held is compared with the cap, not what would be held.   *)
WithinSoFar(t, b) ==
    /\ Held < Cap
    /\ HeldBy(batches[b].task, BatchRows(b)) < batches[b].cap
    /\ Cardinality({p \in BatchRows(b) : Paid(att[t][p])}) < batches[b].calls

Within(t, b) ==
    /\ Held + Reserve <= Cap
    /\ HeldBy(batches[b].task, BatchRows(b)) + Reserve <= batches[b].cap
    /\ Cardinality({p \in BatchRows(b) : Paid(att[t][p])}) < batches[b].calls

Stop(E) == [e \in Execs |-> IF e \in E /\ ~Ended(e) THEN [execs[e] EXCEPT !.stop = TRUE] ELSE execs[e]]
Everyone == {e \in Execs : execs[e].batch # 0}

--------------------------------------------------------------------------
(* What the supervisor reads before it goes on.                             *)
RequireIdle == ~writer
RequireAccounting(r) == ~Some(UnknownHold) /\ Held + r <= Cap
States(t, S) == \E p \in Postings : att[t][p].st \in S
RequireBatchComplete(b) ==
    /\ LastExec(b) # 0 /\ execs[LastExec(b)].end = "COMPLETE"
    /\ \A p \in BatchRows(b) : att[batches[b].task][p].st \notin {"PLANNED", "RESERVED", "BUDGET_BLOCKED", "ERROR"}

(* check_cohort and load_proof: the continuation's manifest is the original *)
(* cohort without the selection the predecessor had completed by then.      *)
VerifyPartition(rest) == rest = Postings \ AttemptsOf(1)
LoadProof == CHOOSE rest \in SUBSET Postings : VerifyPartition(rest)
Terminal(a) == a.st = "SKIPPED" \/ (a.st \in {"VALIDATED", "REJECTED"} /\ IsByok(a))
ValidateTerminal ==
    /\ stopped[1] /\ ~Some(UnknownHold)
    /\ AttemptsOf(1) = Postings \ scope[2]
    /\ \A p \in AttemptsOf(1) : Terminal(att[1][p])

RequireTerminalPredecessor(t) == t = 2 => scope[2] # {} /\ ValidateTerminal

Eligible(t) == IF stopped[t] THEN {} ELSE {p \in inputs[t].rows : att[t][p].st = "NONE"}
First(S, n) == {x \in S : Cardinality({y \in S : y < x}) < n}
PilotIds(t) == First(Eligible(t), PilotSize)
BalancedIds(t) == First(Eligible(t), Min({BatchSize, Cardinality(Eligible(t))}))

(* Mutant: an answer that failed validation is published as well.           *)
AnsweredRows(t) == {p \in Postings : att[t][p].st \in {"VALIDATED", "REJECTED"}} \ rejected

(* graph_rows: validated matches whose latest decision is not REJECT.       *)
GraphRows(t) == {p \in Postings : att[t][p].st = "VALIDATED"} \ rejected

--------------------------------------------------------------------------
HostAt(stage, pc) == host.stage = stage /\ host.pc = pc
HostGoto(pc) == host' = [host EXCEPT !.pc = pc]
HostEnds == host' = NoHost

(* operation_lock and idle_cli: one supervisor, and no JVM left over.       *)
OperationLock == host = NoHost /\ jvm = NoJvm
MayStart(t) == OperationLock /\ RequireIdle /\ RequireTerminalPredecessor(t)
HostStart(stage, t, b, pc) ==
    /\ MayStart(t)
    /\ host' = [stage |-> stage, pc |-> pc, task |-> t, batch |-> b]

(* runtime_artifacts, qualification and deploy: only what is absent is       *)
(* linked under its final name; an interrupted deployment is run again.     *)
Artifacts == {"execute", "publish"}
Qualified(stage) == stage \in files
Deploy ==
    /\ files # Artifacts /\ HostStart("deploy", 1, 0, "copy")
    /\ UNCHANGED <<files, jvm, ledger, graph, bill, faults>>
Link ==
    /\ HostAt("deploy", "copy")
    /\ \E f \in Artifacts \ files : files' = files \cup {f}
    /\ IF files' = Artifacts THEN HostEnds ELSE UNCHANGED host
    /\ UNCHANGED <<jvm, ledger, graph, bill, faults>>

Freeze ==
    /\ scope[2] = {} /\ AttemptsOf(1) # {} /\ AttemptsOf(1) # Postings
    /\ scope' = [scope EXCEPT ![2] = LoadProof]
    /\ UNCHANGED <<files, host, jvm, inputs, gate, stopped, att, batches, execs, graph, bill, faults>>

Prepare(t) ==
    /\ ~inputs[t].sealed /\ HostStart("prepare", t, 0, "chunk")
    /\ UNCHANGED <<files, jvm, ledger, graph, bill, faults>>

(* bounded_freeze_chunks, freeze_inputs: a chunk frozen before is a replay. *)
FreezeInputs ==
    /\ HostAt("prepare", "chunk")
    /\ LET t == host.task
           left == scope[t] \ inputs[t].rows
       IN  IF left # {}
           THEN inputs' = [inputs EXCEPT ![t].rows = @ \cup {Min(left)}] /\ UNCHANGED host
           ELSE inputs' = [inputs EXCEPT ![t].sealed = TRUE] /\ HostEnds
    /\ UNCHANGED <<files, jvm, scope, gate, stopped, att, batches, execs, graph, bill, faults>>

ApproveScale(t) ==
    /\ MayStart(t) /\ ~stopped[t] /\ ~gate[t] /\ ~Some(UnknownHold)
    /\ \E p \in Postings : att[t][p].st = "VALIDATED" /\ batches[att[t][p].batch].phase = "PILOT"
    /\ \A p \in Postings : Paid(att[t][p]) =>
          \/ att[t][p].st # "RESERVED" /\ IsByok(att[t][p])
          \/ att[t][p].answer = "filtered" /\ att[t][p].settled
    /\ gate' = [gate EXCEPT ![t] = TRUE]
    /\ UNCHANGED <<files, host, jvm, inputs, scope, stopped, att, batches, execs, graph, bill, faults>>

Pilot(t) == Qualified("execute") /\ HostStart("pilot", t, 0, "plan") /\ UNCHANGED <<files, jvm, ledger, graph, bill, faults>>
Full(t) == Qualified("execute") /\ HostStart("full", t, 0, "plan") /\ UNCHANGED <<files, jvm, ledger, graph, bill, faults>>

(* execute_batches, one turn of its loop up to plan_batch.                  *)
PlanBatch ==
    /\ host.pc = "plan"
    /\ LET t == host.task
           pilot == host.stage = "pilot"
           b == Cardinality(DOMAIN batches) + 1
           size == Cardinality(Eligible(t))
           chosen == IF pilot THEN PilotIds(t) ELSE BalancedIds(t)
       IN  /\ RequireIdle /\ inputs[t].sealed /\ ~States(t, {"PLANNED", "RESERVED"})
           /\ size > 0 /\ RequireAccounting(Reserve)
           /\ pilot => size >= PilotSize
           /\ ~pilot => gate[t]
           /\ batches' = [x \in 1..b |-> IF x < b THEN batches[x] ELSE
                 [task |-> t, phase |-> IF pilot THEN "PILOT" ELSE "FULL", calls |-> Cardinality(chosen),
                  cap |-> IF pilot THEN PilotCap ELSE Cap]]
           /\ att' = [att EXCEPT ![t] = [p \in Postings |->
                 IF p \in chosen
                 THEN [NoAtt EXCEPT !.st = IF p \in NoCandidates THEN "SKIPPED" ELSE "PLANNED", !.batch = b]
                 ELSE @[p]]]
           /\ host' = [host EXCEPT !.pc = "launch", !.batch = b]
    /\ UNCHANGED <<files, jvm, inputs, scope, gate, stopped, execs, graph, bill, faults>>

NothingLeft ==
    /\ host.pc = "plan" /\ RequireIdle /\ inputs[host.task].sealed
    /\ ~States(host.task, {"PLANNED", "RESERVED"}) /\ Eligible(host.task) = {}
    /\ HostEnds /\ UNCHANGED <<files, jvm, ledger, graph, bill, faults>>

Resume(b) ==
    /\ Qualified("execute") /\ HostStart("resume", batches[b].task, b, "launch")
    /\ RequireAccounting(Reserve)
    /\ UNCHANGED <<files, jvm, ledger, graph, bill, faults>>

Publish(t) ==
    /\ Qualified("publish") /\ HostStart("publish", t, 0, "launch") /\ inputs[t].sealed
    /\ UNCHANGED <<files, jvm, ledger, graph, bill, faults>>

(* run_native: the owned JVM.                                               *)
RunNative ==
    /\ host.pc = "launch" /\ HostGoto("wait")
    /\ jvm' = [NoJvm EXCEPT !.stage = IF host.stage = "publish" THEN "publish" ELSE "execute",
                            !.pc = "start", !.task = host.task, !.batch = host.batch, !.resume = host.stage = "resume"]
    /\ UNCHANGED <<files, ledger, graph, bill, faults>>

--------------------------------------------------------------------------
(* The JVM of a batch: start_execution, the workers, end_execution.         *)
StartExecution ==
    /\ jvm.stage = "execute" /\ jvm.pc = "start"
    /\ LET b == jvm.batch
           t == batches[b].task
           old == LastExec(b)
           new == Cardinality(Everyone) + 1
       IN  /\ ~stopped[t] /\ new \in Execs
           /\ old # 0 => /\ jvm.resume /\ (execs[old].stop \/ Ended(old))
                         /\ ~Some(LAMBDA a : a.st = "RESERVED" \/ UnknownHold(a))
                         /\ \E p \in BatchRows(b) : att[t][p].st = "PLANNED"
           /\ execs' = [e \in Execs |->
                 CASE e = new -> [batch |-> b, stop |-> FALSE, end |-> "none"]
                   [] e = old /\ ~Ended(e) -> [execs[e] EXCEPT !.end = "STOPPED"]
                   [] OTHER -> execs[e]]
           /\ jvm' = [jvm EXCEPT !.pc = "run", !.exec = new,
                        !.todo = {p \in BatchRows(b) : att[t][p].st = "PLANNED"}]
    /\ UNCHANGED <<files, host, inputs, scope, gate, stopped, att, batches, graph, bill, faults>>

JvmTask == jvm.task
Running == jvm.stage = "execute" /\ jvm.pc = "run"
Tried(p) == [jvm EXCEPT !.todo = @ \ {p}]

(* admit_request reserves, blocks at the cap, or sends nothing.             *)
AdmitRequest(p) ==
    /\ RequestContext(JvmTask, p, jvm.exec)
    /\ Within(JvmTask, jvm.batch) /\ ~AlreadyPaid(p)

Request(p) ==
    /\ Running /\ p \in jvm.todo /\ Cardinality(jvm.flight) < Workers /\ AdmitRequest(p)
    /\ att' = [att EXCEPT ![JvmTask][p].st = "RESERVED", ![JvmTask][p].exec = jvm.exec]
    /\ jvm' = [Tried(p) EXCEPT !.flight = @ \cup {p}]
    /\ UNCHANGED <<files, host, inputs, scope, gate, stopped, batches, execs, graph, bill, faults>>

Blocked(p) ==
    /\ Running /\ p \in jvm.todo /\ RequestContext(JvmTask, p, jvm.exec) /\ ~Within(JvmTask, jvm.batch)
    /\ att' = [att EXCEPT ![JvmTask][p].st = "BUDGET_BLOCKED"]
    /\ execs' = Stop({jvm.exec}) /\ jvm' = Tried(p)
    /\ UNCHANGED <<files, host, inputs, scope, gate, stopped, batches, graph, bill, faults>>

NotSent(p) ==
    /\ Running /\ p \in jvm.todo /\ ~RequestContext(JvmTask, p, jvm.exec)
    /\ jvm' = Tried(p)
    /\ UNCHANGED <<files, host, ledger, graph, bill, faults>>

(* The provider works, may charge, and answers; save_response settles.      *)
Charges(answer) == CASE answer \in {"ok", "bad"} -> {1}
                     [] answer = "route" -> {1, Reserve}
                     [] answer = "lost" -> {0, Reserve}
                     [] answer = "breach" -> {Reserve + 1}
                     [] OTHER -> {0}
Settled(answer) == CASE answer = "ok" -> "VALIDATED"
                     [] answer \in {"lost", "filtered"} -> "ERROR"
                     [] OTHER -> "REJECTED"
Breaches(answer) == answer \in {"route", "lost", "filtered", "breach"}

Bill(t, p, c) == [bill EXCEPT ![t][p] = [calls |-> @.calls + 1, usd |-> @.usd + c]]

(* Calls in flight when the JVM dies or aborts: the provider may charge.    *)
Abandon(c) == bill' = IF jvm.stage # "execute" THEN bill ELSE
    [bill EXCEPT ![JvmTask] = [p \in Postings |->
        IF p \in jvm.flight THEN [calls |-> @[p].calls + 1, usd |-> @[p].usd + c] ELSE @[p]]]

SaveResponse(p, answer) ==
    /\ Running /\ p \in jvm.flight /\ att[JvmTask][p].st = "RESERVED"
    /\ \E c \in Charges(answer) : bill' = Bill(JvmTask, p, c)
    /\ att' = [att EXCEPT ![JvmTask][p].st = Settled(answer), ![JvmTask][p].answer = answer]
    /\ IF Breaches(answer)
       THEN execs' = Stop(Everyone) /\ faults < MaxFaults /\ faults' = faults + 1
       ELSE UNCHANGED <<execs, faults>>
    /\ jvm' = [jvm EXCEPT !.flight = @ \ {p}]
    /\ UNCHANGED <<files, host, inputs, scope, gate, stopped, batches, graph>>

(* Mutant: a failed save takes the reservation back with it.                *)
SaveRollsBack(p) ==
    /\ Running /\ p \in jvm.flight /\ faults < MaxFaults /\ faults' = faults + 1
    /\ \E c \in {0, Reserve} : bill' = Bill(JvmTask, p, c)
    /\ att' = [att EXCEPT ![JvmTask][p].st = "PLANNED"]
    /\ execs' = Stop({jvm.exec}) /\ jvm' = [jvm EXCEPT !.flight = {}, !.pc = "abort"]
    /\ UNCHANGED <<files, host, inputs, scope, gate, stopped, batches, graph>>

(* The save fails after the POST: the reservation stays, the worker stops   *)
(* its execution and the pipeline aborts.                                   *)
SaveFails(p) ==
    /\ Running /\ p \in jvm.flight /\ faults < MaxFaults /\ faults' = faults + 1
    /\ \E c \in {0, Reserve} : Abandon(c)
    /\ execs' = Stop({jvm.exec}) /\ jvm' = [jvm EXCEPT !.flight = {}, !.pc = "abort"]
    /\ UNCHANGED <<files, host, inputs, scope, gate, stopped, att, batches, graph>>

EndExecution ==
    /\ Running /\ jvm.todo = {} /\ jvm.flight = {}
    /\ LET rows == BatchRows(jvm.batch)
           left(S) == \E p \in rows : att[JvmTask][p].st \in S
           final == IF execs[jvm.exec].stop \/ left({"PLANNED", "ERROR", "BUDGET_BLOCKED"})
                    THEN "STOPPED" ELSE "COMPLETE"
       IN  ~left({"RESERVED"}) /\ execs' = [execs EXCEPT ![jvm.exec].end = final]
    /\ jvm' = [jvm EXCEPT !.pc = "done"]
    /\ UNCHANGED <<files, host, inputs, scope, gate, stopped, att, batches, graph, bill, faults>>

--------------------------------------------------------------------------
(* The JVM of a publication: begin_graph, write, verify, finish_graph.      *)
BeginGraph ==
    /\ jvm.stage = "publish" /\ jvm.pc = "start"
    /\ inputs[jvm.task].sealed /\ ~States(jvm.task, {"RESERVED"}) /\ \A t \in Tasks : guard[t].state # "PREPARED"
    /\ writer' = TRUE
    /\ guard' = [guard EXCEPT ![jvm.task] = [state |-> "PREPARED", rows |-> GraphRows(jvm.task)]]
    /\ jvm' = [jvm EXCEPT !.pc = "write"]
    /\ UNCHANGED <<files, host, ledger, rejected, edges, accepted, bill, faults>>

WriteEdges ==
    /\ jvm.stage = "publish" /\ jvm.pc = "write"
    /\ \E p \in guard[jvm.task].rows \ edges : edges' = edges \cup {p}
    /\ UNCHANGED <<files, host, jvm, ledger, guard, writer, rejected, accepted, bill, faults>>

(* verify_edges, then check_graph within finish_graph.                      *)
CheckGraph(t) == GraphRows(t) = guard[t].rows /\ guard[t].rows \subseteq edges
FinishGraph ==
    /\ jvm.stage = "publish" /\ jvm.pc = "write" /\ CheckGraph(jvm.task)
    /\ guard' = [guard EXCEPT ![jvm.task].state = "VERIFIED"] /\ writer' = FALSE
    /\ jvm' = [jvm EXCEPT !.pc = "done"]
    /\ UNCHANGED <<files, host, ledger, rejected, edges, accepted, bill, faults>>

(* A failed transform runs fail_graph and aborts.                           *)
FailGraph ==
    /\ jvm.stage = "publish" /\ jvm.pc = "write"
    /\ \/ guard[jvm.task].rows \subseteq edges /\ ~CheckGraph(jvm.task) /\ UNCHANGED faults
       \/ faults < MaxFaults /\ faults' = faults + 1
    /\ guard' = [guard EXCEPT ![jvm.task].state = "FAILED"] /\ writer' = FALSE
    /\ jvm' = [jvm EXCEPT !.pc = "abort"]
    /\ UNCHANGED <<files, host, ledger, rejected, edges, accepted, bill>>

(* A step of the JVM that its SQL refuses aborts the workflow.              *)
JvmRefused ==
    /\ jvm.pc = "start" \/ (Running /\ jvm.todo = {} /\ jvm.flight = {})
    /\ ~ENABLED StartExecution /\ ~ENABLED BeginGraph /\ ~ENABLED EndExecution
    /\ jvm' = [jvm EXCEPT !.pc = "abort"]
    /\ UNCHANGED <<files, host, ledger, graph, bill, faults>>

--------------------------------------------------------------------------
(* The supervisor after the JVM has exited.                                 *)
Joined == host.pc = "wait" /\ jvm.pc \in {"done", "abort"}
OwnedPublication(t) == guard[t].state = "VERIFIED" /\ guard[t].rows = GraphRows(t)
Proceeds == CASE host.stage = "publish" -> OwnedPublication(host.task)
              [] OTHER -> RequireIdle /\ RequireAccounting(0) /\ RequireBatchComplete(host.batch)

HostProceeds ==
    /\ Joined /\ jvm.pc = "done" /\ Proceeds /\ jvm' = NoJvm
    /\ IF host.stage = "full" THEN host' = [host EXCEPT !.pc = "plan", !.batch = 0] ELSE HostEnds
    /\ UNCHANGED <<files, ledger, graph, bill, faults>>

(* Mutant: the execution of a supervisor that failed stays open.            *)
StopNothing == UNCHANGED execs

(* The except clause: stop_execution for the batch the receipt names.       *)
StopOwned == execs' = IF host.batch = 0 THEN execs ELSE Stop({LastExec(host.batch)} \cap Execs)
HostFails ==
    /\ Joined /\ (jvm.pc = "abort" \/ ~Proceeds) /\ jvm' = NoJvm /\ HostEnds /\ StopOwned
    /\ UNCHANGED <<files, inputs, scope, gate, stopped, att, batches, graph, bill, faults>>

HostRefuses ==
    /\ host.pc = "plan" /\ ~ENABLED PlanBatch /\ ~ENABLED NothingLeft
    /\ HostEnds /\ UNCHANGED <<files, jvm, ledger, graph, bill, faults>>

(* A deadline or a signal: cancel_owned, then the except clause.            *)
HostInterrupted ==
    /\ host.pc \in {"wait", "launch", "plan", "chunk", "copy"} /\ faults < MaxFaults /\ faults' = faults + 1
    /\ \E c \in {0, Reserve} : Abandon(c)
    /\ jvm' = NoJvm /\ HostEnds /\ StopOwned
    /\ UNCHANGED <<files, inputs, scope, gate, stopped, att, batches, graph>>

(* SIGKILL of the supervisor leaves the JVM at work; its exit is unseen.    *)
HostKilled ==
    /\ host # NoHost /\ faults < MaxFaults /\ faults' = faults + 1 /\ HostEnds
    /\ UNCHANGED <<files, jvm, ledger, graph, bill>>
OrphanExits == host = NoHost /\ jvm.pc \in {"done", "abort"} /\ jvm' = NoJvm
               /\ UNCHANGED <<files, host, ledger, graph, bill, faults>>

JvmKilled ==
    /\ jvm # NoJvm /\ jvm.pc # "abort" /\ faults < MaxFaults /\ faults' = faults + 1
    /\ \E c \in {0, Reserve} : Abandon(c)
    /\ jvm' = IF host = NoHost THEN NoJvm ELSE [jvm EXCEPT !.flight = {}, !.pc = "abort"]
    /\ UNCHANGED <<files, host, ledger, graph>>

--------------------------------------------------------------------------
(* Reviewed decisions, made in SQL at any time.                             *)
Review(t, p) == att' = [att EXCEPT ![t][p].settled = TRUE]
ReconcileNoDispatch(t, p) ==
    /\ att[t][p].answer = "filtered" /\ ~att[t][p].settled /\ Review(t, p)
    /\ UNCHANGED <<files, host, jvm, inputs, scope, gate, stopped, batches, execs, graph, bill, faults>>
AcknowledgeRoute(t, p) ==
    /\ att[t][p].answer = "route" /\ ~att[t][p].settled /\ Review(t, p)
    /\ UNCHANGED <<files, host, jvm, inputs, scope, gate, stopped, batches, execs, graph, bill, faults>>
StopTask(t) ==
    /\ ~stopped[t] /\ inputs[t].sealed /\ stopped' = [stopped EXCEPT ![t] = TRUE]
    /\ execs' = Stop({e \in Everyone : batches[execs[e].batch].task = t})
    /\ UNCHANGED <<files, host, jvm, inputs, scope, gate, att, batches, graph, bill, faults>>
DecideCandidate(t, p) ==
    /\ att[t][p].st = "VALIDATED" /\ p \in Rejectable /\ p \notin rejected /\ rejected' = rejected \cup {p}
    /\ UNCHANGED <<files, host, jvm, ledger, guard, writer, edges, accepted, bill, faults>>

(* verify_onet_projection with --additional-manifest: the owned edges are   *)
(* the plans of both tasks, every posting has one settled outcome.          *)
CompletedCoverage ==
    \A p \in Postings : \E t \in Tasks :
       /\ Terminal(att[t][p])
       /\ \A u \in Tasks \ {t} : att[u][p].st = "NONE"
VerifyRows == edges = GraphRows(1) \cup GraphRows(2)
VerifyProjection ==
    /\ OperationLock /\ RequireIdle /\ ~accepted
    /\ scope[2] = {} \/ ValidateTerminal
    /\ \A t \in Tasks : t = 1 \/ scope[t] # {} => OwnedPublication(t)
    /\ VerifyRows /\ CompletedCoverage
    /\ accepted' = TRUE
    /\ UNCHANGED <<files, host, jvm, ledger, guard, writer, rejected, edges, bill, faults>>

--------------------------------------------------------------------------
Init ==
    /\ files = {} /\ host = NoHost /\ jvm = NoJvm
    /\ inputs = [t \in Tasks |-> [rows |-> {}, sealed |-> FALSE]]
    /\ scope = [t \in Tasks |-> IF t = 1 THEN Postings ELSE {}]
    /\ gate = [t \in Tasks |-> FALSE] /\ stopped = [t \in Tasks |-> FALSE]
    /\ att = [t \in Tasks |-> [p \in Postings |-> NoAtt]]
    /\ batches = [b \in {} |-> NoHost]
    /\ execs = [e \in Execs |-> [batch |-> 0, stop |-> FALSE, end |-> "none"]]
    /\ guard = [t \in Tasks |-> NoGuard] /\ writer = FALSE /\ rejected = {} /\ edges = {} /\ accepted = FALSE
    /\ bill = [t \in Tasks |-> [p \in Postings |-> [calls |-> 0, usd |-> 0]]]
    /\ faults = 0

TaskOperator(t) ==
    \/ Prepare(t) \/ ApproveScale(t) \/ Pilot(t) \/ Full(t) \/ Publish(t) \/ StopTask(t)
    \/ \E p \in Postings : ReconcileNoDispatch(t, p) \/ AcknowledgeRoute(t, p) \/ DecideCandidate(t, p)
Operator == Deploy \/ Freeze \/ VerifyProjection
            \/ (\E b \in DOMAIN batches : Resume(b)) \/ \E t \in Tasks : TaskOperator(t)
HostSteps == Link \/ FreezeInputs \/ PlanBatch \/ NothingLeft \/ RunNative
             \/ HostProceeds \/ HostFails \/ HostRefuses
JvmSteps == \/ StartExecution \/ EndExecution \/ BeginGraph \/ WriteEdges \/ FinishGraph
            \/ (FailGraph /\ UNCHANGED faults) \/ JvmRefused \/ OrphanExits
            \/ \E p \in Postings : Request(p) \/ Blocked(p) \/ NotSent(p)
            \/ \E p \in Postings, a \in Answers : SaveResponse(p, a)
Faults == HostInterrupted \/ HostKilled \/ JvmKilled \/ (FailGraph /\ faults' # faults)
          \/ \E p \in Postings : SaveFails(p)

Next == Operator \/ HostSteps \/ JvmSteps \/ Faults

Spec == Init /\ [][Next]_vars
FairSpec == Spec /\ WF_vars(HostSteps) /\ WF_vars(JvmSteps)
                 /\ \A b \in Postings : SF_vars(b \in DOMAIN batches /\ Resume(b))

--------------------------------------------------------------------------
(* The budget is never overspent, over both tasks and whatever is killed:   *)
(* what the provider charged, a charge beyond its own reserve left aside,   *)
(* stays within the cap.  The sum is counted unit by unit, as Held is.      *)
SpentUnits == {u \in (Tasks \X Postings) \X (1..Reserve) : u[2] <= bill[u[1][1]][u[1][2]].usd}
SpendWithinCap == Cardinality(SpentUnits) <= Cap

(* accounted_attempt: a row that request_context does not refuse is         *)
(* accounted with at least what the provider charged for it, so no later    *)
(* call is admitted over a charge that was lost, filtered or routed away.   *)
ChargesAreHeld ==
    \A t \in Tasks, p \in Postings :
       ~Anomalous(att[t][p]) => bill[t][p].usd <= Accounted(att[t][p])

(* No posting is sent to the provider twice, by a resumed execution or      *)
(* under the continuation.                                                  *)
PaidOnce == \A p \in Postings : bill[1][p].calls + bill[2][p].calls <= 1

(* Every edge in the graph rests on one answer that was paid for once and   *)
(* validated, whichever task published it and whatever died in between.     *)
EdgesArePaidFor ==
    \A p \in edges : \E t \in Tasks :
       /\ att[t][p].st = "VALIDATED" /\ bill[t][p].calls = 1
       /\ \A u \in Tasks \ {t} : bill[u][p].calls = 0

(* A planned request is settled or blocked in the end, unless its task is   *)
(* stopped, a charge is held (an answer lost, a route not acknowledged, a   *)
(* reservation whose execution is over), the cap is reached, a publication  *)
(* died with its lease, or no execution is left within the bound.           *)
OnHold(t) == \/ stopped[t] \/ writer \/ ~RequireAccounting(Reserve)
             \/ Some(Anomalous) \/ Cardinality(Everyone) = MaxExec
PlannedIsSettled ==
    []<>(\A t \in Tasks, p \in Postings : att[t][p].st = "PLANNED" => OnHold(t))

==============================================================================
