--------------------------- MODULE RuntimeRollouts ---------------------------
(***************************************************************************)
(* One rollout of runtime artifacts at a time beside the scheduler: the    *)
(* fenced rollouts of AdditiveRollout or the unfenced deployments of       *)
(* RuntimeDeployment, with kills, interrupts and failing commands.         *)
(***************************************************************************)
EXTENDS AdditiveRollout, RuntimeDeployment

CONSTANT Kinds  \* "fenced" (AdditiveRollout), "plain" (RuntimeDeployment)

VARIABLE kind

vars == <<kind, windowVars, rollVars, depVars>>

(* The adapter that knows the flat fence is a precondition of every fenced  *)
(* rollout; the plain deployments look at no fence.                         *)
Init ==
    /\ kind \in Kinds /\ WindowInit /\ RollInit /\ DepInit
    /\ guards = Migrations
    /\ kind = "fenced" => deployer = "jobkorea"
    /\ kind = "plain" => bundle = "performance"

Fenced(A) == kind = "fenced" /\ A /\ UNCHANGED <<kind, depVars>>
Plain(A) == kind = "plain" /\ A /\ UNCHANGED <<kind, rollVars>>
Window(A) == A /\ UNCHANGED <<kind, rollVars, depVars>>

Next ==
    \/ Window(WindowNext)
    \/ Fenced(RollOperator \/ RollSteps \/ RollStopped \/ UseV3)
    \/ Plain(DepOperator \/ DepSteps \/ DepFails)

(* A live process goes on, a refused step ends it.  An operator repeats the *)
(* rollback command on the receipt that owns the fence (it aborts where no  *)
(* SQL was attempted; no readback is owed), or the unfenced deployment.     *)
Fairness ==
    /\ WF_vars(\/ Window(RefreshExit \/ RefreshDone)
               \/ Fenced(RollSteps \/ (RollStopped /\ UNCHANGED faults))
               \/ Plain(DepSteps))
    /\ SF_vars(\/ Fenced(AbortStart(fence["flat"]) \/ RollbackStart(fence["flat"]))
               \/ Plain(DepOperator))

Spec == Init /\ [][Next]_vars
FairSpec == Spec /\ Fairness

--------------------------------------------------------------------------
(* The scheduler never works on half a rollout: whenever it holds the lock  *)
(* the artifacts are all old or all new, and they agree with the functions. *)
WholeUnlessFenced == proc.script = "refresh" /\ kind = "fenced" =>
    \/ files = [a \in Artifacts |-> "old"] /\ schema # "candidate"
    \/ files = [a \in Artifacts |-> "new"] /\ (HasSql => schema = "candidate")

(* Functions are taken back only while nothing has used them: no protected  *)
(* row differs from the plan and no v3 result exists.                       *)
RollbackLosesNothing ==
    [][schema = "candidate" /\ schema' # "candidate" =>
          data = Rec.before.data /\ RequireUnusedV3]_vars

(* The adapter is last: whoever starts the new adapter, after whatever was  *)
(* killed and retried, finds its workflows installed.                       *)
AdapterAfterWorkflows ==
    deployer = "reconcile" /\ runtime[Adapter] = "new" => Todo = {}

(* A fenced rollout ends: some command lifts the fence.  What is left to a  *)
(* person: an execution row left open; a pending file or a receipt torn by  *)
(* a kill in the middle of its write; and, with SQL, once it was attempted, *)
(* function bodies this receipt does not know (a commit outlived the record *)
(* of its fingerprint, or another receipt was rolled back since) or rows    *)
(* that differ from the plan's: those of the new prompt, or of an ordinary  *)
(* refresh between a release that was cut after the unlink and a readback   *)
(* that raises the fence again; before any SQL, a state other than the one  *)
(* the receipt observed.  An unfenced deployment that was cut short is      *)
(* finished by the next plan and apply.                                     *)
RolloutsEnd ==
    /\ fence["flat"] # 0 ~>
          \/ fence["flat"] \in {0, Unreadable} \/ unfinished > 0
          \/ LET r == rollRec[fence["flat"]]
             IN  \/ r.status = "TORN"
                 \/ /\ HasSql
                    /\ IF r.sqlAttempted THEN ~KnownSchema(r) \/ data # r.before.data
                                         ELSE ~Untouched(r)
    /\ (kind = "plain" /\ \E a \in AllowList : runtime[a] = "new") ~> (Todo = {} \/ unfinished > 0)

==============================================================================
