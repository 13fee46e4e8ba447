-------------------------- MODULE GraphMigrations --------------------------
(***************************************************************************)
(* One maintenance campaign at a time (the batch-free migration, the flat  *)
(* ontology migration or the posting-date backfill) beside the scheduler,  *)
(* with kills, interrupts, failing commands and jobs that outlive the      *)
(* process that started them.                                              *)
(***************************************************************************)
EXTENDS BatchfreeMigration, FlatMigration, PostingDates

CONSTANT Campaigns  \* the campaigns an instance explores

ASSUME CampaignAssumption == Campaigns \subseteq {"batchfree", "flat", "dates"}

VARIABLE campaign

vars == <<campaign, windowVars, batchVars, flatVars, dateVars>>

(* Which fences the adapter knows makes no difference to the backfill.      *)
Init ==
    /\ campaign \in Campaigns /\ WindowInit /\ BatchInit /\ FlatInit /\ DateInit
    /\ campaign = "dates" => guards = Migrations

Batchfree(A) == campaign = "batchfree" /\ A /\ UNCHANGED <<campaign, flatVars, dateVars>>
Flat(A) == campaign = "flat" /\ A /\ UNCHANGED <<campaign, batchVars, dateVars>>
Dates(A) == campaign = "dates" /\ A /\ UNCHANGED <<campaign, batchVars, flatVars>>
Window(A) == A /\ UNCHANGED <<campaign, batchVars, flatVars, dateVars>>

Next ==
    \/ Window(WindowNext)
    \/ Batchfree(BatchOperator \/ BatchSteps \/ BatchJobs \/ BatchStops \/ RecoverStops)
    \/ Flat(FlatOperator \/ FlatSteps \/ FlatJobs \/ FlatFaults)
    \/ Dates(DateNext)

(* A live process and a live job go on, a refused step ends its process,    *)
(* and an operator who may resume, recover or amend an unfinished migration *)
(* for ever does each of them again and again.                              *)
Steps == Window(RefreshExit) \/ Batchfree(BatchSteps) \/ Flat(FlatSteps)
Jobs == Window(RefreshDone) \/ Batchfree(BatchJobs) \/ Flat(FlatJobs)
Refusals ==
    /\ \/ Batchfree(BatchStops)
       \/ Flat(FlatStops \/ FlatRecoverStops \/ FlatJobFails("stage"))
    /\ UNCHANGED faults

Fairness ==
    /\ WF_vars(Steps \/ Jobs \/ Refusals)
    /\ \A t \in Tokens : SF_vars(Batchfree(BatchResume(t)))
    /\ SF_vars(Flat(FlatResume)) /\ SF_vars(Flat(FlatRecover)) /\ SF_vars(Flat(FlatAmend))

Spec == Init /\ [][Next]_vars
FairSpec == Spec /\ Fairness

--------------------------------------------------------------------------
(* A scaffold node is missing from the graph only while the fence is up and *)
(* the receipt that owns it holds a backup, its restore proof and a         *)
(* recovery statement for every missing node; or the migration is complete. *)
RemovalIsFenced == scaffold # Scaffold =>
    \/ fence["batchfree"] = 0 /\ scaffold = {} /\ direct
    \/ /\ fence["batchfree"] # 0
       /\ LET r == receipt[fence["batchfree"]]
          IN  r.backup /\ r.proof /\ Scaffold \ scaffold \subseteq r.recovery

(* A revision is gone or restored only under the fence, with backup, typed  *)
(* recovery and restore proof, or behind a VERIFIED flat load.              *)
FlatRemovalIsFenced == revision # Original =>
    \/ fence["flat"] = 0 /\ PreservedRemoved /\ load.state = "VERIFIED"
    \/ fence["flat"] # 0 /\ flatRec.backup /\ flatRec.exported /\ flatRec.proof

(* Catalogue readers open on a VERIFIED load: whatever was killed, recovered*)
(* or amended before, its graph is flat and holds no revision.              *)
ReadersSeeFlatGraph == gate /\ Readable => PreservedRemoved

(* "Deploy and install without exposing a missing date function to cron":   *)
(* a refresh finds the new entry point without its function only if some    *)
(* receipt shows a deployment cut short or not restored.                    *)
ExposureIsOnRecord == (proc.script = "refresh" /\ entry = "new" /\ ~installed) =>
    \E i \in DOMAIN deployRec : deployRec[i].status # "VERIFIED" /\ ~deployRec[i].restored

(* Every fence is lifted by resume, recover and amend, unless the scheduler *)
(* left an execution row open or a recovery undid a half-made amendment.    *)
FencesLift ==
    /\ fence["batchfree"] # 0 ~> (fence["batchfree"] = 0 \/ unfinished > 0)
    /\ fence["flat"] # 0 ~> (fence["flat"] = 0 \/ unfinished > 0
                             \/ (flatRec.amend = "sealed" /\ flat = "none"))

(* "An interrupted apply retains its standard private receipt for resume or *)
(* recover": the fence of an interrupted apply that was not amended is      *)
(* lifted in the end.                                                       *)
InterruptedApplyFinishes ==
    fence["flat"] # 0 ~> (fence["flat"] = 0 \/ unfinished > 0 \/ flatRec.amend # "none")

==============================================================================
