# A TLA+ model of Jobtology-DB

Jobtology-DB collects Korean public job, qualification and competency data from
provider APIs, keeps every response as evidence, replays the responses into
staging tables, assembles canonical records from them and repeats all of that on a
schedule. An admin dashboard lets an operator start host commands, and a second
generation of the pipeline runs as Apache Hop jobs in a container, with operator
scripts that migrate its graph, deploy its artifacts, load reference data sets and
buy model answers under a budget. This directory holds TLA+ modules for the parts
that keep state and can go wrong in an order nobody tests: they are model-checked
with TLC on small instances, and the safety properties of eight of the nine
specifications are proved with TLAPS for every value of their constants: any
number of jobs, documents, nodes, workers, receipts and faults.

Paths below are relative to the repository (`src/jobtology_db/...` is the Python
package). `PROJECT.json` names, for every definition, the lines it models.

## 1. The system

```
 browser --POST /api/jobs--> admin/app.py --> JobStore (SQLite) <-- admin/worker.py --> command
                                                              (hop/operations/refresh.sh, a JobKorea load)

 cron or "pipeline worker" --> pipeline/update.py, one tick under an advisory lock
                                  | fetch                    | process
 provider <-- connectors/* <-- pipeline/fetch.py       pipeline/process.py <-- pipeline/canonical.py
                                  |         |               ^      |                  |
                            raw_files.py  ledger.py --------+   staging           canonical
                            (raw store)   (PostgreSQL)         (PostgreSQL)      (PostgreSQL)

 cron --> refresh.sh --------+                     +--> PostgreSQL: loads, leases, ledgers, budget
 operator --> migrate_*.py   |  refresh.lock       |
          --> deploy_*.py    +--> and fence files --> Hop container: native jobs --> Neo4j graph
          --> load_*.py      |                     |
          --> run_onet_matches.py -- own lock -----+--> model provider
```

| Component | State it keeps | Operations | What makes it correct |
|---|---|---|---|
| Admin job queue, `admin/queue.py` | `jobs` rows with state and idempotency key, the singleton `worker` row | `enqueue`, `claim`, `finish`, `abandon_running`, `heartbeat`, `stop_worker` | one pending job; a key always means the request it was accepted for; a final row is final |
| Host worker, `admin/worker.py` | flock on the worker lock file, the child process | take the lock, recover, poll, run a command, record its outcome | one command at a time and never twice, also when workers are killed while their command lives on; no false success |
| Dashboard enqueue path, `admin/app.py` | none between requests | read the controls, look the key up, enqueue | decisions on stale reads are rechecked |
| Connectors, `connectors/*` | none | initial and follow-up requests, response contract | planned requests are exactly the pages that completeness later expects |
| Fetch engine, `pipeline/fetch.py` | queue of requests, known fingerprints, attempts | plan, call, retry, store, record, complete, fail | ends; a complete run can be replayed; evidence is never rewritten |
| Fetch ledger, `storage/ledger.py` | `connector_run`, `connector_request`, `fetch_observation` | one transaction per call | counts and hashes agree with the rows although acknowledgements get lost |
| Raw store, `storage/raw_files.py` | content-addressed files | `put`: temp file, fsync, link, fsync of the directory | an object is whole or absent; what was written into a directory that is on the disk, and referred to, survives a power loss |
| Processing, `pipeline/process.py`, `storage/processing.py` | `document`, `record_revision`, `processing_input`, `processing_run`, advisory lock per run | replay, checkpoint per document, judge, certify | READY means every input is staged from intact bytes; replays agree; retries converge |
| Canonical assembly, `pipeline/canonical.py` | `canonical_run`, `assembly_item`, `assembly_input`, advisory lock per run | re-verify, assemble item by item, certify | READY covers everything once, built by one version of the code; items are immutable; a load can be repeated |
| Updater, `pipeline/update.py` | `source_sync` row per source, global advisory lock | a tick: due sources are fetched or resumed, processed, recorded | ticks do not overlap; backoff and cadence hold; interrupted work is neither lost nor counted twice; every source is refreshed |
| Refresh runner, `hop/operations/refresh.sh` | `refresh.lock`, `refresh_execution` rows | one refresh per due source, unless a fence file exists | it never works on a graph or a set of artifacts that an operation left half done |
| Graph migrations, `migrate_batchfree_graph.py`, `migrate_flat_ontology_graph.py`, `amend_flat_ontology_stage.py` | manifest, private receipt, fence, the flat graph load with its lease | plan, apply, resume, recover, amend | nothing is removed that its receipt cannot restore; readers see a finished graph; the fence is lifted in the end |
| Posting-date backfill, `backfill_posting_dates.py` | manifest, receipts, two ledgers | deploy-install, plan, apply | the scheduler does not meet an entry point without its function unnoticed |
| Rollouts, `deploy_additive_runtime.py` and its bundles, `deploy_performance_runtime.py` | manifest, receipt, the flat fence, function bodies, files | plan, apply, readback, abort, rollback | all or nothing for the scheduler; a rollback loses no result |
| Deployments, `reconcile_runtime.py`, `deploy_jobkorea_runtime.py` | manifest, receipt, temporary files | plan, apply | adapter last; repeating finishes |
| O*NET matching, `run_onet_matches.py`, `onet_continuation.py`, `verify_onet_projection.py` | inputs, batches, requests, attempts, reservations, publications | deploy, freeze, prepare, execute, resume, publish, verify, and the operator's reconciliations | one budget; one paid call per posting; edges rest on paid, validated answers |
| O*NET loads, `load_onet_catalogue.py`, `load_onet_details.py` | receipt, fence, catalogue release, graph load, target and current | execute, prewrite resume, pregraph resume | a torn graph is fenced and recoverable; the fence is lifted over verified data only |
| JobKorea load, `load_jobkorea_dataset.py`, `build_ndjson.py`, `prepare_inputs.py` | import run with its cursor, provenance, input bundles, checkpoints | archive, import, resume, register, prepare, verify | a READY run is the whole archive without a rejected row; inputs share one provenance |

The components meet in shared state only. The queue is a SQLite file that the HTTP
process and the workers open independently. Everything else is in PostgreSQL:
the ledger's rows are the input of `process_run` (through `run_inputs`), the
`processing_run` row is what the updater and the assembly look at, and the
assembly calls `process_run` again and so rewrites the row it depends on.
Advisory locks belong to a database session, the worker lock to an open file
description: the first can be lost while its holder works on, the second stays
held after the worker that took it died.

The operations under `hop/operations` exclude each other by `refresh.lock`, which
dies with its process, and keep the scheduler off by fence files, which do not.
A native job runs in the container and goes on when the process that started it
is killed; only the lease or the row it holds in PostgreSQL tells of it then.

What is hard here: processes are killed and restarted by systemd or cron at any
point; a command outlives its worker; a transaction commits and its
acknowledgement is lost; a lock session disappears while its holder fetches for
hours; a provider's catalogue moves while its pages are read; two runs share a
document; checkpoints outlive the bytes and the code they were made from; a
supervisor dies and its native job goes on writing or paying; a receipt is
written before or after the effect it records; resume, recover and amend meet
whatever state the last one left.
`PROJECT.json` lists these hazards at the lines where they bite, with the
properties that cover them.

## 2. Modules

| Module | Models | Extends |
|---|---|---|
| `JobStore` | `JobStore` of `admin/queue.py`, as operators on `jobs` and `beat` | |
| `HostDispatch` | requests, workers, commands, the operator's reconciliation script | `JobStore` |
| `SerialExecutor` | abstract: operations are admitted, started and closed one at a time | |
| `HostDispatchProofs` | theorems about `HostDispatch` | `HostDispatch`, `TLAPS` |
| `Connector` | planning of requests and `validate_completeness` | |
| `FetchRun` | one run of `FetchEngine` with ledger, raw store and a moving provider; `run_inputs` | `PartitionConfig` |
| `RawStore` | `RawFileStore.put` as system calls, several writers of the same bytes | |
| `Processing` | `process_run` and `StagingLoader` | |
| `Assembly` | `assemble_run`, composed with `Processing`, which it calls | `Processing` |
| `PartitionConfig` | `partition_config.py`: codes derived from a fetched run | `Connector` |
| `UpdateScheduler` | `update_sources`, `due`, the status rows, the lock | |
| `MaintenanceWindow` | `refresh.lock`, fences, adapter, native jobs, `refresh.sh` | |
| `BatchfreeMigration` | `migrate_batchfree_graph.py` | `MaintenanceWindow` |
| `FlatMigration` | `migrate_flat_ontology_graph.py`, `amend_flat_ontology_stage.py`, SQL 028 | `MaintenanceWindow` |
| `PostingDates` | `backfill_posting_dates.py` | `MaintenanceWindow` |
| `GraphMigrations` | composition: one of the three beside the scheduler | the three |
| `AdditiveRollout` | `deploy_additive_runtime.py` and its bundles, `deploy_performance_runtime.py` | `MaintenanceWindow` |
| `RuntimeDeployment` | `reconcile_runtime.py`, `deploy_jobkorea_runtime.py` | `MaintenanceWindow` |
| `RuntimeRollouts` | composition: one of the two beside the scheduler | the two |
| `OnetMatching` | `run_onet_matches.py`, `onet_continuation.py`, `verify_onet_projection.py`, `hop/llm/onet/sql` | |
| `CatalogueLoad` | `load_onet_catalogue.py`, `load_onet_details.py` and their native loads | |
| `JobkoreaLoad` | `load_jobkorea_dataset.py`, the NDJSON importer, `prepare_inputs.py` | |
| `DatasetLoads` | composition: both loads, hand-started work and the scheduler on one host | the two |
| `HostDispatchProofs`, `FetchRunProofs`, `AssemblyProofs`, `UpdateSchedulerProofs`, `GraphMigrationsProofs`, `RuntimeRolloutsProofs`, `OnetMatchingProofs`, `DatasetLoadsProofs` | theorems about the module they are named after and the ones it composes; `FetchRunProofs` also those about `RawStore` | that module, `TLAPS` |

The `MC...` modules give constants their values. In the component modules a
definition whose comment starts with "Mutant:" is a deliberately wrong variant
of the definition that follows it; no specification uses one. Substituting it
makes TLC report the property that `PROJECT.json` pairs it with, which shows that
the property depends on that piece of code.

### JobStore and HostDispatch

Each `JobStore` method is one SQLite transaction (`BEGIN IMMEDIATE` or a single
statement), so each is one operator over `jobs` and `beat`. A job is identified by
its idempotency key, which the table keeps unique. An HTTP request is three steps
(`ReadControls`, `LookupKey`, `EnqueueJob`) because the code reads shared state
twice before the insert. Whether a heartbeat row is recent is a free choice.

A worker's position `wpc` follows `HostWorker.run` and `_execute` statement by
statement. `fdWorkers` and `fdCommands` are the processes that hold a descriptor of
the locked open file description: a flock is free when nobody holds one, and
`Spawn` passes one to the command (`pass_fds`). `Crash` removes only the worker's
own descriptor: the unit uses `KillMode=process`. `Reconcile` is the host-only
script of `docs/admin-dashboard.md`, the only code outside the package here.

### Connector and FetchRun

A row is an identity and the facts that list and detail must agree on; a body is
a declared total, an echoed page size, the form in which it states its numbers,
and rows. JSON, XML and CSV parsing is represented by that result, and sources
that are a single file (one request, no planning) are left out.

Three readers look at the numbers, and they do not take the same ones. The
connector takes any text `int()` takes, and its own page size where none is
stated (`page_size`; `job_alio` always plans with its own); `parse_document` takes
digits, also in a text, and 100 where none is stated (`parse_document`, `SizeOf`,
`DefaultSize`); `partition_config` wants JSON integers (`Stated`). `Forms` are the
cases these rules tell apart: integers, digits in a text (or a page number left
out), texts that need trimming, integers without a page size. `ServedSize` is the
size of the pages the provider really cuts, `PageSize` the one that is asked for.
 `initial_requests` and `remaining_requests` are the
connectors' side; `CompletePartition`, `EveryPage`, `ConfirmedEmpty` and
`validate_posting_pairs` the processor's. The two sides share no code in the
repository, and no operator in the model.

`FetchRun` gives each step of `FetchEngine.run` and `_fetch_request` an action.
Every ledger call has a variant that raises, and the argument `committed` says
whether the server had committed it. `Respond` may answer with a page that lost its
last row, `ProviderChanges` replaces a catalogue at any time, `RespondBadly` covers
transport errors, error statuses and contract violations with the code's choice
of retrying. `CallRefused` is the request-budget hook or the disk-capacity check.

### RawStore

`put` one system call at a time. `PowerLoss` tears data that was not flushed and
may drop a name whose directory was not flushed; the database keeps what it
acknowledged. `shard` stands for the directories that `put` makes with
`mkdir(parents=True)`: it flushes the last of them, so that the object's name in it
is durable, and never the one above, so that its own name is not (`"named"`), until
a power loss shows what the operating system did. A row in `recorded` remembers
whether `put` wrote the object itself or returned an existing one, and whether its
new shard went down with the host (`"orphaned"`).

### Processing and Assembly

`InputDocs[r]` is the sequence of document ids that a run's selected observations
parse to; ids are content digests, so two runs can share one. An invocation is a
record of locals in `w`, and each transaction is a step: read and look up
(`ReadItem`), `Save`, `Attach`, `Judge`, `Finish`, and the handler `Except`. A
transaction may raise before or after it committed. What completeness says of a
run is the constant `Verdict`; `Connector` has the details.

`Assembly` adds the load. It calls `process_run` as the code does (`CallProcess`,
then the steps of `Processing`, then `Verified`), so a load flips the READY row it
rests on to RUNNING. An item is one staged occurrence. Its bundle is a pure
function of the occurrence and the code, so its hash is represented by the code
version `logic` that computed it; `Deploy` changes the code under an unchanged
`ASSEMBLER_VERSION`.

### UpdateScheduler

Time is relative: `due` is the time left until `next_due_at` and an age counts up
from `fetch_completed_at`; both are cut off where the code stops telling values
apart (`MaxAge` exceeds the freshness limit of two intervals by one). A connector
run is a value `[config, age, certified]`. A tick walks the schedule with one
action per statement that reads or writes the row, the lock session or the run.
The two long calls, fetch and process, are single steps that succeed or raise;
`FetchRun` and `Processing` have their insides. `rested` and `certified` are
history.

### PartitionConfig

The codes of a consumer are derived from a fetched run by code that reads its
documents a second time. `complete_ncs_records` and `complete_qualification_records`
are that reading; `FetchRun` evaluates `DerivedCodes` in every state, so that it is
compared both with the catalogue and with `validate_completeness`. Besides the form
of the numbers, the second reading takes codes to the letter which `normalize`
trims and converts: `Unlike` are the identities of rows it refuses for that, `Odd`
those whose item code has the wrong form.

### MaintenanceWindow and the campaigns over it

`proc` is the process that holds `refresh.lock`, with its script and position;
`native` are the writing jobs alive in the container, which survive it (`Kill`
removes the process only). `fence` and `guards` are the pending files and which of
them the installed adapter looks for. `data` is one version number for every
protected row and for the graph made of it: the scripts compare fingerprints, so
all that matters is whether somebody changed anything. Read-only jobs are taken
in the step that uses them.

A receipt is a record whose fields are the facts later commands look at; an event
(one durable append, then `receipt.json`) and the effect it announces are
separate steps, in the order of the code. What a step checks, and what the
handler writes when the check fails, are the guards and the `...Stops` actions.
Graph snapshots, PostgreSQL evidence, restore proofs and recovery statements are
sets of nodes: the scaffold of the batch-free migration, the revisions of the
flat one. `BeginLoad`, `StageDone`, `FinalizeDone` and `JobFault` are the load
functions of SQL 028. A job whose JVM dies (the set `Deadly`) leaves its load
RUNNING; one that fails records it.

`AdditiveRollout` covers four bundles because they differ in what a rollback must
find unchanged: `additive` (SQL and the v3 prompt), `routine` (SQL with a new
helper), `reader` (bodies of existing functions only) and `performance` (files
only). Fence and receipt are not replaced but written in place, the fence after an
exclusive create, the receipt after a truncation: `FenceTorn` and `ReceiptTorn`
are the kill in between, and leave a file no command can parse. In `PostingDates`
and `RuntimeDeployment` there is no fence at all, and the properties say what is
promised nevertheless.

### OnetMatching

`att` is the accounting of the database and `bill` what the provider really did;
the properties are about `bill`, which the code never sees. The host process and
the JVM are separate actors: the host may be interrupted (it stops its JVM) or
killed (it does not). An answer is `ok`, `route` (shared capacity, whose first
attempt may have been charged as well), `lost`, `filtered` (refused before any
dispatch) or `breach` (charged above its reserve). Money is counted in units with
`Reserve` per request and one `Cap` over the task and its continuation.

### CatalogueLoad, JobkoreaLoad and DatasetLoads

A release is a number, `graph` the release of its nodes and of its edges, so a
load that dies between the two leaves them different. `DatasetLoads` puts the
loads on one host. `LegacyState` is what a load fingerprints before and after:
refreshes, JobKorea's run, provenance and bundles. They only go forward, so the
two fingerprints agree exactly when no step changed them since the baseline,
which is what `touched` records. The native resume of an
import and a preparation in a directory of its own are started by hand and take
neither lock nor fence, as the operator's commands do.

A chunk of the archive is one posting. `bad` is a line that is no JSON object or
has no posting id: it raises, and fails the run. `flawed` is a row in which
`normalize_jobkorea_row` finds errors: it is appended like any other, to
`rejected_row`, and it is `finalize` that counts the issues and decides between READY
and REVIEW_REQUIRED. The importer ends with an error in the second case, and an
importer that comes back to such a run is let in and refused at the seal.

## 3. Runs

Adverse events are drawn from the set `Faults` or from fault actions and counted
up to `MaxFaults` (in `FetchRun` every call may fail and the first unretried failure
ends the run, so no bound is needed). Two faults are enough for every pair
"something breaks, and then its repair breaks"; the largest compositions have
one, plus any number of refusals and repetitions, which are not counted. No run
uses symmetry.

| Run | Bounds | Checks and shows |
|---|---|---|
| `dispatch` | 2 jobs, 2 requests, 2 workers, 1 client, 2 faults | `SingleExecution`, `AckedJobKept`, `NothingReopens`, that the whole implements `SerialExecutor`, and `QueuedIsSettled`. Two of everything lets a restarted worker meet an orphaned command and two requests race. |
| `fetch` | 18 sources; pages of 1 to 3, a default size of 2, catalogues of 0 to 5 rows, a ceiling of 2 pages, capped or not, up to 2 attempts and 2 changes; 956,549 states | `FetchedIsReplayable`, `ReadyHasEveryRow`, `CleanRunIsExact`, `DerivedIsWhole`, `ReadyDerives`, `RunEnds`. The catalogues are the boundary cases: empty, exactly full, remainder, shifted over the page boundary, over the ceiling, pages from zero, a row that normalisation or derivation rejects, postings that move, vanish or are edited; pages smaller than asked for, numbers in each of the four forms, and a size left out where the connector's own is below, at and above the default; and sources the rights registry or missing settings keep from starting. |
| `raw_store` | 3 writers of the same bytes, a new or an old shard, 3 faults; 70,200 states | `RecordedIsStored`, `ContentIsStored`. Three faults, because a second power loss is interesting after a kill. |
| `assembly` | 2 runs that share a document, 2 invocations, 2 code versions, 1 fault | `CertifiedIsWhole`, `AssemblyIsUniform`, `ReplaysAgree`, `RunsGetLoaded`. One run ends READY, the other REVIEW_REQUIRED. |
| `assembly_interrupted` | 1 run, 1 invocation, 1 kill | Violation of `LoadsResume` when only loads are repeated (finding 2). |
| `update` | a source and its consumer, 2 ticks, 2 configurations, interval 2, retry 1, 9 kinds of fault, 2 of them | `NoOverlap`, `ReadyRestsOnItsConfig`, `NeverCertifiedTwice`, `FetchNotWasted`, `EverySourceRefreshed`. |
| `update_early_fault` | 1 source, 1 fault | Violation of `DueIsFetched` (finding 1). |
| `graph_migrations` | 1 node of each kind, 2 batch-free applies, 2 revisions, 1 successor file, 5 loads, 1 run to date, 2 deployments, 1 refresh, 2 faults | `RemovalIsFenced`, `FlatRemovalIsFenced`, `ReadersSeeFlatGraph`, `ExposureIsOnRecord`, `FencesLift`. One node per label is enough for "some removed, some not", as there are two labels and two revisions; the JVM may die while it stages or finalizes. |
| `flat_replay_death` | the same, flat migration only, the JVM may die in the replay | Violation of `InterruptedApplyFinishes` (finding 3). |
| `runtime_rollouts` | 4 bundles of 2 artifacts, 2 rollouts; 2 artifacts and the adapter, 3 deployments; 1 refresh, 2 faults; 289,932 states | `WholeUnlessFenced`, `AdapterAfterWorkflows`, `RollbackLosesNothing`, `RolloutsEnd`. |
| `onet_matching` | 4 postings (one without candidates, one a reviewer may reject), pilot of 1, batches of 3, 2 request workers, reserve 2, cap 4, pilot cap 3, 2 executions, 1 fault | `SpendWithinCap`, `PaidOnce`, `EdgesArePaidFor`, `PlannedIsSettled`. The cap holds two reserves, so that two workers reach it together. |
| `dataset_loads` | 2 releases, 2 receipts, 2 chunks, of which one may be bad and one flawed, 1 fault, 1 refresh; 899,185 states | `TornGraphIsRecoverable`, `LiftedOnlyVerified`, `ReadyIsWhole`, `InputsShareProvenance`, `InputsAreFrozen`. Two chunks make order, repetition and loss of a chunk visible. |

`CHECK_DEADLOCK FALSE` is set where the system may stop: a run of the fetch engine
ends, and the campaigns under `hop/operations` end when no receipt, refresh, load
or execution is left within its bound. Interval 2 and retry 1 are the smallest
values with retry below interval and a moment that is neither.

### Fairness

- `HostDispatch`: a live worker keeps taking steps and a worker that is off is
  started when the lock is free (`Restart=always`, `RestartSec=10` in the systemd
  unit); a command ends. Requests, faults, heartbeats during the wait and the
  operator are not fair.
- `FetchRun`: the engine is one thread whose HTTP and database calls have
  timeouts. The provider is not fair.
- `RawStore`: system calls return, and fetches are repeated.
- `Assembly`: an invocation keeps going and the operator repeats `load canonical`; in
  `ProcessAndLoadSpec` also `process run` for a run that is not READY. Strong
  fairness, because another invocation may hold the lock in between.
  `NoNeedlessReplay` keeps operators from replaying a run that is READY already
  for ever.
- `UpdateScheduler`: cron or the worker loop keeps starting ticks, a tick keeps
  going, and time passes. Time needs strong fairness since it only passes
  between ticks unless a "delay" fault holds one up, and ticks may follow each
  other at once. With ticks that always last longer than two intervals a
  dependency would always be stale for its consumer.
- `GraphMigrations` and `RuntimeRollouts`: a live process and a live job go on, a
  refused step ends its process, and the operator of an unfinished operation
  repeats its command again and again: each of resume, recover and amend that the
  receipt admits; the rollback command on the receipt that owns the fence, which
  aborts where no SQL was attempted (nobody owes a readback); a new plan and
  apply of an unfenced deployment. Strong fairness, since a refresh may hold the
  lock in between. Starting an operation is not fair.
- `OnetMatching`: the host process and the JVM go on, and the operator resumes a
  batch that is not finished. Reconciliations are not fair.
- `DatasetLoads`: the native resume and the preparation are repeated.

Faults are bounded in number, so "eventually" means after the last fault.

## 4. Proofs

Each proof module fixes the constants of its specification only as far as the
named assumptions say, so its theorems hold for every number of processes,
documents, nodes and faults. None of the properties is inductive. Each module
therefore defines a stronger `IInv`, which TLC first checked as an invariant of
the run's instance, and has one lemma per action (or per group of actions that
write the same variables) saying that the action preserves it; `Inductive`
combines them, `Invariance` is the temporal step `Spec => []IInv`, and the
properties follow from it. `PROJECT.json` lists the theorems.

### HostDispatchProofs

For all sets `Keys`, `Requests`, `Workers` and `Clients` and every `MaxFaults`;
assumptions `NobodyAssumption` (the placeholder is none of the others) and
`FaultsAssumption` (`MaxFaults` is a natural number).

    IInv == TypeOK /\ LockInv /\ TableInv

`LockInv` says what the inherited flock buys: exactly the live workers and
commands hold a descriptor; a live worker is the only one and a live command is
the one it claimed last; a command was started once, for a job that had been
claimed; a worker between claim and start has a job whose command never ran.
`TableInv` says what the table buys: one pending job, the row of a live command is
open, the row and heartbeat of a live worker are its own, acknowledged keys keep
their request, a success is an exit code 0. Each needs the other: that a
claimed job is fresh follows from rows never returning to QUEUED, and that a
row stays with its worker follows from no second worker getting past the lock.

| Theorem | Statement |
|---|---|
| `TypeCorrect` | `Spec => []TypeOK` |
| `MutualExclusion` | `Spec => []SingleExecution` |
| `NeverReplayed` | `Spec => []AtMostOnce` |
| `QueueIsSerial` | `Spec => []OnePending` |
| `RunningIsOpen` | `Spec => []LiveCommandIsOpen` |
| `Undisturbed` | `Spec => []LiveWorkerUndisturbed` |
| `Idempotent` | `Spec => []AckedJobKept` |
| `SuccessIsHonest` | `Spec => []HonestSuccess` |
| `JobsNeverReopen` | `Spec => NothingReopens` |
| `Refinement` | `Spec => ImplementsSerialExecutor` |

`Refinement` maps `jobs` to phases (NONE, QUEUED, RUNNING or UNKNOWN, final) and
`proc` to the sets of executing and started jobs; `StepRefines` goes through the
actions again, of which enqueue, claim, spawn, exit, finish and reconcile are
steps of the abstract executor and the rest stutters. The theorems that no run
checks state parts of the invariant that a reader may want to cite on their own.

### FetchRunProofs

For all sources, partitions, catalogues, page sizes (asked for, served, or assumed
where none is stated), forms of numbers, caps and retry limits, each source with
its own. `FetchAssumption` and `ConnectorAssumption` type what settings and provider say;
that a source has finitely many partitions and a catalogue is a finite list of
rows are two of their conjuncts (the code builds both as lists).

    IInv == ConfigInv /\ (Live => MemoryInv) /\ RunInv

`MemoryInv` ties the engine's memory to the rows, as long as nothing has raised:
every known request is selected, in flight or queued, and only one of these;
every row was written by this run under an attempt number of its own, and the
selected ones are `selectedIds`. At `mark_fetch_complete` the queue is empty, so
three cardinalities (known requests, rows of `connector_request`, selected
observations) are counted along `selectedIds` (`ManifestAgrees`). After an
exception the agreement is lost; then no run is closed any more.

A second invariant, `RowsInv`, is proved on top of the first and holds after the
engine is gone as well: a stored success is a well-formed answer to its own
request (for a detail, of the posting that was asked for), no observation is
there twice, and a closed run has an answer for each of its requests, the first
page of every partition included. From it follows what the completeness check
is worth: a row on page k at place i has the number (k - 1) * size + i, and with
the conditions of `EveryPage` and `UniqueIdentities` this numbering is a bijection
between 1..total and the identities of the partition (`PagesAddUp`).

| Theorem | Statement |
|---|---|
| `ManifestIsTrue` | `Spec => []FetchedIsReplayable` |
| `EvidenceIsSound` | `Spec => []RowsInv` |
| `ReadyIsComplete` | `Spec => []ReadyHasEveryRow` |

The next theorems compare a run with the catalogue it was fetched from, or two
readings of its documents. They need two more assumptions. `PartitionAssumption`:
the allowlist has an entry and `ncs_competency` the one partition "all", as
`build_connector` configures it. `CatalogAssumption`: only saramin counts pages from
zero, `job_alio` has the one partition "index", and a catalogue lists an identity
once. The last is about the provider; where it fails the completeness check
refuses the run, so `CleanRunIsExact` could not hold.

    TruthInv == SnapshotInv /\ CalledInv /\ FaithfulInv /\ PlannedInv

A recorded success is in the raw store; what an answer calls for is known while
the engine lives and has its row when the run is closed; as long as the provider
does not move, every answer is a page or posting of its catalogue, and an uncapped
run plans only the requests that the catalogue calls for. The plan of a run is a
fixpoint (answers call for requests, whose answers call for more), and a request
could justify itself in a circle; `Planned` therefore says in closed form what the
catalogue calls for. `CallsArePlanned` shows that a page of the catalogue calls for
nothing else.

From `RowsInv` and `TruthInv` the rest is about pages of one partition. For the
second reading (`partition_config`), which counts distinct rows where the first
counts identities: the rows lie between the identities and the numbered places of
the pages, and both are as many as the declared total (`RowsSqueezed`), so the
second cannot refuse what the first accepted for being incomplete. What is left is
the form of numbers and codes: `SizesRead` and `ToTheLetter` say when both readings
take the same ones, and `ReadyIsExact` that a READY run holds the whole catalogue
whatever size its connector planned with. For a catalogue that did not move, pages
cut from it are numbered back to its rows (`PagesHoldCatalogue`, `CleanPartition`),
which gives equality of identities, the verdict READY and the derived codes.

| Theorem | Statement |
|---|---|
| `PlanFollowsCatalogue` | `Spec => []TruthInv` |
| `ReadyRunsAreUsable` | `Spec => []ReadyDerives` |
| `CodesAreWhole` | `Spec => []DerivedIsWhole` |
| `CleanRunsAreReady` | `Spec => []CleanRunIsExact` |

The last section of the module is about `RawStore`, for every set of writers and
with `RawStoreAssumption` (`MaxFaults` is a natural number). The invariant follows the
order of system calls: a writer about to link has flushed its file, one past the
link finds the object there, one that returned has its directory flushed, and a
writer at work or an object has its shard. `KnownShardsKeepRows` says that no row is
orphaned in a shard that was on the disk before, so that `DurablyRecorded` then
holds of all rows that were written.

| Theorem | Statement |
|---|---|
| `DurablyRecorded` | `StoreSpec => []RecordedIsStored` |
| `KnownShardsKeepRows` | `StoreSpec /\ shard = "durable" => []KnownShard` |

### AssemblyProofs

For all runs, documents, revisions, invocations, code versions and verdicts;
`ProcessingAssumption` (a run has at least one input) and `LogicsAssumption` (the
code deployed first is one of the versions).

    IInv == TypeInv /\ StoreInv /\ RunInv /\ WorkerInv

`StoreInv`: a stored document has all its revisions and a membership names the
document its input parses to. Hence the members, revisions and occurrences of a
run whose inputs are all bound are constants of the run, and no part of the
invariant rests on the advisory locks, which can be lost. `RunInv` and `WorkerInv`
say which rows, items and positions imply that a run is bound, and that an
invocation has seen, with its own code, every item it went past. `Spec` leaves out
the operators' habits and fairness; `FairSpecs` shows that the specifications of
the runs imply it.

| Theorem | Statement |
|---|---|
| `WholeWhenCertified` | `Spec => []CertifiedIsWhole` |
| `UniformWhenReady` | `Spec => []AssemblyIsUniform` |
| `ReplaysAgreeAlways` | `Spec => ReplaysAgree` |
| `FairSpecs` | `(LoadSpec => Spec) /\ (ProcessAndLoadSpec => Spec)` |

### UpdateSchedulerProofs

For every schedule in which a dependency comes before its consumer
(`ScheduleAssumption`; the order is not empty), any number of ticks and
configurations (`RunAssumption`: there is one, and no run is the placeholder).

    IInv == TypeInv /\ (Undeceived => UInv)

`UInv` holds until a fault deceives the updater (a lock session lost, a write that
committed unacknowledged, or the early fault of finding 1; the properties
exclude the same faults):
a tick at work holds the one lock, what it read of its row is still there, and
the error of a row says what its fetch went through. The last is what makes
`resumable` right: a certified fetch is left only in rows it refuses.

| Theorem | Statement |
|---|---|
| `TicksExclude` | `Spec => []NoOverlap` |
| `ReadyIsGrounded` | `Spec => []ReadyRestsOnItsConfig` |
| `CertifiedOnce` | `Spec => NeverCertifiedTwice` |
| `NothingWasted` | `Spec => FetchNotWasted` |

### GraphMigrationsProofs

For every set of scaffold nodes and revisions and any number of receipts, loads,
deployments, refreshes and faults. `BatchfreeAssumption` asks for at least one
batch node: `source_scope` refuses a source without a checkpointed run, each of
which has its batch node, and `RemovalIsFenced` does not hold of an empty set.

`IInv` has one part per campaign. `BatchInv` and `FlatInv` follow the order of
`apply`: for each position of the process that holds the lock, what its receipt
already contains, and that a job that writes the graph lives only under the
fence. Since a process starts only when no job is alive, the one that lifts the
fence has none; this is what a kill between any two steps cannot break. The flat
part also says which load may be VERIFIED while revisions are gone. `DateInv`
relates files, function and receipts of the backfill.

| Theorem | Statement |
|---|---|
| `BatchRemovalFenced` | `Spec => []RemovalIsFenced` |
| `RevisionsFenced` | `Spec => []FlatRemovalIsFenced` |
| `ReadersAreServed` | `Spec => []ReadersSeeFlatGraph` |
| `ExposureRecorded` | `Spec => []ExposureIsOnRecord` |

### RuntimeRolloutsProofs

For every number of artifacts, receipts, deployments, refreshes and faults and
every choice of bundles and tools (`RolloutAssumption`, `DeploymentAssumption`: there
is at least one of each to roll out and the bundles are those of the code).

    IInv == RollInv /\ DepInv

`RollInv` is about the rollouts under a fence. A plan and the state a receipt
observed are snapshots of a whole runtime, all old or all new and in agreement
with the functions, because they are taken before anything was changed
(`Snapshots`). Files and functions move only under the fence of the receipt that
owns the process (`Positions`), and it comes down only behind a readback, an
unchanged state or a complete rollback, each of which is whole again (`Unfenced`). A
rollback that still has functions to take back holds the lock while no job is
alive, so the rows it compared cannot have moved since. A torn receipt is one that
no command loads and no process owns (`TornKeeps`), and a torn fence keeps the
scheduler out like any other. `DepInv` is about
`reconcile_runtime`, which has no fence: all that differs is staged before the first
file is installed, and installed in ascending order, the adapter last.

| Theorem | Statement |
|---|---|
| `RolloutInvariance` | `Spec => []IInv` |
| `SchedulerSeesWholeRuntime` | `Spec => []WholeUnlessFenced` |
| `NothingUsedIsLost` | `Spec => RollbackLosesNothing` |
| `AdapterComesLast` | `Spec => []AdapterAfterWorkflows` |

### OnetMatchingProofs

For every cohort, pilot and batch size, number of request workers, reserve and
cap (`OnetAssumption`).

    IInv == LedgerType /\ ProcessType /\ Accounts /\ OneTask /\ InFlight /\ PlansAreValidated

A call is made only for a row that was reserved and is in flight, uncharged
(`InFlight`), so a row with a charge is paid (`Accounts`); a paid row stays paid, and
one posting has a paid row in one task only (`OneTask`). Plans come from validated
rows, which are final.

| Theorem | Statement |
|---|---|
| `CalledOnce` | `Spec => []PaidOnce` |
| `EdgesRestOnPaidAnswers` | `Spec => []EdgesArePaidFor` |
| `NothingUncounted` | `Spec => []ChargesAreHeld` |
| `BudgetIsKept` | `Spec => []SpendWithinCap` |

`ChargesAreHeld` is the row-by-row half of the budget. The other half is about all
rows together, and a sum over rows would need induction over data. Money is
therefore counted as the cardinality of a set of units, a pair of a row and a
number up to its charge. Every charged unit, up to the reserve, is a unit its
row still holds, so what was spent is within what is exposed, and
`ExposureWithinCap`, an invariant on top of `IInv`, bounds the exposure: only an
admitted request adds units, `Reserve` of them and after `admit_request` compared
with the cap; every other step keeps or releases them.

### DatasetLoadsProofs

For any number of releases, receipts, chunks, refreshes and kills
(`DatasetAssumption`).

    IInv == RunInv /\ ImpInv /\ InputInv /\ CatInv

`RunInv`: the rows of an import are its chunks up to the checkpoint, whoever
appended them, the rejected ones are the flawed one among them, and a sealed run
has all of them and is READY when none was rejected. `ImpInv`: an importer that
loads the graph does so for a READY run. `InputInv`: bundle before batch receipt
before checkpoint, and provenance first. `CatInv`: the native load writes for the
receipt that owns the fence, which took its snapshot before, and the fence changes
hands only when no native load is left.

| Theorem | Statement |
|---|---|
| `DatasetWhole` | `Spec => []ReadyIsWhole` |
| `InputsConsistent` | `Spec => []InputsShareProvenance` |
| `TornIsRecoverable` | `Spec => []TornGraphIsRecoverable` |
| `LiftsOnlyVerified` | `Spec => LiftedOnlyVerified` |

### Model-checked only

Every safety property of the passing runs, invariants, action properties and the
refinement alike, is a theorem above. What only TLC checks:

- Every liveness property (`QueuedIsSettled`, `RunEnds`, `ContentIsStored`,
  `RunsGetLoaded`, `EverySourceRefreshed`, `FencesLift`, `RolloutsEnd`,
  `PlannedIsSettled`, `InputsAreFrozen`): reasoning about fairness and ENABLED is outside
  of the prover's reach.
- The three properties of section 5, which the code violates.

## 5. What the code does not do

Three runs end in a violation, each of a sentence in the repository's documents:

1. `update_early_fault`. `docs/processing-pipeline.md:65`: "Each due API source is
   fully fetched with the existing connector." When a source is due again and the
   write of its RUNNING row raises an OperationalError, the handler stores FAILED
   with that error and leaves the run of the previous success in the row. The next
   tick takes it for an interrupted fetch and certifies the old run for another
   interval.
2. `assembly_interrupted`. `docs/canonical-load-status.md:26`: "Failed or interrupted
   work can resume without duplicating completed items." A load sets the READY
   processing run to RUNNING while it re-verifies it. If it dies there, every
   further load ends with PROCESSING_NOT_READY until somebody calls `process run`.
3. `flat_replay_death`. `hop/operations/README.md:729`: "An interrupted apply retains
   its standard private receipt for `resume` or `recover`." The replay at the end of
   the flat migration begins a load of its own that no event records. If its JVM
   dies, resume and recover both stop at a RUNNING load that is not the receipt's,
   amend refuses because revisions are gone, and the fence stays. (`FlatAssumption`
   therefore keeps the replay out of `Deadly`, the jobs whose JVM may die, in the
   run `graph_migrations`.)

Limits of the guarantees, stated with the properties they concern:

- A tick checks its lock session before and after a source. When the session is
  lost in between, a second tick can work at the same time (`NoOverlap`).
- `put` returns an existing object without flushing its directory. A row that
  refers to an object another process linked a moment ago can outlive the object
  in a power loss (`RecordedIsStored` is about objects `put` wrote itself).
- `put` makes `raw/sha256/ab/cd` and flushes only the last directory
  (`raw_files.py:47`, `75-79`), so the names of new ones are flushed by nobody. POSIX
  lets the host lose them, and with them an object to which a committed row
  refers, although `docs/implementation-plan.md:300` says "A crash can therefore
  leave only an unreferenced immutable object". A journaling file system usually
  commits new ancestors together with the directory that is flushed, which hides
  this. `RecordedIsStored` leaves these rows out (`"orphaned"`); in a shard that is on
  the disk there are none (`KnownShardsKeepRows`).
- A connector that plans with another size than the one it is served asks for too
  few pages or too many: `job_alio` whenever the provider cuts smaller pages than
  it was asked for, another source when no size is stated and its own differs.
  And where no size is stated, `parse_document` assumes 100, which is not what
  the NCS and Q-Net sources ask for (1000 and 50). Such a run is refused or holds less,
  at every tick; it is never READY with less (`CleanRunIsExact`).
- A READY run whose page numbers are texts or left out, or whose codes carry
  blanks, makes the derivation from it raise at every tick (`ReadyDerives` says
  that these are the only disagreements of the two readings).
- A READY write of the updater that is committed and not acknowledged is
  overwritten by FAILED and certified a second time (`NeverCertifiedTwice` is
  stated for runs in which no such write happened, `EverySourceRefreshed` for all).
- `start_run` that commits and raises leaves a row RUNNING / FETCHING for ever;
  no later stage reads it.
- A catalogue in which one row replaces another between two pages, with the
  total unchanged, cannot be told from a stable one (`ReadyHasEveryRow` and
  `DerivedIsWhole` count distinct rows against declared totals).
- A READY qualification run with an item code of the wrong form makes the
  derivation of the Q-Net partitions raise at every tick (`Odd` in `ReadyDerives`).
- While a load re-verifies a run, a tick that looks for the newest READY run of a
  dependency does not see it. This interaction of two modules is not checked.
- A killed `refresh.sh` leaves an execution row open that every deployment and
  migration refuses to work beside, and that no command closes (`FencesLift`,
  `RolloutsEnd` and their exceptions `unfinished > 0`).
- A recovery that undid a stage whose amendment was sealed and not completed
  leaves a receipt that no command accepts (`FencesLift`).
- `RolloutsEnd` lists the states of a fenced rollout that none of its commands gets
  out of. SQL that was committed when the process died before recording its
  fingerprint is refused by readback and rollback, and so are function bodies
  another receipt restored since: a superseded receipt can raise the fence again.
  Rows that differ from the plan's are refused by both: rows of the new prompt,
  but also those of an ordinary refresh. For that a release has to be cut between
  the unlink of the fence and the receipt's note of it; the scheduler then works,
  and a readback of this receipt raises the fence again before it compares. An
  abort raises it before it compares, too. A fence that was torn by a kill while it
  was written is never lifted, though the command that raised it had changed nothing yet, and
  the rollout of a torn receipt stays where it was, behind its fence.
- Receipts of the plain deployments and of the backfill are not read by a later
  command. Those of the migrations and O*NET loads are; there a write is one step,
  and a torn receipt is not modelled.
- The date backfill and the plain deployments write no fence: between their steps
  the scheduler runs what is there. `ExposureIsOnRecord` and
  `AdapterAfterWorkflows` say what holds nevertheless.
- A reservation whose execution is over, a lost answer, a rerouted answer nobody
  acknowledged, or a publication killed with its lease hold the O*NET budget until
  an operator acts, the last one for good (`OnHold` in `PlannedIsSettled`).
- An O*NET load that was killed, rather than failed, and a second pregraph resume are
  refused: its graph stays fenced, with backup and typed snapshot
  (`TornGraphIsRecoverable`). A JobKorea resume started by hand during a load
  changes rows the load compares, and makes it fail (`LiftedOnlyVerified`).
- A JobKorea run in review stays there: every importer is refused at its seal, and
  the loads end with IMPORT_REVIEW_REQUIRED until an archive with corrected rows
  comes, under another hash (`ReadyIsWhole`, `InputsAreFrozen`). A READY run whose
  postings get an input in the `cs` schema afterwards is refused when it is
  finalized again; nothing in the model writes that schema, so this is left out.
- A preparation whose frozen counters or provenance changed since its first start
  never verifies (`InputsAreFrozen`).

## 6. Not modelled

- Response parsing, normalisation per source, field derivation of canonical
  records, redaction of secrets, configuration parsing, HTML, telemetry and the
  proxy: data conversion or read-only code without state of its own.
- The rights policy file: a pure check of a document; its refusals are outcomes
  of `Connector` and `Processing`.
- The 24-hour request count (its refusal is in `FetchRun`) and the login limiter,
  which is sequential under its mutex; signing of admin sessions (cryptography).
- The retired Neo4j publisher: every entry point refuses.
- Alembic migrations, except for the keys and checks the modules rely on.
- The document parser service: a stateless adapter around a subprocess.
- Benchmark, profile and audit scripts, which measure disposable copies; the
  lexicon, retrieval and prompt text of the matcher; generated Hop XML, except
  where a module maps the generator of a native step.
- `run_inferred_occupations.py`, the older sibling of the O*NET matcher, and
  `validate_source_proofs.py`; `bind_proofs` of the additive rollout, which compares
  digests of review documents.
- Registration of provenance by a hand-started preparation (`prepare_inputs.py:472`):
  the same operation under the same lock as the supervisor's, which is modelled.
- The hashes `admit_request` compares before it takes a paid answer for an earlier
  one's (`AlreadyPaid` of `OnetMatching`): a posting keeps its input here.
- What a native job reads or writes row by row: its steps are those that other
  processes can observe (a chunk, a batch, a commit, a file, a call).

## 7. Plan

Modelled and checked: queue and worker, fetch and partitions, raw store,
processing, assembly, updater, the maintenance window with its migrations,
backfill, rollouts and deployments, O*NET matching, O*NET and JobKorea loads.
Proved: section 4. Next:

1. An abstract specification of a fenced operation (fence up, effect, verified or
   restored, fence down) that the migrations, rollouts and loads implement, and
   one of a certified data set for `Processing` and `Assembly`.
2. A composition of `UpdateScheduler` with `Assembly`: the READY row that flips
   while a tick derives partitions from it.
3. `run_inferred_occupations.py` over the accounting of `OnetMatching`, and the source
   proof gate.
