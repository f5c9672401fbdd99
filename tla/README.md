# Verification of tokenledger

TLA+ models of the parts of tokenledger that carry its guarantees, the TLC runs that check them on small instances,
and proofs, checked by TLAPS, of the properties that matter most for every size of the system.

Contents: 1 the system · 2 the modules and how they correspond to the code · 3 the runs · 4 fairness · 5 the proofs ·
6 what is only model-checked · 7 what is not modelled · 8 plan · 9 how to run it.

## 1. The system

tokenledger is a Python reference implementation (package `tl/`, DuckDB locally, BigQuery optionally) of an auditable
metric and experiment ledger. Everything rests on three append-only stores: the *receipt journal* (what was computed,
authorized and found), the *canonical event stream* (what happened), and, for shared use, a BigQuery table behind an
*append gateway*. On top of them sit trials that spend money or authority once (a paired benchmark suite with a
reserved byte allowance, two kinds of signed trial); reports over a frozen snapshot, whose money is computed by two
independent implementations of one accounting policy; evidence that can be performed again (metric runs, controls,
comparisons, a graded challenge); and experiments that accept a deployed service by trying what it must refuse.

Inventory (state, operations, what is hard, what makes it correct):

| Component | State | Operations | What is hard, and what has to hold |
|---|---|---|---|
| Receipt journal, `tl/receipts/journal.py`, readers in `metrics.py` | ledger file, `.pending.json` intent, `.batches/` audits, `.oslock` | `append_batch`, `recover`, `read_receipts` | Death in the middle of a line; a retry by a caller who does not know whether its append happened; readers take no lock. Appends are atomic and happen once, recovery is always possible, readers get a prefix. |
| Canonical stream, `tl/stream/store.py`, `binding.py` | table `stream.activity`, binding marker row | `init`, `append`, `append_simulation`, `generate`, `restore`, `export`, `attach_snapshot` | Transactions over the same committed table; retries of committed calls; batches that fail after others; late events. Dense positions, unique keys, one application per stream, frozen snapshots do not change. |
| Append gateway, `tl/bigquery/gateway.py` | the BigQuery source table; nothing local | `append` (HTTP handler) | Read, judge and append are separate remote calls; RPCs are lost, late or unacknowledged; competitors. The source stays readable and admissible, responses are true, a request is stored once. |
| Gateway acceptance, `gateway_probe.py`, `gateway_lifecycle.py` | a result file; the source of a fixture | eleven registered cases; finalize and one stale request | The deployed service differs in one respect; answers are lost though they took effect; others append. A passed run speaks of the right service and of all it added. |
| Learning admission, `tl/evolution/admission.py` | none (judges a prefix) | `validate` | It is what the gateway's atomic append has to protect: order, phases and references of workflow events. |
| Evolution trial, `tl/evolution/trial.py`, `transport.py` | claim in the shared log, outcome receipt, `completion-event.json` | `run`, submission, retry | Runners on stale snapshots, lost answers, revocation in between. One authorization, one execution, with all its authority. |
| Learning admission rehearsal, `native_acceptance.py` | the rows of a disposable deployment | 38 cases in order | A deployment that overlooks one rule must fail at least one case, one that overlooks none must pass them all. |
| Evolution walkthrough, `walkthrough.py`, `diagnostic.py` | a directory, its own gateway log and receipts | `run`, `replay` | A refusal must have the reason the script names; code and files change between run and replay. What replays is what ran. |
| Learning trial, `tl/learning/runner.py` | files created once in the trial directory, a lock, receipts | `authorize`, `run`, `revoke`, `replay` | The plan is checked before the lock is taken; death between the receipt and the file that points to it; order of imports. One result per plan, on the first eligible packet, none after a revocation. |
| Job recorder, `tl/bigquery/baseline_jobs.py` | `reservations.jsonl`, its copy in memory | context manager; `Client.query`, `get_job`, `result` and the SDK guard; `summary` | Threads of dbt, requests that arrive late or never, cut rows, resumed sessions. What BigQuery may run never costs more than the allowance, and is on record. |
| Paired trial suite, `baseline_suite.py`, `baseline_runner.py`, `engine.py`, `export.py` | output directory, `reservations.jsonl`, `execution.json`, the trial's sealed result | `run`, `report`; the worker's stages | Racing drivers, dying drivers and workers, reports without a lock, a source edited between two queries. A trial is launched once, "measured" is true, a sealed pair is backed by its source, code and jobs. |
| Denial probes and boundary evidence, `denials.py`, `boundary_evidence.py` | a new directory, a ledger row | matrix of roles and forbidden actions, seal, verify | A forbidden action takes effect and its answer is lost; the collection dies or files change before the seal. At most one effect, a sealed refusal covers the whole matrix. |
| Replication writer, `tl/bigquery/writer.py` | state file with the stream name and its base position; the BigQuery table | `append` of a local prefix | Death between `create_write_stream` and saving its name; a late request beside its retry; databases that have diverged. The table is a prefix of one database, answers are true, the saved state fits. |
| Accounting policy, `tl/compare/accounting.py` and `tl/views/accounting.py`, with their checks | running remainders of commitments and subscriptions while a report is made | `recognize`; the views `funding` to `journals` | One policy, written twice: as a loop with running state and as windows over a set. What one accepts the other finds no accounting error in, and both post the same cents. |
| Comparison harness, `tl/compare/engine.py`, `views/benchmark.py`, `views/suite.py` and others | a baseline database with its raw tables and metadata, receipts | comparisons in one session, or with a process for each side; incremental calls; replay | A baseline that a dead or failed call has left; a stream that grows between the two readings. Both sides see the same rows, a difference has a cause, the code named is the code that computed. |
| Metric runs, restatement and archives, `tl/metrics/engine.py`, `changes.py`, `tl/receipts/archive.py` | a directory per run: manifest, rows, retained code; receipts | `run_metrics`, `read_run`, `replay_receipts`, `restate`, `create_archive`, `replay_archive` | Late events, code edited or committed while a run executes, death between manifest, rows and receipts. What has a receipt can be performed again, and a restatement names smallest causes. |
| Source controls and evidence bundles, `tl/controls/*.py` | captures, ingested rows, control tests, bundles | `capture`, `ingest`, `reconcile`, the ERP bridge, `collect` | A test frozen at a cutoff while captures come in and the catalog is edited; declared evidence beside generated. A passed test speaks of the whole population; a control passes only for what was generated and ties out. |
| Challenge and grading, `tl/challenge/*.py` | a fixture directory, a proof and scorecards, receipts | `prepare`, `verify`, `close`, `grade` | Rows that come in after the gate; two graders of one answer. Publications are of what the gate saw, a prepared challenge stays gradable. |
| Reporting application, `tl/reporting/application.py`, `policy.py` | a private root: configuration, catalog files, a bound stream | `initialize`, `sync_catalog`, `validate` | Death between configuration and binding. One identity per root. |
| Usage import and report, `tl/usage/*` | samples, packets, failure records, rows of the stream | sampling, `import_sample`, `verify_packets`, the report's SQL | Overlapping imports read in one connection and append in another; cut packets; counters that reset. Every row can be made of retained evidence again, nothing admitted is restated, growth is that of the window. |
| Process ledger, validation, learning evaluation, SQL compilation, inspections, provisioning, parity, demos, release, command line | none or little of their own | pure, sequential or remote scripts | Values, not control (section 7). |

Interactions. The learning trial, the metric engine and the challenge append receipts through the journal. A trial
snapshot is a `StreamReader` over the stream, and every report reads one. The learning gateway is the append gateway
with `admission.validate` as its policy; the evolution trial, the rehearsal and the walkthrough are clients of it. The
suite launches workers, each of which runs dbt under a job recorder; both keep their own reservation ledger. The writer
copies a stream prefix to the BigQuery table. The application root holds the stream that usage imports append to. A
challenge is a prepared close over source controls and metric runs.

## 2. The modules

```
Journal -- MCJournal, JournalProofs                   Journal implements AtomicLedger
StreamStore -- MCStreamStore, StreamStoreProofs
AppendRequests -- IdempotentLog
              \-- Gateway -- MCGateway, GatewayProofs Gateway implements IdempotentLog
JobRecorder -- MCJobRecorder, JobRecorderProofs
TrialSuite -- PairedTrial ----\                       the worker implements the one TrialSuite promises
DenialProbes, Challenge --------- MCTrialSuite -- TrialSuiteProofs
Admission -- EvolutionTrial ----------------\         on the log that IdempotentLog promises
        \--- LearningEvents -- AdmissionRehearsal
                           \-- Walkthrough ----\
LearningTrial ----------------------------------- MCLearningTrial -- LearningTrialProofs
Writer, GatewayAcceptance -- MCWriter -- WriterProofs
Books -- Recognition ------\
Restatement -- MetricRuns --- MCRecognition -- RecognitionProofs   MetricRuns on the ledger that AtomicLedger promises
SourceControls, EvidenceBundle, Comparisons -- MCControls -- JournalProofs
UsageEvidence -- UsageImport -- MCUsage
             \-- JournalProofs
```

Modules compose in four ways: by EXTENDS (a state machine over its data: `AppendRequests`, `Admission`,
`Books`); by refinement (`Journal` ⇒ `AtomicLedger`, `Gateway` ⇒ `IdempotentLog`, `PairedTrial` ⇒ `TrialSuite`);
by use of an abstract module in the place of a detailed one (`EvolutionTrial` runs on the gateway as `IdempotentLog`
describes it, `MetricRuns` and `Challenge` on the ledger as `AtomicLedger` describes it); and by putting a state machine
beside the reference definition of what it computes (`Recognition` over `Books`, `MetricRuns` over `Restatement`). `Gateway` takes the policy as the
constant operator `Admissible(_)`; `Admission!Admissible` is the policy of the learning gateway.

Programs that answer the same kind of question and share no state share a run: the MC module chooses one of them in its
initial state (`system`) and leaves the variables of the others alone. No behaviour mixes them, so such a run is the
union of theirs. A property of a run is often a conjunction of named parts, each stated and commented in its module.

Definitions marked *Mutation* in the modules are faulty variants of the definition that follows them. No behaviour
uses them; putting one in the place of its original must make a property fail, which shows that the property can tell.

**Journal** (`Journal`). The ledger is a sequence of half lines, so a write may stop in the middle of
a line; a receipt stands for its own id, which is its hash. One step per system call that others can observe:
`BeginAppend`/`BeginRecover` take the flock, `PrepareIntent` reads and parses ledger plus batch, `Publish` is the
rename of the intent, `CheckIntent` and `WriteSome` are `_finish` with its `os.write` loop (any non-empty part is
taken), `Archive` renames the intent to its audit name. `BeginRead` and `Read` are the two steps of `read_receipts`,
which takes no lock. `Crash` is a death or an exception at any point: the lock goes, the files stay. fsync is not
modelled: process death, not loss of power, is what a step can be interrupted by.

**Stream store** (`StreamStore`). `StartAppend` takes the arrival time, `BeginWrite` is BEGIN with the binding check,
`InsertBatch` one INSERT with its anti-join and positions, `Commit` the final binding check and COMMIT, which fails on
a key or a position that another transaction has taken (PRIMARY KEY and UNIQUE). `StartRestore`/`CommitRestore` are
`restore`, `CreateStream` is `init`. `ReadLatest` and `Attach` are the two connections of `attach_snapshot`; the
snapshot keeps what `logical_sql` computes: occurrence number and next event on the timeline. Writers are connections
of one process; connections of different processes exclude each other in DuckDB, which removes behaviours only.

**Gateway** (`AppendRequests`, `Gateway`). `Start` validates the request; each round reads (`FailRead`,
`RefuseConflict`, `RefusePending`, `Accept`) and, when rows are missing, `Submit`s one RPC at the offset it read. The
read, the comparison and the policy are one step with the submission because the storage service compares the offset
itself: a call that judges an older prefix sends an offset that `Land` refuses, exactly as if it had been dropped.
`Land` stores a request if its offset is the length of the table, `Drop` loses it, `Acknowledge`/`Fail` are what the
call hears of it, in any combination with what happened. `Crash` leaves RPCs under way.

**Gateway acceptance** (`GatewayAcceptance`). The deployed service has one of seven faults, or none (`Faults`). The probe looks
(`LookFirst`), sends a case (`Ask`), and judges it by answer and source (`JudgeCase`); `Serve` and `GiveUp` are the
service, which may answer, act without an answer, or act after the sender gave up. The lifecycle run pins the source,
finalizes the stream (`Finalize`, `CloseStream`, `DenyClosing`; `Acknowledged`, `Unacknowledged`, `Uncertain` are what
it hears), looks again and sends the one stale request (`AskStale`, `JudgeStale`). It is called for only when the probes
are over (docstring at `tl/bigquery/gateway_lifecycle.py:78`), which `InSeries` of `MCWriter` expresses.

**Job recorder** (`JobRecorder`). The ledger is what `_read` makes of it: reservations, observations, rejections, and
whether the file is good, has a last row whose writer was told it failed, or is refused for good. `Reserve`,
`Resubmit`, `Submit`, `Answered`/`Unanswered`, `Observe`, `Fail`, `Look`, `Note` are the steps of threads between
their holdings of the mutex; `Enter`/`Leave` are the context manager and the death of the process. `Accept`, `Lose`,
`Finish` are BigQuery.

**Trial suite and its worker** (`TrialSuite`, `PairedTrial`). `Preflight` to `WriteExecution` are the steps of `run`,
with a crash at any of them; in `TrialSuite` a worker takes its directory, seals a result and exits with any code;
`BeginReport` to `Conclude` are the reads of `report`, one file after the other. `launches` is a history variable.
`PairedTrial` puts the worker of `baseline_runner.py` in the place of that promise: its stages run both architectures
between looks at the source, attribute the recorder's jobs to one of them each, compare outputs and seal; `Edit`
changes the source or the code between any two stages. An edit is placed before the steps that look at what it changes:
later it could make no difference to anything that is still read.

**Denial probes** (`DenialProbes`). `Process` is the run: admission with its reservation, a look at the source, an
attempt, the next look, and the seal (manifest, receipt into the ledger, receipt into the directory). `Service` lets an
attempt through, denies it or loses the answer; `Others` edit the source, the code and files. `Verifies` is the
verification of what was kept.

**Challenge** (`Challenge`). `Capture` to `Retry` are `prepare` with the held first close, the recovery and the retry;
`Derive`, `WriteRun`, `AppendProof`, `WritePointer` retain the proof. `BeginGrade`, `Verify`, `ReadRetained`,
`MakeDestination`, `Retain`, `WriteCard` are a grader, of whom there are two; `retention` is their lock. `CloseAnswers`
is what a close that is called again answers.

**Admission, evolution trial, rehearsal, walkthrough**. `Admission` translates `validate`, one operator per event kind.
`EvolutionTrial` has the log, the clock, events under way, and runners: `Look` (snapshot and local checks),
`SubmitClaim`, `ClaimAccepted` or `ClaimUnverified`, `Execute`, `Seal`, `SubmitCompletion`, `Resubmit`, `Crash`.
`LearningEvents` says which events the two rehearsals send and who may send them. `AdmissionRehearsal` sends the
script of 38 cases (`Script`); `blind` is what the deployment overlooks, and after each case a snapshot is judged
(`Pass`, `Fail`). In `Walkthrough`, `AdmitNext` and `RefuseNext` follow the script, `EvaluateCases` and `Measure` do the
work it speaks of, `Seal` and `Summarize` end it; `Alter` changes a part of the directory, and `Replays` is `replay`.
The parts (`Parts`) are told apart by what replay does with them: what a seal or the report's `run.json` lists (`Runs`),
copies of the stream and the plan that it compares (`Copies`), receipts it looks up and receipts it never asks for
(`Ledger`), rows the report sees and rows it does not (`Business`), fields of `walkthrough.json` it reads and the rest
(`Summary`), and what it does not open: `receipt.json`, which is written after the list of its directory, further files,
the `rows.jsonl` of the report (`Unlisted`), and what lies beside the evidence (`Beside`). A change is of one content: to
make anew all that names a content is to make another walkthrough, and no change of this one.

**Learning trial** (`LearningTrial`). Three groups of steps follow `authorize`, `run` and `revoke` with every file
creation and ledger append a step; `Collect`, `Import`, `Edit`, `Expire` are the world around them. The gates of
`_compute` that relate packet, report, stream and authorization are `Eligible`; the scores are a choice.

**Replication writer** (`Writer`). `Begin` validates a prefix of a database, `Lock` takes the lock of the state file or
raises, `Compare` reads the table and compares fingerprints, `Resume` and `Create`/`Save` are the two ways to a write
stream, `Send`/`Acknowledged` the loop over chunks, `Recheck` the second query. `Land` and `Drop` are the Storage Write
API: a request is stored whole at the end of its own write stream, whether or not its call still exists. A call may
`Die` at any point, which stands for every refusal that leaves the table alone as well. Databases that differ from some
row on are a restored backup beside its original.

**Accounting policy** (`Books`, `Recognition`). `Recognition` is the sequential loop:
`Open` groups the visible documents, checks their identities and bills the commitments; `TakeInvoice` (in the order
of service ends), `TakeExpiry`, `TakeCredit` and `TakeEvent` (one turn of the loop over the events of a subscription,
the last of which posts) are the turns of its loops with their refusals; `Check` is what the comparison session
demands of the finished books; `Close` drops them. `journal` and `earnings` hold, by document and month, what `post`
and `earn` add up to. `Record` is an append to the stream between two reports; a report reads a snapshot.
The columnar part of `Books` has one operator per view of `tl/views/accounting.py` and its error views, each a function of the
visible documents. Amounts are cents and days are numbers; `HalfUp` and `Spread` are the integer arithmetic of the code,
`Rounded` and `Share` that of the SQL (`//` is the floor division of DuckDB on non-negative numbers). A document is one
of the shapes the activity catalog lets into the stream, with no negative amount; one source stands for the many whose
books are computed apart. Each side refuses by more than the books. Of the views these are `JournalErrors`, `CoreErrors`
(a batch billed twice, a subscription that was not started, two that are paid at a time) and `TokenErrors`, all of which a
pack of every output runs (`ColumnarErrors`); of the comparison session `TiesOut` and `TokensTieOut`, the monthly token bridge.
Tokens of a batch are documents that post nothing: what an invoice earned in a month needs tokens of its batch in that
month on both sides. `Beginnings` is what is on record when the first report is made. Customers are created once and
models are released before they are used: the checks of both sides for that are left out, as are those of seats and of
the compute ledger.

**Metric runs** (`Restatement`, `MetricRuns`). `Begin` loads the definitions, hashes the execution artifacts and takes
the revision; `Execute` freezes the snapshot and runs the queries; `Seal` looks at the artifacts again and writes the
manifest, `WriteRows` and `AppendReceipts` follow. `Compare` reads and performs both runs again, `Evaluate` is one turn
of the loop over the sets of late documents, `SealBridge` is `persist`, whose rows and receipts are the same two steps.
`Arrive`, `Edit`, `Commit` and `Die` are the world. `Restatement` says what a bridge is, without the loop. `Replays`
and `ArchiveReplays` perform a run again with the code of `tree`, or with that of the recorded revision in a nested
process, at most eight deep and never the same code twice. A version of the artifacts is a number, what it computes is
the constant `Row(_,_,_)`, the invariants of a report are the constant `Consistent(_)`. Simplifications: loading and
hashing are one step, and so are the reading and replaying inside `Compare`; no edit is undone within the command that
it interrupts (the code cannot notice either case; replay refuses such a receipt); revisions stay in the repository and
the runtime stays the same. Receipts are appended in one step, as `Journal` is proved to do.

**Source controls and evidence bundles** (`SourceControls`, `EvidenceBundle`). `ReadFile`, `ReadWatermark`, `Capture`
and `Ingest` bring a file in; `Freeze` takes the cutoff of a metric run, `Collect` reconciles at it and retains what it
read. `OthersAppend` and `EditCatalog` are the world. In `EvidenceBundle` the recognized entries, the fees and the lines
of the ERP file come in any combination, and `Collect` judges each control by the artifacts it asks for; without a metric
run nothing is tested.

**Comparisons** (`Comparisons`). A call begins in the session or with workers in either order, brings the raw tables of
its baseline up to date (`ReplaceKind` or `IncreaseKind` by kind of event, `EndProjection`, `KeepSource`), builds the
selected models, judges and records. `Clone` copies a baseline, `Release` gives a directory up, `BuildSome` is a build that stops
at a model, `Abort` ends a call anywhere, with what it has written left behind. A call freezes how far it reads, what was
known when, up to which month, and the NRR definition (`Freeze`); dbt is told the same as its vars. Two models have no raw
table behind them, `dim_date` of the dates told and `int_nrr_lenses` of the definition, so an incremental call, which
selects by raw table, never builds them: they are those of an earlier call, while the models it does build also use what
is told now. An output is the rows, the dates and the definition it is computed from, and the version of the code;
outputs made of different ones count as different.

**Usage** (`UsageEvidence`, `UsageImport`). `UsageEvidence` has what the root keeps, and what must hold of it,
and the SQL of intervals and tokens beside what a counter really grew in a window. `Initialize`, `Sync` and `Import` are the three commands, step by step: files
are created and then filled, the stream is read in one connection and appended to in another, a failure is retained
before it is reported. `TakeSample`, `Confirm`, `Upgrade` are their inputs and `Die` ends a process anywhere.

## 3. The runs

Every property has a faulty variant of the modelled code (`PROJECT.json`, "mutants") that makes it fail.

| Run | What is in it | Distinct states | Properties, and what they show |
|---|---|---|---|
| `journal` | 2 processes, 3 receipts, batches of 1 and 2 that share one | ~4,000 | `LedgerIsRecoverable`: completed with its pending append the ledger parses, and it can be completed. `ReadsAreCommitted`: an unlocked reader gets a prefix of what is committed. `AppendsAreAtomic`: refines `AtomicLedger`. `PendingIsCompleted`: liveness of recovery. |
| `stream_store` | 2 connections, 7 calls, 1 backup, batches of 2, 2 instants | ~1,708,000 | `TableIsSound`: dense positions and keys, one application. `WatermarksAreFinal`: acknowledged events lie within their watermark, frozen snapshots recompute to the same. `CallsAreAtomic`: a step adds a whole call or nothing. |
| `gateway` | 2 calls at a time, 3 requests that share keys and 2 invalid ones, 2 attempts, 3 rows, 2 instants, 2 RPCs under way | ~380,000 | `SourceIsSound`: readable and admissible. `AnswersAreTrue`: accepted is stored, of what is rejected nothing is stored or can come. `AppendsAreIdempotent`: refines `IdempotentLog`. |
| `job_recorder` | 2 threads, 2 jobs, 3 payloads (one a dry run), cap 2, allowance 3 | ~486,000 | `AllowanceIsKept`: what BigQuery may run is on record and within the allowance. `ConclusionsAreTrue`: a complete total is the final bill, metadata is granted only for jobs seen done and never mismatched. |
| `trial_suite` | 2 drivers, 2 trials with both architectures; *or* 1 role, 4 actions, 2 byte ceilings; *or* 2 graders, 2 destinations, 2 answers, 3 kinds of stray row | ~1,748,000 | `LaunchesFitTheAllowance`, `MeasuredIsComplete`, `PairsAreBacked` and `ImplementsSuite` (the detailed worker refines the promised one) of the suite; `SealedIsTrue` and `ProbesAreBounded` of the denial probes; `ChallengeHolds` of the challenge. |
| `learning_trial` | 2 callers, 2 packets; *or* 2 runners, 12 events of two cases, 2 claims, 2 instants; *or* 38 cases and 16 deployments; *or* the script with 1 edit and 2 altered parts | ~456,000 | `OneTrial`, `RetainedIsTheFirstImport`, `NothingAfterRevocation` of the learning trial; `TrialsAreAuthorized` of the evolution trial; `RehearsalTellsTheTruth`: passed exactly when nothing is overlooked; `ScriptIsFollowed`, `ReplayTellsTheTruth` of the walkthrough. |
| `writer` | 2 callers, databases of 3 and 2 rows that differ from the second on, chunks of 2, 2 write streams, 2 requests under way; *or* 8 deployments, 1 foreign append, 6 rows | ~1,440,000 | `ReplicationIsExact`: the table is a prefix of one database whatever dies and however late a request is stored, answers are true. `AcceptanceIsTrue`: a passed probe or lifecycle run speaks of the right service and of all it added. |
| `recognition` | months of 2, 3 and 2 days, every set of up to 6 of 17 documents beside the tokens of the batches, every horizon; *or* 1 invoice and 3 late documents, 2 versions of the code, 2 cutoffs, 2 metric runs and a restatement | ~930,000 | `ImplementationsAgree`: what the loop accepts is no error of the views' accounting and both post the same cents; what it refuses the views refuse. `DocumentsBalance`. `CommitmentsAreSpentInOrder`: spent once, in the order of service, and a late invoice moves only the funding of its own contract. `ReceiptsReplay`: every receipt replays, by the recorded revision if need be, and every archive by itself. `AttributionIsMinimal`. |
| `recognition_cutover` | 8 documents of a stream that begins in the second month | – | **Violation** of `ImplementationsAgree`, finding (2). |
| `controls` | 4 source files, 2 captures, 2 strays; *or* ERP lines and entries of 2 documents; *or* 2 events of two months, 2 cutoffs, 2 NRR definitions, 2 baselines and 2 calls, or 1 baseline and 3 calls that ask for the same | ~1,725,000 | `ControlTestsHold`, `BundleTellsTheTruth`, `ComparisonsHold`. |
| `usage` | 2 operators, 2 accounts, 1 session with 2 logs, 2 samples, 1 failure, a newer release | ~964,000 | `OneIdentity`, `EvidencePerforms`, `FirstAdmissionStands` under overlapping imports and deaths; `GrowthIsWithinTheWindow` of the report. |
| `walkthrough_changes` | a finished walkthrough directory with one thing changed | – | **Violation** of `AnyChangeIsSeen`, finding (1). |

Deadlock is checked in `journal`. Elsewhere `CHECK_DEADLOCK FALSE` is stated because the system really stops: allowances,
attempts, scripts, plans and one-time trials end.

Why the bounds are enough. The hazards listed in `PROJECT.json` are races of two actors over one object, or one actor
against its own past: two processes, connections, calls, threads, drivers, runners, graders or operators are what they
need. A third adds another loser of the same race. The data are chosen so that each comparison in the code has both
outcomes:

- *journal*: a batch that repeats a receipt of another one is a retry; with batches of two receipts a crash can fall
  into a line, between two lines, and before and after both. The ledger is bounded by the three distinct receipts.
- *stream store*: with batches of two rows a call of three events has two INSERTs, so that a failure can come after
  rows; the same key occurs within a call, across its batches and across calls, with equal and different content; two
  instants give arrival times before and after a cutoff, late and back-dated events.
- *gateway*: `MaxAttempts` 2, where the code has 3 by default and up to 5 (a first and a later attempt are the cases the
  code tells apart); `MaxRows` 3 is reached and exceeded by the requests offered; two RPCs under way allow a late one
  beside its retry. One policy has the two kinds of rule that `admission.py` has: order of arrival, and one event of a
  kind.
- *job recorder*: an allowance of three with a cap of two holds one job but not two; a dry run costs nothing. A
  resumed session, a reused sequence number and a cut row all occur.
- *trial suite*: `Allowance` is exactly the caps of both trials, as `load_plan` demands, so one launch too many is
  visible; a second trial is what a failed or interrupted first one has to stop. The actions of the denial probes are
  one of each kind the code treats apart (a query that pays bytes, one that copies, one on metadata, one that is
  rejected without a credential); the smaller ceiling covers the matrix without the copy only, the larger one all of it. The strays of the
  challenge are a row of the period, one of an earlier period and one known too late.
- *learning trial*: two packets can be collected and imported in both orders, before and after the authorization.
  Authorization `a` expires at instant 0, so that a claim can come too late; case `d` has an authorization that refers
  to the records of case `c`, which must be refused; verification by the finder and an evaluation of another candidate
  must be refused as well. `MaxClaims` 2 is a race, or a retry after a crash. `Blindness` has a value for each rule of
  the gateway and of admission that the script is about; `MaxAltered` 2 is a change and one that might hide it.
- *writer*: three rows in chunks of two are a full and a short chunk; two write streams are one that was created and
  never saved, and its successor; two requests under way are an orphan and its retry. `Faults` has a value for each
  thing a case of the probe is there to find; `MaxRows` 6 holds what the probe adds and one row of others.
- *recognition*: a commitment of four cents against invoices of three, two and three cents, which exhaust it in any
  order of arrival, over months in which three cents do not divide; the same contract under two rival terms, a
  duplicate, an empty and an orphan document of each kind for the refusals; two expiries, one of them too early; a
  subscription that changes price and seats, in one instant and within a paid period, runs out, is renewed on other
  terms and cancelled; a second subscription, for a control that only the views have. The largest group of documents that
  one rule relates is a contract, three invoices, an expiry and a credit: six. The tokens of the batches are on record from
  the beginning, but for one month of one batch, which may come late or never; two invoices bill one batch.
- *metric runs*: of the late documents one arrived early but is recorded late, so that only the watermark keeps it out of
  the older snapshot; one is a credit that without another document makes an invalid snapshot; all three exceed
  `GroupBound` 2 (`definitions/derivations/v1.yaml` has 4). Commands share nothing but the ledger, so there is one
  caller. The source files have a duplicate, a conflict, an unreadable line, an event of another period and a claim of
  coverage; a stray is an event beside its capture or without one. Two documents of two families are a fee that could
  be counted for either entry; two baselines are one that a dead call has left, and its clone. One event of the
  comparisons is of the month before and may come in last, so that the calendar of a later call begins earlier; a third call
  of one baseline is the retry of an increase that died.
- *usage*: the logs have a counter that grows, one that resets and a reading that is missing; two samples of one
  session overlap; the windows begin before, on and after a reading.

**The findings.** (1) The docstring of `replay` of the walkthrough (`tl/evolution/walkthrough.py:471`) says "Any changed
byte fails", and `docs/run.md:131` that the command "re-validates that directory and fails on any changed byte". The
code compares the events, receipts, keys and reports it needs; of `walkthrough.json` it reads the schema, the receipt, the
run and the watermark only, and neither `README.md`, the signer nor `rejected-expanded-plan.json` at all. A seal lists the
files of its directory before it writes `receipt.json` there (`tl/evolution/evidence.py:45-51`), so neither that file nor
one that is added is compared, and the `rows.jsonl` of the report is not opened; further valid receipts in the ledger are
not looked for; of the business rows the number is compared and what the report shows, so that one it does not show can be
changed in place. `walkthrough_changes` shows a change that verifies; `ReplayTellsTheTruth` shows what every directory that
verifies does guarantee: it ran to its seal, under one version of the code, which is that of the day, and nothing that is
listed, looked up or reported has been changed in it (`Evidence`).

(2) `tl/views/accounting.py:1` calls the views an "implementation of the spine's accounting/v1 policy", and
`tl/views/validation.py:1` says "Faster execution cannot skip data controls." They expand an invoice over the months of a
calendar (`tl/views/accounting.py:42`) that begins with the first visible event (`tl/views/session.py:65-71`); the sequential
implementation posts every month of the service. A stream that begins after the service of an invoice began, as after a
cutover, loses the earlier months in the views, while the invoice still draws its full amount from the commitment. The
comparison session refuses such a stream: what was earned before the first event has no tokens to share it
(`monthly_token_revenue_bridge`, `tl/compare/session.py:73-79`). The views make the same control over the months of their
calendar (`tl/views/validation.py:27-35`), do not see what is missing, and report. `recognition_cutover` shows it with one
invoice; `recognition` shows that with no service before the first month the two agree.

Observations that are no findings.

- `read_receipts` (`tl/receipts/metrics.py:160`) refuses while an intent is pending, but takes no lock: an append may
  publish its intent after that look and write some of its lines before the ledger is read. What is returned then ends
  in the middle of an append; `ReadsAreCommitted` shows that nothing worse happens.
- `record_process` (`tl/receipts/process.py:39`) reads and then appends without a lock, so two processes can record one
  receipt twice.
- The report of a suite goes by what the trials sealed: it may be "measured" although the driver recorded the outcome
  of the *last* trial as failed (an interrupt after the worker had sealed).
- A learning packet that was collected before the authorization and is the first one imported after it makes every
  later packet ineligible: the code goes by the order of admission and fails closed. `authorize` checks a revocation
  only before it takes the lock; `run` checks it again under the lock, so no result depends on it.
- The checks of the views are run by what a report asks for (`tl/views/validation.py:63`): those of the journal for
  journal lines, closes or facts, those of tokens for token outputs. The model is of a pack of every output, which runs all.
- The views refuse what the comparison session lets pass: two paid subscriptions at a time, a change of a subscription
  that was not started before it, a batch billed twice without tokens (`tl/views/validation.py:13-19`).
  `ImplementationsAgree` says so; no document of the repository promises that both refuse the same.
- An incremental comparison selects by raw table and so never builds `dim_date` nor `int_nrr_lenses` (`tl/compare/engine.py:114`,
  `tl/views/benchmark.py:151`). With a later `asof`, or a row before the first one, it may answer "different" of sides
  that implement the same policy; `DifferenceIsReal` names the cases.
- A table that an earlier run left with the description `denial_probe_changed` cannot show that it was written again;
  `OneEffect` excepts it. `evidence.seal` writes `receipt.json` before the ledger, `boundary_evidence` after it.
- The native rehearsal does not look at its code again after the run, `run_denials` does.
- `close.py` has a window between its look for a publication and the write; its command line verifies an existing
  publication first. In `close.prepare` a retry of a held close passes, and `derive` still answers a constant
  `already_published`.
- Two imports of one session under two accounts each find no row of the other, and both are admitted: the event IDs
  differ by the account. From then on the session belongs to the account of whichever row is read last
  (`tl/usage/importer.py:140`). It is listed as a hazard without a property.
- The separation of the business stream that the walkthrough's replay checks trusts the watermark of the unsealed
  manifest, and a plan's `execution_sha256` is not compared with that of its evaluation.

## 4. Fairness

Safety is checked without fairness. One property needs it:

- `PendingIsCompleted` (`journal`): a running call takes its next step (weak fairness of `Step(p)`: it is a loop in a
  running process that waits for nobody), and an operator who is told "ledger recovery required" keeps calling
  `recover` (strong fairness of `BeginRecover(p)`, since the flock is taken without waiting and may be busy at any one
  time). The property assumes in addition that crashes stop.

The loop of the gateway is bounded by `MaxAttempts` in the guard of `Submit`. The other components promise no progress in
their code: a run that fails is left to an operator. Where a process may die without a step of its own (denial probes),
death is the behaviour that takes no further step, which safety allows anywhere.

## 5. The proofs

The theorems hold for every value of the constants; the assumptions are those named in the modules (types of the
constants, and that the "no value" constants are not values). Each proof has an inductive invariant `IInv`, that it
holds initially, and one lemma per action or group of actions that preserves it.

**`JournalProofs`**: `TypeCorrect`, `LedgerAlwaysParses`, `RecoveryAlwaysPossible`, `LedgerIsAlwaysRecoverable` (both
together), `ReadsAreAlwaysCommitted`, and `JournalIsAtomic` (the refinement of `AtomicLedger`). None of the properties is
inductive alone: a step of `_finish` preserves them because the process that takes it holds the flock, because no other
process is then inside an append or a recovery, and because what it has in `remaining` is exactly what the pending intent
lacks. That an audit name is free follows from the length of the ledger: every archived intent ends within it, and a
pending one ends behind it. In the refinement every step stutters but `Publish`, which is `Commit(batch)`.

The module also extends `MCControls` and proves of its instance `Controls` `PassedTestsVouch` (`ControlTestsHold`), for
any files, strays, captures and tests. The invariant `CInv` says that no two rows of the stream have one ID
(`StreamIsKeyed`: an append sorts out what is stored, and stops at a conflict), that a capture was read before anything it
names was stored (`CapturedWell`), that a watermark once frozen is a position of the stream, and that a test would say
today what it said (`TestIsSound`). The last one is preserved because the stream only grows behind every watermark
(`Grows`, `TableStays`), and a test that passed thereby counts: a row for each captured event and none twice. Assumed is
`FilesAreRead`: lines are numbered, and an ID that can be read is comparable with the others.

Of its instance `Compared` it proves `ComparedSidesSeeTheSame` (`ComparisonsHold`), for any events, kinds, outputs,
lenses and baselines. The invariant `PInv` has a conjunct for each stage of a call (`CallIsSound`): the raw tables that it has
reached hold exactly what its cutoff sees (`Progressed`), the models whose raw tables it did not change were models of
them already, if the call began with a whole baseline (`Carried`), after the build all of them are (`IsBuilt`), and the
spine sees the same cutoff (`SpineIsSeen`), so a judgement compares like with like (`Judged`). Between calls a baseline
that is marked whole has the models of its raw tables, and their dates are those of `dim_date` or of the calls since it was
built in full, their NRR definition that of `int_nrr_lenses` (`BasesAreSound`, `Dated`). An aborted call leaves it unmarked,
and if all these dates are those of the call and the definition is its own, the models are what the call asked for: the
alternatives of `DifferenceIsReal` are what is left. The code of a side lies between the pins of the call and the present one
(`Of`), whence the second look at the artifacts fixes it. Assumed is `OutputsAreOfKinds`: there are raw tables, and an
output is computed from some of them.

Of its instance `Bundles` it proves `BundleAlwaysTellsTheTruth` (`BundleTellsTheTruth`), for any entries, fees, ERP file
and declarations. The bridge goes through the entries with running totals, and the property adds up each account by
itself. The proof says what the totals are for any set of entries (`Tally`) and that one more entry takes them to those
of the larger set (`TallyGrows`): the net grows by the entry (`NetGrows`), and the fees by that of its invoice unless the
invoice has been seen, which within the period means under the same account (`FeesGrow`). Hence the fold is the tally of
all entries, whatever their order (`BridgeIsTally`), and a bridge ties out exactly when the gross revenue does
(`TiesTruly`, with one line of the file for an account). The invariant `BInv` adds that a bundle says what the evidence
frozen with it says. Assumed is that amounts are integers.

Of its instance `Usage` of `UsageImport`, the program that appends usage to a stream, the module proves
`RootHasOneIdentity` (`OneIdentity`), `EvidenceAlwaysPerforms` (`EvidencePerforms`) and `FirstAdmissionAlwaysStands`
(`FirstAdmissionStands`). A root passes the stages in which it is made one at a time, because each file is created
exclusively (`RootIsNamedOnce`), and the one stream is bound by the call that created it (`BoundOnce`). An import
carries a sample that is there, and its events are among those of its packet (`ImportsCarry`); a packet is cited only
after this call has seen it whole, and nobody cuts a whole one (`RowsPerform`). A line of a log has one event ID for
an account, and what an ID says never changes, hence two overlapping imports cannot both put a line on record
(`FirstAdmissionStands` is inductive with these). The assumption `NamesDiffer` says that no operator is called as the
two states of the configuration file that is not readable; it is about the encoding only.

`GrowthIsAlwaysWithinTheWindow` (`GrowthIsWithinTheWindow`) follows from that invariant. Since a line is on record once
and its event can be made of the retained sample, the readings of a session are finitely many, with a line each
(`LinesAreRead`). If a report gives a number, every reading inside the window but the first has been measured
(`OthersAreMeasured`), against one that is inside as well (`MeasuredIsInside`), so the terms telescope (`GrowthAddsUp`, by
induction on the line). The lemmas on sums are those of `RecognitionProofs`.
Assumed is that a log has a count or nothing on each line, and that windows are pairs of instants.

**`StreamStoreProofs`**: `TypeCorrect`, `TableIsAlwaysSound`, `WatermarksAreAlwaysFinal`, `CallsAreAlwaysAtomic`, for any
writers, calls, backups and batch size. Positions of a sound table of *n* rows are 1 … *n* (`Numbered`), so a
transaction that adds rows to a table of *n* takes position *n* + 1 first. If another one has committed rows since, that
position is taken, and COMMIT refuses: the table becomes the transaction's view, or stays. Two facts carry it: what a
transaction saw is a subset of the committed table (`LoadsBehind`), and ranks of a finite set of keys are 1 … *k*
(`Ranks`, by which the numbering of one INSERT is dense). Binding and keys then follow from the check at the end, which
looked at the very table that is committed. A watermark is final because what comes in later has a greater position, and
because a snapshot looks only at rows within it (`SnapshotFilteredLast`, a mutation, numbers first and filters later).
Assumed is that a call is a sequence of events, and that a backup is a finite set of rows with one row for an ID, which
an export of a table is.

**`GatewayProofs`**: `TypeCorrect`, `SourceIsAlwaysReadable`, `LogIsAlwaysAdmissible`, `AcceptedIsAlwaysStored`,
`RejectedNeverStores`, the properties `SourceIsAlwaysSound` and `AnswersAreAlwaysTrue` that join them, and
`GatewayIsIdempotent` (the refinement of `IdempotentLog`). The central conjunct, `FlightFits`, says of every request under
way that *if its offset is still the length of the log*, then storing it gives a readable and admissible log and is one
`Put` of its request; the log only grows, so the hypothesis is lost for good when anybody else wins. The rest accounts
for what a call has sent (`OwnRpcs`), for what it has stored (`StoredIsCovered`) and for the watermarks given out. The
policy `Admissible` is an arbitrary operator that admits the empty prefix.

**`JobRecorderProofs`**: `TypeCorrect`, `AllowanceIsNeverExceeded`, `EveryJobIsOnRecord`, `AllowanceIsAlwaysKept` (both).
The jobs that run or may run are reserved on disk with their payload (`ChargedIsReserved`), memory holds no more than the
disk (`MemoryIsOnRecord`) although a failed write can leave more on disk than in memory, and what is reserved in memory
fits the allowance. Charges map injectively to reserved job IDs, which bounds their number. `ConclusionsHold`
(`ConclusionsAreTrue`) follows what was observed from the service to the file, to memory and to the answer: an observation
on disk is what a finished job is billed (`ObservedTruly`), what a thread has in hand is (`SeenTruly`), what it is about
to send is as reserved (`SentAsReserved`), and a rejection is on record only for a job that never ran
(`RejectionsAreKnown`). A finished job does not change, so none of it can be overtaken.

**`WriterProofs`**: `TypeCorrect`, `ReplicationIsAlwaysExact`, for any databases, callers, size of a chunk and number of
streams and requests. Assumed of the data is that a row says at which position of its stream it stands, which
`validated_prefix` checks; then a comparison of sets of rows is one of prefixes (`SameSetSamePrefix`). The state file is
always right about the table (`FileIsBased`): its base and the length of its stream add up to the length of the table,
so the service takes a request exactly when the rows before it are all there, and no second stream can have carried
rows. `FlightFits` says of every request under way that it fits now or never again, and if now, that it continues the
table with the rows of one database; `CallFits` says the same of what a call behind the lock is about to send. So a late
request and its retry cannot both be stored, and no more can requests of two databases.

The module extends `MCWriter`, whose instance `Acceptance` is the acceptance of the gateway, and proves of it
`AcceptanceIsAlwaysTrue` (`AcceptanceIsTrue`), for any fixture and any number of rows of other producers. The invariant
`AcceptanceInv` goes by the number of the case: what the cases so far have added is a function of it (`AddedIds`,
`AddedRows`), the source only grows behind the last reading (`ReadingsFit`), the answers that are in were given for a reason
that still stands (`AnswersHaveReasons`), and each case that ended as expected excludes the fault it is there for
(`FaultsExcluded`). Two of them need more than the answer: that a service forgets shows because its rows would be missing
(`ForgetfulAddsNothing`), that it repeats because a confirmation then always comes with a row. For the lifecycle run it is
enough that nothing opens a stream again (`ClosedForGood`). Assumed is that the fixture has no row named like an event
of the run (`FixtureIsOlder`): the IDs of these carry the identity of the run.

**`LearningTrialProofs`**: `TypeCorrect`, `PlanIsMeasuredOnce`, `RevokedPlanSealsNothing`. The lock excludes two calls
in their critical sections (`LockExcludes`), `request.json` is there from the claim on (`ClaimIsHeld`), a plan without
it has no result (`UnclaimedIsUnmeasured`), and whoever is past the second look at the plan finds it unrevoked,
because `revoke` needs the lock (`RecheckHolds`). `RetainedIsFirst` (`RetainedIsTheFirstImport`) rests on what stays true
once it was seen: the stream grows at its end only, so the row behind the watermark of an authorization never changes; a
packet is collected once; and what an authorization observed is the stream of its moment (`AuthorizationObserves`). A run
keeps the inputs it was found eligible with (`InputsAreGrounded`), until they are measured (`MeasuredIsFirst`).

The module extends `MCLearningTrial`, whose instance `Diagnosis` is the evolution trial, and proves of it
`TrialsAlwaysAuthorized` (`TrialsAreAuthorized`), for any runners, bounds and events of other producers. Its first half
is about `Admission` alone: in an admissible log an ID has one row, a reference leads to an earlier row of the case, and
so a started trial has all of its authority (`StartedIsAuthorized`), is the only one of its authorization
(`OneTrialOfACase`), and is not both completed and revoked (`CompletedIsNotRevoked`). The second half is the invariant
`EInv`: a run has a claim number of its own (`RunsClaim`), nothing is executed under a claim twice or before it is in the
log (`RunsProceed`, `ExecutionsClaim`), and a completion in the log, under way or in a file is one of a sealed outcome
(`Sound`). The policy and the claims need each other: the policy alone would let two runners execute under one shared
claim, which the gateway accepts as a retry. Assumed is `EventsAreOfOthers`: roles are separate, which the gateway's
configuration demands, and a uuid is not chosen twice.

Of its instance `Walked` it proves `VerifiedReplayIsTrue` (`ReplayTellsTheTruth`). The invariant `WInv` says what is
retained at each step of the script: from the conclusion on the outcome is that of the measurement, from the seal on the
sealed one is that outcome, and a summary is written behind the last step only. What was changed in the directory is
compared part by part, so that of a directory that replays no part of `Evidence` was. That a position of the script is the step
it is depends on the script alone and is evaluated once (`ScriptDoes`). Assumed is that `None` is no conclusion
(`NoneIsNoConclusion`).

**`RecognitionProofs`**: `BooksBalance`, `CommitmentsHold`, for every set of documents and every calendar. The invariant
`BooksInv` adds the types of the running amounts to `DocumentsBalance`: a line is written whole by one document, and its
movements cancel because all of them are integers made from the same shares.

`ImplementationsAlwaysAgree` (`ImplementationsAgree`) is the same for the two implementations: one with running state, one
of window sums, for any documents, months and horizons. The agreement is about finished reports only; the invariant
`Posting` says what it means halfway. What the loop has done is a beginning of its order (`DoneFirst`), it has not met
anything the views refuse (`Identified`, `NoErrorsIn`), what is left of a commitment is what the windows have not drawn,
until the expiry (`Unspent`), the last service of a contract is that of the invoices done (`Served`), each line posted is
the views' and every other is blank (`RowsAreColumnar`), and the cursor holds the window values of the last event
(`CursorIsWindow`). Each turn of a loop is then one more term of a window sum (`DrawsGrow`, `WindowGrows`), and a refusal of
the loop is an error of the views' accounting and the other way round (`InvoiceRefusal`, `ExpiryRefusal`,
`RepeatedIsDuplicated`). Books that tie out without sharing all they earned among tokens are an error of the views' tokens
(`TokensAgree`): on the calendar there is nothing an invoice earns that they do not look at. What the views refuse of
themselves (`CoreErrors`) is no part of the agreement. Sums
are folds over a set in an order that is chosen; that the order does not matter (`SumOfAny`, from which `SumGrows` and the
rest follow) is proved by induction, with sets of numbers in the place of the predicate that the library's theorems want
(`InductiveSet`, `FiniteInduction`). The hypothesis `ServiceIsOnCalendar` says that no service begins before the first
month of the stream. It is needed: the cutover run is the counterexample without it, and the documents of the other run
satisfy it. Assumed is `IdentitiesAssumption`: activity IDs are unique, and a line of a subscription has a name of its own.

`CommitmentsAreAlwaysSpentInOrder` (`CommitmentsAreSpentInOrder`) rests on that agreement, under the same hypothesis. Its
invariant `CommitInv` adds `CommitIsSpentOnce` to `AgreeInv`: what the lines of a contract hold of the deferred commitment
and what is left of it cancel once every service is over, and before that no more is left than they hold. It is restated as a sum
over lines (`SpentOnce`), and each turn of the loop fills the blank lines of one document, which adds their sum
(`PartAdds`, `RowFunds`). That sum is the draw: the cells of a line are differences of cumulative entitlements, so they
telescope (`RowTelescopes`) from the month before the service (`DayHasMonth`) to the horizon, and rounding keeps the
cumulative ones between nothing and the whole (`RoundedIsWithin`). That a late invoice is local is then a fact about the
views: the draw of an invoice depends on the earlier ones of its contract only (`DrawStays`, `SpentStays`, `LateIsLocal`).
Assumed is `CalendarAssumption` too: the months reach back to everything that is dated, as those of the code do, which
finds the month of any day.

The module extends `MCRecognition`, whose instance `Metrics` is the metric runs, and proves of it `ReceiptsAlwaysReplay`
(`ReceiptsReplay`) and `AttributionIsAlwaysMinimal` (`AttributionIsMinimal`), for any events, versions of the code,
definitions of rows, invariants of a report, callers and bounds. The invariant `MetricsInv` has two halves. Of the runs:
a recorded run is what its own artifacts make of a prefix of the stream (`IsMetric`), which no later event changes
(`SnapshotStays`), and a restatement is the bridge of two recorded runs that its artifacts can perform (`IsBridge`).
Of the commands under way: what one knows is good *if the working tree is still the one it began with* (`CallHolds`), so
an edit costs it the hypothesis and the second look at the artifacts restores it: that is the look the mutation
`SealUnseen` leaves out. For the loop over the late documents the invariant says that the sets tried come before all
others, that a row has the first of them that explains it or waits, and that none was tried after the last row was
resolved (`Progress`). Hence the loop, which stops early, ends with the attribution that `Restatement` defines without
one (`EvaluationEnds`). The order of the sets, by size and then by their members, is a total one on finite sets of
numbers (`PrecedesIsOrder`, `PrecedesIsTransitive`), and has a first element in each (`FirstIsFirst`); that all late
documents together explain the newer run makes a cause exist (`CausesAreMinimal`). Assumed is that document groups are
numbered (`DocumentsAreNumbered`: they stand for IDs, which the code sorts), and that no edit is undone within a command.

**`TrialSuiteProofs`**: `TypeCorrect`, `LaunchesAlwaysFit`, `MeasuredIsAlwaysComplete`, for any drivers, number of trials,
cap and allowance. Only the driver that made the directory is past `MakeRoot` (`OneOwns`); it launches one trial after
the other (`LaunchedBehind`) and goes on only when the success of the last one is in the ledger, so a trial that runs
proves its predecessors recorded (`SuccessIsRecorded`). What a trial directory holds comes from a worker that was
launched once and is sealed for good when it ends (`LeftByAWorker`), whence what a report keeps stays true
(`KeptIsSealed`) although it reads file after file. That the launches fit the allowance is the check of the plan, which
charges one cap for each of the trials. `PairImplementsSuite` proves the refinement, that each step of the detailed
worker is one of `TrialSuite` or a stutter, and so carries all three over to it. `PairsAreAlwaysBacked` (`PairsAreBacked`) is
of the detailed worker alone. Each derivation, a projection or a query, is made of the rows and of the artifacts that are
there when it runs. No edit is undone, so that while the source stands frozen all that was derived is of the frozen source
(`OnFrozen`), and while the exports stand pinned all of it was made by the pinned code (`ByPinned`): `Clean`. The last look
at the source comes behind the last derivation, and `export_postflight` behind that; a pair that passed both keeps the two
facts whatever is edited later (`Passed`). The comparison is of those outputs (`Compared`),
and each job the recorder counted is attributed to the side whose stage ran it (`Accounted`).
`ChallengeAlwaysHolds` (`ChallengeHolds`) is of the challenge, for any captured rows, strays, graders, answers and
destinations; it assumes that the captured rows are finitely many and that `None` is no grader, publication or scorecard
(`ValuesAreApart`). Its invariant has two halves. `FixtureHolds`: what a gate decided was decided of a prefix of the source,
up to its watermark, and the source only grows, so that the gate decides it again (`SeenStays`, `KeptStays`); what each
stage of `prepare` establishes therefore stands at the later ones (`Prepared`), and for good once challenge.json points to it (`Pointed`).
`GradingHolds`: the grader that holds the lock has read the ledger as it still is, since from the pointer on nobody else
appends, so none is refused; and a scorecard is that of the grader which made the directory (`Scored`).
`SealedIsAlwaysTrue` and `ProbesAreAlwaysBounded` (`SealedIsTrue`, `ProbesAreBounded`) are of the denial probes, for any roles,
actions and ceilings, if both are named once and copy_overwrite is among the actions, as ROLES and ACTIONS are
(`NamedOnce`). The invariant `DenialsInv` says that the cases are the matrix so far and only what could be run was run
(`Follows`), that an attempt which was permitted shows in a case that is no refusal (`Tells`), whence a whole matrix of
refusals was permitted to nobody (`RefusedIsWhole`), and that after an effect the source shows it and the run has stopped,
or is about to (`Unharmed`). That the reservation suffices is counted: each query is for a pair of a case and a purpose not
paid for before (`Paid`), and these pairs inject into the product that `Reserved` multiplies out (`PayableIsReserved`).

## 6. Only model-checked

- Liveness (`PendingIsCompleted`), which the prover cannot handle under fairness.
- `RehearsalTellsTheTruth` and `ScriptIsFollowed` are about one script of registered cases: to run through it is to check
  it for all there is. (`ScriptIsFollowed` also evaluates every case at every position, with functions built by `@@`,
  which the prover does not expand.)

## 7. Not modelled

- Inside the modelled parts: hashes, signatures, canonical JSON, file permissions and paths (a check of them is a
  choice that may refuse); SQL texts; identity tokens and protocol-buffer encoding of the gateway; wording of errors;
  loss of power (fsync). Scores of a diagnostic and timings are choices.
- `provision`, `reference.py` and the byte budget of a query client (`client.py`): a call that runs out of it dies. Two
  state files for one table: the docstring of `writer.py` assumes one per binding.
- Of the metric engine and the archives: packs, sensitivity reports, application contexts and runtime versions; the
  checks of file hashes when a run is read back, which hold unless somebody edits the files. Of the evidence bundles:
  definition history and the files of a bundle. Of the evolution trial: `prepare` and the measurement itself.
- Of the acceptance experiments: checks of the deployment and of granted permissions, the form of each request, the
  deletion of disposable resources. A probe that finds the code edited is a refusal like another.
- Of the challenge: the changed files that `verify` refuses, and the replay of a score. Of the reporting application: the
  rendering of reports. Of usage: the view of gaps and the layout.
- Customer identity, the amounts of tokens (that they share what was earned is modelled by whether there are any), seats
  and compute of the comparisons and views: the same shape as the books, in SQL.
- Event and catalog validation, learning evaluation, signatures, SQL compilation and baselines
  (`compiler.py`, `baseline_sql.py`), demos, synthetic data, release and command line: pure functions or one sequential
  pass; their difficulty is in values, which tests reach better.
- Provisioning, parity and inspections of a pull request: scripts against a remote service without state of their own.
- `record_process` (`tl/receipts/process.py`): one read and one append without a lock, see the observations.

## 8. Plan

Done, in this order: Journal (proved) → StreamStore (proved) → Gateway (proved) → JobRecorder (proved) → TrialSuite (proved) →
Admission and EvolutionTrial (proved) → LearningTrial (proved) → Writer (proved) → Books and Recognition (proved) →
Restatement and MetricRuns (proved) → PairedTrial in the place of the suite's worker → UsageImport with the application root (proved) →
DenialProbes (proved) → LearningEvents, AdmissionRehearsal → Walkthrough (its replay proved) → GatewayAcceptance (proved) →
SourceControls, Comparisons (proved) → EvidenceBundle (proved) → Challenge (proved).

What remains, by what it would add:
1. `Journal` in the place of `AtomicLedger` under `Challenge`, and `StreamStore` in the place of one-step appends under
   `UsageImport`, on smaller instances.
2. Packs and the nested archives of packs; customer identity and seats as a second pair of implementations.

## 9. How to run it

    tlc -workers 2 -config MCJournal.cfg MCJournal      # one line per run of PROJECT.json
    tlapm JournalProofs.tla                             # and the other *Proofs modules

`PROJECT.json` lists components, runs, the source lines that each definition stands for, the faulty variants with
the property that detects each, the findings, the hazards and the theorems.
