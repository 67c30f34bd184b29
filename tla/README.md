# Verification of extra-cli

This directory holds TLA+ specifications of the parts of extra-cli that several
processes share. On the data plane: the durable crawl queue with its workers,
the recurring scheduler that feeds it, and the resilience pipeline that turns
one crawl into stored records, evidence and a watermark. On the commercial
plane: the authority that serialises its mutations, the contact cycle that runs
under it, the batch queue of contact discovery, and the continuous refresh of
target-fit decisions. TLC checks small instances (`tlc -config X.cfg M`), TLAPS
proves theorems for every instance (`tlapm M.tla`). Paths below are relative to
the repository; `PROJECT.json` maps every definition to its lines.

## 1. The system and its inventory

extra-cli collects Brazilian public-procurement data, keeps it in PostgreSQL
and derives coverage, reports and commercial work lists. The production path is

    scheduler (timer, every 15 min)      scripts/crawl/scheduler.py
        | enqueue(pair, binding, hour)
        v
    crawl queue (PostgreSQL)             scripts/crawl/runtime_queue.py
        | claim / heartbeat / finish         + migrations 079, 087
        v
    worker processes (systemd units)     scripts/crawl/worker.py
        | run_cycle(source, target, window, run_id)
        v
    resilient cycle                      scripts/ops/resilient_cycle.py
        | run_source(adapter, request)       (also started by timers)
        v
    resilience pipeline                  scripts/crawl/resilience/*.py
        fetch -> raw -> normalize -> database -> evidence -> watermark

and, on top of the contracts that the crawls store, the commercial plane:

    commercial authority (flock + authority.json)   scripts/ops/confenge_commercial_mutex.py
        | one operation at a time, its stages in order:
        |   refresh -> reconcile -> contact -> feed
        v
    contact cycle (stage "contact")                 scripts/ops/confenge_contact_cycle.py
        | enqueue cohort, wait, publish, export, promote the link
        v
    contact discovery batch queue (PostgreSQL)      scripts/decision_unit_intelligence/batch_queue.py
        | claim / heartbeat / finish                    + migration 093
        v
    contact workers                                 .../batch_worker.py, batch_outcomes.py

    contracts --- change detection ---> target-fit dirty queue ---> target-fit workers
                 confenge_target_fit/cdc.py     store.py                worker.py
                 daily sweep: reconcile.py

| Component | State it keeps | Operations | Shared with | What is hard |
|---|---|---|---|---|
| Crawl queue | `crawl_jobs`, `crawl_job_attempts`, `dlq_entries`, schedule rows | enqueue, claim (with reclaim of expired leases), heartbeat, finish, requeue, replay/resolve of dead letters | workers, scheduler, operators | leases that expire under a live worker, fencing by owner name, retry budget kept in a snapshot, dead letters that outlive requeues |
| Workers | the claim in memory, a heartbeat thread, `shutdown_requested` | poll, execute, report, SIGTERM | queue | crash between claim and report, restart under the same id, stop during execution |
| Scheduler | `crawl_entity_source_schedule` | reconcile all pairs in one transaction | queue | recheck against due window, binding changes while a job runs, one pair's conflict rolls back all |
| Resilience pipeline | directories of JSON files: page and run checkpoints, stage ledger, canonical files, evidence, watermarks, dead letters; the database | fetch page loop, run_source | workers and timers running at once | a crash between any two of a dozen writes, resumption, two runs of one scope |
| Resilient cycle | none of its own; reads checkpoints and dead letters | select windows, replay, run_source per window | pipeline | replay of stale entries, crowding out |
| Circuit breaker, request budget | JSON files | allow, success, failure; consume | all processes | read-modify-write without a lock, half-open probes |
| Commercial authority | a flock, `authority.json` with the operation, its stages and the operations before it | acquire a stage, complete, abort, recover a stale claim, abort an open cycle | every mutation of the commercial plane | a crash releases the lock and leaves the record; ids that must never run again; stages in order |
| Contact cycle | `cycle-state.json`, snapshot, projection directories, the link `current` | run a cycle, resume it | batch queue, authority | dies between two effects; a link read hours before it is replaced |
| Contact discovery queue | `contact_discovery_*` tables in PostgreSQL, one output file per account | enqueue, claim (with reclaim), heartbeat, finish, cancel, retry, publish | batch workers, coordinator, operators | leases that expire and are revived, limits counted at claim time, files outside the transaction |
| Target-fit queue | `confenge_target_fit_dirty`, current decisions, the detection's watermark | detect, sweep, claim, process, reclaim, requeue | workers, timers, operators | locks that expire under a live worker, two claims of one snapshot, changes the detection does not see |
| Factory spine, command center jobs | run and stage records | start, cancel, recover | operators | cancellation racing completion, restart |
| Process documents | a JSON queue under a file lock | select, record attempt | daily timer | capacity, sticky failures |
| Locks | flock / O_EXCL / advisory locks | acquire, release | everything above | stale lock files |
| Registry, activation, decision memory, Warmbly bridge | pointer files, checkpoints, append-only tables | activate, roll back, publish, record | operators | mostly sequential; atomic replacement |
| Coverage, reports, matching, national coverage, crawlers, front end | results only | batch computations, parsing, layout | database | data, not control |

Correctness, component by component:

* **Queue and workers.** One open attempt per running job and it is the lease
  owner's; a report is accepted only from the current holder; only the holder
  ends a live lease; the limit of a domain holds; terminal failures are never
  lost and are never early; expired leases are recovered; every job settles.
* **Scheduler.** A committed reconciliation leaves a job for every due pair;
  it takes nothing from a running worker; a due pair is eventually served.
* **Pipeline.** A watermark means that the whole scope is stored and
  satisfactorily evidenced; a stage is never recorded ahead of the store it
  stands for; a checkpoint that reads as completed is stored; what broken
  attempts leave behind never prevents a later one from confirming its scope.
* **Resilient cycle** (planned). Every pending window is eventually replayed;
  a resolved dead letter was really recovered.
* **Breaker and budget** (planned). One probe while half open; the number of
  requests of a day against the limit.
* **Commercial authority.** Operations run one after the other, and one that
  ended never again; a cycle goes on in the order of its stages; all of it
  through crashes, failed writes and the operator's recoveries.
* **Contact cycle.** The published link only ever names a cohort whose jobs
  settled, whose snapshot was approved and whose directory is complete; it turns
  only to a projection merged with the one it replaces; the authority and the
  cycle's own state file agree on what is complete.
* **Contact discovery queue.** Jobs, attempts and owners change together; only
  the owner ends a live lease; limits hold; a job is given up only when its
  attempts are spent; a cohort closes; an approved snapshot stays what it lists.
* **Target-fit queue.** A detected change is in the decision once its row is
  done; a decision never goes back to older contracts; a failure is tried again
  or visible; the queue drains; changes that were missed are found.

`PROJECT.json` lists every component with its state of modelling, and every
hazard with the line where it bites and the properties that watch it.

## 2. Modules

| Module | Models | Composes |
|---|---|---|
| `LeasedWork` | the abstract specification of a queue with leases: one worker per job, no late results | |
| `CrawlQueue` | every state-changing method of `CrawlQueue` and the life of a worker process | implements `LeasedWork` (`INSTANCE ... WITH`) |
| `CrawlQueueProofs` | theorems about `CrawlQueue` | extends `CrawlQueue` |
| `CrawlScheduler` | `reconcile_schedule()` | extends `CrawlQueue`: same tables, same workers, one more process |
| `ResiliencePipeline` | `PNCPAdapter.fetch()` and `OperationalPipeline.run_source()` over their stores | |
| `PipelineRecovery` | the deployed pipeline on a host whose interruptions end | extends `ResiliencePipeline` |
| `CrawlSchedulerProofs` | theorems about `CrawlScheduler` | extends `CrawlScheduler`, `CrawlQueueProofs` |
| `ResiliencePipelineProofs` | theorems about `ResiliencePipeline` | extends `ResiliencePipeline` |
| `PipelineRecoveryProofs` | that it is the deployed pipeline, and what its attempts confirm | extends `PipelineRecovery`, `ResiliencePipelineProofs` |
| `SerialOperations` | the abstract specification of the authority: one operation at a time, none twice | |
| `CommercialAuthority` | lock, record, recovery commands and the processes of a stage | implements `SerialOperations` (`INSTANCE ... WITH`) |
| `CommercialAuthorityProofs` | its invariant and the refinement | extends `CommercialAuthority` |
| `CommercialCycle` | `run_cycle()` as the body of the stage `contact` | extends `CommercialAuthority` |
| `CommercialCycleProofs` | that the cycle implements the authority, and its own theorems | extends `CommercialCycle`, `CommercialAuthorityProofs` |
| `ContactDiscoveryQueue` | the contact batch queue, its workers and the coordinator's publication | implements `LeasedWork` |
| `ContactDiscoveryQueueProofs` | theorems about it | extends `ContactDiscoveryQueue` |
| `TargetFitQueue` | detection, sweep, dirty queue and target-fit workers | |
| `TargetFitQueueProofs` | theorems about it | extends `TargetFitQueue` |
| `MCCrawlQueue`, `MCCrawlScheduler`, `MCResiliencePipeline`, `MCPipelineRecovery`, `MCCommercialCycle`, `MCContactDiscoveryQueue` | constants and symmetry for TLC | |

### LeasedWork

The promise that the crawl queue and the contact queue have in common, whatever
rows, attempts and retries they are made of. A job is in the hands of one worker
at a time; a lease is taken back only once it ran out; a worker that lost its
lease goes on without knowing it, and what it reports then counts for nothing;
after every claim the leases of a pool are within its limit, although leases run
out unseen and are renewed late.

| Variable | `CrawlQueue` | `ContactDiscoveryQueue` |
|---|---|---|
| `lease` | the owner of a running row (`Holder`) | the same |
| `live` | running rows with time left (`LiveLeases`) | running rows whose `live` is set |
| `task` | the key of the process' claim (`Task`) | the account the process works on |
| `done` | rows that succeeded (`Succeeded`) | the same |
| pools | the domains, with `DomainLimit` | the one backend, with `BackendLimit` |

A claim is a `Take` or, when it admits nothing, a `Reclaim`; `heartbeat()` is
`Renew`; a `finish()` that is accepted is a `Report`, one that is refused an
`Abandon`, as is a crash; the clock is `Lapse`; requeues, the scheduler and the
retries of operators are `Reopen` or a stutter. The domain limit of the contact
queue is a property of its own: a job there changes its domain, and a pool here
is fixed. The target-fit queue does not implement `LeasedWork`:
`mark_dirty_done()` closes a row by its id whoever holds it, and the lock on the
company orders the workers instead.

### CrawlQueue

Every method of class `CrawlQueue` runs in one PostgreSQL transaction, so each
is one action; `Claim` includes the whole of `reclaim_expired()`, which
`claim()` calls first, also when it admits nothing (`ClaimNothing`).

| Variable | Code |
|---|---|
| `job` | `crawl_jobs`, one row per idempotency key `[pair, binding, window]`; `"absent"` is no row. `lease` and `wait` are the ticks left before `lease_expires_at` and `next_run_at`; `ref` is `dlq_entry_id`: null, or pointing at an open or closed entry |
| `attempts` | the rows of `crawl_job_attempts` still `running` |
| `dead` | jobs with an open row of `dlq_entries` |
| `schedule` | `crawl_entity_source_schedule` |
| `pc`, `claim`, `outcome`, `stopping` | a worker process: where it is, its `ClaimedJob`, the executor's result, `shutdown_requested` |

The process is part of the model because the hazards lie between two
transactions: `ExecutorReturns` and `Finish` are separate, leases may expire
before, between and after them, `Crash` may come anywhere, and `Restart`
brings the process back *under the same worker id*, which is what
`extra-crawl-worker@.service` does with `--worker-id worker-%i`. Attempt ids
are recycled once no row and no process uses them. `OneMore` lets
`attempt_count` grow to `MaxAttempts + 1` and no further: beyond it no test
distinguishes the values (SIGTERM requeues without looking at the budget).

Abstracted: cursors, metrics, error texts, the pressure checks that only
decide not to call `claim()`. `claim()` is one atomic step although it runs
under READ COMMITTED: its advisory lock serialises it against other claims but
not against an update of the scheduler between its ranking and its row lock.
A heartbeat that is stuck in the database when `stop()` gives up joining it
has here the effect of a late `Heartbeat` only.

### CrawlScheduler

`Reconcile(v)` is the whole transaction for a view `v` of the universe (binding
and applicability of every pair): recheck of terminal jobs, cancellation of
queued jobs of other bindings, upsert of the schedule rows, and the jobs for
the window of the current hour. It exists as a step only when no statement
raises; a violation of `uq_crawl_jobs_active_pair` rolls everything back. The
index is checked after the rechecks and at the end of the transaction: the
only statements between them cancel and insert. Views range over all changes
of applicability and over newer bindings; a binding hashes the latest coverage
attempt (`scheduler.py:133-137`), so an old one does not return.

### ResiliencePipeline

Each write to a store is a step of its own, so that `Dies` (the process is
killed) and `Fails` (a write raises, which `run_source()` catches and sends to
the dead letters) may come between any two. Two writes are merged where no
other process reads what is between them: a ledger entry with the promotion of
the pages that follows it, and the last checkpoint, ledger and dead-letter
writes in `Complete`.

| Variable | Code |
|---|---|
| `page` | page checkpoints: status, whose raw records, `pages_expected`. The scope names window, modality and page, *not* the target (`adapters.py:183-186`) |
| `ledger` | the last stage of a run in `StageLedger`, and whether `db_committed` was among them |
| `canonical`, `db` | the canonical file of a run; the database (an idempotent upsert) |
| `evidence`, `checkpoint`, `watermark`, `dlq` | the stores of `state.py` |
| `pc`, `run`, `fetched`, `stored` | a process in `run_source()` and its local variables |

`Begin` is the head of `run_source()`, with every way to resume a run from its
ledger. `Spec` lets any run id be tried again, as `run_cycle(run_id=...)` and
the repository's tests do; `DeployedSpec` gives each attempt a new run id, as
`claim()` and `new_run_id()` do. Since ids are finite here, `Forget` recycles
those that no process runs and no watermark names: what such a run left in its
ledger and canonical file is never read again.

`PipelineRecovery` adds one variable to the deployed pipeline, `calm`: from the
step that sets it, no request fails or is denied, no store raises and no process
is killed. It promises no scope another attempt, because the code promises none:
the scope of a timer has the hour of its observation in it
(`resilient_cycle.py:163-173`, `276-277`), so that the next timer has another
scope, and a worker tries a job as often as its retry budget says.
`AttemptConfirms` asks that an attempt which does begin after that step succeeds
on top of whatever it finds. Until that step, and it need never come, everything
`DeployedSpec` allows can happen, so the invariants of the deployed pipeline are
checked in the same run.

Abstracted: one modality, a total that every answer carries, a source whose
contents do not change, live mode; `"failed"` stands for the fetch statuses
`partial`, `rate_limited` and `error`, which the code treats alike (of a page
checkpoint, for the last two: a partial page may become `empty_confirmed`, the
others may not); the circuit
breaker and the request budget are the nondeterministic refusal `Denied`;
corrupt raw files, `RunHistory` and the adapters of CIGA and SC Compras are
left out.

### SerialOperations, CommercialAuthority, CommercialCycle

`acquire_stage()` takes a kernel flock that the claim it returns keeps until its
`with` block ends, and `authority.json` is only ever replaced atomically, so
that reading the record, deciding and writing it is one action; what may come
between two of them is a crash, which gives up the lock and keeps the record.

| Variable | Code |
|---|---|
| `record` | `authority.json`: operation, reserver, scope, status, active stage and its owner, stages, and the tombstones of earlier operations |
| `lock` | the holder of the flock on `authority.lock` |
| `pc` | a process: `out`, `running` its body, `mutated` (the body succeeded, `complete()` is still to come), `leaving` (the lock is given back, the process lives, which matters to `_owner_is_live()`) |
| `log` | the bodies that were entered, a history variable |

`_atomic_json()` may raise. `WriteFails` is an error in `abort()`, or in both
`complete()` and `abort()`: the lock goes, the record stays `ACTIVE`. When only
`complete()` fails to write, the claim's own copy of the record has its stage
closed already, and the `abort()` that follows writes that copy:
`AbortsCompletion` leaves an aborted operation whose stage is `COMPLETED` (the
code also closes a stage named `"None"`, which nothing asks for). An error after
the rename, when the directory is synchronised, ends in one of these records or
in that of `Complete`. Not modelled is the same error in `acquire_stage()`, which
leaves an `ACTIVE` record behind and enters no body. `RecoverStale` and `AbortOpen` are the
operator's commands with the guards of the code. `SerialOperations` promises
what the comments of the authority do: an operation runs until it ends, never
again after that, no second one in between, and no stage of it twice. The
refinement mapping takes the operation of an `ACTIVE` or `OPEN` record as the
current one and the tombstones plus a terminal record as the spent ones.

`CommercialCycle` refines the body of the stage `contact`: `Begin` to `Return`
are the effects of `run_cycle()` in the order of the code, each one a step, so
that `Crash` may come between any two; `Fail` is any of them raising, and what
the except clause writes; the `Abort`, `WriteFails` or `Crash` that follows is a
step of its own (phase `"failed"`). `Begin` may also be preceded by one of those:
the head of `run_cycle()`, before its `try`, may raise. `Settle` stands for the
batch queue, which `ContactDiscoveryQueue` models job by job; a settled cohort
stays settled, although an operator may reopen jobs of it by `retry()`.
The other three stages are bodies without a state of their own.

| Variable | Code |
|---|---|
| `state` | `cycle-state.json`: status, cohort, operation id |
| `enqueued`, `settled`, `approved` | cohorts with jobs, with terminal jobs only, with an approved snapshot |
| `exported` | projection directories, with the projection each was merged with |
| `current` | the cohort the link `contact-discovery/current` names |
| `run` | the local variables of `run_cycle()` in each process |

### ContactDiscoveryQueue

Each method of the queue is one transaction and one action; claims are
serialised by an advisory lock and take expired leases back first. `WriteOutput`
is an action of its own: `persist_outcome()` writes the file before, and
outside of, the transaction of `finish()`.

| Variable | Code |
|---|---|
| `job` | `contact_discovery_jobs`; `sited` says whether `domain_key` is the discovered site's, `live` and `due` stand for the two timestamps, `output` for the stored hash |
| `open` | attempts with status `RUNNING` |
| `circuit` | `contact_discovery_backend_circuit` |
| `file` | whose result the output file of an account holds |
| `proc` | a worker: down, idle, running a job, or with its file written |
| `approved` | whether a snapshot of the cohort was approved |

Abstracted: one cohort and one backend; the order of candidates (any may come
first); the kill switch and the admission probe, which only delay; `resume()`,
the upsert of cohort metadata and the contact projections.

### TargetFitQueue

The two statements of the detection and its inserts run in one READ COMMITTED
transaction and are two steps (`Detect`, `EnqueueDetected`); a claim reads its
snapshot in `BeginClaim` and updates in `Claim`, so that two claims may work
from one snapshot; `process_one()` reads in `TakeItem` and publishes in
`FinishItem`, `RefreshFails` or `ItemFails`, between which locks expire, rows
are reclaimed and other workers run. A claim takes the first `Batch` rows of its
order as a set, and the update returns them in any order, as `RETURNING` does.

| Variable | Code |
|---|---|
| `contract` | per company, the contents (an input fingerprint) and `MAX(ingested_at)` |
| `row` | `confenge_target_fit_dirty`, by id |
| `watermark`, `cdc` | the control row of the detection, and a detection under way |
| `published` | the current decision of each company and the contents it was computed from |
| `worker` | a worker process with the batch in its hands |

Abstracted: active mode only, one classifier version, attempts that saturate at
their maximum, the sweep as one step, and the tables that only reports read.

## 3. Runs

| Run | Specification, instance | Shows |
|---|---|---|
| `queue_admission` | `CrawlQueue!Spec`; 2 pairs of one domain of limit 1, 2 workers, budget 2, operators | `TypeOK`, `AttemptsMatchLeases`, `HolderIsCurrent`, `DomainLimitRespected`, `FailuresAreDeadLettered`, `FailedSpentItsBudget`, `LeaseIsExclusive` (1.9 million states up to symmetry) |
| `queue_liveness` | `UnattendedSpec`; the same without operators | `ExpiredLeaseIsRecovered`, `EveryJobSettles`, and the refinement `ImplementsLeasedWork` |
| `scheduler` | `SchedulerSpec`; 1 pair, 2 bindings, 1 worker, 2 hours, budget 2, no operators | `SchedulerTypeOK`, `FailuresAreDeadLettered`, `LeaseIsExclusive`, `CommitServesEveryDuePair`, `ImplementsLeasedWork` |
| `scheduler_wedge` | `BootstrapSpec`; 1 pair, 2 hours | **violation** of `DuePairIsServed` |
| `pipeline_deployed` | `RecoverySpec`; 1 scope of 2 pages, 2 processes, 2 run ids | `WatermarkCoversItsScope`, `CompletedIsStored`, `AttemptConfirms` |
| `pipeline_resumed` | `Spec`; 2 targets, one with more pages than `max_pages`, one empty | `TypeOK`, `EvidenceBeforeWatermark`, `LedgerFollowsTheStores` |
| `pipeline_two_targets` | `DeployedSpec`; 2 targets of one window | **violation** of `WatermarkCoversItsScope` |
| `commercial_cycle` | `CycleSpec`; 3 operations, 2 owners, 2 processes, 3 cohorts | `CycleTypeOK`, `CycleContinuesInOrder`, `CurrentIsComplete`, `CompletedStageReturned`, `PromotesOnItsPrior`, and the refinement `RunsOperationsSerially` |
| `contact_queue` | `ContactDiscoveryQueue!Spec`; 2 accounts of one site, 2 workers, budgets 2 and 1 | `TypeOK`, `AttemptsMatchLeases`, `DomainLimitRespected`, `DeadSpentItsAttempts`, `OnlyTheOwnerEnds`, `CohortCloses`, `ImplementsLeasedWork` |
| `contact_snapshot` | the same with 1 account | **violation** of `ApprovedSnapshotIsImmutable` |
| `target_fit` | `WorkedSpec`; 1 company, 2 workers, 2 attempts, one insert and one update | `TypeOK`, `FailedDecisionIsRetried`, `NeverPublishesOlderContent`, `QueueDrains` |
| `target_fit_missed` | `TimedSpec`; 1 company, 1 worker | **violation** of `MissedChangesAreFound` |

### Bounds, and why they are enough

* *Two workers, two processes*: every hazard is between a holder and one other
  party: another worker, its own later incarnation, an operator, the scheduler.
* *Two pairs in one domain of limit 1* exceed the limit if anything does.
  The theorems lift this to any number.
* *`MaxAttempts`* 2 gives one retry, after which an attempt is the last:
  recovery of an expired lease ends in a retry or in a failure, and an older
  snapshot of the count differs from the row's. The code compares only with the
  limit.
* *`Lease`* 1 tick: a lease is live or expired; renewal brings it back to live.
* *`AttemptId`* 3 or 4: one open attempt and one stale claim per worker at the
  least, and a fresh id for the next claim.
* *`MaxBatch`* bounds the jobs of one operator command: 1 in `queue_admission`,
  where commands follow each other in any order. It is 0 in `scheduler`, where the
  operators' commands then do nothing, and has no meaning in `queue_liveness` and
  `scheduler_wedge`, whose specifications have no operators. Two bindings and
  operators together are beyond TLC's reach in five minutes; the theorems have
  both at once.
* *`MaxHour`* 0 or 1: jobs of the current and of the previous hour.
* *Two pages*, or two pages and `max_pages` 1: the first, the last and a
  missing page; a fetch cut short by the cap. A target without pages is the
  confirmed-empty path.

* *Three operations* (`commercial_cycle`): the current one, the one before it,
  and one that only the history still remembers. *Two owners* and *two
  processes*: the reserver of a cycle and a stranger, the claim's holder and a
  rival. *Three cohorts*: the projection the link names, the one that replaces
  it, and a cohort left behind by a crash.
* *Two accounts of one site* (`contact_queue`) meet in one domain of limit 1
  only after a site was discovered, which is when a job changes its domain
  while it runs. Budgets of 2 and 1 give a retry and a first attempt that is
  the last. `CircuitThreshold` 1 opens the circuit at the first failure;
  `MaxCount` bounds how often an operator retries a job by hand.
* *One company* (`target_fit`): locks, reclaims, claims of one snapshot and
  publications race per company, and `process_one()` has a transaction per
  company. `MaxChanges` 2 with `MaxInserts` 1 is an insert, which the detection
  sees, and an update in place, which it does not. `MaxRows` 1 bounds what the
  sweep and the operator add, next to the rows of the detection. The safety
  properties were also checked on an instance with two companies and batches of
  two (1.75 million states), and on one with three changes of which two are
  inserts (2.96 million states). `DoneRowIsCovered` takes two inserts of one
  company to be violated: a worker that read the contracts of the first insert
  publishes after another one closed the row of the second, as happens there
  when the advisory lock is left out. That instance is too large for liveness,
  so no run lists `DoneRowIsCovered`; it is proved.
* *The refinement of `LeasedWork`* is checked where the instance is small
  enough. The instance of `queue_admission`, with the operators, was checked
  once and implements it too; that run leaves it out for its time. The backend
  of `contact_queue` has a limit of 2 for its two jobs, which cannot be
  exceeded; an instance with limit 1 was also checked (268 016 states), and the
  theorem is for any limit.

`SYMMETRY` is used in `queue_admission` for workers and pairs and in
`commercial_cycle` for operations, owners and processes, whose properties only
compare them. Deadlock is checked in the runs of the two queues with leases,
of the scheduler and of target-fit. The other cfgs say `CHECK_DEADLOCK FALSE`:
once every scope has its watermark, every operation is spent or the cohort is
approved, there is nothing left to do and the system rests.

### Fairness, and why the code justifies it

* *Queue* (`Fairness` in `CrawlQueue`). An idle worker polls for ever
  (`worker.py` main loop); an executor returns or its process dies; a process
  with a result reports it; a stopped unit is started again
  (`Restart=on-failure`, `RestartSec=30`); the clocks advance. `Claim` and
  `ClaimNothing` are strongly fair because a worker that crashes again and
  again is not continuously able to poll. Two limits of this assumption: a unit
  that exceeds `StartLimitBurst` stays down until an operator acts, and a unit
  that ends cleanly after SIGTERM is restarted by a deployment or operator only.
  *Heartbeats are not fair*: the database may be out of reach for longer than a
  lease. `EveryJobSettles` has the premise that workers are not stopped for
  ever and again; without it the property is false, since an interrupted job is
  requeued whatever its count.
* *Scheduler* (`BootstrapSpec`). The timer fires every 15 minutes, so a
  reconciliation that can commit does, and hours pass.
* *Pipeline* (`RecoveryFairness` in `PipelineRecovery`). A process in
  `run_source()` that is not killed goes on, and nothing else: no run has to
  begin, no scope is tried again, the interruptions need not end. `AttemptConfirms`
  speaks of the attempts that do begin after they ended. It is stated for fresh
  run ids: resumed under the same run id, an empty scope interrupted after
  `normalized` can never be confirmed (`pipeline.py:139`: a resumed success
  without records becomes partial).
* *Contact queue*. Leases run out, retries fall due, the circuit cools down; a
  worker with a result reports it. `Claim` of a job is strongly fair: claims are
  ordered by priority and `next_run_at`, so a job that stays due comes first at
  last. `Start` assumes what the crawl workers' fairness does: the unit is
  started again, by systemd or by an operator once `StartLimitBurst` is used up.
  Heartbeats are not fair.
* *Target-fit* (`WorkFairness`). Workers run, lock times and backoffs pass.
  `Claim` and `TakeItem` are strongly fair: an item is not lost to a concurrent
  claim every time, because cycles of two processes do not stay in step. The
  counterexample of `target_fit_missed` also assumes the timers
  (`TimerFairness`: the refresh every 30 minutes, the sweep every day), and still
  exists.

### What disagrees with the documentation

1. **`scheduler_wedge`** (`scheduler.py:342`). A pair's blocked or failed job is
   rechecked in the hour in which the pair itself is due. The requeued job and
   the new window's job are two active jobs of one pair; the index rejects the
   second, `enqueue()` absorbs conflicts of the idempotency key only, and the
   reconciliation of *all* pairs rolls back, again at every later timer. The
   story promises that every applicable pair is queued, running or explained.
2. **`pipeline_two_targets`** (`adapters.py:183`). Page checkpoints do not name
   the target of the request. The second municipality crawled for a window
   reuses the raw pages of the first and gets satisfactory evidence and a
   watermark without a request of its own. This one is reached by fresh run ids.
3. **`contact_snapshot`** (`batch_outcomes.py:317`). The output file of an
   account is written before `finish()` checks the lease, and its path names
   neither attempt nor owner. A worker that lost its lease replaces the file of
   the attempt that succeeded, also after a snapshot with its hash was approved
   as immutable.
4. **`target_fit_missed`** (`cdc.py:41`). The detection looks at `ingested_at`,
   which the upsert of a stored contract leaves alone, and the daily sweep
   compares no fingerprints. A company whose contract changed in place keeps its
   old decision for ever, although the document promises the detection of changed
   contracts and a daily sweep for missed ones.

Smaller ones are among the hazards, each with a note: a worker that lost its
lease goes on crawling a job that another one has claimed (`worker.py:103`); a
run that was partial counts as complete when it is resumed under its own id
(`pipeline.py:139`), which deployed callers do not do; an unfinished cohort is
never resumed after a restart (`confenge_contact_cycle.py:187`), which
`CommercialCycleProofs` proves as `NothingToResume`; `acquire_stage()` compares
the order of stages only with those of an `OPEN` record, so a new cycle may begin
with any of its four stages, and one that began behind `refresh` is completed at
once (with `feed`) or goes on no more, because its completed stages are no prefix
of the order, until an operator aborts it; and a job whose cancellation was
requested while it ran may stay `RETRYABLE` for ever.

## 4. Proofs

All theorems hold for any values of the constants that satisfy the assumptions
named below; TLC evaluates every assumption in a passing run.

### The crawl queue

`CrawlQueueProofs`, for any sets of pairs, windows, domains, workers and
attempts and any lease, delay, budget and limit:

| Theorem | Statement |
|---|---|
| `TypeCorrect` | `Spec => []TypeOK` |
| `AttemptsCorrect` | `Spec => []AttemptsMatchLeases` |
| `HolderCorrect` | `Spec => []HolderIsCurrent` |
| `FailuresCorrect` | `Spec => []FailuresAreDeadLettered` |
| `BudgetCorrect` | `Spec => []FailedSpentItsBudget` |
| `LeaseExclusive` | `Spec => LeaseIsExclusive` (an action property) |
| `DomainsCorrect` | `Spec => []DomainLimitRespected` |
| `LeasedWorkCorrect` | `Spec => ImplementsLeasedWork`: the refinement of `LeasedWork` |

Assumptions: those of `CrawlQueue` and nothing else. `LimitsAssumption`
(positive budget and lease, natural delays), `DomainAssumption` (positive
limits), `NoneAssumption` (NULL is neither a value nor a key),
`ApplicabilityAssumption`, and `FiniteAssumption` (the table is finite, needed
to count). TLC evaluates them in every run of the queue.

The argument:

* `LeaseInv` is `TypeOK`, `ProcessOK` (a process holds a claim exactly while it
  works), `AttemptsMatchLeases` and `HolderIsCurrent`. The last two need each
  other. When `finish()` closes the attempt of its claim, `HolderIsCurrent`
  says that this is the open attempt of the job; when a worker claims again,
  `AttemptsMatchLeases` with the freshness of the new id says that no stale
  claim of another process can match it. A worker restarted under the same id
  holds no claim, so it cannot pass for the holder.
* `FailureInv` is `LeaseInv` and, job by job, `FailureOK`: the two properties,
  and that a row which does not exist has no reference. `finish()` decides on
  the snapshot that `claim()` returned; `HolderIsCurrent` makes it the row's
  own count, which is why the budget theorem rests on the lease theorem.
* `DomainInv` counts *running* jobs, whereas `claim()` counts *live* ones: an
  expired lease is not counted by the admission and could come back to life.
  The claim takes all expired leases back in the same transaction
  (`ReclaimKeepsLive`), so after it running and live agree; every other step
  can only shrink the running set of a domain (`FewerRunning`).
* `LeaseExclusive` follows from `LeaseInv` step by step.
* `LeasedWorkCorrect` maps each step under `LeaseInv /\ DomainInv`. A claim
  takes back and leases in one transaction: `ReclaimedView` says that it sees as
  free just the rows whose lease ran out, and `DomainInv` that no pool is above
  its limit afterwards. The owner's name is enough to fence a report because a
  worker takes a job only without a task, and a restart leaves it none: whoever
  still has the task and the name has held the lease all along.

### The scheduler

`CrawlSchedulerProofs`, for any universe, bindings, jitters and delays
(`SchedulerAssumption`: bindings are ordered like numbers, a window is an hour):

| Theorem | Statement |
|---|---|
| `SchedulerTypeCorrect`, `SchedulerFailuresCorrect`, `SchedulerBudgetCorrect` | `SchedulerSpec => []` of `SchedulerTypeOK`, `FailuresAreDeadLettered`, `FailedSpentItsBudget` |
| `SchedulerLeaseExclusive` | `SchedulerSpec => LeaseIsExclusive` |
| `CommitServes` | `SchedulerSpec => CommitServesEveryDuePair` |
| `SchedulerLeasedWork` | `SchedulerSpec => ImplementsLeasedWork` |

A step of the queue or of the clock is a step of `CrawlQueue`, so the lemmas of
`CrawlQueueProofs` apply as they are; what is new is the transaction of the
scheduler, which `ReconciledRows` reduces to four kinds of row changes, none of
them to a running row. `CommitServes` needs a further invariant: the insert of a
due pair's job does nothing when its key exists, and if that row were cancelled
the pair would be left out. `BindingInv` excludes it: a job has the binding of
its schedule row or an older one, and a cancelled job always an older one. That no
running and no succeeded row changes also makes the transaction leave what
`LeasedWork` sees as it is.

### The resilience pipeline

`ResiliencePipelineProofs`, for any source, `max_pages` (at least 1, as
`config.py:143` enforces), scopes, runs and processes (`SourceAssumption`):

| Theorem | Statement |
|---|---|
| `TypeCorrect`, `EvidenceCorrect`, `LedgerCorrect` | `Spec => []` of `TypeOK`, `EvidenceBeforeWatermark`, `LedgerFollowsTheStores` |
| `DeployedCorrect` | the last two for `DeployedSpec`, with recycled run ids |
| `CoverCorrect` | `OneTargetPerWindow => (DeployedSpec => []WatermarkCoversItsScope)` |
| `CompletedCorrect` | `OneTargetPerWindow => (DeployedSpec => []CompletedIsStored)`: about the run-level checkpoint of a scope, from which window replay concludes that a window is no longer pending |
| `RecoveryIsDeployed` | `RecoverySpec => DeployedSpec` |
| `ConfirmedIsCovered` | the two before it, with evidence and ledger, for `RecoverySpec` |

`PipelineInv` adds what the local variables of a process know of the stores
(`ProcessOK`) and what the ledger of a run knows of them (`RunOK`), and that no
two processes have the same run. Two of its parts carry the argument. A run whose
last stage is `normalized` or earlier never reached the database, so rewriting its
canonical file falsifies nothing; and a process never works on a run that a
watermark names, so neither its canonical file nor its evidence changes any
more. The lemmas `OthersKeep` and `StepKeeps` reduce every action to what it
does to its own process and run.

`CoverCorrect`, `CompletedCorrect` and `ConfirmedIsCovered` have a hypothesis on the constants: scopes of one window
are one scope. The deployed timer satisfies it, because it passes no target
(`resilient_cycle.py:274`); without it the properties are false, and
`pipeline_two_targets` is the counterexample. `CoverInv` adds to `PipelineInv`
that a page checkpoint belongs to the one scope its window has (`PagesOK`), which
is where the hypothesis is used, and that the records in the hands of a process
are those of the pages it has read, all of them when the fetch is confirmed
(`Covers`). `PipelineInv` knows that satisfactory evidence means stored records,
so what a process promotes, the checkpoint of its scope or its watermark, is
stored in full. `PipelineRecoveryProofs` carries this over: that interruptions end
only takes steps away, so the watermark that `AttemptConfirms` promises is one
that covers its scope.

### The commercial plane

| Theorem | Statement |
|---|---|
| `AuthorityTypeCorrect`, `OrderCorrect` | `Spec => []TypeOK`, `Spec => []CycleContinuesInOrder` |
| `SerialCorrect` | `Spec => RunsOperationsSerially`: the refinement of `SerialOperations` |
| `CycleImplementsAuthority` | `CycleSpec => Spec` |
| `CycleTypeCorrect`, `CurrentCorrect`, `ReturnCorrect` | `CycleSpec => []` of `CycleTypeOK`, `CurrentIsComplete`, `CompletedStageReturned` |
| `PromotionCorrect` | `CycleSpec => PromotesOnItsPrior` |
| `CycleSerial`, `CycleInOrder` | the authority's theorems for the cycle |

`AuthorityInv` says who may hold the lock (`LockOK`: a process in its body, and
the record names it), which records exist (`RecordOK`), and how the record
accounts for the log of entered bodies (`LogOK`, `StagesWereEntered`): every logged
operation is the current one, or spent. From it each step maps to a step of
`SerialOperations` or to a stutter. `CycleInv` builds on it: at most one process
is inside `run_cycle()`, the link does not move under it, each phase knows which
effects it left behind, and the state file is of a stage that was entered, from
which `NothingToResume` follows. Assumptions: `NoneAssumption`, `NoRunAssumption`
(null is no value) and `MaxCohortAssumption`.

### The contact queue

`ContactDiscoveryQueueProofs` (`QueueAssumption`: positive limits and budgets, a
finite cohort, accounts are not sites):

| Theorem | Statement |
|---|---|
| `TypeCorrect`, `AttemptsCorrect`, `DeadCorrect`, `DomainsCorrect` | `Spec => []` of `TypeOK`, `AttemptsMatchLeases`, `DeadSpentItsAttempts`, `DomainLimitRespected` |
| `OwnerCorrect` | `Spec => OnlyTheOwnerEnds` |
| `LeasedWorkCorrect` | `Spec => ImplementsLeasedWork`: the refinement of `LeasedWork` |

`Typed` is `TypeOK`, that a process has a job exactly while it works
(`ProcessOK`) and that a cohort is inserted as a whole (`PopulationOK`).
`DomainInv` counts every running job of a domain, not only those with a live
lease, because a late heartbeat revives an expired lease that no claim has taken
back; that is enough since a claim reclaims before it counts, and a job changes
its domain only as it stops running.
`Typed` is all the refinement needs: the limit of the
backend is a guard of the claim, which counts the rows left after reclaiming, and
a process has a job exactly while it works.

### The target-fit queue

`TargetFitQueueProofs`, for any finite nonempty set of companies, any workers,
batch and detection limits, attempts and bounds:

| Theorem | Statement |
|---|---|
| `TypeCorrect`, `DoneCorrect`, `FailedCorrect` | `Spec => []` of `TypeOK`, `DoneRowIsCovered`, `FailedDecisionIsRetried` |
| `NeverOlderCorrect` | `Spec => NeverPublishesOlderContent` |

`mark_dirty_done()` asks neither for a lock nor for an owner, and locks expire
under live workers, so nothing can rest on who holds a row. `TargetFitInv` rests
on three facts instead. `DetectedOK`: what a detection saw is still in the
contracts, whose contents only grow. `LockOK`: one worker at a time is between
reading and publishing a company. `WorkerOK`: what that worker read is at least
the standing decision and at least what its row was seen with. So a publication
never goes back, and the row that it closes is covered by what it published.
`FailedDecisionIsRetried` adds that a published failure leaves a row that waits
or is dead. The lemmas on sets and sequences at the head of the module state what
`FirstOf` and the orders of a batch return.

### What is model-checked only

Liveness: temporal properties under fairness, and `ENABLED`, are out of the
prover's reach. These are `ExpiredLeaseIsRecovered`, `EveryJobSettles`,
`AttemptConfirms`, `CohortCloses` and `QueueDrains`. Every safety and
action property and each refinement of the passing runs has a theorem. No
module uses `RECURSIVE` operators.

## 5. Not modelled

See `components` in `PROJECT.json` for the reason given for each part. In
short: crawlers, parsers, matching, coverage arithmetic, reports and the front
end, by far most of the code, are data without shared control; the sequential
operator scripts have nothing to interleave with. Of the parts with shared
state, the resilient cycle, the circuit breaker with the request budget, the
factory spine, the command center's jobs and the process-document queue are not
modelled; their hazards are listed with a note.

## 6. Plan

Done: the crawl queue, its scheduler and the pipeline, the commercial authority
with its abstract specification and the contact cycle, the contact queue and the
target-fit queue, with a theorem for
each safety property of theirs. What is left,
most important behaviour first:

1. `ResilientCycle`: window selection, replay of pending checkpoints and dead
   letters, composed with `ResiliencePipeline`; what a stale checkpoint or a
   dead letter left behind after the watermark does to later windows.
2. Queue and pipeline together: the hourly job whose day already has its
   watermark, and an abstract specification of both, "a job that succeeded has
   confirmed its scope", with a refinement mapping.
3. `CircuitBreaker` and `RequestBudget`: the file-backed state shared by
   processes, replacing `Denied`.
4. The contact queue in place of `Settle`, and the ranking of `claim()` as a step
   of its own, which an update of the scheduler may follow (`runtime_queue.py:304`).
5. Factory spine and command center jobs: state machines with cancellation and
   restart.
