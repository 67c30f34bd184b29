---------------------------- MODULE CrawlScheduler ----------------------------
(***************************************************************************)
(* The recurring scheduler (scripts/crawl/scheduler.py) on top of the      *)
(* crawl queue.  reconcile_schedule() walks over every pair of the active  *)
(* universe in one transaction: it requeues terminal jobs that are due,    *)
(* cancels queued jobs of an older binding, upserts the schedule row and   *)
(* enqueues a job for the window of the current hour when the row is due.  *)
(* A statement that breaks uq_crawl_jobs_active_pair raises, nothing       *)
(* catches it, and the whole transaction rolls back, for all pairs.        *)
(*                                                                         *)
(* next_run_at is counted in hours here: the window of a job is the hour   *)
(* it was scheduled in, and WaitTick is the start of the next hour.        *)
(***************************************************************************)
EXTENDS CrawlQueue, Integers

CONSTANTS
    Jitter,        \* the stable jitter of each pair, in hours
    RecheckDelay,  \* recheck hours of each applicability
    MaxHour        \* bound: the clock stops at this hour

ASSUME SchedulerAssumption ==
    /\ Jitter \in [Pair -> Nat]
    /\ RecheckDelay \in [Applicability -> Nat]
    /\ MaxHour \in Nat
    /\ Binding \subseteq Nat
    /\ Window = 0 .. MaxHour

VARIABLE hour

schedulerVars == <<vars, hour>>

(* What load_pairs_from_database() yields.  A binding hashes the latest    *)
(* attempt of its pair, so a binding that was replaced does not come back. *)
View ==
    {v \in [Pair -> [binding : Binding, applicability : Applicability]] :
        \A p \in Pair : schedule[p] # None => v[p].binding >= schedule[p].binding}

\* Before the first coverage run every pair is applicable under one binding.
Bootstrap == [p \in Pair |-> [binding |-> CHOOSE b \in Binding : TRUE,
                              applicability |-> "APPLICABLE"]]

\* Mutant: the recheck forgets the dead letter of the job.
RecheckedWithoutRef(v, k) ==
    IF /\ k.binding = v[k.pair].binding
       /\ job[k].status \in {"blocked", "failed"}
       /\ job[k].wait = 0
    THEN [job[k] EXCEPT !.status = "queued", !.count = 0, !.ref = "null"]
    ELSE job[k]

\* Mutant: a running job is rechecked like one that ended.
RecheckedRunning(v, k) ==
    IF /\ k.binding = v[k.pair].binding
       /\ job[k].status \in {"running", "blocked", "failed"}
       /\ job[k].wait = 0
    THEN [job[k] EXCEPT !.status = "queued", !.count = 0]
    ELSE job[k]

\* UPDATE ... SET status = 'queued', attempt_count = 0, last_outcome = 'scheduled_recheck'.
RecheckedRow(v, k) ==
    IF /\ k.binding = v[k.pair].binding
       /\ job[k].status \in {"blocked", "failed"}
       /\ job[k].wait = 0
    THEN [job[k] EXCEPT !.status = "queued", !.count = 0]
    ELSE job[k]

\* Mutant: a running job of an older binding is cancelled too.
CancelledRow(v, k) ==
    IF k.binding # v[k.pair].binding /\ job[k].status \in {"queued", "running"}
    THEN [job[k] EXCEPT !.status = "cancelled"]
    ELSE RecheckedRow(v, k)

\* UPDATE ... SET status = 'cancelled', last_outcome = 'binding_changed'.
InvalidatedRow(v, k) ==
    IF k.binding # v[k.pair].binding /\ job[k].status = "queued"
    THEN [job[k] EXCEPT !.status = "cancelled"]
    ELSE RecheckedRow(v, k)

\* The upsert keeps next_run_at unless the binding or the applicability changed.
Unchanged(v, p) ==
    /\ schedule[p] # None
    /\ schedule[p].binding = v[p].binding
    /\ schedule[p].applicability = v[p].applicability

\* Mutant: the jitter wraps below the start of the hour.
UpsertedEarly(v) ==
    [p \in Pair |->
        IF Unchanged(v, p) THEN schedule[p]
        ELSE [binding |-> v[p].binding,
              applicability |-> v[p].applicability,
              wait |-> Jitter[p] - 1]]

Upserted(v) ==
    [p \in Pair |->
        IF Unchanged(v, p) THEN schedule[p]
        ELSE [binding |-> v[p].binding,
              applicability |-> v[p].applicability,
              wait |-> Jitter[p] + (IF v[p].applicability = "APPLICABLE" THEN 0
                                    ELSE RecheckDelay[v[p].applicability])]]

DuePairs(v) ==
    {p \in Pair : v[p].applicability = "APPLICABLE" /\ Upserted(v)[p].wait = 0}

\* Mutant: the job is enqueued under the binding the schedule row had before.
DueKeysOfOldBinding(v) ==
    {[pair |-> p,
      binding |-> IF schedule[p] = None THEN v[p].binding ELSE schedule[p].binding,
      window |-> hour] : p \in DuePairs(v)}

DueKeys(v) == {[pair |-> p, binding |-> v[p].binding, window |-> hour] : p \in DuePairs(v)}

Rechecked(v) == [k \in Key |-> RecheckedRow(v, k)]

Enqueued(v) ==
    LET due == DueKeys(v)
    IN  [k \in Key |-> IF k \in due /\ job[k].status = "absent" THEN NewJob(0)
                       ELSE InvalidatedRow(v, k)]

\* The step exists only when no statement raises; otherwise nothing changes.
Reconcile(v) ==
    /\ ActivePairUnique(Rechecked(v))
    /\ ActivePairUnique(Enqueued(v))
    /\ job' = Enqueued(v)
    /\ schedule' = Upserted(v)
    /\ UNCHANGED <<attempts, dead, processes, hour>>

HourTick ==
    /\ hour < MaxHour
    /\ hour' = hour + 1
    /\ WaitTick

SchedulerInit == Init /\ hour = 0

\* Everything of the queue but the clock of next_run_at.
QueueStep ==
    /\ (\E w \in Worker : WorkerStep(w)) \/ LeaseTick \/ OperatorStep
    /\ UNCHANGED hour

SchedulerNext ==
    \/ QueueStep
    \/ HourTick
    \/ \E v \in View : Reconcile(v)

SchedulerSpec == SchedulerInit /\ [][SchedulerNext]_schedulerVars

(* The timer starts the scheduler every 15 minutes; the bootstrap view     *)
(* does not change, and no operator intervenes.                            *)
BootstrapSpec ==
    /\ SchedulerInit
    /\ [][\/ ((\E w \in Worker : WorkerStep(w)) \/ LeaseTick) /\ UNCHANGED hour
          \/ HourTick
          \/ Reconcile(Bootstrap)]_schedulerVars
    /\ WF_schedulerVars(HourTick)
    /\ WF_schedulerVars(LeaseTick /\ UNCHANGED hour)
    /\ WF_schedulerVars(Reconcile(Bootstrap))
    /\ \A w \in Worker :
          /\ SF_schedulerVars((\E k \in Key : Claim(w, k)) /\ UNCHANGED hour)
          /\ SF_schedulerVars(ClaimNothing(w) /\ UNCHANGED hour)
          /\ WF_schedulerVars((\E o \in Outcome : ExecutorReturns(w, o)) /\ UNCHANGED hour)
          /\ WF_schedulerVars((Finish(w) \/ LeaseLost(w)) /\ UNCHANGED hour)
          /\ WF_schedulerVars((Exit(w) \/ Restart(w)) /\ UNCHANGED hour)

-----------------------------------------------------------------------------
(* Properties.                                                             *)

SchedulerTypeOK == TypeOK /\ hour \in 0 .. MaxHour

(* reconcile_schedule() counts a due pair as "queued" or "existing": when  *)
(* it commits, the pair has a queued or running job, or a job of this hour *)
(* that already ran under the binding, never one that was cancelled.       *)
Due(p) ==
    schedule[p] # None /\ schedule[p].applicability = "APPLICABLE" /\ schedule[p].wait = 0

HasActiveJob(p) == \E k \in Key : k.pair = p /\ Active(job[k])

HasJobOfThisHour(p) ==
    \E k \in Key : /\ k.pair = p /\ k.window = hour /\ k.binding = schedule[p].binding
                   /\ job[k].status \in {"succeeded", "failed", "blocked"}

CommitServesEveryDuePair ==
    [][UNCHANGED <<attempts, dead, processes, hour>> =>
          \A v \in View : Reconcile(v) =>
              \A p \in Pair : Due(p)' => HasActiveJob(p)' \/ HasJobOfThisHour(p)']_schedulerVars

(* "Every applicable pair is queued/running or has an explicit reason and  *)
(* next check": a pair whose next run is due gets a queued or running job. *)
DuePairIsServed == \A p \in Pair : Due(p) ~> HasActiveJob(p)

=============================================================================
