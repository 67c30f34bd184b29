------------------------- MODULE CrawlSchedulerProofs -------------------------
(* Theorems about CrawlScheduler, for any universe of pairs, any bindings, *)
(* jitters, recheck delays, windows, domains and workers.  A step of the   *)
(* queue or of its clock keeps what CrawlQueueProofs proves; what is new   *)
(* here is the step of reconcile_schedule().                               *)
EXTENDS CrawlScheduler, CrawlQueueProofs

LEMMA QueueStepIsNext == QueueStep \/ HourTick => [Next]_vars
BY DEF QueueStep, HourTick, Next, UnattendedStep

-----------------------------------------------------------------------------
(* The rows that reconcile_schedule() writes.                              *)

(* It inserts jobs, queues failed or blocked ones again, cancels queued    *)
(* ones, and leaves every other row, the running ones above all, alone.    *)
RowReconciled(old, new) ==
    \/ new = old
    \/ old.status = "absent" /\ new = NewJob(0)
    \/ old.status \in {"blocked", "failed"} /\ new.status = "queued" /\ new.ref = old.ref
    \/ old.status = "queued" /\ new.status = "cancelled" /\ new.ref = old.ref

LEMMA RecheckedRows ==
    ASSUME TypeOK, NEW v, NEW k \in Key
    PROVE  /\ RecheckedRow(v, k) \in JobRow
           /\ RowReconciled(job[k], RecheckedRow(v, k))
           /\ job[k].status \notin {"blocked", "failed"} => RecheckedRow(v, k) = job[k]
<1>1. job[k] \in JobRow
  BY DEF TypeOK
<1>2. \A row \in JobRow :
          LET new == [row EXCEPT !.status = "queued", !.count = 0]
          IN  new \in JobRow /\ new.status = "queued" /\ new.ref = row.ref
  BY DEF JobRow, Status
<1>. QED
  BY <1>1, <1>2 DEF RecheckedRow, RowReconciled

LEMMA InvalidatedRows ==
    ASSUME TypeOK, NEW v, NEW k \in Key
    PROVE  InvalidatedRow(v, k) \in JobRow /\ RowReconciled(job[k], InvalidatedRow(v, k))
<1>1. job[k] \in JobRow
  BY DEF TypeOK
<1>2. \A row \in JobRow :
          LET new == [row EXCEPT !.status = "cancelled"]
          IN  new \in JobRow /\ new.status = "cancelled" /\ new.ref = row.ref
  BY DEF JobRow, Status
<1>. QED
  BY <1>1, <1>2, RecheckedRows DEF InvalidatedRow, RowReconciled

LEMMA ReconciledRows ==
    ASSUME TypeOK, NEW v \in View, Reconcile(v), NEW k \in Key
    PROVE  job'[k] \in JobRow /\ RowReconciled(job[k], job'[k])
<1>1. job'[k] = IF k \in DueKeys(v) /\ job[k].status = "absent" THEN NewJob(0)
                ELSE InvalidatedRow(v, k)
  BY DEF Reconcile, Enqueued
<1>. QED
  BY <1>1, InvalidatedRows, NewJobType DEF RowReconciled

(* The schedule row of a pair carries the binding and the applicability    *)
(* that the view has for it.                                               *)
LEMMA UpsertedRows ==
    ASSUME TypeOK, NEW v \in View, NEW p \in Pair
    PROVE  /\ Upserted(v)[p] \in ScheduleRow
           /\ Upserted(v)[p].binding = v[p].binding
           /\ Upserted(v)[p].applicability = v[p].applicability
<1>1. /\ v[p].binding \in Binding
      /\ v[p].applicability \in Applicability
      /\ Jitter[p] \in Nat
      /\ RecheckDelay[v[p].applicability] \in Nat
  BY SchedulerAssumption DEF View
<1>2. CASE Unchanged(v, p)
  <2>1. Upserted(v)[p] = schedule[p] /\ schedule[p] \in ScheduleRow
    BY <1>2 DEF Upserted, Unchanged, TypeOK
  <2>. QED
    BY <1>2, <2>1 DEF Unchanged
<1>3. CASE ~Unchanged(v, p)
  <2>. DEFINE d == Jitter[p] + (IF v[p].applicability = "APPLICABLE" THEN 0
                                ELSE RecheckDelay[v[p].applicability])
  <2>1. d \in Nat
    BY <1>1
  <2>2. Upserted(v)[p] = [binding |-> v[p].binding,
                          applicability |-> v[p].applicability, wait |-> d]
    BY <1>3 DEF Upserted
  <2>. QED
    BY <1>1, <2>1, <2>2 DEF ScheduleRow
<1>. QED
  BY <1>2, <1>3

-----------------------------------------------------------------------------
(* What the queue promises, it promises with a scheduler on top of it.     *)

QueueInv == FailureInv /\ DomainInv /\ hour \in 0 .. MaxHour

LEMMA ReconcileQueue ==
    ASSUME QueueInv, NEW v \in View, Reconcile(v)
    PROVE  QueueInv'
<1>1. /\ TypeOK /\ ProcessOK
      /\ attempts' = attempts /\ dead' = dead /\ hour' = hour
      /\ pc' = pc /\ claim' = claim /\ outcome' = outcome /\ stopping' = stopping
  BY DEF QueueInv, FailureInv, LeaseInv, Reconcile, processes
<1>2. \A k \in Key : job[k] \in JobRow /\ job'[k] \in JobRow /\ RowReconciled(job[k], job'[k])
  BY <1>1, ReconciledRows DEF TypeOK
<1>3. \A k \in Key : job'[k].status = "running" <=> job[k].status = "running"
  BY <1>2 DEF RowReconciled, NewJob
<1>4. \A k \in Key : job[k].status = "running" =>
          job'[k].owner = job[k].owner /\ job'[k].count = job[k].count
  BY <1>2 DEF RowReconciled
<1>5. TypeOK' /\ ProcessOK'
  <2>1. job' \in [Key -> JobRow]
    BY <1>2 DEF Reconcile, Enqueued
  <2>2. schedule' \in [Pair -> ScheduleRow \cup {None}]
    BY <1>1, UpsertedRows DEF Reconcile, Upserted
  <2>. QED
    BY <1>1, <2>1, <2>2 DEF TypeOK, ProcessOK
<1>6. AttemptsMatchLeases' /\ HolderIsCurrent'
  <2>1. \A w \in Worker : Working(w)' => Working(w) /\ claim'[w] = claim[w]
    BY <1>1 DEF Working
  <2>. QED
    BY <1>1, <1>3, <1>4, <2>1, KeepLeases DEF QueueInv, FailureInv
<1>7. ASSUME NEW k \in Key PROVE FailureOK(k)'
  <2>1. FailureOK(k)
    BY DEF QueueInv, FailureInv
  <2>. QED
    BY <1>1, <1>2, <2>1 DEF RowReconciled, FailureOK, RowFails, NewJob
<1>8. DomainInv'
  BY <1>3, <1>5, FewerRunning DEF QueueInv
<1>. QED
  BY <1>1, <1>5, <1>6, <1>7, <1>8 DEF QueueInv, FailureInv, LeaseInv

LEMMA NextQueue == QueueInv /\ [SchedulerNext]_schedulerVars => QueueInv'
<1>. SUFFICES ASSUME QueueInv, [SchedulerNext]_schedulerVars PROVE QueueInv'
  OBVIOUS
<1>1. CASE \E v \in View : Reconcile(v)
  BY <1>1, ReconcileQueue
<1>2. CASE QueueStep \/ HourTick \/ UNCHANGED schedulerVars
  <2>1. [Next]_vars
    BY <1>2, QueueStepIsNext DEF schedulerVars
  <2>2. hour' \in 0 .. MaxHour
    BY <1>2, SchedulerAssumption DEF QueueStep, HourTick, schedulerVars, QueueInv
  <2>. QED
    BY <2>1, <2>2, NextFailures, NextDomains DEF QueueInv
<1>. QED
  BY <1>1, <1>2 DEF SchedulerNext

LEMMA InitQueue == SchedulerInit => QueueInv
BY InitFailures, InitDomains, SchedulerAssumption DEF SchedulerInit, QueueInv

LEMMA QueueInvariant == SchedulerSpec => []QueueInv
BY InitQueue, NextQueue, PTL DEF SchedulerSpec

LEMMA QueueInvImplies ==
    QueueInv => /\ SchedulerTypeOK
                /\ AttemptsMatchLeases
                /\ FailuresAreDeadLettered
                /\ FailedSpentItsBudget
                /\ DomainLimitRespected
BY FailureInvImplies
DEF QueueInv, FailureInv, LeaseInv, SchedulerTypeOK, DomainInv, DomainLimitRespected, RunningIn

(* The tables, the processes and the clock keep their types.               *)
THEOREM SchedulerTypeCorrect == SchedulerSpec => []SchedulerTypeOK
BY QueueInvariant, QueueInvImplies, PTL

(* Requeueing and cancelling jobs in bulk leaves every failure with its    *)
(* dead letter.                                                            *)
THEOREM SchedulerFailuresCorrect == SchedulerSpec => []FailuresAreDeadLettered
BY QueueInvariant, QueueInvImplies, PTL

(* The recheck resets a retry budget only as it queues the job, so a job   *)
(* that is stored as failed has still spent it.                            *)
THEOREM SchedulerBudgetCorrect == SchedulerSpec => []FailedSpentItsBudget
BY QueueInvariant, QueueInvImplies, PTL

(* The scheduler takes no live lease away, not even that of a job whose    *)
(* binding was replaced.                                                   *)
THEOREM SchedulerLeaseExclusive == SchedulerSpec => LeaseIsExclusive
<1>1. ASSUME QueueInv, [SchedulerNext]_schedulerVars, NEW k \in Key,
             job[k].status = "running", job[k].lease > 0, job'[k].status # "running"
      PROVE  \E w \in Worker : job[k].owner = w /\ pc[w] = "finishing" /\ claim[w].job = k
  <2>1. CASE \E v \in View : Reconcile(v)
    <3>1. PICK v \in View : Reconcile(v)
      BY <2>1
    <3>2. TypeOK
      BY <1>1 DEF QueueInv, FailureInv, LeaseInv
    <3>3. RowReconciled(job[k], job'[k])
      BY <3>1, <3>2, ReconciledRows
    <3>. QED
      BY <1>1, <3>3 DEF RowReconciled
  <2>2. CASE QueueStep \/ HourTick \/ UNCHANGED schedulerVars
    <3>1. [Next]_vars
      BY <2>2, QueueStepIsNext DEF schedulerVars
    <3>. QED
      BY <1>1, <3>1, NextExclusive DEF QueueInv, FailureInv
  <2>. QED
    BY <1>1, <2>1, <2>2 DEF SchedulerNext
<1>2. QueueInv /\ [SchedulerNext]_schedulerVars =>
          [\A k \in Key :
              job[k].status = "running" /\ job[k].lease > 0 /\ job'[k].status # "running"
                => \E w \in Worker : /\ job[k].owner = w
                                     /\ pc[w] = "finishing"
                                     /\ claim[w].job = k]_vars
  BY <1>1
<1>. QED
  BY <1>2, QueueInvariant, PTL DEF SchedulerSpec, LeaseIsExclusive

-----------------------------------------------------------------------------
(* A due pair is never left out.  It could be: the insert of a job does    *)
(* nothing when the key exists, and the row of that key may be cancelled.  *)
(* The invariant that rules this out compares the bindings: a job has the  *)
(* binding of its schedule row or an older one, and a cancelled job always *)
(* an older one.                                                           *)

JobBindingOK(k) ==
    job[k].status # "absent" =>
        /\ schedule[k.pair] # None
        /\ k.binding <= schedule[k.pair].binding
        /\ job[k].status = "cancelled" => k.binding < schedule[k.pair].binding

BindingInv == QueueInv /\ \A k \in Key : JobBindingOK(k)

\* A step that creates no job, cancels none and replaces no binding.
KeepsBindings ==
    /\ \A k \in Key : /\ job[k].status = "absent" => job'[k].status = "absent"
                      /\ job'[k].status = "cancelled" => job[k].status = "cancelled"
    /\ \A p \in Pair : schedule[p] # None =>
           schedule'[p] # None /\ schedule'[p].binding = schedule[p].binding

LEMMA KeepBindings ==
    ASSUME KeepsBindings, NEW k \in Key, JobBindingOK(k)
    PROVE  JobBindingOK(k)'
BY DEF KeepsBindings, JobBindingOK, Key

(* reclaim_expired() queues or fails running jobs.                         *)
LEMMA ReclaimKeepsBindings ==
    ASSUME TypeOK, NEW k \in Key
    PROVE  /\ job[k].status = "absent" => ReclaimedJobs[k].status = "absent"
           /\ ReclaimedJobs[k].status = "cancelled" => job[k].status = "cancelled"
<1>1. job[k] \in JobRow
  BY DEF TypeOK
<1>. QED
  BY <1>1 DEF ReclaimedJobs, Expired, JobRow

LEMMA WorkerKeepsBindings ==
    ASSUME TypeOK, ProcessOK, NEW w \in Worker, WorkerStep(w)
    PROVE  KeepsBindings
<1>1. ReclaimedJobs \in [Key -> JobRow] /\ \A k \in Key : job[k] \in JobRow
  BY ReclaimType DEF TypeOK
<1>2. \A p \in Pair : schedule[p] # None => schedule[p] \in ScheduleRow
  BY DEF TypeOK
<1>3. ASSUME NEW k \in Key, Claim(w, k) PROVE KeepsBindings
  <2>1. job'[k].status = "running" /\ job[k].status = "queued"
    BY <1>1, <1>3 DEF Claim, Candidates, JobRow
  <2>2. \A l \in Key \ {k} : job'[l] = ReclaimedJobs[l]
    BY <1>1, <1>3 DEF Claim
  <2>3. schedule' = schedule
    BY <1>3 DEF Claim
  <2>. QED
    BY <2>1, <2>2, <2>3, ReclaimKeepsBindings DEF KeepsBindings
<1>4. CASE ClaimNothing(w)
  BY <1>4, ReclaimKeepsBindings DEF ClaimNothing, KeepsBindings
<1>5. CASE Heartbeat(w)
  BY <1>1, <1>5 DEF Heartbeat, KeepsBindings, TypeOK, JobRow
<1>6. CASE Finish(w)
  <2>. DEFINE c == claim[w]
              o == outcome[w]
  <2>1. o \in Outcome /\ c.job \in Key /\ job[c.job].status = "running"
    BY <1>6, WorkingHasClaim DEF Finish, Owned, Working, TypeOK, ProcessOK
  <2>2. \A row \in JobRow : FinishedRow(row, c, o).status = IF Retries(c, o) THEN "queued" ELSE o
    BY DEF FinishedRow, JobRow
  <2>3. job'[c.job].status \in {"queued", "succeeded", "failed", "blocked", "interrupted"}
    BY <1>1, <1>6, <2>1, <2>2 DEF Finish, TypeOK, Outcome
  <2>4. \A k \in Key \ {c.job} : job'[k] = job[k]
    BY <1>6, <2>1 DEF Finish, TypeOK
  <2>5. Delay[o] \in Nat
    BY <2>1, LimitsAssumption
  <2>6. \A row \in ScheduleRow, d \in Nat :
            [row EXCEPT !.wait = d] \in ScheduleRow /\ [row EXCEPT !.wait = d].binding = row.binding
    BY DEF ScheduleRow
  <2>7. \A row \in ScheduleRow : row # None
    BY NoneAssumption
  <2>8. \A p \in Pair : schedule[p] # None =>
            schedule'[p] # None /\ schedule'[p].binding = schedule[p].binding
    BY <1>2, <1>6, <2>5, <2>6, <2>7 DEF Finish
  <2>. QED
    BY <2>1, <2>3, <2>4, <2>8 DEF KeepsBindings
<1>7. CASE job' = job /\ schedule' = schedule
  BY <1>7 DEF KeepsBindings
<1>. QED
  BY <1>3, <1>4, <1>5, <1>6, <1>7
  DEF WorkerStep, ExecutorReturns, LeaseLost, Exit, Crash, Stopped, Shutdown, Restart, tables

LEMMA OthersKeepBindings ==
    ASSUME TypeOK, LeaseTick \/ OperatorStep \/ HourTick
    PROVE  KeepsBindings
<1>1. \A k \in Key : job[k] \in JobRow
  BY DEF TypeOK
<1>2. CASE LeaseTick
  BY <1>1, <1>2 DEF LeaseTick, KeepsBindings, JobRow
<1>3. CASE HourTick
  <2>1. \A row \in ScheduleRow :
            LET new == [row EXCEPT !.wait = Decrement(@)]
            IN  new \in ScheduleRow /\ new # None /\ new.binding = row.binding
    BY NoneAssumption DEF ScheduleRow, Decrement
  <2>2. \A p \in Pair : schedule[p] # None =>
            schedule'[p] # None /\ schedule'[p].binding = schedule[p].binding
    BY <1>3, <2>1 DEF HourTick, WaitTick, TypeOK
  <2>. QED
    BY <1>1, <1>3, <2>2 DEF HourTick, WaitTick, KeepsBindings, JobRow
<1>4. CASE OperatorStep
  <2>1. PICK K \in SUBSET Key : Requeue(K) \/ ReplayDlq(K) \/ ResolveDlq(K)
    BY <1>4 DEF OperatorStep
  <2>2. schedule' = schedule
    BY <2>1 DEF Requeue, ReplayDlq, ResolveDlq
  <2>3. CASE Requeue(K)
    BY <1>1, <2>2, <2>3 DEF Requeue, KeepsBindings, JobRow
  <2>4. CASE ReplayDlq(K)
    BY <1>1, <2>2, <2>4 DEF ReplayDlq, Replayable, KeepsBindings, JobRow
  <2>5. CASE ResolveDlq(K)
    BY <1>1, <2>2, <2>5 DEF ResolveDlq, KeepsBindings, JobRow
  <2>. QED
    BY <2>1, <2>3, <2>4, <2>5
<1>. QED
  BY <1>2, <1>3, <1>4

(* A job gets a newer binding than its schedule row in no transaction: the *)
(* row is upserted in the one that inserts the job.                        *)
LEMMA ReconcileBindings ==
    ASSUME BindingInv, NEW v \in View, Reconcile(v), NEW k \in Key
    PROVE  JobBindingOK(k)'
<1>. DEFINE p == k.pair
<1>1. p \in Pair /\ k.binding \in Nat
  BY SchedulerAssumption DEF Key
<1>2. TypeOK /\ job[k] \in JobRow /\ JobBindingOK(k)
  BY DEF BindingInv, QueueInv, FailureInv, LeaseInv, TypeOK
<1>3. /\ schedule'[p] # None
      /\ schedule'[p].binding = v[p].binding
      /\ v[p].binding \in Nat
  <2>1. schedule'[p] = Upserted(v)[p]
    BY DEF Reconcile
  <2>2. Upserted(v)[p] \in ScheduleRow /\ Upserted(v)[p].binding = v[p].binding
    BY <1>1, <1>2, UpsertedRows
  <2>3. Upserted(v)[p] # None
    BY <2>2, NoneAssumption
  <2>4. v[p].binding \in Nat
    BY <1>1, SchedulerAssumption DEF View
  <2>. QED
    BY <2>1, <2>2, <2>3, <2>4
<1>4. schedule[p] # None => schedule[p].binding \in Nat /\ schedule[p].binding <= v[p].binding
  BY <1>1, <1>2, SchedulerAssumption DEF View, TypeOK, ScheduleRow
<1>5. CASE k \in DueKeys(v) /\ job[k].status = "absent"
  <2>1. job'[k].status = "queued" /\ k.binding = v[p].binding
    BY <1>5 DEF Reconcile, Enqueued, DueKeys, NewJob
  <2>. QED
    BY <1>1, <1>3, <2>1 DEF JobBindingOK
<1>6. CASE ~(k \in DueKeys(v) /\ job[k].status = "absent")
  <2>1. job'[k] = InvalidatedRow(v, k)
    BY <1>6 DEF Reconcile, Enqueued
  <2>2. CASE k.binding # v[p].binding /\ job[k].status = "queued"
    BY <1>1, <1>2, <1>3, <1>4, <2>2 DEF JobBindingOK
  <2>3. CASE ~(k.binding # v[p].binding /\ job[k].status = "queued")
    <3>1. job'[k] = RecheckedRow(v, k)
      BY <2>1, <2>3 DEF InvalidatedRow
    <3>2. /\ job'[k].status = "cancelled" => job[k].status = "cancelled"
          /\ job[k].status = "absent" => job'[k].status = "absent"
      BY <1>2, <3>1 DEF RecheckedRow, JobRow
    <3>. QED
      BY <1>1, <1>2, <1>3, <1>4, <3>2 DEF JobBindingOK
  <2>. QED
    BY <2>2, <2>3
<1>. QED
  BY <1>5, <1>6

LEMMA NextBindings == BindingInv /\ [SchedulerNext]_schedulerVars => BindingInv'
<1>. SUFFICES ASSUME BindingInv, [SchedulerNext]_schedulerVars, NEW k \in Key
              PROVE  JobBindingOK(k)'
  BY NextQueue DEF BindingInv
<1>1. TypeOK /\ ProcessOK /\ JobBindingOK(k)
  BY DEF BindingInv, QueueInv, FailureInv, LeaseInv
<1>2. CASE \E v \in View : Reconcile(v)
  BY <1>2, ReconcileBindings
<1>3. CASE QueueStep \/ HourTick
  BY <1>1, <1>3, WorkerKeepsBindings, OthersKeepBindings, KeepBindings DEF QueueStep
<1>4. CASE UNCHANGED schedulerVars
  BY <1>1, <1>4 DEF schedulerVars, vars, JobBindingOK
<1>. QED
  BY <1>2, <1>3, <1>4 DEF SchedulerNext

LEMMA InitBindings == SchedulerInit => BindingInv
BY InitQueue DEF SchedulerInit, Init, BindingInv, JobBindingOK, NoJob, NewJob

LEMMA BindingsInvariant == SchedulerSpec => []BindingInv
BY InitBindings, NextBindings, PTL DEF SchedulerSpec

LEMMA ReconcileServes ==
    ASSUME BindingInv, NEW v \in View, Reconcile(v), NEW p \in Pair, Due(p)'
    PROVE  HasActiveJob(p)' \/ HasJobOfThisHour(p)'
<1>. DEFINE k == [pair |-> p, binding |-> v[p].binding, window |-> hour]
<1>1. TypeOK /\ hour \in 0 .. MaxHour
  BY DEF BindingInv, QueueInv, FailureInv, LeaseInv
<1>2. /\ schedule'[p] = Upserted(v)[p]
      /\ schedule'[p].binding = v[p].binding
      /\ p \in DuePairs(v)
  BY <1>1, UpsertedRows DEF Reconcile, Due, DuePairs, Upserted
<1>3. k \in Key /\ k \in DueKeys(v) /\ hour' = hour
  BY <1>1, <1>2, SchedulerAssumption DEF View, Key, DueKeys, Reconcile
<1>4. job[k] \in JobRow /\ JobBindingOK(k)
  BY <1>1, <1>3 DEF BindingInv, TypeOK
<1>5. CASE job[k].status = "absent"
  <2>1. job'[k].status = "queued"
    BY <1>3, <1>5 DEF Reconcile, Enqueued, NewJob
  <2>. QED
    BY <1>3, <2>1 DEF HasActiveJob, Active
<1>6. CASE job[k].status # "absent"
  <2>1. job[k].status # "cancelled"
    <3>1. schedule[p] # None /\ schedule[p].binding \in Nat /\ v[p].binding \in Nat
      BY <1>1, <1>4, <1>6, SchedulerAssumption DEF JobBindingOK, TypeOK, ScheduleRow, View
    <3>2. v[p].binding <= schedule[p].binding /\ v[p].binding >= schedule[p].binding
      BY <1>4, <1>6, <3>1 DEF JobBindingOK, View
    <3>. QED
      BY <1>4, <3>1, <3>2 DEF JobBindingOK
  <2>2. job'[k] = RecheckedRow(v, k)
    BY <1>3, <1>6 DEF Reconcile, Enqueued, InvalidatedRow
  <2>3. job'[k].status = job[k].status \/ job'[k].status = "queued"
    BY <1>4, <2>2 DEF RecheckedRow, JobRow
  <2>4. job'[k].status \in {"queued", "running", "succeeded", "failed", "blocked"}
    BY <1>4, <1>6, <2>1, <2>3 DEF JobRow, Status
  <2>. QED
    BY <1>2, <1>3, <2>4 DEF HasActiveJob, HasJobOfThisHour, Active
<1>. QED
  BY <1>5, <1>6

(* When reconcile_schedule() commits, every pair that is due has a queued  *)
(* or running job, or a job of this hour that already ran.                 *)
THEOREM CommitServes == SchedulerSpec => CommitServesEveryDuePair
<1>1. BindingInv /\ [SchedulerNext]_schedulerVars =>
          [UNCHANGED <<attempts, dead, processes, hour>> =>
              \A v \in View : Reconcile(v) =>
                  \A p \in Pair : Due(p)' => HasActiveJob(p)' \/ HasJobOfThisHour(p)']_schedulerVars
  BY ReconcileServes
<1>. QED
  BY <1>1, BindingsInvariant, PTL DEF SchedulerSpec, CommitServesEveryDuePair

-----------------------------------------------------------------------------
(* With the scheduler on top of it the queue still implements LeasedWork.  *)

LEMMA ReconcileReopens ==
    ASSUME QueueInv, NEW v \in View, Reconcile(v)
    PROVE  Leases!Reopen
<1>1. \A k \in Key : RowReconciled(job[k], job'[k])
  BY ReconciledRows DEF QueueInv, FailureInv, LeaseInv
<1>2. claim' = claim
  BY DEF Reconcile, processes
<1>3. \A k \in Key : /\ job'[k].status = "running" <=> job[k].status = "running"
                     /\ job'[k].status = "succeeded" => job[k].status = "succeeded"
  BY <1>1 DEF RowReconciled, NewJob
<1>4. \A k \in Key : job[k].status = "running" =>
          job'[k].owner = job[k].owner /\ job'[k].lease = job[k].lease
  BY <1>1 DEF RowReconciled
<1>. QED
  BY <1>2, <1>3, <1>4, RestReopens

(* reconcile_schedule() rewrites rows of all pairs at once and asks no     *)
(* worker, yet every job stays with the one worker that took it, and what  *)
(* is reported late counts no more than without a scheduler.               *)
THEOREM SchedulerLeasedWork == SchedulerSpec => ImplementsLeasedWork
<1>1. SchedulerInit => Leases!Init
  BY InitIsLeased DEF SchedulerInit
<1>2. QueueInv => LeasedInv
  BY DEF QueueInv, FailureInv, LeasedInv
<1>3. QueueInv /\ QueueInv' /\ [SchedulerNext]_schedulerVars => [Leases!Next]_Leases!vars
  <2>. SUFFICES ASSUME QueueInv, QueueInv', [SchedulerNext]_schedulerVars
                PROVE  [Leases!Next]_Leases!vars
    OBVIOUS
  <2>1. CASE \E v \in View : Reconcile(v)
    BY <2>1, ReconcileReopens DEF Leases!Next
  <2>2. CASE QueueStep \/ HourTick \/ UNCHANGED schedulerVars
    <3>1. [Next]_vars
      BY <2>2, QueueStepIsNext DEF schedulerVars
    <3>2. LeasedInv'
      BY DEF QueueInv, FailureInv, LeasedInv
    <3>. QED
      BY <1>2, <3>1, <3>2, StepLeases
  <2>. QED
    BY <2>1, <2>2 DEF SchedulerNext
<1>. QED
  BY <1>1, <1>3, QueueInvariant, PTL DEF SchedulerSpec, ImplementsLeasedWork, Leases!Spec

=============================================================================
