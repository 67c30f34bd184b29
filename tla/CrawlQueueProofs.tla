--------------------------- MODULE CrawlQueueProofs ---------------------------
(* Theorems about CrawlQueue, for any number of pairs, windows, domains,   *)
(* workers and attempts, any lease, delay, retry budget and domain limit.  *)
EXTENDS CrawlQueue, FiniteSetTheorems, TLAPS

-----------------------------------------------------------------------------
(* Types.                                                                  *)

LEMMA NewJobType == \A d \in Nat : NewJob(d) \in JobRow
BY DEF NewJob, JobRow, Status

(* The rows that reclaim_expired() leaves behind are rows.                 *)
LEMMA ReclaimType ==
    ASSUME TypeOK
    PROVE  /\ ReclaimedJobs \in [Key -> JobRow]
           /\ ReclaimedAttempts \subseteq OpenAttempt
           /\ ReclaimedDead \subseteq Key
<1>1. ASSUME NEW k \in Key
      PROVE  [job[k] EXCEPT !.status = IF Exhausted(k) THEN "failed" ELSE "queued",
                            !.wait = IF Exhausted(k) THEN Delay["lease_expired"] ELSE 0,
                            !.owner = None,
                            !.ref = IF Exhausted(k) /\ k \notin dead THEN "open" ELSE @]
                 \in JobRow
  <2>1. Delay["lease_expired"] \in Nat
    BY LimitsAssumption
  <2>2. \A s \in Status, d \in Nat, r \in {"null", "open", "closed"} :
            [job[k] EXCEPT !.status = s, !.wait = d, !.owner = None, !.ref = r] \in JobRow
    BY <1>1 DEF TypeOK, JobRow
  <2>3. job[k].ref \in {"null", "open", "closed"}
    BY <1>1 DEF TypeOK, JobRow
  <2>. QED
    BY <2>1, <2>2, <2>3 DEF Status
<1>. QED
  BY <1>1 DEF TypeOK, ReclaimedJobs, ReclaimedAttempts, ReclaimedDead

(* An id that claim() hands out is in use nowhere.                         *)
LEMMA NextAttemptFresh ==
    ASSUME FreshAttempts # {}
    PROVE  NextAttempt \in FreshAttempts
BY DEF NextAttempt

LEMMA OneMoreType == \A n \in Nat : OneMore(n) \in Nat
BY DEF OneMore

(* The row that finish() writes is a row.                                  *)
LEMMA FinishedRowType ==
    ASSUME NEW row \in JobRow, NEW c \in ClaimedJob, NEW o \in Outcome
    PROVE  FinishedRow(row, c, o) \in JobRow
<1>1. Delay[o] \in Nat
  BY LimitsAssumption
<1>2. \A s \in Status, n, d \in Nat, r \in {"null", "open", "closed"} :
          [row EXCEPT !.status = s, !.owner = None, !.lease = 0, !.count = n,
                      !.wait = d, !.ref = r] \in JobRow
  BY DEF JobRow
<1>3. (IF Retries(c, o) THEN "queued" ELSE o) \in Status
  <2>1. o # "interrupted" => o \in Status
    BY DEF Outcome, Status
  <2>2. o = "interrupted" => Retries(c, o)
    BY DEF Retries
  <2>. QED
    BY <2>1, <2>2 DEF Status
<1>4. (IF o = "succeeded" THEN 0 ELSE row.count) \in Nat
  BY DEF JobRow
<1>5. (IF Terminal(c, o) THEN "open" ELSE row.ref) \in {"null", "open", "closed"}
  BY DEF JobRow
<1>. QED
  BY <1>1, <1>2, <1>3, <1>4, <1>5 DEF FinishedRow

LEMMA InitType == Init => TypeOK /\ ProcessOK
BY NewJobType DEF Init, TypeOK, ProcessOK, NoJob, NewJob, JobRow, Status

(* The type invariant, and the way a process holds its claim, are kept by  *)
(* every step.                                                             *)
LEMMA NextType == TypeOK /\ ProcessOK /\ [Next]_vars => TypeOK' /\ ProcessOK'
<1>. SUFFICES ASSUME TypeOK, ProcessOK, [Next]_vars PROVE TypeOK' /\ ProcessOK'
  OBVIOUS
<1>. USE DEF TypeOK, ProcessOK
<1>1. ASSUME NEW k \in Key, NEW d \in 0 .. Delay["failed"], Enqueue(k, d)
      PROVE  TypeOK' /\ ProcessOK'
  <2>1. d \in Nat
    BY LimitsAssumption DEF Outcome
  <2>. QED
    BY <1>1, <2>1, NewJobType DEF Enqueue, processes
<1>2. ASSUME NEW w \in Worker, NEW k \in Key, Claim(w, k) PROVE TypeOK' /\ ProcessOK'
  <2>1. NextAttempt \in AttemptId
    BY <1>2, NextAttemptFresh DEF Claim, FreshAttempts
  <2>2. Snapshot(k) \in ClaimedJob
    BY <2>1, OneMoreType DEF Snapshot, ClaimedJob, JobRow
  <2>3. \A row \in JobRow : [row EXCEPT !.status = "running", !.owner = w, !.lease = Lease,
                                        !.count = OneMore(@)] \in JobRow
    BY OneMoreType, LimitsAssumption DEF JobRow, Status
  <2>4. [id |-> NextAttempt, job |-> k, worker |-> w] \in OpenAttempt
    BY <2>1 DEF OpenAttempt
  <2>5. Snapshot(k) # None
    BY <2>2, NoneAssumption
  <2>6. TypeOK'
    BY <1>2, <2>2, <2>3, <2>4, ReclaimType DEF Claim
  <2>. QED
    BY <1>2, <2>5, <2>6 DEF Claim
<1>3. ASSUME NEW w \in Worker, ClaimNothing(w) PROVE TypeOK' /\ ProcessOK'
  BY <1>3, ReclaimType DEF ClaimNothing, processes
<1>4. ASSUME NEW w \in Worker, Heartbeat(w) PROVE TypeOK' /\ ProcessOK'
  <2>1. claim[w].job \in Key
    BY <1>4 DEF Heartbeat, ClaimedJob
  <2>2. \A row \in JobRow : [row EXCEPT !.lease = Lease] \in JobRow
    BY LimitsAssumption DEF JobRow
  <2>. QED
    BY <1>4, <2>1, <2>2 DEF Heartbeat, processes
<1>5. ASSUME NEW w \in Worker, NEW o \in Outcome \ {"interrupted"}, ExecutorReturns(w, o)
      PROVE  TypeOK' /\ ProcessOK'
  <2>1. (IF w \in stopping /\ o # "succeeded" THEN "interrupted" ELSE o) \in Outcome
    BY DEF Outcome
  <2>2. \A x \in Outcome : x # None
    BY NoneAssumption
  <2>. QED
    BY <1>5, <2>1, <2>2 DEF ExecutorReturns, tables
<1>6. ASSUME NEW w \in Worker, Finish(w) PROVE TypeOK' /\ ProcessOK'
  <2>1. claim[w] \in ClaimedJob /\ outcome[w] \in Outcome
    BY <1>6 DEF Finish
  <2>2. claim[w].job \in Key
    BY <2>1 DEF ClaimedJob
  <2>3. FinishedRow(job[claim[w].job], claim[w], outcome[w]) \in JobRow
    BY <2>1, <2>2, FinishedRowType
  <2>4. \A p \in Pair : schedule[p] # None =>
            [schedule[p] EXCEPT !.wait = Delay[outcome[w]]] \in ScheduleRow
    BY <2>1, LimitsAssumption DEF ScheduleRow
  <2>5. schedule' \in [Pair -> ScheduleRow \cup {None}]
    BY <1>6, <2>4 DEF Finish
  <2>6. dead' \subseteq Key
    BY <1>6, <2>2 DEF Finish
  <2>7. job' \in [Key -> JobRow]
    BY <1>6, <2>2, <2>3 DEF Finish
  <2>. QED
    BY <1>6, <2>5, <2>6, <2>7 DEF Finish
<1>7. ASSUME NEW w \in Worker, Stopped(w) PROVE TypeOK' /\ ProcessOK'
  BY <1>7 DEF Stopped, tables
<1>8. ASSUME NEW w \in Worker, Shutdown(w) PROVE TypeOK' /\ ProcessOK'
  BY <1>8 DEF Shutdown, tables
<1>9. ASSUME NEW w \in Worker, Restart(w) PROVE TypeOK' /\ ProcessOK'
  BY <1>9 DEF Restart, tables
<1>10. ASSUME NEW K \in SUBSET Key, Requeue(K) PROVE TypeOK' /\ ProcessOK'
  <2>1. \A row \in JobRow : [row EXCEPT !.status = "queued", !.wait = 0,
                                     !.owner = None, !.lease = 0] \in JobRow
    BY DEF JobRow, Status
  <2>. QED
    BY <1>10, <2>1 DEF Requeue, processes
<1>11. ASSUME NEW K \in SUBSET Key, ReplayDlq(K) PROVE TypeOK' /\ ProcessOK'
  <2>1. \A row \in JobRow : [row EXCEPT !.status = "queued", !.wait = 0, !.owner = None,
                                     !.lease = 0, !.count = 0, !.ref = "null"] \in JobRow
    BY DEF JobRow, Status
  <2>. QED
    BY <1>11, <2>1 DEF ReplayDlq, processes
<1>12. ASSUME NEW K \in SUBSET Key, ResolveDlq(K) PROVE TypeOK' /\ ProcessOK'
  <2>1. \A row \in JobRow : [row EXCEPT !.ref = "closed"] \in JobRow
    BY DEF JobRow
  <2>. QED
    BY <1>12, <2>1 DEF ResolveDlq, processes
<1>13. CASE LeaseTick
  <2>1. \A row \in JobRow : [row EXCEPT !.lease = Decrement(@)] \in JobRow
    BY DEF JobRow, Decrement
  <2>. QED
    BY <1>13, <2>1 DEF LeaseTick, processes
<1>14. CASE WaitTick
  <2>1. \A row \in JobRow : [row EXCEPT !.wait = Decrement(@)] \in JobRow
    BY DEF JobRow, Decrement
  <2>2. \A p \in Pair : schedule[p] # None =>
            [schedule[p] EXCEPT !.wait = Decrement(@)] \in ScheduleRow
    BY DEF ScheduleRow, Decrement
  <2>. QED
    BY <1>14, <2>1, <2>2 DEF WaitTick, processes
<1>15. CASE UNCHANGED vars
  BY <1>15 DEF vars
<1>. QED
  BY <1>1, <1>2, <1>3, <1>4, <1>5, <1>6, <1>7, <1>8, <1>9, <1>10, <1>11, <1>12, <1>13,
     <1>14, <1>15
  DEF Next, UnattendedStep, OperatorStep, WorkerStep, LeaseLost, Exit, Crash

(* Every table row, and every process, keeps its type.                     *)
THEOREM TypeCorrect == Spec => []TypeOK
<1>1. Init => TypeOK /\ ProcessOK
  BY InitType
<1>2. TypeOK /\ ProcessOK /\ [Next]_vars => (TypeOK /\ ProcessOK)'
  BY NextType
<1>. QED
  BY <1>1, <1>2, PTL DEF Spec

-----------------------------------------------------------------------------
(* Leases: the open attempts, the lease columns of the jobs and what the   *)
(* worker processes remember of their claims agree.                        *)

LeaseInv == TypeOK /\ ProcessOK /\ AttemptsMatchLeases /\ HolderIsCurrent

Working(w) == pc[w] \in {"executing", "finishing"}

LEMMA WorkingHasClaim ==
    ASSUME TypeOK, ProcessOK, NEW w \in Worker, Working(w)
    PROVE  claim[w] \in ClaimedJob /\ claim[w].job \in Key /\ claim[w].attempt \in AttemptId
BY DEF TypeOK, ProcessOK, Working, ClaimedJob

(* A step that opens and closes no attempt, takes no lease away and gives  *)
(* no process a new claim.                                                 *)
LEMMA KeepLeases ==
    ASSUME LeaseInv,
           attempts' = attempts,
           \A k \in Key : job'[k].status = "running" <=> job[k].status = "running",
           \A k \in Key : job[k].status = "running" =>
               job'[k].owner = job[k].owner /\ job'[k].count = job[k].count,
           \A w \in Worker : Working(w)' => Working(w) /\ claim'[w] = claim[w]
    PROVE  AttemptsMatchLeases' /\ HolderIsCurrent'
<1>1. AttemptsMatchLeases'
  <2>1. \A a \in attempts : a.job \in Key
    BY DEF LeaseInv, TypeOK, OpenAttempt
  <2>. QED
    BY <2>1 DEF LeaseInv, AttemptsMatchLeases
<1>2. HolderIsCurrent'
  <2>. SUFFICES ASSUME NEW w \in Worker, Working(w)', Owned(w)'
                PROVE  /\ [id |-> claim[w].attempt, job |-> claim[w].job, worker |-> w] \in attempts
                       /\ claim[w].count = job'[claim[w].job].count
    BY DEF HolderIsCurrent, Working, Owned
  <2>1. Working(w) /\ claim'[w] = claim[w] /\ claim[w].job \in Key
    BY WorkingHasClaim DEF LeaseInv
  <2>2. Owned(w) /\ job[claim[w].job].status = "running"
    BY <2>1 DEF Owned
  <2>. QED
    BY <2>1, <2>2 DEF LeaseInv, HolderIsCurrent, Working
<1>. QED
  BY <1>1, <1>2

(* What reclaim_expired() leaves running is what was running with a live   *)
(* lease, row for row.                                                     *)
LEMMA ReclaimKeepsLive ==
    ASSUME TypeOK, NEW k \in Key
    PROVE  /\ ReclaimedJobs[k].status = "running" => job[k].status = "running" /\ ~Expired(k)
           /\ ~Expired(k) => ReclaimedJobs[k] = job[k]
           /\ Expired(k) => ReclaimedJobs[k].owner = None
<1>1. job[k] \in JobRow
  BY DEF TypeOK
<1>2. CASE Expired(k)
  <2>1. ReclaimedJobs[k].status \in {"failed", "queued"} /\ ReclaimedJobs[k].owner = None
    BY <1>1, <1>2 DEF ReclaimedJobs, JobRow
  <2>. QED
    BY <1>2, <2>1
<1>3. CASE ~Expired(k)
  BY <1>3 DEF ReclaimedJobs
<1>. QED
  BY <1>2, <1>3

(* reclaim_expired() closes the attempts of the leases it takes back, and  *)
(* no others.                                                              *)
LEMMA ReclaimLeases ==
    ASSUME LeaseInv
    PROVE  /\ \A a \in ReclaimedAttempts :
                  /\ a \in attempts
                  /\ a.job \in Key
                  /\ ReclaimedJobs[a.job].status = "running"
                  /\ ReclaimedJobs[a.job].owner = a.worker
           /\ \A k \in Key : ReclaimedJobs[k].status = "running" =>
                  \E a \in ReclaimedAttempts : a.job = k
<1>1. ASSUME NEW a \in ReclaimedAttempts
      PROVE  /\ a \in attempts
             /\ a.job \in Key
             /\ ReclaimedJobs[a.job].status = "running"
             /\ ReclaimedJobs[a.job].owner = a.worker
  <2>1. a \in attempts /\ ~Expired(a.job) /\ a.job \in Key
    BY <1>1 DEF ReclaimedAttempts, LeaseInv, TypeOK, OpenAttempt
  <2>2. ReclaimedJobs[a.job] = job[a.job]
    BY <2>1, ReclaimKeepsLive DEF LeaseInv
  <2>. QED
    BY <2>1, <2>2 DEF LeaseInv, AttemptsMatchLeases
<1>2. ASSUME NEW k \in Key, ReclaimedJobs[k].status = "running"
      PROVE  \E a \in ReclaimedAttempts : a.job = k
  <2>1. job[k].status = "running" /\ ~Expired(k)
    BY <1>2, ReclaimKeepsLive DEF LeaseInv
  <2>. QED
    BY <2>1 DEF ReclaimedAttempts, LeaseInv, AttemptsMatchLeases
<1>. QED
  BY <1>1, <1>2

LEMMA ClaimLeases ==
    ASSUME LeaseInv, NEW w \in Worker, NEW k \in Key, Claim(w, k)
    PROVE  AttemptsMatchLeases' /\ HolderIsCurrent'
<1>. DEFINE new == [id |-> NextAttempt, job |-> k, worker |-> w]
<1>1. /\ job[k] \in JobRow
      /\ job[k].status = "queued"
      /\ NextAttempt \in FreshAttempts
  BY NextAttemptFresh DEF Claim, Candidates, LeaseInv, TypeOK
<1>2. /\ job'[k].status = "running"
      /\ job'[k].owner = w
      /\ job'[k].count = OneMore(job[k].count)
  <2>1. ReclaimedJobs \in [Key -> JobRow]
    BY ReclaimType DEF LeaseInv
  <2>2. job'[k] = [job[k] EXCEPT !.status = "running", !.owner = w, !.lease = Lease,
                                 !.count = OneMore(@)]
    BY <2>1 DEF Claim
  <2>. QED
    BY <1>1, <2>2 DEF JobRow
<1>3. \A l \in Key \ {k} : job'[l] = ReclaimedJobs[l]
  <2>1. ReclaimedJobs \in [Key -> JobRow]
    BY ReclaimType DEF LeaseInv
  <2>. QED
    BY <2>1 DEF Claim
<1>4. attempts' = ReclaimedAttempts \cup {new} /\ claim'[w] = Snapshot(k)
  BY DEF Claim, LeaseInv, TypeOK
<1>5. \A a \in ReclaimedAttempts : a.job # k /\ a.id # NextAttempt /\ a \in attempts
  <2>1. \A a \in ReclaimedAttempts : a \in attempts
    BY DEF ReclaimedAttempts
  <2>2. \A a \in attempts : a.job # k
    BY <1>1 DEF LeaseInv, AttemptsMatchLeases
  <2>3. \A a \in attempts : a.id # NextAttempt
    BY <1>1 DEF FreshAttempts
  <2>. QED
    BY <2>1, <2>2, <2>3
<1>6. AttemptsMatchLeases'
  <2>1. \A a \in attempts' : job'[a.job].status = "running" /\ job'[a.job].owner = a.worker
    BY <1>2, <1>3, <1>4, <1>5, ReclaimLeases
  <2>2. \A l \in Key : job'[l].status = "running" => \E a \in attempts' : a.job = l
    <3>1. new \in attempts' /\ new.job = k
      BY <1>4
    <3>2. \A l \in Key \ {k} : job'[l].status = "running" => \E a \in attempts' : a.job = l
      BY <1>3, <1>4, ReclaimLeases
    <3>. QED
      BY <3>1, <3>2
  <2>3. \A a, b \in attempts' : a.job = b.job \/ a.id = b.id => a = b
    BY <1>4, <1>5 DEF LeaseInv, AttemptsMatchLeases
  <2>. QED
    BY <2>1, <2>2, <2>3 DEF AttemptsMatchLeases
<1>7. HolderIsCurrent'
  <2>. SUFFICES ASSUME NEW v \in Worker, Working(v)', Owned(v)'
                PROVE  /\ [id |-> claim'[v].attempt, job |-> claim'[v].job, worker |-> v]
                             \in attempts'
                       /\ claim'[v].count = job'[claim'[v].job].count
    BY DEF HolderIsCurrent, Working
  <2>1. CASE v = w
    BY <1>2, <1>4, <2>1 DEF Snapshot
  <2>2. CASE v # w
    <3>1. claim'[v] = claim[v] /\ Working(v)
      BY <2>2 DEF Claim, Working, LeaseInv, TypeOK
    <3>2. claim[v].job \in Key
      BY <3>1, WorkingHasClaim DEF LeaseInv
    <3>3. claim[v].job # k
      BY <1>2, <2>2, <3>1 DEF Owned
    <3>4. job'[claim[v].job] = ReclaimedJobs[claim[v].job]
      BY <1>3, <3>2, <3>3
    <3>5. ~Expired(claim[v].job) /\ job'[claim[v].job] = job[claim[v].job]
      BY <3>1, <3>2, <3>4, ReclaimKeepsLive DEF Owned, LeaseInv
    <3>6. Owned(v)
      BY <3>1, <3>5 DEF Owned
    <3>7. [id |-> claim[v].attempt, job |-> claim[v].job, worker |-> v] \in attempts
      BY <3>1, <3>6 DEF LeaseInv, HolderIsCurrent, Working
    <3>8. claim[v].count = job[claim[v].job].count
      BY <3>1, <3>6 DEF LeaseInv, HolderIsCurrent, Working
    <3>9. [id |-> claim[v].attempt, job |-> claim[v].job, worker |-> v] \in ReclaimedAttempts
      BY <3>5, <3>7 DEF ReclaimedAttempts
    <3>. QED
      BY <1>4, <3>1, <3>5, <3>8, <3>9
  <2>. QED
    BY <2>1, <2>2
<1>. QED
  BY <1>6, <1>7

LEMMA ClaimNothingLeases ==
    ASSUME LeaseInv, NEW w \in Worker, ClaimNothing(w)
    PROVE  AttemptsMatchLeases' /\ HolderIsCurrent'
<1>1. job' = ReclaimedJobs /\ attempts' = ReclaimedAttempts /\ claim' = claim /\ pc' = pc
  BY DEF ClaimNothing, processes
<1>2. AttemptsMatchLeases'
  BY <1>1, ReclaimLeases DEF LeaseInv, AttemptsMatchLeases
<1>3. HolderIsCurrent'
  <2>. SUFFICES ASSUME NEW v \in Worker, Working(v), Owned(v)'
                PROVE  /\ [id |-> claim[v].attempt, job |-> claim[v].job, worker |-> v]
                             \in ReclaimedAttempts
                       /\ claim[v].count = ReclaimedJobs[claim[v].job].count
    BY <1>1 DEF HolderIsCurrent, Working
  <2>1. claim[v].job \in Key
    BY WorkingHasClaim DEF LeaseInv
  <2>2. ~Expired(claim[v].job) /\ ReclaimedJobs[claim[v].job] = job[claim[v].job]
    BY <1>1, <2>1, ReclaimKeepsLive DEF Owned, LeaseInv
  <2>3. Owned(v)
    BY <1>1, <2>2 DEF Owned
  <2>4. [id |-> claim[v].attempt, job |-> claim[v].job, worker |-> v] \in attempts
    BY <2>3 DEF LeaseInv, HolderIsCurrent, Working
  <2>. QED
    BY <2>2, <2>3, <2>4 DEF LeaseInv, HolderIsCurrent, Working, ReclaimedAttempts
<1>. QED
  BY <1>2, <1>3

(* The guard of finish() compares lease_owner only, but by HolderIsCurrent *)
(* the attempt it closes is the one open attempt of its job.               *)
LEMMA FinishLeases ==
    ASSUME LeaseInv, NEW w \in Worker, Finish(w)
    PROVE  AttemptsMatchLeases' /\ HolderIsCurrent'
<1>. DEFINE c == claim[w]
            mine == [id |-> c.attempt, job |-> c.job, worker |-> w]
<1>1. /\ Working(w)
      /\ Owned(w)
      /\ outcome[w] \in Outcome
      /\ c \in ClaimedJob
      /\ c.job \in Key
  BY WorkingHasClaim DEF Finish, Working, LeaseInv, TypeOK, ProcessOK
<1>2. mine \in attempts
  BY <1>1 DEF LeaseInv, HolderIsCurrent, Working
<1>3. attempts' = {a \in attempts : a.id # c.attempt}
  BY DEF Finish
<1>4. \A a \in attempts : a \in attempts' <=> a.job # c.job
  <2>1. \A a \in attempts : a.id = c.attempt \/ a.job = c.job => a = mine
    BY <1>2 DEF LeaseInv, AttemptsMatchLeases
  <2>. QED
    BY <1>3, <2>1
<1>5. job'[c.job].status # "running"
  <2>1. job'[c.job] = FinishedRow(job[c.job], c, outcome[w])
    BY <1>1 DEF Finish, LeaseInv, TypeOK
  <2>2. job[c.job] \in JobRow
    BY <1>1 DEF LeaseInv, TypeOK
  <2>3. job'[c.job].status = IF Retries(c, outcome[w]) THEN "queued" ELSE outcome[w]
    BY <2>1, <2>2 DEF FinishedRow, JobRow
  <2>. QED
    BY <1>1, <2>3 DEF Outcome
<1>6. \A k \in Key \ {c.job} : job'[k] = job[k]
  BY <1>1 DEF Finish, LeaseInv, TypeOK
<1>7. AttemptsMatchLeases'
  <2>1. \A a \in attempts' : a \in attempts /\ a.job \in Key \ {c.job}
    BY <1>3, <1>4 DEF LeaseInv, TypeOK, OpenAttempt
  <2>2. \A a \in attempts' : job'[a.job].status = "running" /\ job'[a.job].owner = a.worker
    BY <1>6, <2>1 DEF LeaseInv, AttemptsMatchLeases
  <2>3. \A k \in Key : job'[k].status = "running" => \E a \in attempts' : a.job = k
    BY <1>4, <1>5, <1>6 DEF LeaseInv, AttemptsMatchLeases
  <2>4. \A a, b \in attempts' : a.job = b.job \/ a.id = b.id => a = b
    BY <2>1 DEF LeaseInv, AttemptsMatchLeases
  <2>. QED
    BY <2>2, <2>3, <2>4 DEF AttemptsMatchLeases
<1>8. HolderIsCurrent'
  <2>. SUFFICES ASSUME NEW v \in Worker, Working(v)', Owned(v)'
                PROVE  /\ [id |-> claim'[v].attempt, job |-> claim'[v].job, worker |-> v]
                             \in attempts'
                       /\ claim'[v].count = job'[claim'[v].job].count
    BY DEF HolderIsCurrent, Working
  <2>1. v # w /\ Working(v) /\ claim'[v] = claim[v]
    BY DEF Finish, Working, LeaseInv, TypeOK
  <2>2. claim[v].job \in Key /\ claim[v].job # c.job
    BY <1>5, <2>1, WorkingHasClaim DEF Owned, LeaseInv
  <2>3. job'[claim[v].job] = job[claim[v].job]
    BY <1>6, <2>2
  <2>4. Owned(v)
    BY <2>1, <2>3 DEF Owned
  <2>5. /\ [id |-> claim[v].attempt, job |-> claim[v].job, worker |-> v] \in attempts
        /\ claim[v].count = job[claim[v].job].count
    BY <2>1, <2>4 DEF LeaseInv, HolderIsCurrent, Working
  <2>. QED
    BY <1>4, <2>1, <2>2, <2>3, <2>5
<1>. QED
  BY <1>7, <1>8

(* The commands and the clocks touch no running row but its lease and wait.*)
LEMMA OthersKeepLeases ==
    ASSUME LeaseInv,
           \/ \E k \in Key, d \in Nat : Enqueue(k, d)
           \/ \E w \in Worker : Heartbeat(w)
           \/ \E K \in SUBSET Key : Requeue(K) \/ ReplayDlq(K) \/ ResolveDlq(K)
           \/ LeaseTick
           \/ WaitTick
    PROVE  AttemptsMatchLeases' /\ HolderIsCurrent'
<1>. DEFINE Same(k) ==
               /\ job'[k].status = "running" <=> job[k].status = "running"
               /\ job[k].status = "running" =>
                      job'[k].owner = job[k].owner /\ job'[k].count = job[k].count
<1>1. \A k \in Key : job[k] \in JobRow
  BY DEF LeaseInv, TypeOK
<1>2. attempts' = attempts /\ claim' = claim /\ pc' = pc
  BY DEF Enqueue, Heartbeat, Requeue, ReplayDlq, ResolveDlq, LeaseTick, WaitTick, processes
<1>3. \A k \in Key : Same(k)
  <2>1. ASSUME NEW k \in Key, NEW d \in Nat, Enqueue(k, d) PROVE \A l \in Key : Same(l)
    BY <2>1 DEF Enqueue, NewJob, LeaseInv, TypeOK
  <2>2. ASSUME NEW w \in Worker, Heartbeat(w) PROVE \A l \in Key : Same(l)
    BY <1>1, <2>2 DEF Heartbeat, LeaseInv, TypeOK, JobRow
  <2>3. ASSUME NEW K \in SUBSET Key, Requeue(K) PROVE \A l \in Key : Same(l)
    BY <1>1, <2>3 DEF Requeue, JobRow
  <2>4. ASSUME NEW K \in SUBSET Key, ReplayDlq(K) PROVE \A l \in Key : Same(l)
    BY <1>1, <2>4 DEF ReplayDlq, Replayable, JobRow
  <2>5. ASSUME NEW K \in SUBSET Key, ResolveDlq(K) PROVE \A l \in Key : Same(l)
    BY <1>1, <2>5 DEF ResolveDlq, JobRow
  <2>6. CASE LeaseTick
    BY <1>1, <2>6 DEF LeaseTick, JobRow
  <2>7. CASE WaitTick
    BY <1>1, <2>7 DEF WaitTick, JobRow
  <2>. QED
    BY <2>1, <2>2, <2>3, <2>4, <2>5, <2>6, <2>7
<1>. HIDE DEF Same
<1>4. \A w \in Worker : Working(w)' => Working(w) /\ claim'[w] = claim[w]
  BY <1>2 DEF Working
<1>5. /\ \A k \in Key : job'[k].status = "running" <=> job[k].status = "running"
      /\ \A k \in Key : job[k].status = "running" =>
             job'[k].owner = job[k].owner /\ job'[k].count = job[k].count
  BY <1>3 DEF Same
<1>. QED
  BY <1>2, <1>4, <1>5, KeepLeases

LEMMA NextLeases == LeaseInv /\ [Next]_vars => LeaseInv'
<1>. SUFFICES ASSUME LeaseInv, [Next]_vars PROVE AttemptsMatchLeases' /\ HolderIsCurrent'
  BY NextType DEF LeaseInv
<1>1. ASSUME NEW w \in Worker, WorkerStep(w) PROVE AttemptsMatchLeases' /\ HolderIsCurrent'
  <2>1. CASE \E k \in Key : Claim(w, k)
    BY <2>1, ClaimLeases
  <2>2. CASE ClaimNothing(w)
    BY <2>2, ClaimNothingLeases
  <2>3. CASE Finish(w)
    BY <2>3, FinishLeases
  <2>4. CASE Heartbeat(w)
    BY <2>4, OthersKeepLeases
  <2>5. ASSUME job' = job, attempts' = attempts,
               \A v \in Worker : Working(v)' => Working(v) /\ claim'[v] = claim[v]
        PROVE  AttemptsMatchLeases' /\ HolderIsCurrent'
    BY <2>5, KeepLeases
  <2>6. CASE \E o \in Outcome \ {"interrupted"} : ExecutorReturns(w, o)
    BY <2>5, <2>6 DEF ExecutorReturns, tables, Working, LeaseInv, TypeOK
  <2>7. CASE LeaseLost(w) \/ Exit(w) \/ Crash(w)
    BY <2>5, <2>7 DEF LeaseLost, Exit, Crash, Stopped, tables, Working, LeaseInv, TypeOK
  <2>8. CASE Shutdown(w)
    BY <2>5, <2>8 DEF Shutdown, tables, Working
  <2>9. CASE Restart(w)
    BY <2>5, <2>9 DEF Restart, tables, Working, LeaseInv, TypeOK
  <2>. QED
    BY <1>1, <2>1, <2>2, <2>3, <2>4, <2>6, <2>7, <2>8, <2>9 DEF WorkerStep
<1>2. CASE \/ \E k \in Key, d \in 0 .. Delay["failed"] : Enqueue(k, d)
           \/ OperatorStep \/ LeaseTick \/ WaitTick
  <2>1. \A d \in 0 .. Delay["failed"] : d \in Nat
    BY LimitsAssumption DEF Outcome
  <2>. QED
    BY <1>2, <2>1, OthersKeepLeases DEF OperatorStep
<1>3. CASE UNCHANGED vars
  BY <1>3, KeepLeases DEF vars, Working
<1>. QED
  BY <1>1, <1>2, <1>3 DEF Next, UnattendedStep

LEMMA InitLeases == Init => LeaseInv
<1>. SUFFICES ASSUME Init PROVE AttemptsMatchLeases /\ HolderIsCurrent
  BY InitType DEF LeaseInv
<1>. QED
  BY DEF Init, AttemptsMatchLeases, HolderIsCurrent, NoJob, NewJob

LEMMA LeasesInvariant == Spec => []LeaseInv
BY InitLeases, NextLeases, PTL DEF Spec

(* Every running job has exactly one open attempt, of the worker that      *)
(* holds its lease, and no other job has one.                              *)
THEOREM AttemptsCorrect == Spec => []AttemptsMatchLeases
<1>1. LeaseInv => AttemptsMatchLeases
  BY DEF LeaseInv
<1>. QED
  BY <1>1, LeasesInvariant, PTL

(* The lease_owner guard of finish() and heartbeat() is a fence: whoever   *)
(* passes it holds the open attempt and the current attempt_count.         *)
THEOREM HolderCorrect == Spec => []HolderIsCurrent
<1>1. LeaseInv => HolderIsCurrent
  BY DEF LeaseInv
<1>. QED
  BY <1>1, LeasesInvariant, PTL

-----------------------------------------------------------------------------
(* Failures: the dead letters and the retry budget, job by job.            *)

RowFails(row) == row.status \in {"failed", "blocked"}

(* The last conjunct strengthens the two properties: enqueue() inserts a   *)
(* row, so no dead letter may be waiting for it.                           *)
FailureOK(k) ==
    /\ RowFails(job[k]) => job[k].ref # "null"
    /\ k \in dead <=> job[k].ref = "open"
    /\ job[k].status = "failed" => job[k].count >= MaxAttempts
    /\ job[k].status = "absent" => job[k].ref = "null"

FailureInv == LeaseInv /\ \A k \in Key : FailureOK(k)

LEMMA FailureInvImplies == FailureInv => FailuresAreDeadLettered /\ FailedSpentItsBudget
BY DEF FailureInv, FailureOK, RowFails, FailuresAreDeadLettered, FailedSpentItsBudget

(* A job that a step leaves alone, or one that it queues.                  *)
LEMMA KeepFailures ==
    ASSUME NEW k \in Key, FailureOK(k),
           job'[k].ref = job[k].ref,
           k \in dead' <=> k \in dead,
           \/ job'[k].status = job[k].status /\ job'[k].count = job[k].count
           \/ job'[k].status \in {"queued", "running"}
    PROVE  FailureOK(k)'
BY DEF FailureOK, RowFails

(* The dead letter of an exhausted job is written in the transaction that  *)
(* takes its lease back.                                                   *)
LEMMA ReclaimFailures ==
    ASSUME FailureInv, NEW k \in Key, job'[k] = ReclaimedJobs[k], dead' = ReclaimedDead
    PROVE  FailureOK(k)'
<1>1. job[k] \in JobRow /\ FailureOK(k)
  BY DEF FailureInv, LeaseInv, TypeOK
<1>2. CASE Exhausted(k)
  <2>1. /\ job'[k].status = "failed"
        /\ job'[k].count = job[k].count
        /\ job'[k].ref = IF k \notin dead THEN "open" ELSE job[k].ref
    BY <1>1, <1>2 DEF ReclaimedJobs, Exhausted, JobRow
  <2>. QED
    BY <1>1, <1>2, <2>1 DEF Exhausted, ReclaimedDead, FailureOK
<1>3. CASE Expired(k) /\ ~Exhausted(k)
  <2>1. job'[k].status = "queued" /\ job'[k].ref = job[k].ref
    BY <1>1, <1>3 DEF ReclaimedJobs, JobRow
  <2>. QED
    BY <1>1, <1>3, <2>1, KeepFailures DEF ReclaimedDead
<1>4. CASE ~Expired(k)
  <2>1. job'[k] = job[k] /\ ~Exhausted(k)
    BY <1>4 DEF ReclaimedJobs, Exhausted
  <2>. QED
    BY <1>1, <2>1, KeepFailures DEF ReclaimedDead
<1>. QED
  BY <1>2, <1>3, <1>4 DEF Exhausted

LEMMA ClaimFailures ==
    ASSUME FailureInv, NEW w \in Worker, NEW k \in Key, Claim(w, k), NEW l \in Key
    PROVE  FailureOK(l)'
<1>1. ReclaimedJobs \in [Key -> JobRow] /\ dead' = ReclaimedDead
  BY ReclaimType DEF FailureInv, LeaseInv, Claim
<1>2. CASE l # k
  <2>1. job'[l] = ReclaimedJobs[l]
    BY <1>1, <1>2 DEF Claim
  <2>. QED
    BY <1>1, <2>1, ReclaimFailures
<1>3. CASE l = k
  <2>1. job[k] \in JobRow /\ FailureOK(k) /\ ~Exhausted(k)
    BY DEF Claim, Candidates, FailureInv, LeaseInv, TypeOK, Exhausted, Expired
  <2>2. job'[k] = [job[k] EXCEPT !.status = "running", !.owner = w, !.lease = Lease,
                                 !.count = OneMore(@)]
    BY <1>1 DEF Claim
  <2>3. job'[k].status = "running" /\ job'[k].ref = job[k].ref
    BY <2>1, <2>2 DEF JobRow
  <2>. QED
    BY <1>1, <1>3, <2>1, <2>3, KeepFailures DEF ReclaimedDead
<1>. QED
  BY <1>2, <1>3

(* finish() decides on the attempt_count snapshot of the claim, which by   *)
(* HolderIsCurrent is the row's.                                           *)
LEMMA FinishFailures ==
    ASSUME FailureInv, NEW w \in Worker, Finish(w), NEW k \in Key
    PROVE  FailureOK(k)'
<1>. DEFINE c == claim[w]
            o == outcome[w]
            row == job[c.job]
<1>1. o \in Outcome /\ c \in ClaimedJob /\ c.job \in Key /\ row \in JobRow
  BY WorkingHasClaim DEF Finish, Working, FailureInv, LeaseInv, TypeOK, ProcessOK
<1>2. c.count = row.count
  BY DEF Finish, FailureInv, LeaseInv, HolderIsCurrent
<1>3. dead' = IF Terminal(c, o) THEN dead \cup {c.job} ELSE dead
  BY DEF Finish
<1>4. FailureOK(k) /\ FailureOK(c.job)
  BY <1>1 DEF FailureInv
<1>5. CASE k # c.job
  <2>1. job'[k] = job[k]
    BY <1>1, <1>5 DEF Finish, FailureInv, LeaseInv, TypeOK
  <2>. QED
    BY <1>3, <1>4, <1>5, <2>1, KeepFailures
<1>6. CASE k = c.job
  <2>1. job'[k] = FinishedRow(row, c, o)
    BY <1>1, <1>6 DEF Finish, FailureInv, LeaseInv, TypeOK
  <2>2. /\ job'[k].status = IF Retries(c, o) THEN "queued" ELSE o
        /\ job'[k].count = IF o = "succeeded" THEN 0 ELSE row.count
        /\ job'[k].ref = IF Terminal(c, o) THEN "open" ELSE row.ref
    BY <1>1, <2>1 DEF FinishedRow, JobRow
  <2>3. c.count \in Nat /\ MaxAttempts \in Nat
    BY <1>1, LimitsAssumption DEF ClaimedJob
  <2>4. CASE o = "failed"
    BY <1>2, <1>3, <1>4, <1>6, <2>2, <2>3, <2>4 DEF Retries, Terminal, FailureOK, RowFails
  <2>5. CASE o = "blocked"
    BY <1>3, <1>6, <2>2, <2>5 DEF Retries, Terminal, FailureOK, RowFails
  <2>6. CASE o \in {"succeeded", "interrupted"}
    <3>1. job'[k].status \in {"succeeded", "queued"} /\ ~Terminal(c, o)
      BY <2>2, <2>6 DEF Retries, Terminal
    <3>. QED
      BY <1>3, <1>4, <1>6, <2>2, <3>1 DEF FailureOK, RowFails
  <2>. QED
    BY <1>1, <2>4, <2>5, <2>6 DEF Outcome
<1>. QED
  BY <1>5, <1>6

LEMMA OperatorFailures ==
    ASSUME FailureInv, NEW K \in SUBSET Key, Requeue(K) \/ ReplayDlq(K) \/ ResolveDlq(K),
           NEW k \in Key
    PROVE  FailureOK(k)'
<1>1. job[k] \in JobRow /\ FailureOK(k)
  BY DEF FailureInv, LeaseInv, TypeOK
<1>2. CASE Requeue(K)
  <2>1. dead' = dead
    BY <1>2 DEF Requeue
  <2>2. CASE k \in K /\ job[k].status \notin {"absent", "running"}
    <3>1. job'[k].status = "queued" /\ job'[k].ref = job[k].ref
      BY <1>1, <1>2, <2>2 DEF Requeue, JobRow
    <3>. QED
      BY <1>1, <2>1, <3>1, KeepFailures
  <2>3. CASE ~(k \in K /\ job[k].status \notin {"absent", "running"})
    <3>1. job'[k] = job[k]
      BY <1>2, <2>3 DEF Requeue
    <3>. QED
      BY <1>1, <2>1, <3>1, KeepFailures
  <2>. QED
    BY <2>2, <2>3
<1>3. CASE ReplayDlq(K)
  <2>1. CASE k \in K
    <3>1. job'[k].status = "queued" /\ job'[k].ref = "null" /\ k \notin dead'
      BY <1>1, <1>3, <2>1 DEF ReplayDlq, JobRow
    <3>. QED
      BY <3>1 DEF FailureOK, RowFails
  <2>2. CASE k \notin K
    <3>1. job'[k] = job[k] /\ (k \in dead' <=> k \in dead)
      BY <1>3, <2>2 DEF ReplayDlq
    <3>. QED
      BY <1>1, <3>1, KeepFailures
  <2>. QED
    BY <2>1, <2>2
<1>4. CASE ResolveDlq(K)
  <2>1. CASE k \in K
    <3>1. job[k].ref = "open" /\ k \notin dead'
      BY <1>1, <1>4, <2>1 DEF ResolveDlq, FailureOK
    <3>2. /\ job'[k].status = job[k].status
          /\ job'[k].count = job[k].count
          /\ job'[k].ref = "closed"
      BY <1>1, <1>4, <2>1, <3>1 DEF ResolveDlq, JobRow
    <3>. QED
      BY <1>1, <3>1, <3>2 DEF FailureOK
  <2>2. CASE k \notin K
    <3>1. job'[k] = job[k] /\ (k \in dead' <=> k \in dead)
      BY <1>4, <2>2 DEF ResolveDlq
    <3>. QED
      BY <1>1, <3>1, KeepFailures
  <2>. QED
    BY <2>1, <2>2
<1>. QED
  BY <1>2, <1>3, <1>4

LEMMA NextFailures == FailureInv /\ [Next]_vars => FailureInv'
<1>. SUFFICES ASSUME FailureInv, [Next]_vars, NEW k \in Key PROVE FailureOK(k)'
  BY NextLeases DEF FailureInv
<1>1. job[k] \in JobRow /\ FailureOK(k)
  BY DEF FailureInv, LeaseInv, TypeOK
<1>2. CASE dead' = dead /\ job'[k].ref = job[k].ref /\ job'[k].count = job[k].count
           /\ job'[k].status = job[k].status
  BY <1>1, <1>2, KeepFailures
<1>3. ASSUME NEW w \in Worker, WorkerStep(w) PROVE FailureOK(k)'
  <2>1. CASE \E l \in Key : Claim(w, l)
    BY <2>1, ClaimFailures
  <2>2. CASE ClaimNothing(w)
    BY <2>2, ReclaimFailures DEF ClaimNothing
  <2>3. CASE Finish(w)
    BY <2>3, FinishFailures
  <2>4. CASE Heartbeat(w)
    BY <1>1, <1>2, <2>4 DEF Heartbeat, JobRow, FailureInv, LeaseInv, TypeOK
  <2>5. CASE job' = job /\ dead' = dead
    BY <1>2, <2>5
  <2>. QED
    BY <1>3, <2>1, <2>2, <2>3, <2>4, <2>5
    DEF WorkerStep, ExecutorReturns, LeaseLost, Exit, Crash, Stopped, Shutdown, Restart, tables
<1>4. CASE OperatorStep
  BY <1>4, OperatorFailures DEF OperatorStep
<1>5. CASE LeaseTick \/ WaitTick
  BY <1>1, <1>2, <1>5 DEF LeaseTick, WaitTick, JobRow
<1>6. ASSUME NEW l \in Key, NEW d \in 0 .. Delay["failed"], Enqueue(l, d) PROVE FailureOK(k)'
  <2>1. job' = [job EXCEPT ![l] = NewJob(d)] /\ dead' = dead /\ job[l].status = "absent"
    BY <1>6 DEF Enqueue
  <2>2. CASE k = l
    <3>1. job'[k].status = "queued" /\ job'[k].ref = "null"
      BY <2>1, <2>2 DEF NewJob, FailureInv, LeaseInv, TypeOK
    <3>2. k \notin dead'
      BY <1>1, <2>1, <2>2 DEF FailureOK
    <3>. QED
      BY <3>1, <3>2 DEF FailureOK, RowFails
  <2>3. CASE k # l
    BY <1>1, <1>2, <2>1, <2>3 DEF FailureInv, LeaseInv, TypeOK
  <2>. QED
    BY <2>2, <2>3
<1>7. CASE UNCHANGED vars
  BY <1>2, <1>7 DEF vars
<1>. QED
  BY <1>3, <1>4, <1>5, <1>6, <1>7 DEF Next, UnattendedStep

LEMMA InitFailures == Init => FailureInv
<1>. SUFFICES ASSUME Init, NEW k \in Key PROVE FailureOK(k)
  BY InitLeases DEF FailureInv
<1>. QED
  BY DEF Init, FailureOK, RowFails, NoJob, NewJob

LEMMA FailuresInvariant == Spec => []FailureInv
BY InitFailures, NextFailures, PTL DEF Spec

(* No terminal failure goes without a dead letter, and none is left open   *)
(* that its job does not point at.                                         *)
THEOREM FailuresCorrect == Spec => []FailuresAreDeadLettered
BY FailuresInvariant, FailureInvImplies, PTL

(* A job is stored as failed only after max_attempts attempts.             *)
THEOREM BudgetCorrect == Spec => []FailedSpentItsBudget
BY FailuresInvariant, FailureInvImplies, PTL

-----------------------------------------------------------------------------
(* A live lease is given up only by its holder.                            *)

LEMMA NextExclusive ==
    ASSUME LeaseInv, [Next]_vars, NEW k \in Key,
           job[k].status = "running", job[k].lease > 0, job'[k].status # "running"
    PROVE  \E w \in Worker : job[k].owner = w /\ pc[w] = "finishing" /\ claim[w].job = k
<1>1. job[k] \in JobRow /\ ~Expired(k) /\ job' # job
  BY DEF LeaseInv, TypeOK, Expired
<1>2. ReclaimedJobs[k] = job[k] /\ ReclaimedJobs \in [Key -> JobRow]
  BY <1>1, ReclaimType DEF ReclaimedJobs, LeaseInv
<1>3. ASSUME NEW w \in Worker, NEW l \in Key, Claim(w, l) PROVE FALSE
  <2>1. k # l
    BY <1>3 DEF Claim, Candidates
  <2>. QED
    BY <1>2, <1>3, <2>1 DEF Claim
<1>4. ASSUME NEW w \in Worker, ClaimNothing(w) PROVE FALSE
  BY <1>2, <1>4 DEF ClaimNothing
<1>5. ASSUME NEW w \in Worker, Heartbeat(w) PROVE FALSE
  BY <1>1, <1>5 DEF Heartbeat, LeaseInv, TypeOK, JobRow
<1>6. ASSUME NEW w \in Worker, Finish(w)
      PROVE  job[k].owner = w /\ pc[w] = "finishing" /\ claim[w].job = k
  BY <1>6 DEF Finish, Owned, LeaseInv, TypeOK
<1>7. ASSUME NEW l \in Key, NEW d \in Nat, Enqueue(l, d) PROVE FALSE
  BY <1>7 DEF Enqueue, LeaseInv, TypeOK
<1>8. ASSUME OperatorStep PROVE FALSE
  <2>1. PICK K \in SUBSET Key : Requeue(K) \/ ReplayDlq(K) \/ ResolveDlq(K)
    BY <1>8 DEF OperatorStep
  <2>. QED
    BY <1>1, <2>1 DEF Requeue, ReplayDlq, Replayable, ResolveDlq, JobRow
<1>9. ASSUME LeaseTick \/ WaitTick PROVE FALSE
  BY <1>1, <1>9 DEF LeaseTick, WaitTick, JobRow
<1>10. \A d \in 0 .. Delay["failed"] : d \in Nat
  BY LimitsAssumption DEF Outcome
<1>. QED
  BY <1>1, <1>3, <1>4, <1>5, <1>6, <1>7, <1>8, <1>9, <1>10
  DEF Next, UnattendedStep, WorkerStep, ExecutorReturns, LeaseLost, Exit, Crash, Stopped,
      Shutdown, Restart, tables, vars

(* No command, no other worker and no restart takes a live lease away.     *)
THEOREM LeaseExclusive == Spec => LeaseIsExclusive
<1>1. LeaseInv /\ [Next]_vars =>
          [\A k \in Key :
              job[k].status = "running" /\ job[k].lease > 0 /\ job'[k].status # "running"
                => \E w \in Worker : /\ job[k].owner = w
                                     /\ pc[w] = "finishing"
                                     /\ claim[w].job = k]_vars
  BY NextExclusive
<1>. QED
  BY <1>1, LeasesInvariant, PTL DEF Spec, LeaseIsExclusive

-----------------------------------------------------------------------------
(* The limit of a domain.  The admission query counts live leases; a claim *)
(* runs in the transaction that ends all others, so the count is that of   *)
(* the running jobs.                                                       *)

RunningIn(d) == {k \in Key : job[k].status = "running" /\ DomainOf[k.pair] = d}

LiveIn(d) == {k \in Key : Live(k) /\ DomainOf[k.pair] = d}

DomainInv == TypeOK /\ ProcessOK /\ \A d \in Domain : Cardinality(RunningIn(d)) <= DomainLimit[d]

LEMMA RunningFinite ==
    \A d : /\ IsFiniteSet(RunningIn(d)) /\ IsFiniteSet(LiveIn(d))
          /\ Cardinality(RunningIn(d)) \in Nat /\ Cardinality(LiveIn(d)) \in Nat
<1>. SUFFICES ASSUME NEW d
              PROVE  IsFiniteSet(RunningIn(d)) /\ IsFiniteSet(LiveIn(d))
  BY FS_CardinalityType
<1>. QED
  BY FiniteAssumption, FS_Subset DEF RunningIn, LiveIn

(* A step after which no job runs that did not run before.                 *)
LEMMA FewerRunning ==
    ASSUME DomainInv, TypeOK', ProcessOK',
           \A k \in Key : job'[k].status = "running" => job[k].status = "running"
    PROVE  DomainInv'
<1>. SUFFICES ASSUME NEW d \in Domain PROVE Cardinality(RunningIn(d)') <= DomainLimit[d]
  BY DEF DomainInv, RunningIn
<1>1. RunningIn(d)' \subseteq RunningIn(d)
  BY DEF RunningIn
<1>2. Cardinality(RunningIn(d)') <= Cardinality(RunningIn(d))
  BY <1>1, RunningFinite, FS_Subset
<1>3. Cardinality(RunningIn(d)') \in Nat
  BY <1>1, RunningFinite, FS_Subset, FS_CardinalityType
<1>. QED
  BY <1>2, <1>3, RunningFinite, DomainAssumption DEF DomainInv

LEMMA ClaimRespectsLimit ==
    ASSUME DomainInv, TypeOK', ProcessOK', NEW w \in Worker, NEW k \in Key, Claim(w, k)
    PROVE  DomainInv'
<1>. SUFFICES ASSUME NEW d \in Domain PROVE Cardinality(RunningIn(d)') <= DomainLimit[d]
  BY DEF DomainInv, RunningIn
<1>1. DomainLimit[d] \in Nat
  BY DomainAssumption
<1>2. ReclaimedJobs \in [Key -> JobRow]
  BY ReclaimType DEF DomainInv
<1>3. \A l \in Key : l # k /\ job'[l].status = "running" => Live(l)
  <2>. SUFFICES ASSUME NEW l \in Key, l # k, job'[l].status = "running" PROVE Live(l)
    OBVIOUS
  <2>1. ReclaimedJobs[l].status = "running"
    BY <1>2 DEF Claim
  <2>2. job[l].status = "running" /\ ~Expired(l) /\ job[l] \in JobRow
    BY <2>1, ReclaimKeepsLive DEF DomainInv, TypeOK
  <2>. QED
    BY <2>2 DEF Live, Expired, JobRow
<1>4. LiveIn(d) \subseteq RunningIn(d) /\ k \notin LiveIn(d)
  BY DEF LiveIn, RunningIn, Live, Claim, Candidates
<1>5. CASE DomainOf[k.pair] = d
  <2>1. RunningIn(d)' \subseteq LiveIn(d) \cup {k}
    BY <1>3 DEF RunningIn, LiveIn
  <2>2. Cardinality(LiveIn(d)) < DomainLimit[d]
    BY <1>5 DEF Claim, Candidates, ActiveCount, LiveIn
  <2>3. /\ IsFiniteSet(LiveIn(d) \cup {k})
        /\ Cardinality(LiveIn(d) \cup {k}) = Cardinality(LiveIn(d)) + 1
    BY <1>4, RunningFinite, FS_AddElement
  <2>4. /\ Cardinality(RunningIn(d)') <= Cardinality(LiveIn(d) \cup {k})
        /\ Cardinality(RunningIn(d)') \in Nat
    BY <2>1, <2>3, FS_Subset, FS_CardinalityType
  <2>. QED
    BY <1>1, <2>2, <2>3, <2>4, RunningFinite
<1>6. CASE DomainOf[k.pair] # d
  <2>1. RunningIn(d)' \subseteq RunningIn(d)
    BY <1>3, <1>6 DEF RunningIn, Live
  <2>2. /\ Cardinality(RunningIn(d)') <= Cardinality(RunningIn(d))
        /\ Cardinality(RunningIn(d)') \in Nat
    BY <2>1, RunningFinite, FS_Subset, FS_CardinalityType
  <2>. QED
    BY <1>1, <2>2, RunningFinite DEF DomainInv
<1>. QED
  BY <1>5, <1>6

LEMMA NextDomains == DomainInv /\ [Next]_vars => DomainInv'
<1>. SUFFICES ASSUME DomainInv, [Next]_vars PROVE DomainInv'
  OBVIOUS
<1>1. TypeOK' /\ ProcessOK' /\ \A k \in Key : job[k] \in JobRow
  BY NextType DEF DomainInv, TypeOK
<1>2. CASE \A k \in Key : job'[k].status = "running" => job[k].status = "running"
  BY <1>1, <1>2, FewerRunning
<1>3. ASSUME NEW w \in Worker, WorkerStep(w) PROVE DomainInv'
  <2>1. CASE \E k \in Key : Claim(w, k)
    BY <1>1, <2>1, ClaimRespectsLimit
  <2>2. CASE ClaimNothing(w)
    BY <1>2, <2>2, ReclaimKeepsLive DEF ClaimNothing, DomainInv
  <2>3. CASE Finish(w) \/ Heartbeat(w)
    BY <1>2, <2>3 DEF Finish, Heartbeat, Owned, DomainInv, TypeOK
  <2>4. CASE job' = job
    BY <1>2, <2>4
  <2>. QED
    BY <1>3, <2>1, <2>2, <2>3, <2>4
    DEF WorkerStep, ExecutorReturns, LeaseLost, Exit, Crash, Stopped, Shutdown, Restart, tables
<1>4. CASE OperatorStep
  <2>1. PICK K \in SUBSET Key : Requeue(K) \/ ReplayDlq(K) \/ ResolveDlq(K)
    BY <1>4 DEF OperatorStep
  <2>2. CASE Requeue(K)
    BY <1>1, <1>2, <2>2 DEF Requeue, JobRow
  <2>3. CASE ReplayDlq(K)
    BY <1>1, <1>2, <2>3 DEF ReplayDlq, JobRow
  <2>4. CASE ResolveDlq(K)
    BY <1>1, <1>2, <2>4 DEF ResolveDlq, JobRow
  <2>. QED
    BY <2>1, <2>2, <2>3, <2>4
<1>5. CASE LeaseTick \/ WaitTick
  BY <1>1, <1>2, <1>5 DEF LeaseTick, WaitTick, JobRow
<1>6. CASE \E k \in Key, d \in 0 .. Delay["failed"] : Enqueue(k, d)
  BY <1>2, <1>6 DEF Enqueue, NewJob, DomainInv, TypeOK
<1>7. CASE UNCHANGED vars
  BY <1>2, <1>7 DEF vars
<1>. QED
  BY <1>3, <1>4, <1>5, <1>6, <1>7 DEF Next, UnattendedStep

LEMMA InitDomains == Init => DomainInv
<1>. SUFFICES ASSUME Init, NEW d \in Domain PROVE Cardinality(RunningIn(d)) <= DomainLimit[d]
  BY InitType DEF DomainInv
<1>1. RunningIn(d) = {}
  BY DEF Init, RunningIn, NoJob, NewJob
<1>. QED
  BY <1>1, FS_EmptySet, DomainAssumption

(* Whatever expires, is renewed or is taken back between two claims, no    *)
(* domain ever runs more jobs than its limit.                              *)
THEOREM DomainsCorrect == Spec => []DomainLimitRespected
<1>1. DomainInv => DomainLimitRespected
  BY DEF DomainInv, DomainLimitRespected, RunningIn
<1>. QED
  BY <1>1, InitDomains, NextDomains, PTL DEF Spec

-----------------------------------------------------------------------------
(* The queue implements LeasedWork: the holder of a job is the owner in    *)
(* its running row, the task of a process is the job of its claim.         *)

LeasedInv == LeaseInv /\ DomainInv

LEMMA TaskOfWorking ==
    ASSUME LeaseInv, NEW w \in Worker, Working(w)
    PROVE  Task[w] = claim[w].job /\ claim[w].job \in Key /\ Task[w] # None
<1>1. claim[w] \in ClaimedJob /\ claim[w].job \in Key
  BY WorkingHasClaim DEF LeaseInv
<1>. QED
  BY <1>1, NoneAssumption DEF Task

LEMMA OwnedIsHeld ==
    ASSUME LeaseInv, NEW w \in Worker, Working(w), Owned(w)
    PROVE  Leases!Holds(w)
BY TaskOfWorking DEF Leases!Holds, Holder, Owned

(* A step that keeps the status of the running and of the succeeded jobs,  *)
(* and the owners of the running ones, keeps who holds what.               *)
LEMMA SameHolders ==
    ASSUME \A k \in Key : job'[k].status = "running" <=> job[k].status = "running",
           \A k \in Key : job[k].status = "running" => job'[k].owner = job[k].owner
    PROVE  Holder' = Holder
BY DEF Holder

LEMMA SameClaims ==
    ASSUME claim' = claim
    PROVE  Task' = Task
BY DEF Task

LEMMA DroppedClaim ==
    ASSUME TypeOK, NEW w \in Worker, claim' = [claim EXCEPT ![w] = None]
    PROVE  Task' = [Task EXCEPT ![w] = None]
BY DEF Task, TypeOK

(* The view of the queue after reclaim_expired().                          *)
LEMMA ReclaimedView ==
    ASSUME TypeOK, NEW k \in Key
    PROVE  /\ ReclaimedJobs[k].status = "running" <=> Live(k)
           /\ Live(k) => ReclaimedJobs[k] = job[k]
           /\ ReclaimedJobs[k].status = "succeeded" <=> job[k].status = "succeeded"
<1>1. job[k] \in JobRow
  BY DEF TypeOK
<1>2. CASE Expired(k)
  <2>1. ReclaimedJobs[k].status \in {"failed", "queued"}
    BY <1>1, <1>2 DEF ReclaimedJobs, JobRow
  <2>. QED
    BY <1>2, <2>1 DEF Expired, Live
<1>3. CASE ~Expired(k)
  <2>1. ReclaimedJobs[k] = job[k]
    BY <1>3 DEF ReclaimedJobs
  <2>. QED
    BY <1>1, <1>3, <2>1 DEF Expired, Live, JobRow
<1>. QED
  BY <1>2, <1>3

LEMMA ClaimTakes ==
    ASSUME LeasedInv, LeasedInv', NEW w \in Worker, NEW k \in Key, Claim(w, k)
    PROVE  Leases!Take(w, k)
<1>1. ReclaimedJobs \in [Key -> JobRow] /\ job[k] \in JobRow /\ job[k].status = "queued"
  BY ReclaimType DEF LeasedInv, LeaseInv, TypeOK, Claim, Candidates
<1>2. /\ job'[k].status = "running"
      /\ job'[k].owner = w
      /\ job'[k].lease = Lease
  <2>1. job'[k] = [job[k] EXCEPT !.status = "running", !.owner = w, !.lease = Lease,
                                 !.count = OneMore(@)]
    BY <1>1 DEF Claim
  <2>. QED
    BY <1>1, <2>1 DEF JobRow
<1>3. \A l \in Key \ {k} :
          /\ job'[l].status = "running" <=> Live(l)
          /\ Live(l) => job'[l] = job[l]
          /\ job'[l].status = "succeeded" <=> job[l].status = "succeeded"
  <2>1. \A l \in Key \ {k} : job'[l] = ReclaimedJobs[l]
    BY <1>1 DEF Claim
  <2>. QED
    BY <2>1, ReclaimedView DEF LeasedInv, LeaseInv
<1>4. Task[w] = None /\ Task' = [Task EXCEPT ![w] = k]
  <2>1. claim[w] = None
    BY DEF Claim, LeasedInv, LeaseInv, ProcessOK
  <2>2. claim' = [claim EXCEPT ![w] = Snapshot(k)] /\ claim \in [Worker -> ClaimedJob \cup {None}]
    BY DEF Claim, LeasedInv, LeaseInv, TypeOK
  <2>3. Snapshot(k) # None /\ Snapshot(k).job = k
    <3>1. Working(w)'
      BY DEF Claim, Working, LeasedInv, LeaseInv, TypeOK
    <3>. QED
      BY <2>2, <3>1 DEF Snapshot, LeasedInv, LeaseInv, ProcessOK, Working
  <2>. QED
    BY <2>1, <2>2, <2>3 DEF Task
<1>5. k \notin LiveLeases \cup Succeeded
  BY <1>1 DEF LiveLeases, Succeeded, Live
<1>6. LiveLeases' = LiveLeases \cup {k}
  <2>1. \A l \in Key : Live(l)' <=> Live(l) \/ l = k
    BY <1>2, <1>3, LimitsAssumption DEF Live
  <2>. QED
    BY <2>1 DEF LiveLeases
<1>7. Succeeded' = Succeeded
  BY <1>1, <1>2, <1>3 DEF Succeeded
<1>8. Holder' = [Leases!Reclaimed EXCEPT ![k] = w]
  <2>1. \A l \in Key : Leases!Reclaimed[l] = IF Live(l) THEN job[l].owner ELSE None
    BY DEF Leases!Reclaimed, LiveLeases, Holder, Live
  <2>2. \A l \in Key : Holder'[l] = IF l = k THEN w ELSE Leases!Reclaimed[l]
    BY <1>2, <1>3, <2>1 DEF Holder
  <2>. QED
    BY <2>2 DEF Holder, Leases!Reclaimed
<1>9. \A d \in Domain :
          Cardinality({l \in Key : Holder'[l] # None /\ PoolOfKey[l] = d}) <= DomainLimit[d]
  <2>. SUFFICES ASSUME NEW d \in Domain
                PROVE  Cardinality({l \in Key : Holder'[l] # None /\ PoolOfKey[l] = d})
                           <= DomainLimit[d]
    OBVIOUS
  <2>. DEFINE held == {l \in Key : Holder'[l] # None /\ PoolOfKey[l] = d}
  <2>1. held \subseteq RunningIn(d)'
    BY DEF Holder, PoolOfKey, RunningIn
  <2>2. IsFiniteSet(RunningIn(d)')
    BY FiniteAssumption, FS_Subset DEF RunningIn
  <2>3. /\ Cardinality(held) <= Cardinality(RunningIn(d)')
        /\ Cardinality(held) \in Nat
        /\ Cardinality(RunningIn(d)') \in Nat
    BY <2>1, <2>2, FS_Subset, FS_CardinalityType
  <2>4. Cardinality(RunningIn(d)') <= DomainLimit[d]
    BY DEF LeasedInv, DomainInv
  <2>5. DomainLimit[d] \in Nat
    BY DomainAssumption
  <2>. QED
    BY <2>3, <2>4, <2>5
<1>. QED
  BY <1>4, <1>5, <1>6, <1>7, <1>8, <1>9 DEF Leases!Take, Leases!Cardinality, Cardinality

LEMMA ClaimNothingReclaims ==
    ASSUME LeaseInv, NEW w \in Worker, ClaimNothing(w)
    PROVE  Leases!Reclaim
<1>1. \A k \in Key : /\ job'[k].status = "running" <=> Live(k)
                     /\ Live(k) => job'[k] = job[k]
                     /\ job'[k].status = "succeeded" <=> job[k].status = "succeeded"
  BY ReclaimedView DEF ClaimNothing, LeaseInv
<1>2. Task' = Task
  BY SameClaims DEF ClaimNothing, processes
<1>3. LiveLeases' = LiveLeases /\ Succeeded' = Succeeded
  BY <1>1 DEF LiveLeases, Live, Succeeded
<1>4. Holder' = Leases!Reclaimed
  BY <1>1 DEF Holder, Leases!Reclaimed, LiveLeases, Live
<1>. QED
  BY <1>2, <1>3, <1>4 DEF Leases!Reclaim

LEMMA HeartbeatRenews ==
    ASSUME LeaseInv, NEW w \in Worker, Heartbeat(w)
    PROVE  Leases!Renew(w)
<1>. DEFINE k == claim[w].job
<1>1. Working(w) /\ Owned(w)
  BY DEF Heartbeat, Working
<1>2. Task[w] = k /\ k \in Key /\ Leases!Holds(w)
  BY <1>1, TaskOfWorking, OwnedIsHeld
<1>3. job' = [job EXCEPT ![k].lease = Lease] /\ job \in [Key -> JobRow] /\ claim' = claim
  BY DEF Heartbeat, processes, LeaseInv, TypeOK
<1>. HIDE DEF k
<1>4. /\ \A l \in Key : job'[l].status = job[l].status /\ job'[l].owner = job[l].owner
      /\ \A l \in Key : job'[l].lease = IF l = k THEN Lease ELSE job[l].lease
  BY <1>2, <1>3 DEF JobRow
<1>5. Holder' = Holder /\ Succeeded' = Succeeded
  BY <1>4 DEF Holder, Succeeded
<1>6. LiveLeases' = LiveLeases \cup {k}
  <2>1. job[k].status = "running"
    BY <1>1 DEF Owned, k
  <2>. QED
    BY <1>2, <1>4, <2>1, LimitsAssumption DEF LiveLeases, Live
<1>. QED
  BY <1>2, <1>3, <1>5, <1>6, SameClaims DEF Leases!Renew

LEMMA FinishReports ==
    ASSUME LeaseInv, NEW w \in Worker, Finish(w)
    PROVE  \E success \in BOOLEAN : Leases!Report(w, success)
<1>. DEFINE k == claim[w].job
            o == outcome[w]
<1>1. Working(w) /\ Owned(w)
  BY DEF Finish, Working
<1>2. Task[w] = k /\ k \in Key /\ Leases!Holds(w) /\ o \in Outcome
  BY <1>1, TaskOfWorking, OwnedIsHeld DEF Finish, LeaseInv, TypeOK, ProcessOK
<1>3. /\ job'[k].status # "running"
      /\ job'[k].status = "succeeded" <=> o = "succeeded"
  <2>1. job[k] \in JobRow /\ job'[k] = FinishedRow(job[k], claim[w], o)
    BY <1>2 DEF Finish, LeaseInv, TypeOK
  <2>2. job'[k].status = IF Retries(claim[w], o) THEN "queued" ELSE o
    BY <2>1 DEF FinishedRow, JobRow
  <2>. QED
    BY <1>2, <2>2 DEF Outcome, Retries
<1>4. \A l \in Key \ {k} : job'[l] = job[l]
  BY <1>2 DEF Finish, LeaseInv, TypeOK
<1>5. job[k].status = "running"
  BY <1>1 DEF Owned
<1>6. Task' = [Task EXCEPT ![w] = None]
  BY DroppedClaim DEF Finish, LeaseInv
<1>. HIDE DEF k, o
<1>7. Holder' = [Holder EXCEPT ![k] = None]
  BY <1>2, <1>3, <1>4 DEF Holder
<1>8. LiveLeases' = LiveLeases \ {k}
  BY <1>2, <1>3, <1>4 DEF LiveLeases, Live
<1>9. Succeeded' = IF o = "succeeded" THEN Succeeded \cup {k} ELSE Succeeded
  BY <1>2, <1>3, <1>4, <1>5 DEF Succeeded
<1>10. Leases!Report(w, o = "succeeded")
  BY <1>2, <1>6, <1>7, <1>8, <1>9 DEF Leases!Report
<1>. QED
  BY <1>10

LEMMA StoppedAbandons ==
    ASSUME LeaseInv, NEW w \in Worker, Stopped(w)
    PROVE  Leases!Abandon(w)
<1>1. Task' = [Task EXCEPT ![w] = None]
  BY DroppedClaim DEF Stopped, LeaseInv
<1>2. Holder' = Holder /\ LiveLeases' = LiveLeases /\ Succeeded' = Succeeded
  BY DEF Stopped, tables, Holder, LiveLeases, Live, Succeeded
<1>. QED
  BY <1>1, <1>2 DEF Leases!Abandon

LEMMA TickLapses == LeaseInv /\ LeaseTick => Leases!Lapse
<1>. SUFFICES ASSUME LeaseInv, LeaseTick PROVE Leases!Lapse
  OBVIOUS
<1>1. \A k \in Key : /\ job'[k].status = job[k].status /\ job'[k].owner = job[k].owner
                     /\ job'[k].lease > 0 => job[k].lease > 0
  <2>1. \A k \in Key : job[k] \in JobRow
    BY DEF LeaseInv, TypeOK
  <2>. QED
    BY <2>1 DEF LeaseTick, Decrement, JobRow
<1>2. Holder' = Holder /\ Succeeded' = Succeeded
  BY <1>1 DEF Holder, Succeeded
<1>3. LiveLeases' \subseteq LiveLeases
  BY <1>1 DEF LiveLeases, Live
<1>. QED
  BY <1>2, <1>3, SameClaims DEF LeaseTick, processes, Leases!Lapse

(* The commands leave the running rows alone and make nothing succeed.     *)
LEMMA RestReopens ==
    ASSUME claim' = claim,
           \A k \in Key : job'[k].status = "running" <=> job[k].status = "running",
           \A k \in Key : job[k].status = "running" => job'[k].owner = job[k].owner
                                                       /\ job'[k].lease = job[k].lease,
           \A k \in Key : job'[k].status = "succeeded" => job[k].status = "succeeded"
    PROVE  Leases!Reopen
<1>1. Holder' = Holder /\ LiveLeases' = LiveLeases /\ Succeeded' \subseteq Succeeded
  BY DEF Holder, LiveLeases, Live, Succeeded
<1>. QED
  BY <1>1, SameClaims DEF Leases!Reopen

LEMMA OperatorReopens ==
    ASSUME LeaseInv, NEW K \in SUBSET Key, Requeue(K) \/ ReplayDlq(K) \/ ResolveDlq(K)
    PROVE  Leases!Reopen
<1>1. claim' = claim
  BY DEF Requeue, ReplayDlq, ResolveDlq, processes
<1>2. ASSUME NEW k \in Key
      PROVE  /\ job'[k].status = "running" <=> job[k].status = "running"
             /\ job[k].status = "running" => job'[k].owner = job[k].owner
                                             /\ job'[k].lease = job[k].lease
             /\ job'[k].status = "succeeded" => job[k].status = "succeeded"
  <2>1. job[k] \in JobRow
    BY DEF LeaseInv, TypeOK
  <2>2. CASE Requeue(K)
    BY <2>1, <2>2 DEF Requeue, JobRow
  <2>3. CASE ReplayDlq(K)
    BY <2>1, <2>3 DEF ReplayDlq, Replayable, JobRow
  <2>4. CASE ResolveDlq(K)
    BY <2>1, <2>4 DEF ResolveDlq, JobRow
  <2>. QED
    BY <2>2, <2>3, <2>4
<1>. QED
  BY <1>1, <1>2, RestReopens

LEMMA WorkerStepLeases ==
    ASSUME LeasedInv, LeasedInv', NEW w \in Worker, WorkerStep(w)
    PROVE  Leases!Next \/ UNCHANGED Leases!vars
<1>1. CASE \E k \in Key : Claim(w, k)
  BY <1>1, ClaimTakes DEF Leases!Next, Leases!WorkerStep
<1>2. CASE ClaimNothing(w)
  BY <1>2, ClaimNothingReclaims DEF LeasedInv, Leases!Next
<1>3. CASE Heartbeat(w)
  BY <1>3, HeartbeatRenews DEF LeasedInv, Leases!Next, Leases!WorkerStep
<1>4. CASE Finish(w)
  BY <1>4, FinishReports DEF LeasedInv, Leases!Next, Leases!WorkerStep
<1>5. CASE LeaseLost(w) \/ Exit(w) \/ Crash(w)
  BY <1>5, StoppedAbandons DEF LeaseLost, Exit, Crash, LeasedInv, Leases!Next, Leases!WorkerStep
<1>6. CASE job' = job /\ claim' = claim
  BY <1>6 DEF Leases!vars, Holder, LiveLeases, Live, Task, Succeeded
<1>. QED
  BY <1>1, <1>2, <1>3, <1>4, <1>5, <1>6
  DEF WorkerStep, ExecutorReturns, Shutdown, Restart, tables

LEMMA StepLeases == LeasedInv /\ LeasedInv' /\ [Next]_vars => [Leases!Next]_Leases!vars
<1>. SUFFICES ASSUME LeasedInv, LeasedInv', [Next]_vars
              PROVE  Leases!Next \/ UNCHANGED Leases!vars
  OBVIOUS
<1>1. CASE LeaseTick
  BY <1>1, TickLapses DEF LeasedInv, Leases!Next
<1>2. CASE OperatorStep
  BY <1>2, OperatorReopens DEF OperatorStep, LeasedInv, Leases!Next
<1>3. CASE WaitTick
  <2>1. \A k \in Key : job[k] \in JobRow
    BY DEF LeasedInv, LeaseInv, TypeOK
  <2>2. \A k \in Key : /\ job'[k].status = job[k].status /\ job'[k].owner = job[k].owner
                       /\ job'[k].lease = job[k].lease
    BY <1>3, <2>1 DEF WaitTick, JobRow
  <2>. QED
    BY <1>3, <2>2, RestReopens DEF WaitTick, processes, Leases!Next
<1>4. ASSUME NEW k \in Key, NEW d \in 0 .. Delay["failed"], Enqueue(k, d) PROVE Leases!Next
  <2>1. job \in [Key -> JobRow] /\ job' = [job EXCEPT ![k] = NewJob(d)]
    BY <1>4 DEF Enqueue, LeasedInv, LeaseInv, TypeOK
  <2>2. NewJob(d).status = "queued" /\ job[k].status = "absent"
    BY <1>4 DEF NewJob, Enqueue
  <2>3. \A l \in Key : l = k \/ job'[l] = job[l]
    BY <2>1
  <2>4. job'[k].status = "queued"
    BY <2>1, <2>2
  <2>. QED
    BY <1>4, <2>2, <2>3, <2>4, RestReopens DEF Enqueue, processes, Leases!Next
<1>5. CASE UNCHANGED vars
  BY <1>5 DEF vars, Leases!vars, Holder, LiveLeases, Live, Task, Succeeded
<1>. QED
  BY <1>1, <1>2, <1>3, <1>4, <1>5, WorkerStepLeases DEF Next, UnattendedStep

LEMMA InitIsLeased == Init => Leases!Init
<1>. SUFFICES ASSUME Init PROVE Leases!Init
  OBVIOUS
<1>1. \A k \in Key : job[k].status = "absent"
  BY DEF Init, NoJob, NewJob
<1>. QED
  BY <1>1 DEF Init, Leases!Init, Holder, LiveLeases, Live, Task, Succeeded

LEMMA LeasedInvariant == LeasedInv /\ [Next]_vars => LeasedInv'
BY NextLeases, NextDomains DEF LeasedInv

(* The queue implements LeasedWork.  A job is in the hands of one worker;  *)
(* a lease is taken back only once it ran out, which is when claim() finds *)
(* it; the domains keep their limits; and although finish() compares the   *)
(* name of the worker only, a report counts for the claim it belongs to.   *)
THEOREM LeasedWorkCorrect == Spec => ImplementsLeasedWork
<1>1. Init => LeasedInv /\ Leases!Init
  BY InitLeases, InitDomains, InitIsLeased DEF LeasedInv
<1>. QED
  BY <1>1, LeasedInvariant, StepLeases, PTL DEF Spec, ImplementsLeasedWork, Leases!Spec

=============================================================================
