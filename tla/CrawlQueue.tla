------------------------------ MODULE CrawlQueue ------------------------------
(***************************************************************************)
(* The durable crawl queue (scripts/crawl/runtime_queue.py) and the worker *)
(* processes that drain it (scripts/crawl/worker.py).                      *)
(*                                                                         *)
(* Every method of class CrawlQueue runs in one PostgreSQL transaction, so *)
(* it is one step here.  The tables of db/migrations/079 and 087 are       *)
(*   job       crawl_jobs, one row per idempotency key;                    *)
(*   attempts  the rows of crawl_job_attempts that are still 'running'     *)
(*             (a closed row never changes again and is dropped);          *)
(*   dead      the jobs that have an open ('dead') row of dlq_entries;     *)
(*   schedule  crawl_entity_source_schedule, which finish() reschedules.   *)
(*                                                                         *)
(* Time is a countdown: "lease" is the number of ticks before              *)
(* lease_expires_at < clock holds, "wait" the number before next_run_at <= *)
(* clock does.  Cursors, metrics and error texts are left out.             *)
(***************************************************************************)
EXTENDS Naturals, FiniteSets

CONSTANTS
    Pair,          \* (canonical_entity_key, source, capability) triples
    Binding,       \* values of binding_version
    Applicability, \* the applicability states in use, a subset of VALID_APPLICABILITY
    Window,        \* crawl windows
    Domain,        \* values of domain_key
    DomainOf,      \* the domain a pair is crawled from
    DomainLimit,   \* domain_concurrency_limit of each domain
    Worker,        \* worker ids: one live process each (the unit worker@%i)
    AttemptId,     \* ids of crawl_job_attempts
    MaxAttempts,   \* max_attempts
    Lease,         \* lease_seconds, in ticks
    Delay,         \* ticks before the next run, by outcome
    MaxBatch,      \* bound: the most jobs one operator command names
    None           \* SQL NULL

Outcome == {"succeeded", "failed", "blocked", "interrupted"}

Status == {"absent", "queued", "running", "succeeded", "failed", "blocked", "cancelled"}

\* The idempotency key hashes the pair, the window and the binding.
Key == [pair : Pair, binding : Binding, window : Window]

\* What a worker remembers of its claim: dataclass ClaimedJob.
ClaimedJob == [job : Key, attempt : AttemptId, count : Nat]

ScheduleRow == [binding : Binding, applicability : Applicability, wait : Nat]

ASSUME LimitsAssumption ==
    /\ MaxAttempts \in Nat \ {0}
    /\ Lease \in Nat \ {0}
    /\ Delay \in [Outcome \cup {"lease_expired"} -> Nat]

ASSUME DomainAssumption ==
    /\ DomainOf \in [Pair -> Domain]
    /\ DomainLimit \in [Domain -> Nat \ {0}]

ASSUME NoneAssumption == None \notin Worker \cup Key \cup ClaimedJob \cup Outcome \cup ScheduleRow

ASSUME ApplicabilityAssumption ==
    Applicability \subseteq {"APPLICABLE", "NOT_APPLICABLE", "BLOCKED", "FAILED"}

ASSUME FiniteAssumption == IsFiniteSet(Key)

VARIABLES
    job,        \* crawl_jobs
    attempts,   \* the open rows of crawl_job_attempts
    dead,       \* the jobs with an open row of dlq_entries
    schedule,   \* crawl_entity_source_schedule
    pc,         \* where each worker process is
    claim,      \* the ClaimedJob each worker process holds
    outcome,    \* what the executor of each worker returned
    stopping    \* the workers whose shutdown_requested is set

tables == <<job, attempts, dead, schedule>>
processes == <<pc, claim, outcome, stopping>>
vars == <<job, attempts, dead, schedule, pc, claim, outcome, stopping>>

JobRow == [status : Status, owner : Worker \cup {None}, lease : Nat,
           count : Nat, wait : Nat, ref : {"null", "open", "closed"}]

\* A row that enqueue() inserts, claimable after d ticks.
NewJob(d) == [status |-> "queued", owner |-> None, lease |-> 0,
              count |-> 0, wait |-> d, ref |-> "null"]

NoJob == [NewJob(0) EXCEPT !.status = "absent"]

OpenAttempt == [id : AttemptId, job : Key, worker : Worker]

-----------------------------------------------------------------------------
(* The unique index uq_crawl_jobs_active_pair: at most one queued or       *)
(* running job for a pair.  A statement that would break it raises, and    *)
(* its transaction changes nothing.                                        *)

Active(row) == row.status \in {"queued", "running"}

ActivePairUnique(rows) ==
    \A k, l \in Key : Active(rows[k]) /\ Active(rows[l]) /\ k.pair = l.pair => k = l

Init ==
    /\ job = [k \in Key |-> NoJob]
    /\ attempts = {}
    /\ dead = {}
    /\ schedule = [p \in Pair |-> None]
    /\ pc = [w \in Worker |-> "idle"]
    /\ claim = [w \in Worker |-> None]
    /\ outcome = [w \in Worker |-> None]
    /\ stopping = {}

\* INSERT ... ON CONFLICT (idempotency_key) DO NOTHING.
Enqueue(k, d) ==
    /\ job[k].status = "absent"
    /\ job' = [job EXCEPT ![k] = NewJob(d)]
    /\ ActivePairUnique(job')
    /\ UNCHANGED <<attempts, dead, schedule, processes>>

-----------------------------------------------------------------------------
(* claim(): one transaction, serialised by an advisory lock, that first    *)
(* takes back the expired leases and then admits one job.                  *)

\* Mutant: a lease ends a tick early.
ExpiredEarly(k) == job[k].status = "running" /\ job[k].lease <= 1

Expired(k) == job[k].status = "running" /\ job[k].lease = 0

Exhausted(k) == Expired(k) /\ job[k].count >= MaxAttempts

\* The tables after reclaim_expired().
ReclaimedJobs ==
    [k \in Key |->
        IF Expired(k)
        THEN [job[k] EXCEPT !.status = IF Exhausted(k) THEN "failed" ELSE "queued",
                            !.wait = IF Exhausted(k) THEN Delay["lease_expired"] ELSE 0,
                            !.owner = None,
                            !.ref = IF Exhausted(k) /\ k \notin dead THEN "open" ELSE @]
        ELSE job[k]]

\* Mutant: the attempts of the expired leases stay open.
AllAttempts == attempts

ReclaimedAttempts == {a \in attempts : ~Expired(a.job)}

\* Mutant: a job that expires on its last attempt gets no dead letter.
NoNewDead == dead

ReclaimedDead == dead \cup {k \in Key : Exhausted(k)}

Live(k) == job[k].status = "running" /\ job[k].lease > 0

ActiveCount(d) == Cardinality({k \in Key : Live(k) /\ DomainOf[k.pair] = d})

\* Mutant: off by one at the limit.
CandidatesOffByOne ==
    {k \in Key : /\ job[k].status = "queued"
                 /\ job[k].wait = 0
                 /\ ActiveCount(DomainOf[k.pair]) <= DomainLimit[DomainOf[k.pair]]}

(* A job that this very claim() takes back is not a candidate: its         *)
(* next_run_at is now(), the start of the transaction, which is later than *)
(* the clock claim() read before it.                                       *)
Candidates ==
    {k \in Key : /\ job[k].status = "queued"
                 /\ job[k].wait = 0
                 /\ ActiveCount(DomainOf[k.pair]) < DomainLimit[DomainOf[k.pair]]}

\* BIGSERIAL: an id that no open row and no process uses.
FreshAttempts ==
    AttemptId \ ({a.id : a \in attempts}
                   \cup {claim[w].attempt : w \in {v \in Worker : claim[v] # None}})

NextAttempt == CHOOSE a \in FreshAttempts : TRUE

\* Mutant: the claim does not count the attempt.
NoMore(n) == n

\* attempt_count + 1; beyond MaxAttempts the count no longer matters.
OneMore(n) == IF n > MaxAttempts THEN n ELSE n + 1

\* Mutant: the snapshot is read before the UPDATE counts the attempt.
StaleSnapshot(k) == [job |-> k, attempt |-> NextAttempt, count |-> job[k].count]

Snapshot(k) == [job |-> k, attempt |-> NextAttempt, count |-> OneMore(job[k].count)]

Claim(w, k) ==
    /\ pc[w] = "idle"
    /\ k \in Candidates
    /\ FreshAttempts # {}
    /\ attempts' = ReclaimedAttempts \cup {[id |-> NextAttempt, job |-> k, worker |-> w]}
    /\ claim' = [claim EXCEPT ![w] = Snapshot(k)]
    /\ job' = [ReclaimedJobs EXCEPT ![k] = [job[k] EXCEPT !.status = "running",
                                                          !.owner = w,
                                                          !.lease = Lease,
                                                          !.count = OneMore(@)]]
    /\ dead' = ReclaimedDead
    /\ pc' = [pc EXCEPT ![w] = "executing"]
    /\ UNCHANGED <<schedule, outcome, stopping>>

\* Mutant: a claim that admits nothing rolls the reclaim back.
ClaimNothingAtAll(w) ==
    /\ pc[w] = "idle"
    /\ Candidates = {}
    /\ UNCHANGED vars

ClaimNothing(w) ==
    /\ pc[w] = "idle"
    /\ Candidates = {}
    /\ job' = ReclaimedJobs
    /\ attempts' = ReclaimedAttempts
    /\ dead' = ReclaimedDead
    /\ UNCHANGED <<schedule, processes>>

-----------------------------------------------------------------------------
(* The worker process: run_once(), its heartbeat thread, and its end.      *)

\* Mutant: lease_owner is not compared.
OwnedByAnyone(w) == job[claim[w].job].status = "running"

\* The WHERE clause of heartbeat() and finish().
Owned(w) == job[claim[w].job].status = "running" /\ job[claim[w].job].owner = w

Heartbeat(w) ==
    /\ pc[w] = "executing"
    /\ Owned(w)
    /\ job' = [job EXCEPT ![claim[w].job].lease = Lease]
    /\ UNCHANGED <<attempts, dead, schedule, processes>>

\* An executor that raises has failed; SIGTERM turns all but success into "interrupted".
ExecutorReturns(w, o) ==
    /\ pc[w] = "executing"
    /\ pc' = [pc EXCEPT ![w] = "finishing"]
    /\ outcome' = [outcome EXCEPT ![w] =
                      IF w \in stopping /\ o # "succeeded" THEN "interrupted" ELSE o]
    /\ UNCHANGED <<tables, claim, stopping>>

\* Mutant: an interrupted job is stored with its outcome.
RetriesFailuresOnly(c, o) == o = "failed" /\ c.count < MaxAttempts

Retries(c, o) == o = "interrupted" \/ (o = "failed" /\ c.count < MaxAttempts)

Terminal(c, o) == o = "blocked" \/ (o = "failed" /\ c.count >= MaxAttempts)

FinishedRow(row, c, o) ==
    [row EXCEPT !.status = IF Retries(c, o) THEN "queued" ELSE o,
                !.owner = None,
                !.lease = 0,
                !.count = IF o = "succeeded" THEN 0 ELSE @,
                !.wait = Delay[o],
                !.ref = IF Terminal(c, o) THEN "open" ELSE @]

Finish(w) ==
    LET c == claim[w]
        o == outcome[w]
    IN  /\ pc[w] = "finishing"
        /\ Owned(w)
        /\ job' = [job EXCEPT ![c.job] = FinishedRow(@, c, o)]
        /\ attempts' = {a \in attempts : a.id # c.attempt}
        /\ dead' = IF Terminal(c, o) THEN dead \cup {c.job} ELSE dead
        /\ schedule' = [p \in Pair |-> IF p = c.job.pair /\ schedule[p] # None
                                       THEN [schedule[p] EXCEPT !.wait = Delay[o]]
                                       ELSE schedule[p]]
        /\ pc' = [pc EXCEPT ![w] = "idle"]
        /\ claim' = [claim EXCEPT ![w] = None]
        /\ outcome' = [outcome EXCEPT ![w] = None]
        /\ UNCHANGED stopping

\* The process is gone: an uncaught error, SIGKILL, out of memory, or its own exit.
Stopped(w) ==
    /\ pc' = [pc EXCEPT ![w] = "down"]
    /\ claim' = [claim EXCEPT ![w] = None]
    /\ outcome' = [outcome EXCEPT ![w] = None]
    /\ stopping' = stopping \ {w}
    /\ UNCHANGED tables

\* finish() returned False: "crawl job lease lost before finish".
LeaseLost(w) == pc[w] = "finishing" /\ ~Owned(w) /\ Stopped(w)

Shutdown(w) ==
    /\ pc[w] # "down"
    /\ stopping' = stopping \cup {w}
    /\ UNCHANGED <<tables, pc, claim, outcome>>

Exit(w) == pc[w] = "idle" /\ w \in stopping /\ Stopped(w)

Crash(w) == pc[w] # "down" /\ Stopped(w)

Restart(w) ==
    /\ pc[w] = "down"
    /\ pc' = [pc EXCEPT ![w] = "idle"]
    /\ UNCHANGED <<tables, claim, outcome, stopping>>

-----------------------------------------------------------------------------
(* The operator's commands, each on a set of jobs.                         *)

Requeue(K) ==
    /\ job' = [k \in Key |-> IF k \in K /\ job[k].status \notin {"absent", "running"}
                             THEN [job[k] EXCEPT !.status = "queued", !.wait = 0,
                                                 !.owner = None, !.lease = 0]
                             ELSE job[k]]
    /\ ActivePairUnique(job')
    /\ UNCHANGED <<attempts, dead, schedule, processes>>

Replayable == {k \in dead : job[k].status \in {"failed", "blocked"}}

ReplayDlq(K) ==
    /\ K \subseteq Replayable
    /\ job' = [k \in Key |-> IF k \in K
                             THEN [job[k] EXCEPT !.status = "queued", !.wait = 0,
                                                 !.owner = None, !.lease = 0,
                                                 !.count = 0, !.ref = "null"]
                             ELSE job[k]]
    /\ ActivePairUnique(job')
    /\ dead' = dead \ K
    /\ UNCHANGED <<attempts, schedule, processes>>

\* The entry is archived in place: the job keeps its dlq_entry_id.
ResolveDlq(K) ==
    /\ K \subseteq dead
    /\ dead' = dead \ K
    /\ job' = [k \in Key |-> IF k \in K /\ job[k].ref = "open"
                             THEN [job[k] EXCEPT !.ref = "closed"]
                             ELSE job[k]]
    /\ UNCHANGED <<attempts, schedule, processes>>

-----------------------------------------------------------------------------
Decrement(n) == IF n > 0 THEN n - 1 ELSE 0

\* Leases last minutes and next_run_at is hours away: each has its own clock.
LeaseTick ==
    /\ job' = [k \in Key |-> [job[k] EXCEPT !.lease = Decrement(@)]]
    /\ UNCHANGED <<attempts, dead, schedule, processes>>

WaitTick ==
    /\ job' = [k \in Key |-> [job[k] EXCEPT !.wait = Decrement(@)]]
    /\ schedule' = [p \in Pair |-> IF schedule[p] = None THEN None
                                   ELSE [schedule[p] EXCEPT !.wait = Decrement(@)]]
    /\ UNCHANGED <<attempts, dead, processes>>

WorkerStep(w) ==
    \/ \E k \in Key : Claim(w, k)
    \/ ClaimNothing(w)
    \/ Heartbeat(w)
    \/ \E o \in Outcome \ {"interrupted"} : ExecutorReturns(w, o)
    \/ Finish(w)
    \/ LeaseLost(w)
    \/ Shutdown(w)
    \/ Exit(w)
    \/ Crash(w)
    \/ Restart(w)

OperatorStep ==
    \E K \in {S \in SUBSET Key : Cardinality(S) <= MaxBatch} :
        Requeue(K) \/ ReplayDlq(K) \/ ResolveDlq(K)

UnattendedStep ==
    \/ \E w \in Worker : WorkerStep(w)
    \/ LeaseTick
    \/ WaitTick
    \/ \E k \in Key, d \in 0 .. Delay["failed"] : Enqueue(k, d)

Next == UnattendedStep \/ OperatorStep

Spec == Init /\ [][Next]_vars

(* The scheduling the code and systemd justify: an idle worker polls, an   *)
(* executor returns (or its process dies), a process that has a result     *)
(* reports it, a dead or stopping unit is restarted, and time passes.      *)
(* Claim() needs strong fairness: a worker that keeps crashing is not      *)
(* continuously able to claim.  Heartbeats are not fair: the database may  *)
(* be out of reach for longer than a lease.                                *)
Fairness ==
    /\ WF_vars(LeaseTick) /\ WF_vars(WaitTick)
    /\ \A w \in Worker :
          /\ SF_vars(\E k \in Key : Claim(w, k))
          /\ SF_vars(ClaimNothing(w))
          /\ WF_vars(\E o \in Outcome : ExecutorReturns(w, o))
          /\ WF_vars(Finish(w) \/ LeaseLost(w))
          /\ WF_vars(Exit(w))
          /\ WF_vars(Restart(w))

\* The queue and its workers while no operator intervenes.
UnattendedSpec == Init /\ [][UnattendedStep]_vars /\ Fairness

-----------------------------------------------------------------------------
(* Properties.                                                             *)

TypeOK ==
    /\ job \in [Key -> JobRow]
    /\ attempts \subseteq OpenAttempt
    /\ dead \subseteq Key
    /\ schedule \in [Pair -> ScheduleRow \cup {None}]
    /\ pc \in [Worker -> {"down", "idle", "executing", "finishing"}]
    /\ claim \in [Worker -> ClaimedJob \cup {None}]
    /\ outcome \in [Worker -> Outcome \cup {None}]
    /\ stopping \subseteq Worker

\* A process holds a claim exactly while it works on it, a result until it reports.
ProcessOK ==
    \A w \in Worker :
        /\ pc[w] \in {"executing", "finishing"} <=> claim[w] # None
        /\ pc[w] = "finishing" <=> outcome[w] # None

(* claim(), finish() and reclaim_expired() keep two tables in step: the    *)
(* open attempts are exactly one for every running job, and it belongs to  *)
(* the worker that holds the lease.  An orphan would be an attempt that no *)
(* code path ever closes.                                                  *)
AttemptsMatchLeases ==
    /\ \A a \in attempts : job[a.job].status = "running" /\ job[a.job].owner = a.worker
    /\ \A k \in Key : job[k].status = "running" => \E a \in attempts : a.job = k
    /\ \A a, b \in attempts : a.job = b.job \/ a.id = b.id => a = b

(* finish() is guarded by lease_owner alone, not by the attempt.  That is  *)
(* enough: whenever the guard lets a worker through, the open attempt of   *)
(* the job is the one this worker claimed and its attempt_count snapshot,  *)
(* from which retry or dead letter is decided, is still the row's.         *)
HolderIsCurrent ==
    \A w \in Worker :
        pc[w] \in {"executing", "finishing"} /\ Owned(w) =>
            /\ [id |-> claim[w].attempt, job |-> claim[w].job, worker |-> w] \in attempts
            /\ claim[w].count = job[claim[w].job].count

(* The admission query never lets a domain run more jobs than its limit,   *)
(* whatever expires, is renewed or is taken back between two claims.       *)
DomainLimitRespected ==
    \A d \in Domain :
        Cardinality({k \in Key : job[k].status = "running" /\ DomainOf[k.pair] = d})
            <= DomainLimit[d]

(* No terminal failure is lost: a failed or blocked job points at its dead *)
(* letter, and a dead letter is open exactly while its job points at it as *)
(* open, so that inspecting either one finds the other.                    *)
FailuresAreDeadLettered ==
    \A k \in Key :
        /\ job[k].status \in {"failed", "blocked"} => job[k].ref # "null"
        /\ k \in dead <=> job[k].ref = "open"

(* A job is given up as failed only when its retry budget is spent, by the *)
(* worker's report or by the expiry of its last lease.                     *)
FailedSpentItsBudget ==
    \A k \in Key : job[k].status = "failed" => job[k].count >= MaxAttempts

(* A running job stops running only through the worker that runs it or     *)
(* because its lease ran out: no command, no other worker and no restart   *)
(* takes a live lease away.                                                *)
LeaseIsExclusive ==
    [][\A k \in Key :
          job[k].status = "running" /\ job[k].lease > 0 /\ job'[k].status # "running"
            => \E w \in Worker : /\ job[k].owner = w
                                 /\ pc[w] = "finishing"
                                 /\ claim[w].job = k]_vars

Holder == [k \in Key |-> IF job[k].status = "running" THEN job[k].owner ELSE None]

LiveLeases == {k \in Key : Live(k)}

Task == [w \in Worker |-> IF claim[w] = None THEN None ELSE claim[w].job]

Succeeded == {k \in Key : job[k].status = "succeeded"}

PoolOfKey == [k \in Key |-> DomainOf[k.pair]]

Leases == INSTANCE LeasedWork
    WITH Job <- Key, Pool <- Domain, PoolOf <- PoolOfKey, Limit <- DomainLimit,
         lease <- Holder, live <- LiveLeases, task <- Task, done <- Succeeded

(* finish() fences a report by the name of the worker, which a restarted   *)
(* process has too, and neither by the attempt nor by the expiry of the    *)
(* lease.  Still the queue implements LeasedWork: a result only counts for *)
(* the process that claimed the job and has held it since.                 *)
ImplementsLeasedWork == Leases!Spec

\* Restart recovery: a lease that has run out does not hold its job for ever.
ExpiredLeaseIsRecovered == \A k \in Key : Expired(k) ~> ~Expired(k)

(* As long as workers are not stopped for ever and again, every job that   *)
(* is queued reaches a terminal state: crashes and expired leases use up   *)
(* the retry budget like failures do.                                      *)
EveryJobSettles ==
    <>[](stopping = {}) =>
        \A k \in Key : (job[k].status = "queued") ~>
                           (job[k].status \in {"succeeded", "failed", "blocked"})

=============================================================================
