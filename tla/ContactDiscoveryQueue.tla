-------------------------- MODULE ContactDiscoveryQueue --------------------------
(***************************************************************************)
(* The batch queue of contact discovery and its workers                    *)
(* (scripts/decision_unit_intelligence/batch_queue.py, batch_worker.py,    *)
(* batch_outcomes.py) for one cohort and one search backend.  Every method *)
(* of the queue is one transaction; claims are serialised by an advisory   *)
(* lock.  A worker writes the output file of its account before it reports *)
(* the result, and the file is not part of any transaction.                *)
(*                                                                         *)
(* Time is abstract: a lease that is not renewed expires, and a retry      *)
(* falls due, at any later moment.  The kill switch and the admission      *)
(* probe only delay a claim: a worker may always not claim.                *)
(***************************************************************************)
EXTENDS Naturals, FiniteSets

CONSTANTS
    Job,               \* the accounts of the cohort
    Site,              \* domains of web sites
    SiteOf,            \* the domain that is discovered for each account
    Worker,            \* worker ids, one process each
    MaxAttempts,       \* max_attempts of each job
    DomainLimit,       \* domain_concurrency_limit
    BackendLimit,      \* backend_concurrency_limit
    CircuitThreshold,  \* consecutive provider failures that open the circuit
    MaxCount,          \* bound: jobs are not retried by hand past this count
    None               \* no worker

ASSUME QueueAssumption ==
    /\ SiteOf \in [Job -> Site]
    /\ MaxAttempts \in [Job -> Nat \ {0}]
    /\ {DomainLimit, BackendLimit, CircuitThreshold} \subseteq Nat \ {0}
    /\ MaxCount \in Nat
    /\ None \notin Worker \cup Job
    /\ Job \cap Site = {}
    /\ IsFiniteSet(Job)

Status == {"absent", "PENDING", "RUNNING", "SUCCEEDED", "BLOCKED", "RETRYABLE", "DLQ", "CANCELLED"}

Terminal == {"SUCCEEDED", "BLOCKED", "DLQ", "CANCELLED"}

(* sited: domain_key is the one of the site, no longer the account itself; *)
(* live: lease_expires_at is ahead; due: next_run_at is past, kept while   *)
(* it decides anything; output: who wrote the file whose hash is stored.   *)
JobRow == [status : Status, count : Nat, cancel : BOOLEAN, sited : BOOLEAN,
           owner : Worker \cup {None}, live : BOOLEAN, due : BOOLEAN,
           output : Worker \cup {None}]

Outcome == {"SUCCEEDED", "BLOCKED", "PROVIDER_FAILURE", "ERROR", "INTERRUPTED"}

VARIABLES
    job,      \* contact_discovery_jobs
    open,     \* attempts with status RUNNING, <<job, worker>>
    circuit,  \* contact_discovery_backend_circuit of the backend
    file,     \* who wrote the output file of each account last
    proc,     \* the worker processes
    approved  \* whether a snapshot of the cohort was approved

vars == <<job, open, circuit, file, proc, approved>>

Process == [pc : {"idle", "running", "written", "down"}, job : Job \cup {None}]

Idle == [pc |-> "idle", job |-> None]

Down == [pc |-> "down", job |-> None]

Init ==
    /\ job = [j \in Job |-> [status |-> "absent", count |-> 0, cancel |-> FALSE, sited |-> FALSE,
                             owner |-> None, live |-> FALSE, due |-> FALSE, output |-> None]]
    /\ open = {}
    /\ circuit = [failures |-> 0, cooling |-> FALSE]
    /\ file = [j \in Job |-> None]
    /\ proc = [w \in Worker |-> Down]
    /\ approved = FALSE

\* batch enqueue inserts the whole population in one transaction.
Enqueue ==
    /\ \E j \in Job : job[j].status = "absent"
    /\ job' = [j \in Job |-> [job[j] EXCEPT !.status = "PENDING", !.due = TRUE]]
    /\ UNCHANGED <<open, circuit, file, proc, approved>>

-----------------------------------------------------------------------------
(* claim(), which reclaims first.                                          *)

\* Mutant: a job that is to be cancelled is taken from its worker.
ExpiredOrCancelled == {j \in Job : job[j].status = "RUNNING" /\ (~job[j].live \/ job[j].cancel)}

Expired == {j \in Job : job[j].status = "RUNNING" /\ ~job[j].live}

Spent(j) == job[j].count >= MaxAttempts[j]

ReclaimedRow(j) ==
    [job[j] EXCEPT !.status = IF job[j].cancel THEN "CANCELLED"
                              ELSE IF Spent(j) THEN "DLQ" ELSE "RETRYABLE",
                   !.owner = None,
                   !.due = ~job[j].cancel /\ ~Spent(j)]

\* reclaim_expired()
Reclaimed == [j \in Job |-> IF j \in Expired THEN ReclaimedRow(j) ELSE job[j]]

\* Mutant: only jobs are reclaimed, their attempts stay open.
AllAttempts == open

AttemptsOfLiveJobs == {a \in open : a[1] \notin Expired}

Domain(row, j) == IF row.sited THEN SiteOf[j] ELSE j

Running(rows) == {j \in Job : rows[j].status = "RUNNING" /\ rows[j].live}

\* Mutant: the domain limit is not a limit of one domain.
HasRoomInBackend(rows, j) == Cardinality(Running(rows)) < BackendLimit

HasRoom(rows, j) ==
    /\ Cardinality(Running(rows)) < BackendLimit
    /\ Cardinality({i \in Running(rows) : Domain(rows[i], i) = Domain(rows[j], j)}) < DomainLimit

\* Mutant: what failed once is not a candidate any more.
CandidatesOnce(rows) ==
    {j \in Job : /\ rows[j].status = "PENDING" /\ rows[j].due /\ ~rows[j].cancel
                 /\ ~circuit.cooling /\ HasRoom(rows, j)}

(* The order of the candidates, priority and next_run_at, is left open:    *)
(* with a limit of one job any of them may come first.                     *)
Candidates(rows) ==
    {j \in Job : /\ rows[j].status \in {"PENDING", "RETRYABLE"}
                 /\ rows[j].due
                 /\ ~rows[j].cancel
                 /\ ~circuit.cooling
                 /\ HasRoom(rows, j)}

ClaimedRow(row, w) ==
    [row EXCEPT !.status = "RUNNING", !.owner = w, !.live = TRUE, !.count = @ + 1]

Claim(w, j) ==
    /\ proc[w].pc = "idle"
    /\ j \in Candidates(Reclaimed)
    /\ job' = [Reclaimed EXCEPT ![j] = ClaimedRow(@, w)]
    /\ open' = AttemptsOfLiveJobs \cup {<<j, w>>}
    /\ proc' = [proc EXCEPT ![w] = [pc |-> "running", job |-> j]]
    /\ UNCHANGED <<circuit, file, approved>>

\* A claim that finds no candidate commits what it reclaimed.
ClaimNothing(w) ==
    /\ proc[w].pc = "idle"
    /\ Candidates(Reclaimed) = {}
    /\ job' = Reclaimed
    /\ open' = AttemptsOfLiveJobs
    /\ UNCHANGED <<circuit, file, proc, approved>>

-----------------------------------------------------------------------------
(* The work on a claimed job.                                              *)

Working(w) == proc[w].pc \in {"running", "written"}

\* Mutant: only the status fences a result.
OwnedByAnyone(w) == job[proc[w].job].status = "RUNNING"

Owned(w) == job[proc[w].job].status = "RUNNING" /\ job[proc[w].job].owner = w

(* An UPDATE by job and owner: it also renews a lease that ran out and was *)
(* not reclaimed yet.  The heartbeat of a lost lease ends, the work goes on.*)
Heartbeat(w) ==
    /\ Working(w)
    /\ Owned(w)
    /\ job' = [job EXCEPT ![proc[w].job].live = TRUE]
    /\ UNCHANGED <<open, circuit, file, proc, approved>>

\* persist_outcome(), which asks nobody about the lease.
WriteOutput(w) ==
    /\ proc[w].pc = "running"
    /\ file' = [file EXCEPT ![proc[w].job] = w]
    /\ proc' = [proc EXCEPT ![w].pc = "written"]
    /\ UNCHANGED <<job, open, circuit, approved>>

\* Results without an output come from exceptions.
Outcomes(w) == IF proc[w].pc = "written" THEN Outcome ELSE Outcome \ {"SUCCEEDED"}

\* Mutant: the job is given up one attempt early.
FinalStatusOneLess(j, o) ==
    IF o \in {"SUCCEEDED", "BLOCKED"} THEN o
    ELSE IF job[j].count + 1 >= MaxAttempts[j] THEN "DLQ" ELSE "RETRYABLE"

\* Mutant: an interruption is stored under its own name.
FinalStatusUnmapped(j, o) ==
    IF o \in {"SUCCEEDED", "BLOCKED", "INTERRUPTED"} THEN o
    ELSE IF Spent(j) THEN "DLQ" ELSE "RETRYABLE"

\* An interruption is reported as RETRYABLE and uses up an attempt too.
FinalStatus(j, o) ==
    IF o \in {"SUCCEEDED", "BLOCKED"} THEN o
    ELSE IF Spent(j) THEN "DLQ" ELSE "RETRYABLE"

\* _record_backend_failure() and _record_backend_success()
CircuitAfter(j, o) ==
    IF o = "SUCCEEDED" THEN [failures |-> 0, cooling |-> FALSE]
    ELSE IF o = "PROVIDER_FAILURE" /\ FinalStatus(j, o) = "RETRYABLE"
    THEN [failures |-> IF circuit.failures < CircuitThreshold THEN circuit.failures + 1
                       ELSE CircuitThreshold,
          cooling |-> circuit.cooling \/ circuit.failures + 1 >= CircuitThreshold]
    ELSE circuit

\* The stored hash is only looked at once the job SUCCEEDED.
FinishedRow(w, j, o) ==
    [job[j] EXCEPT !.status = FinalStatus(j, o), !.owner = None, !.live = FALSE,
                   !.due = FALSE,
                   !.sited = @ \/ proc[w].pc = "written",
                   !.output = IF o = "SUCCEEDED" THEN w ELSE @]

\* A worker that was interrupted leaves its loop with exit code 0.
Finish(w, o) ==
    LET j == proc[w].job
    IN  /\ Working(w)
        /\ o \in Outcomes(w)
        /\ Owned(w)
        /\ job' = [job EXCEPT ![j] = FinishedRow(w, j, o)]
        /\ open' = open \ {<<j, w>>}
        /\ circuit' = CircuitAfter(j, o)
        /\ proc' = [proc EXCEPT ![w] = IF o = "INTERRUPTED" THEN Down ELSE Idle]
        /\ UNCHANGED <<file, approved>>

(* finish() finds the lease gone and _run_job() raises.  A terminal job    *)
(* with the same output hash would be accepted, but a hash covers the      *)
(* attempt: it is never the one of another attempt.                        *)
LeaseLost(w) ==
    /\ Working(w)
    /\ ~Owned(w)
    /\ proc' = [proc EXCEPT ![w] = Down]
    /\ UNCHANGED <<job, open, circuit, file, approved>>

\* SIGTERM while no job is claimed.
Stop(w) ==
    /\ proc[w].pc = "idle"
    /\ proc' = [proc EXCEPT ![w] = Down]
    /\ UNCHANGED <<job, open, circuit, file, approved>>

Crash(w) ==
    /\ proc[w].pc # "down"
    /\ proc' = [proc EXCEPT ![w] = Down]
    /\ UNCHANGED <<job, open, circuit, file, approved>>

Start(w) ==
    /\ proc[w].pc = "down"
    /\ proc' = [proc EXCEPT ![w] = Idle]
    /\ UNCHANGED <<job, open, circuit, file, approved>>

WorkerStep(w) ==
    \/ \E j \in Job : Claim(w, j)
    \/ ClaimNothing(w) \/ Heartbeat(w) \/ WriteOutput(w)
    \/ \E o \in Outcome : Finish(w, o)
    \/ LeaseLost(w) \/ Stop(w) \/ Crash(w) \/ Start(w)

-----------------------------------------------------------------------------
(* The clock.                                                              *)

Expire(j) ==
    /\ job[j].status = "RUNNING"
    /\ job[j].live
    /\ job' = [job EXCEPT ![j].live = FALSE]
    /\ UNCHANGED <<open, circuit, file, proc, approved>>

FallDue(j) ==
    /\ job[j].status \in {"PENDING", "RETRYABLE"}
    /\ ~job[j].due
    /\ job' = [job EXCEPT ![j].due = TRUE]
    /\ UNCHANGED <<open, circuit, file, proc, approved>>

CoolDown ==
    /\ circuit.cooling
    /\ circuit' = [circuit EXCEPT !.cooling = FALSE]
    /\ UNCHANGED <<job, open, file, proc, approved>>

-----------------------------------------------------------------------------
(* The operator and the coordinator.                                       *)

\* request_cancel() of one job.
RequestCancel(j) ==
    /\ job[j].status \in {"PENDING", "RETRYABLE", "RUNNING"}
    /\ job' = [job EXCEPT ![j].cancel = TRUE,
                          ![j].status = IF @ = "RUNNING" THEN @ ELSE "CANCELLED",
                          ![j].due = job[j].status = "RUNNING"]
    /\ UNCHANGED <<open, circuit, file, proc, approved>>

\* retry() of one job; attempt_count and output_hash stay.
Retry(j) ==
    /\ job[j].status \in {"RETRYABLE", "BLOCKED", "DLQ"}
    /\ job[j].count <= MaxCount
    /\ job' = [job EXCEPT ![j].status = "PENDING", ![j].due = TRUE, ![j].cancel = FALSE]
    /\ UNCHANGED <<open, circuit, file, proc, approved>>

Closable == \A j \in Job : job[j].status \in Terminal

\* reconcile_outputs() finds the stored hash of every SUCCEEDED job on disk.
OutputsReconcile == \A j \in Job : job[j].status = "SUCCEEDED" => file[j] = job[j].output

\* batch publish, which approves what evaluate_publish() does not reject.
Publish ==
    /\ ~approved
    /\ Closable
    /\ OutputsReconcile
    /\ approved' = TRUE
    /\ UNCHANGED <<job, open, circuit, file, proc>>

OperatorStep == Enqueue \/ Publish \/ \E j \in Job : RequestCancel(j) \/ Retry(j)

ClockStep == CoolDown \/ \E j \in Job : Expire(j) \/ FallDue(j)

Next == (\E w \in Worker : WorkerStep(w)) \/ ClockStep \/ OperatorStep

(* Clocks go on; a worker's loop goes on while the process lives, and      *)
(* systemd starts it again.  The order by next_run_at lets every due job   *)
(* come first in the end.  Heartbeats are not fair.                        *)
Fairness ==
    /\ WF_vars(CoolDown)
    /\ \A j \in Job : /\ WF_vars(Expire(j))
                      /\ WF_vars(FallDue(j))
                      /\ SF_vars(\E w \in Worker : Claim(w, j))
    /\ \A w \in Worker :
          /\ SF_vars(ClaimNothing(w))
          /\ WF_vars((\E o \in Outcome : Finish(w, o)) \/ LeaseLost(w))
          /\ WF_vars(Start(w))

Spec == Init /\ [][Next]_vars /\ Fairness

-----------------------------------------------------------------------------
(* Properties.                                                             *)

TypeOK ==
    /\ job \in [Job -> JobRow]
    /\ open \subseteq Job \X Worker
    /\ circuit \in [failures : 0 .. CircuitThreshold, cooling : BOOLEAN]
    /\ file \in [Job -> Worker \cup {None}]
    /\ proc \in [Worker -> Process]
    /\ approved \in BOOLEAN

(* Jobs and attempts stay in step through every claim, result and expiry:  *)
(* a running job has exactly one open attempt and it belongs to the lease  *)
(* owner; an attempt left open would never be closed.                      *)
AttemptsMatchLeases ==
    open = {<<j, job[j].owner>> : j \in {i \in Job : job[i].status = "RUNNING"}}

(* domain_concurrency_limit bounds the live leases of a domain although    *)
(* leases expire unnoticed, are revived by heartbeats, and jobs change     *)
(* their domain when a site is discovered.                                 *)
DomainLimitRespected ==
    \A d \in Job \cup Site :
        Cardinality({j \in Running(job) : Domain(job[j], j) = d}) <= DomainLimit

\* A job is only given up when its attempts are spent, whichever way it ended.
DeadSpentItsAttempts == \A j \in Job : job[j].status = "DLQ" => Spent(j)

(* A job leaves RUNNING by the hand of its lease owner or after the lease  *)
(* ran out, never by the late result of an earlier owner.                  *)
OnlyTheOwnerEnds ==
    [][\A j \in Job, w \in Worker :
          job[j].status = "RUNNING" /\ job[j].owner = w /\ job[j].live /\ job'[j].status # "RUNNING"
              => proc[w].job = j /\ proc'[w].job # j]_vars

Holder == [j \in Job |-> IF job[j].status = "RUNNING" THEN job[j].owner ELSE None]

Task == [w \in Worker |-> proc[w].job]

Succeeded == {j \in Job : job[j].status = "SUCCEEDED"}

Leases == INSTANCE LeasedWork
    WITH Pool <- {"backend"}, PoolOf <- [j \in Job |-> "backend"],
         Limit <- [p \in {"backend"} |-> BackendLimit],
         lease <- Holder, live <- Running(job), task <- Task, done <- Succeeded

(* Leases that are cancelled, revived or taken back, retries by hand and   *)
(* results that come late: the queue keeps what LeasedWork promises, with  *)
(* the backend as the pool.                                                *)
ImplementsLeasedWork == Leases!Spec

(* The coordinator polls until no job is active: a cohort comes to that    *)
(* point although workers crash, lose leases and stop, and the circuit     *)
(* opens, except for running jobs somebody asked to cancel.                *)
CohortCloses ==
    (\E j \in Job : job[j].status \in {"PENDING", "RUNNING", "RETRYABLE"})
        ~> \A j \in Job : job[j].status \in Terminal \/ job[j].cancel

(* "Approved immutable snapshot": the outputs an approved snapshot points  *)
(* to stay the ones whose hashes it lists.                                 *)
ApprovedSnapshotIsImmutable == [][approved /\ OutputsReconcile => OutputsReconcile']_vars

=============================================================================
