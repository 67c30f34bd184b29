------------------------------ MODULE TargetFitQueue ------------------------------
(***************************************************************************)
(* The continuous refresh of target-fit decisions                          *)
(* (scripts/confenge_target_fit/cdc.py, store.py, worker.py, compute.py,   *)
(* reconcile.py): change detection over the contracts table, the queue of  *)
(* dirty companies, the workers that materialise a decision per company,   *)
(* and the reconciliation sweep.                                           *)
(*                                                                         *)
(* Every change of the contracts has a number, the time of its commit.     *)
(* Contents stand for input fingerprints: two contents of a company differ *)
(* when a classifier could tell them apart.  The version and the hash of   *)
(* the classifier do not change, and the mode is not AUTO_PAUSE.           *)
(***************************************************************************)
EXTENDS Naturals, Sequences, FiniteSets, SequencesExt

CONSTANTS
    Company,        \* company keys
    Worker,         \* worker processes
    MaxAttempts,    \* attempts of a dirty row: max_attempts, and the 5 of the reclaim
    BatchSize,      \* rows of one claim
    CompanyLimit,   \* companies of one detection
    MaxChanges,     \* bound: changes of the contracts
    MaxInserts,     \* bound: only the first changes insert contracts
    MaxRows         \* bound: reconcile and requeue add no row past this count

ASSUME TargetFitAssumption ==
    /\ IsFiniteSet(Company) /\ Company # {}
    /\ {MaxAttempts, BatchSize, CompanyLimit, MaxChanges, MaxInserts, MaxRows} \subseteq Nat \ {0}

\* now(), later than every change.
Now == MaxChanges + 1

Row == [company : Company, origin : {"cdc", "reconcile", "manual"},
        watermark : 1..Now, seen : 0..MaxChanges,
        status : {"pending", "backoff", "retry", "processing", "done", "dead", "skipped"},
        attempts : 0..MaxAttempts, live : BOOLEAN, batch : SUBSET Nat]

VARIABLES
    contract,   \* content and MAX(ingested_at) of the contracts of each company
    row,        \* confenge_target_fit_dirty, by id
    watermark,  \* control row cdc_watermark, 0 when it is empty
    cdc,        \* the running detection: companies found, with their change time
    published,  \* current decision of each company, content 0 when there is none
    worker      \* the worker processes

vars == <<contract, row, watermark, cdc, published, worker>>

\* The company, the loaded input and the previous decision belong to the
\* item in hand, Head(todo); batch items carry the attempt they were claimed with.
Process == [pc : {"idle", "claiming", "batch", "working"}, busy : SUBSET Company,
            todo : Seq([id : Nat, attempt : 0..MaxAttempts]), loaded : 0..MaxChanges]

Idle == [pc |-> "idle", busy |-> {}, todo |-> <<>>, loaded |-> 0]

NoDetection == [pc |-> "idle", found |-> {}]

Init ==
    /\ contract = [c \in Company |-> [content |-> 0, ingested |-> 0]]
    /\ row = <<>>
    /\ watermark = 0
    /\ cdc = NoDetection
    /\ published = [c \in Company |-> [content |-> 0, watermark |-> 0, ok |-> TRUE]]
    /\ worker = [w \in Worker |-> Idle]

-----------------------------------------------------------------------------
(* The contracts table.                                                    *)

LastChange == Max({contract[c].content : c \in Company})

LastIngested == Max({contract[c].ingested : c \in Company})

\* A contract of the company that was not stored before.
InsertContract(c) ==
    /\ LastChange < MaxInserts /\ LastChange < MaxChanges
    /\ contract' = [contract EXCEPT ![c] = [content |-> LastChange + 1, ingested |-> LastChange + 1]]
    /\ UNCHANGED <<row, watermark, cdc, published, worker>>

\* The upsert refreshes the mutable fields of a stored contract and leaves
\* ingested_at alone.
UpdateContract(c) ==
    /\ contract[c].content > 0
    /\ LastChange < MaxChanges
    /\ contract' = [contract EXCEPT ![c].content = LastChange + 1]
    /\ UNCHANGED <<row, watermark, cdc, published, worker>>

-----------------------------------------------------------------------------
(* run_cdc_enqueue(): two reads and the inserts, in one READ COMMITTED     *)
(* transaction.                                                            *)

NewRow(c, origin, wm, seen) ==
    [company |-> c, origin |-> origin, watermark |-> wm, seen |-> seen, status |-> "pending",
     attempts |-> 0, live |-> FALSE, batch |-> {}]

ChangedSince(since) == {c \in Company : contract[c].ingested > since}

\* Keeps the companies changed last when there are more than the limit.
Newest(changed) ==
    {c \in changed : Cardinality({d \in changed : contract[d].ingested > contract[c].ingested}) < CompanyLimit}

\* detect_dirty_companies()
Detect ==
    /\ cdc.pc = "idle"
    /\ cdc' = [pc |-> "detected",
               found |-> {[company |-> c, seen |-> contract[c].ingested] : c \in Newest(ChangedSince(watermark))}]
    /\ UNCHANGED <<contract, row, watermark, published, worker>>

Fresh(found) ==
    {f \in found : \A r \in DOMAIN row :
        ~(row[r].origin = "cdc" /\ row[r].company = f.company /\ row[r].watermark = LastIngested)}

\* enqueue_dirty() for every company found, then set_control().
EnqueueDetected ==
    /\ cdc.pc = "detected"
    /\ \E order \in SetToSeqs(Fresh(cdc.found)) :
          row' = row \o [i \in DOMAIN order |->
                            NewRow(order[i].company, "cdc", LastIngested, order[i].seen)]
    /\ watermark' = LastIngested
    /\ cdc' = NoDetection
    /\ UNCHANGED <<contract, published, worker>>

\* The transaction is rolled back.
DetectionFails ==
    /\ cdc.pc = "detected"
    /\ cdc' = NoDetection
    /\ UNCHANGED <<contract, row, watermark, published, worker>>

-----------------------------------------------------------------------------
(* The daily sweep and the manual requeue.                                 *)

Open(r) == row[r].status \in {"pending", "backoff", "retry", "processing"}

\* run_reconcile() queues companies without a decision and failed ones; it
\* leaves the comparison of fingerprints to the workers.
Drifted == {c \in Company : contract[c].content > 0 /\ (published[c].content = 0 \/ ~published[c].ok)}

Reconcile ==
    /\ Drifted # {}
    /\ Len(row) < MaxRows
    /\ \E order \in SetToSeqs(Drifted) :
          row' = row \o [i \in DOMAIN order |->
                            NewRow(order[i], "reconcile", IF watermark = 0 THEN Now ELSE watermark, 0)]
    /\ UNCHANGED <<contract, watermark, cdc, published, worker>>

\* requeue_company() refuses an empty watermark.
Requeue(c) ==
    /\ watermark > 0
    /\ Len(row) < MaxRows
    /\ row' = Append(row, NewRow(c, "manual", watermark, 0))
    /\ UNCHANGED <<contract, watermark, cdc, published, worker>>

-----------------------------------------------------------------------------
(* claim_batch().                                                          *)

Claimable == {r \in DOMAIN row : row[r].status \in {"pending", "retry"}}

Expired == {r \in DOMAIN row : row[r].status = "processing" /\ ~row[r].live}

\* Mutant: rows whose attempts are spent are left in processing.
ReclaimedUnlessSpent ==
    [r \in DOMAIN row |->
        IF r \in Expired /\ row[r].attempts < MaxAttempts
        THEN [row[r] EXCEPT !.status = "retry", !.batch = {}]
        ELSE row[r]]

\* reclaim_expired_locks(), committed before the claim begins.
Reclaimed ==
    [r \in DOMAIN row |->
        IF r \in Expired
        THEN [row[r] EXCEPT !.status = IF row[r].attempts >= MaxAttempts THEN "dead" ELSE "retry",
                            !.batch = {}]
        ELSE row[r]]

\* Companies with a live lock in the snapshot of the claim's statement.
Busy(rows) == {rows[r].company : r \in {q \in DOMAIN rows : rows[q].status = "processing" /\ rows[q].live}}

\* A cycle that finds nothing to reclaim and nothing to claim changes nothing.
BeginClaim(w) ==
    /\ worker[w].pc = "idle"
    /\ Expired \cup Claimable # {}
    /\ row' = Reclaimed
    /\ worker' = [worker EXCEPT ![w] = [Idle EXCEPT !.pc = "claiming", !.busy = Busy(Reclaimed)]]
    /\ UNCHANGED <<contract, watermark, cdc, published>>

Priority(r) == CASE row[r].origin = "manual" -> 90 [] row[r].origin = "cdc" -> 60 [] OTHER -> 40

Before(q, r) == Priority(q) > Priority(r) \/ (Priority(q) = Priority(r) /\ q < r)

FirstOf(rows, n) == {r \in rows : Cardinality({q \in rows : Before(q, r)}) < n}

Candidates == FirstOf(Claimable, 4 * BatchSize)

\* Mutant: process_one() trusts the claim and takes no lock.
NeverLocked(w, c) == FALSE

\* The advisory lock of the company is held by a transaction of process_one().
Locked(w, c) ==
    \E v \in Worker \ {w} : worker[v].pc = "working" /\ row[Head(worker[v].todo).id].company = c

\* The rows of one batch: the first row of each company that is free.
Selected(w, missed) ==
    LET free == {r \in Candidates : row[r].company \notin worker[w].busy \cup missed /\ ~Locked(w, row[r].company)}
        firsts == {r \in free : \A q \in free : row[q].company = row[r].company => ~Before(q, r)}
    IN  FirstOf(firsts, BatchSize)

Claiming(w) == \E v \in Worker \ {w} : worker[v].pc = "claiming"

\* Attempts are only compared with the maximum and stop counting there.
NextAttempt(r) == IF row[r].attempts < MaxAttempts THEN row[r].attempts + 1 ELSE MaxAttempts

\* The companies in missed are in the hands of a concurrent claim.  The update
\* returns the rows in any order.
Claim(w, missed) ==
    LET batch == Selected(w, missed) IN
    /\ worker[w].pc = "claiming"
    /\ Claiming(w) \/ missed = {}
    /\ row' = [r \in DOMAIN row |->
                  IF r \in batch
                  THEN [row[r] EXCEPT !.status = "processing", !.attempts = NextAttempt(r),
                                      !.live = TRUE, !.batch = batch]
                  ELSE row[r]]
    /\ \E order \in SetToSeqs({[id |-> r, attempt |-> NextAttempt(r)] : r \in batch}) :
          worker' = [worker EXCEPT ![w] =
                        [Idle EXCEPT !.pc = IF batch = {} THEN "idle" ELSE "batch", !.todo = order]]
    /\ UNCHANGED <<contract, watermark, cdc, published>>

-----------------------------------------------------------------------------
(* process_one(): one transaction for each item of the batch.              *)

Item(w) == Head(worker[w].todo)

ItemCompany(w) == row[Item(w).id].company

\* The state of the worker when the item in hand is finished.
NextItem(w) ==
    IF Len(worker[w].todo) = 1 THEN Idle
    ELSE [Idle EXCEPT !.pc = "batch", !.todo = Tail(worker[w].todo)]

\* Mutant: a row is closed without the status it ends in.
MarkedDone(w, status) ==
    [row EXCEPT ![Item(w).id] = [@ EXCEPT !.status = IF status = "skipped" THEN "refresh_failed" ELSE status,
                                          !.live = FALSE, !.batch = {}]]

\* mark_dirty_done(), by id alone.
Marked(w, status) ==
    [row EXCEPT ![Item(w).id] = [@ EXCEPT !.status = status, !.live = FALSE, !.batch = {}]]

\* try_company_advisory_lock() succeeds and the company is read.
TakeItem(w) ==
    /\ worker[w].pc = "batch"
    /\ ~Locked(w, ItemCompany(w))
    /\ worker' = [worker EXCEPT ![w].pc = "working", ![w].loaded = contract[ItemCompany(w)].content]
    /\ UNCHANGED <<contract, row, watermark, cdc, published>>

\* The lock is held by another item or by a claim that is being made.
LockBusy(w) ==
    /\ worker[w].pc = "batch"
    /\ Locked(w, ItemCompany(w)) \/ Claiming(w)
    /\ row' = Marked(w, "backoff")
    /\ worker' = [worker EXCEPT ![w] = NextItem(w)]
    /\ UNCHANGED <<contract, watermark, cdc, published>>

\* Mutant: a published failure counts as a previous decision.
SameAsAnyDecision(w) ==
    LET previous == published[ItemCompany(w)] IN
    /\ previous.content = worker[w].loaded
    /\ previous.watermark = row[Item(w).id].watermark

\* compute_materialization() finds nothing new.
SameInput(w) ==
    LET previous == published[ItemCompany(w)] IN
    /\ previous.content = worker[w].loaded
    /\ previous.ok
    /\ previous.watermark = row[Item(w).id].watermark

Decision(w, ok) == [content |-> worker[w].loaded, watermark |-> row[Item(w).id].watermark, ok |-> ok]

\* The decision is published and the row is done, or the row is skipped.
FinishItem(w) ==
    /\ worker[w].pc = "working"
    /\ IF SameInput(w)
       THEN row' = Marked(w, "skipped") /\ UNCHANGED published
       ELSE /\ row' = Marked(w, "done")
            /\ published' = [published EXCEPT ![ItemCompany(w)] = Decision(w, TRUE)]
    /\ worker' = [worker EXCEPT ![w] = NextItem(w)]
    /\ UNCHANGED <<contract, watermark, cdc>>

AfterFailure(w) == IF Item(w).attempt >= MaxAttempts THEN "dead" ELSE "backoff"

\* The classifier fails: the failure is published in place of the decision.
RefreshFails(w) ==
    /\ worker[w].pc = "working"
    /\ ~SameInput(w)
    /\ row' = Marked(w, AfterFailure(w))
    /\ published' = [published EXCEPT ![ItemCompany(w)] = Decision(w, FALSE)]
    /\ worker' = [worker EXCEPT ![w] = NextItem(w)]
    /\ UNCHANGED <<contract, watermark, cdc>>

\* Any other exception of process_one(): nothing is published.
ItemFails(w) ==
    /\ worker[w].pc = "working"
    /\ row' = Marked(w, AfterFailure(w))
    /\ worker' = [worker EXCEPT ![w] = NextItem(w)]
    /\ UNCHANGED <<contract, watermark, cdc, published>>

\* The process dies, or a statement fails and the cycle is rolled back: the
\* rest of the batch stays in processing.
CycleFails(w) ==
    /\ worker[w].pc # "idle"
    /\ worker' = [worker EXCEPT ![w] = Idle]
    /\ UNCHANGED <<contract, row, watermark, cdc, published>>

\* The rows of a batch are locked until the same moment.
LocksExpire(r) ==
    /\ row[r].live
    /\ row' = [q \in DOMAIN row |-> IF row[q].batch = row[r].batch THEN [row[q] EXCEPT !.live = FALSE] ELSE row[q]]
    /\ UNCHANGED <<contract, watermark, cdc, published, worker>>

BackoffEnds(r) ==
    /\ row[r].status = "backoff"
    /\ row' = [row EXCEPT ![r].status = "retry"]
    /\ UNCHANGED <<contract, watermark, cdc, published, worker>>

-----------------------------------------------------------------------------

ProcessItem(w) == FinishItem(w) \/ RefreshFails(w) \/ ItemFails(w)

WorkerStep(w) ==
    \/ BeginClaim(w)
    \/ \E missed \in SUBSET Company : Claim(w, missed)
    \/ TakeItem(w) \/ LockBusy(w) \/ ProcessItem(w) \/ CycleFails(w)

Next ==
    \/ \E c \in Company : InsertContract(c) \/ UpdateContract(c) \/ Requeue(c)
    \/ Detect \/ EnqueueDetected \/ DetectionFails \/ Reconcile
    \/ \E w \in Worker : WorkerStep(w)
    \/ \E r \in DOMAIN row : LocksExpire(r) \/ BackoffEnds(r)

\* systemd restarts the workers, time passes, a transaction ends, and two
\* workers do not stay in step for ever: a claim or an item is not lost to a
\* concurrent claim each time.
WorkFairness ==
    /\ \A w \in Worker :
          /\ WF_vars(BeginClaim(w)) /\ SF_vars(Claim(w, {}))
          /\ SF_vars(TakeItem(w)) /\ WF_vars(ProcessItem(w))
    /\ WF_vars(\E r \in DOMAIN row : LocksExpire(r))
    /\ WF_vars(\E r \in DOMAIN row : BackoffEnds(r))

\* The timers run the detection and the sweep.
TimerFairness == WF_vars(Detect) /\ SF_vars(EnqueueDetected) /\ WF_vars(Reconcile)

Spec == Init /\ [][Next]_vars

WorkedSpec == Spec /\ WorkFairness

TimedSpec == WorkedSpec /\ TimerFairness

-----------------------------------------------------------------------------
TypeOK ==
    /\ contract \in [Company -> [content : 0..MaxChanges, ingested : 0..MaxChanges]]
    /\ row \in Seq(Row)
    /\ watermark \in 0..MaxChanges
    /\ cdc \in [pc : {"idle", "detected"}, found : SUBSET [company : Company, seen : 1..MaxChanges]]
    /\ published \in [Company -> [content : 0..MaxChanges, watermark : 0..Now, ok : BOOLEAN]]
    /\ worker \in [Worker -> Process]

\* A change that was detected is in the decision of its company once the row
\* that carried it is done or skipped, whatever other workers, expired locks
\* and late results did to the row in between.
DoneRowIsCovered ==
    \A r \in DOMAIN row :
        row[r].status \in {"done", "skipped"} => published[row[r].company].content >= row[r].seen

\* A published failure is never the last word: a row of the company will be
\* tried again, or one is in the dead letters.
FailedDecisionIsRetried ==
    \A c \in Company : ~published[c].ok =>
        \E r \in DOMAIN row : row[r].company = c /\ (Open(r) \/ row[r].status = "dead")

\* A worker never replaces the decision of a company by one that was computed
\* from older contracts, also when two workers hold rows of the company.
NeverPublishesOlderContent ==
    [][\A c \in Company : published'[c].content >= published[c].content]_published

\* The queue is worked off: every row is done, skipped or dead at last, since
\* crashes, failures and lost locks use up its attempts.
QueueDrains == []<>(\A r \in DOMAIN row : ~Open(r))

\* The contracts of the company changed since the decision that stands, and no
\* row of the queue, open or dead, tells.
Missed(c) ==
    /\ published[c].content \notin {0, contract[c].content}
    /\ published[c].ok
    /\ \A r \in DOMAIN row : row[r].company = c => row[r].status \in {"done", "skipped"}

\* The detection finds changed contracts and the daily sweep the changes that
\* the detection missed (docs/confenge/TARGET-FIT-CONTINUOUS-REFRESH.md:19-21).
MissedChangesAreFound == \A c \in Company : Missed(c) ~> ~Missed(c)

=============================================================================
