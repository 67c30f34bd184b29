-------------------------- MODULE ResiliencePipeline --------------------------
(***************************************************************************)
(* The operational pipeline of the PNCP source: PNCPAdapter.fetch()        *)
(* (scripts/crawl/resilience/adapters.py) under                            *)
(* OperationalPipeline.run_source() (scripts/crawl/resilience/pipeline.py) *)
(* and the stores of scripts/crawl/resilience/state.py.                    *)
(*                                                                         *)
(* run_source() takes one run of one request scope through                 *)
(*     fetch -> raw -> normalize -> database -> evidence -> watermark.     *)
(* Each store is a directory of JSON files written by atomic renames, and  *)
(* several processes run the pipeline at the same time, so a process may   *)
(* be interrupted or overtaken between any two of these writes.            *)
(*   page        page checkpoints; their scope names the window and the    *)
(*               page, not the target;                                     *)
(*   ledger      last stage of a run, and whether it reached the database; *)
(*   canonical   the normalized records of a run;                          *)
(*   db          the records in PostgreSQL (an idempotent upsert);         *)
(*   evidence, checkpoint, watermark, dlq    the other stores.             *)
(*                                                                         *)
(* The source has one modality, its answers carry totalPaginas, and its    *)
(* contents do not change.  The status "failed" stands for the fetch       *)
(* statuses partial, rate_limited and error, and of a page for the last    *)
(* two.  Live mode only.                                                   *)
(***************************************************************************)
EXTENDS Naturals, FiniteSets

CONSTANTS
    Window,    \* date windows, with the observation suffix of their scope
    Target,    \* values of CrawlRequest.target
    MaxPage,   \* config.max_pages
    PagesOf,   \* the pages the source has for a window and a target
    Run,       \* run ids
    ScopeOf,   \* the request scope of each run
    Process,   \* processes that run the pipeline
    None

Scope == [window : Window, target : Target]
Record == [window : Window, target : Target, page : 1 .. MaxPage]
PageScope == Window \X (1 .. MaxPage)

ASSUME SourceAssumption ==
    /\ MaxPage \in Nat \ {0}
    /\ PagesOf \in [Scope -> Nat]
    /\ ScopeOf \in [Run -> Scope]
    /\ None \notin Target \cup Run \cup Nat
    /\ \A records \in SUBSET Record : records # None

FetchStatus == {"success", "empty_confirmed", "failed"}

PageStatus == {"none", "failed", "raw_persisted", "normalized", "db_committed",
               "success", "empty_confirmed"}

PageRow == [status : PageStatus, raw : Target \cup {None}, total : Nat \cup {None}]

Stage == {"none", "raw_persisted", "normalized", "db_committed", "evidence_committed",
          "watermark_committed"}

\* What fetch() has gathered so far; "reading" until it returns.
FetchResult == [status : FetchStatus \cup {"reading"}, pages : 0 .. MaxPage,
                expected : Nat \cup {None}, records : SUBSET Record]

Step == {"idle", "page", "request", "stage_raw", "write_canonical", "stage_normalized",
         "persist", "stage_db", "write_evidence", "stage_evidence", "save_checkpoint",
         "promote", "commit_watermark", "complete"}

VARIABLES
    page, ledger, canonical, db, evidence, checkpoint, watermark, dlq,
    pc,      \* the next step of each process
    run,     \* the run each process works on
    fetched, \* its FetchResult
    stored   \* its local variable db_committed

stores == <<page, ledger, canonical, db, evidence, checkpoint, watermark, dlq>>
locals == <<run, fetched, stored>>
vars == <<page, ledger, canonical, db, evidence, checkpoint, watermark, dlq,
          pc, run, fetched, stored>>

NoFetch == [status |-> "reading", pages |-> 0, expected |-> None, records |-> {}]

Init ==
    /\ page = [x \in PageScope |-> [status |-> "none", raw |-> None, total |-> None]]
    /\ ledger = [r \in Run |-> [last |-> "none", db |-> FALSE]]
    /\ canonical = [r \in Run |-> None]
    /\ db = {}
    /\ evidence = [r \in Run |-> "none"]
    /\ checkpoint = [s \in Scope |-> "none"]
    /\ watermark = [s \in Scope |-> None]
    /\ dlq = {}
    /\ pc = [p \in Process |-> "idle"]
    /\ run = [p \in Process |-> None]
    /\ fetched = [p \in Process |-> NoFetch]
    /\ stored = [p \in Process |-> FALSE]

ScopeAt(p) == ScopeOf[run[p]]

Goto(p, step) == pc' = [pc EXCEPT ![p] = step]

\* The status of an answer: complete pages, and an empty one is confirmed.
Concluded(f) ==
    [f EXCEPT !.status = IF f.expected # None /\ f.pages < f.expected THEN "failed"
                         ELSE IF f.records = {} THEN "empty_confirmed" ELSE "success"]

-----------------------------------------------------------------------------
(* run_source() up to the fetch.  A scope that has its watermark returns   *)
(* at once, which changes nothing.                                         *)

\* Resuming from the canonical file: FetchResult(status="success"), which an
\* empty file turns into "partial" (zero_ambiguous).
Resumed(r) ==
    [status |-> IF canonical[r] = {} THEN "failed" ELSE "success",
     pages |-> 0, expected |-> None, records |-> canonical[r]]

\* Mutant: a normalized run resumes after the database.
ResumeSkippingPersist(r) ==
    IF ledger[r].last = "normalized" /\ Resumed(r).status # "failed" THEN "stage_db"
    ELSE "write_evidence"

ResumeStep(r) ==
    CASE ledger[r].last = "normalized" -> "write_canonical"
      [] ledger[r].last = "db_committed" /\ Resumed(r).status # "failed" -> "persist"
      [] OTHER -> "write_evidence"

Begin(p, r) ==
    /\ pc[p] = "idle"
    /\ \A q \in Process : run[q] # r
    /\ watermark[ScopeOf[r]] = None
    /\ run' = [run EXCEPT ![p] = r]
    /\ IF canonical[r] = None \/ ledger[r].last \in {"none", "raw_persisted"}
       THEN /\ fetched' = [fetched EXCEPT ![p] = NoFetch]
            /\ stored' = [stored EXCEPT ![p] = FALSE]
            /\ Goto(p, "page")
       ELSE /\ fetched' = [fetched EXCEPT ![p] = Resumed(r)]
            /\ stored' = [stored EXCEPT ![p] =
                             ledger[r].last = "evidence_committed" /\ ledger[r].db]
            /\ Goto(p, ResumeStep(r))
    /\ UNCHANGED stores

-----------------------------------------------------------------------------
(* PNCPAdapter.fetch(): page by page.  The checkpoint of a page is read    *)
(* before the HTTP request and written after it.                           *)

PageAt(p) == <<ScopeAt(p).window, fetched[p].pages + 1>>

\* What the source answers to the request for page n of a scope.
Answer(s, n) ==
    IF n <= PagesOf[s] THEN {[window |-> s.window, target |-> s.target, page |-> n]} ELSE {}

\* Mutant: any checkpoint will do.
ReusableFailure(row) == row.status # "none"

\* "Reuse any stage that already has immutable raw - never re-HTTP."
Reusable(row) ==
    \/ row.raw # None /\ row.status \notin {"none", "failed"}
    \/ row.status = "empty_confirmed"

RawRecords(x) ==
    IF page[x].raw = None THEN {}
    ELSE Answer([window |-> x[1], target |-> page[x].raw], x[2])

\* prior.pages_expected, unless an answer of this fetch already told.
Expected(p) ==
    IF fetched[p].expected = None THEN page[PageAt(p)].total ELSE fetched[p].expected

IsLast(pages, e) == pages = MaxPage \/ (e # None /\ pages >= e)

\* One more page is complete; e pages are expected in all.
AddPage(p, records, e) ==
    LET f == [fetched[p] EXCEPT !.pages = @ + 1, !.expected = e, !.records = @ \cup records]
    IN  /\ fetched' = [fetched EXCEPT ![p] = IF IsLast(f.pages, e) THEN Concluded(f) ELSE f]
        /\ Goto(p, IF IsLast(f.pages, e) THEN "stage_raw" ELSE "page")
        /\ UNCHANGED <<run, stored>>

GiveUp(p) ==
    /\ fetched' = [fetched EXCEPT ![p].status = "failed"]
    /\ Goto(p, "stage_raw")
    /\ UNCHANGED <<run, stored>>

ReusePage(p) ==
    /\ pc[p] = "page"
    /\ Reusable(page[PageAt(p)])
    /\ AddPage(p, RawRecords(PageAt(p)), Expected(p))
    /\ UNCHANGED stores

MissPage(p) ==
    /\ pc[p] = "page"
    /\ ~Reusable(page[PageAt(p)])
    /\ fetched' = [fetched EXCEPT ![p].expected = Expected(p)]
    /\ Goto(p, "request")
    /\ UNCHANGED <<stores, run, stored>>

\* The circuit breaker is open, or the daily request budget is spent.
Denied(p) ==
    /\ pc[p] = "page"
    /\ ~Reusable(page[PageAt(p)])
    /\ GiveUp(p)
    /\ UNCHANGED stores

SavePage(p, row) ==
    /\ page' = [page EXCEPT ![PageAt(p)] = row]
    /\ UNCHANGED <<ledger, canonical, db, evidence, checkpoint, watermark, dlq>>

Answered(p) ==
    /\ pc[p] = "request"
    /\ SavePage(p, [status |-> "raw_persisted", raw |-> ScopeAt(p).target,
                    total |-> PagesOf[ScopeAt(p)]])
    /\ AddPage(p, Answer(ScopeAt(p), fetched[p].pages + 1), PagesOf[ScopeAt(p)])

\* The raw body of a failure is no page.
RequestFails(p) ==
    /\ pc[p] = "request"
    /\ SavePage(p, [status |-> "failed", raw |-> None, total |-> fetched[p].expected])
    /\ GiveUp(p)

-----------------------------------------------------------------------------
(* run_source() after the fetch.  Each write to a store is a step.         *)

\* Mutant: a run that ends is not released.
ReturnBusy(p) ==
    /\ Goto(p, "idle")
    /\ fetched' = [fetched EXCEPT ![p] = NoFetch]
    /\ stored' = [stored EXCEPT ![p] = FALSE]
    /\ UNCHANGED run

Return(p) ==
    /\ Goto(p, "idle")
    /\ run' = [run EXCEPT ![p] = None]
    /\ fetched' = [fetched EXCEPT ![p] = NoFetch]
    /\ stored' = [stored EXCEPT ![p] = FALSE]

\* The except clause: the scope goes to the dead letter queue.
Raised(p) == dlq' = dlq \cup {ScopeAt(p)} /\ Return(p)

Advance(p, stage) ==
    ledger' = [ledger EXCEPT ![run[p]].last = stage,
                             ![run[p]].db = @ \/ stage = "db_committed"]

\* ALLOWED_TRANSITIONS, for pages that are behind the status they are promoted to.
Promotable(to) ==
    CASE to = "normalized" -> {"raw_persisted"}
      [] to = "db_committed" -> {"raw_persisted", "normalized"}
      [] to = "empty_confirmed" -> {"raw_persisted", "normalized", "db_committed"}
      [] to = "success" -> {"raw_persisted", "normalized", "db_committed", "failed"}

RawRefs(p) == {<<ScopeAt(p).window, n>> : n \in 1 .. fetched[p].pages}

\* The first of these raises InvalidCheckpointTransition.
Illegal(p, to) == {x \in RawRefs(p) : page[x].status = "failed" /\ to # "success"}

\* _promote_page_checkpoints(), then on to the next step with db_committed = d.
PromotePages(p, to, d, step) ==
    /\ page' = [x \in PageScope |->
                  IF /\ x \in RawRefs(p)
                     /\ page[x].status \in Promotable(to)
                     /\ \A y \in Illegal(p, to) : x[2] < y[2]
                  THEN [page[x] EXCEPT !.status = to]
                  ELSE page[x]]
    /\ IF Illegal(p, to) = {}
       THEN /\ Goto(p, step)
            /\ stored' = [stored EXCEPT ![p] = d]
            /\ UNCHANGED <<dlq, run, fetched>>
       ELSE Raised(p)

\* Mutant: some records are enough.
ConfirmedPartially(p) == fetched[p].status # "failed" \/ fetched[p].records # {}

Confirmed(p) == fetched[p].status \in {"success", "empty_confirmed"}

StageRaw(p) ==
    /\ pc[p] = "stage_raw"
    /\ Advance(p, "raw_persisted")
    /\ Goto(p, "write_canonical")
    /\ UNCHANGED <<page, canonical, db, evidence, checkpoint, watermark, dlq, locals>>

WriteCanonical(p) ==
    /\ pc[p] = "write_canonical"
    /\ canonical' = [canonical EXCEPT ![run[p]] = fetched[p].records]
    /\ Goto(p, "stage_normalized")
    /\ UNCHANGED <<page, ledger, db, evidence, checkpoint, watermark, dlq, locals>>

\* Whatever the status of the fetch is.
StageNormalized(p) ==
    /\ pc[p] = "stage_normalized"
    /\ Advance(p, "normalized")
    /\ PromotePages(p, "normalized", FALSE,
                    IF Confirmed(p) THEN "persist" ELSE "write_evidence")
    /\ UNCHANGED <<canonical, db, evidence, checkpoint, watermark>>

Persist(p) ==
    /\ pc[p] = "persist"
    /\ db' = db \cup fetched[p].records
    /\ Goto(p, "stage_db")
    /\ UNCHANGED <<page, ledger, canonical, evidence, checkpoint, watermark, dlq, locals>>

StageDb(p) ==
    /\ pc[p] = "stage_db"
    /\ Advance(p, "db_committed")
    /\ PromotePages(p, "db_committed", TRUE, "write_evidence")
    /\ UNCHANGED <<canonical, db, evidence, checkpoint, watermark>>

\* Mutant: the evidence does not ask for the database.
SatisfactoryUnstored(p) == Confirmed(p)

\* operational_satisfactory of EvidenceLedger.write().
Satisfactory(p) == Confirmed(p) /\ stored[p]

WriteEvidence(p) ==
    /\ pc[p] = "write_evidence"
    /\ evidence' = [evidence EXCEPT ![run[p]] =
                       IF Satisfactory(p) THEN "satisfactory" ELSE "unsatisfactory"]
    /\ Goto(p, "stage_evidence")
    /\ UNCHANGED <<page, ledger, canonical, db, checkpoint, watermark, dlq, locals>>

StageEvidence(p) ==
    /\ pc[p] = "stage_evidence"
    /\ Advance(p, "evidence_committed")
    /\ Goto(p, "save_checkpoint")
    /\ UNCHANGED <<page, canonical, db, evidence, checkpoint, watermark, dlq, locals>>

SaveCheckpoint(p) ==
    /\ pc[p] = "save_checkpoint"
    /\ checkpoint' = [checkpoint EXCEPT ![ScopeAt(p)] =
                         IF Satisfactory(p) THEN "evidence_committed" ELSE "failed"]
    /\ IF Satisfactory(p) THEN Goto(p, "promote") /\ UNCHANGED locals ELSE Return(p)
    /\ UNCHANGED <<page, ledger, canonical, db, evidence, watermark, dlq>>

\* What a scope with satisfactory evidence is promoted to.
TerminalStatus(p) == IF fetched[p].status = "empty_confirmed" THEN "empty_confirmed" ELSE "success"

PromoteCheckpoint(p) ==
    /\ pc[p] = "promote"
    /\ checkpoint' = [checkpoint EXCEPT ![ScopeAt(p)] = TerminalStatus(p)]
    /\ PromotePages(p, TerminalStatus(p), TRUE, "commit_watermark")
    /\ UNCHANGED <<ledger, canonical, db, evidence, watermark>>

CommitWatermark(p) ==
    /\ pc[p] = "commit_watermark"
    /\ watermark' = [watermark EXCEPT ![ScopeAt(p)] = run[p]]
    /\ Goto(p, "complete")
    /\ UNCHANGED <<page, ledger, canonical, db, evidence, checkpoint, dlq, locals>>

Complete(p) ==
    /\ pc[p] = "complete"
    /\ checkpoint' = [checkpoint EXCEPT ![ScopeAt(p)] = "watermark_committed"]
    /\ Advance(p, "watermark_committed")
    /\ dlq' = dlq \ {ScopeAt(p)}
    /\ Return(p)
    /\ UNCHANGED <<page, canonical, db, evidence, watermark>>

\* A disk, the database or the adapter raises: run_source() catches it.
Fails(p) ==
    /\ pc[p] # "idle"
    /\ Raised(p)
    /\ UNCHANGED <<page, ledger, canonical, db, evidence, checkpoint, watermark>>

\* The process is killed.
Dies(p) == pc[p] # "idle" /\ Return(p) /\ UNCHANGED stores

Works(p) ==
    \/ ReusePage(p) \/ MissPage(p) \/ Answered(p)
    \/ StageRaw(p) \/ WriteCanonical(p) \/ StageNormalized(p)
    \/ Persist(p) \/ StageDb(p)
    \/ WriteEvidence(p) \/ StageEvidence(p) \/ SaveCheckpoint(p)
    \/ PromoteCheckpoint(p) \/ CommitWatermark(p) \/ Complete(p)

Breaks(p) == Denied(p) \/ RequestFails(p) \/ Fails(p) \/ Dies(p)

Next == \E p \in Process : Works(p) \/ Breaks(p) \/ \E r \in Run : Begin(p, r)

Spec == Init /\ [][Next]_vars

(* The deployed callers give every attempt a new run id (the uuid of       *)
(* claim(), or new_run_id()).  Ids are recycled here: what a run left in   *)
(* its ledger and canonical file is never read again.                      *)
BeginFresh(p, r) == ledger[r].last = "none" /\ canonical[r] = None /\ Begin(p, r)

Forget(r) ==
    /\ \A p \in Process : run[p] # r
    /\ \A s \in Scope : watermark[s] # r
    /\ ledger[r].last # "none"
    /\ ledger' = [ledger EXCEPT ![r] = [last |-> "none", db |-> FALSE]]
    /\ canonical' = [canonical EXCEPT ![r] = None]
    /\ evidence' = [evidence EXCEPT ![r] = "none"]
    /\ UNCHANGED <<page, db, checkpoint, watermark, dlq, pc, locals>>

DeployedNext ==
    \/ \E p \in Process : Works(p) \/ Breaks(p) \/ \E r \in Run : BeginFresh(p, r)
    \/ \E r \in Run : Forget(r)

DeployedSpec == Init /\ [][DeployedNext]_vars

-----------------------------------------------------------------------------
(* Properties.                                                             *)

TypeOK ==
    /\ page \in [PageScope -> PageRow]
    /\ ledger \in [Run -> [last : Stage, db : BOOLEAN]]
    /\ DOMAIN canonical = Run
    /\ \A r \in Run : canonical[r] = None \/ canonical[r] \subseteq Record
    /\ db \subseteq Record
    /\ evidence \in [Run -> {"none", "satisfactory", "unsatisfactory"}]
    /\ checkpoint \in [Scope -> {"none", "failed", "evidence_committed", "success",
                                 "empty_confirmed", "watermark_committed"}]
    /\ watermark \in [Scope -> Run \cup {None}]
    /\ dlq \subseteq Scope
    /\ pc \in [Process -> Step]
    /\ run \in [Process -> Run \cup {None}]
    /\ fetched \in [Process -> FetchResult]
    /\ stored \in [Process -> BOOLEAN]
    /\ \A p \in Process : pc[p] = "idle" <=> run[p] = None

(* "Confirmed progress only; evidence is committed before watermark": a    *)
(* watermark names a run of its scope whose evidence is satisfactory and   *)
(* whose canonical records are all in the database, wherever the run was   *)
(* interrupted and resumed, and whatever other runs did meanwhile.         *)
EvidenceBeforeWatermark ==
    \A s \in Scope : watermark[s] # None =>
        /\ ScopeOf[watermark[s]] = s
        /\ evidence[watermark[s]] = "satisfactory"
        /\ canonical[watermark[s]] \subseteq db

(* A scope that has its watermark is never crawled again, so the watermark *)
(* must cover it: every page the source has for the scope is in the        *)
(* database.                                                               *)
WatermarkCoversItsScope ==
    \A s \in Scope : watermark[s] # None =>
        \A n \in 1 .. PagesOf[s] : Answer(s, n) \subseteq db

(* A run-level checkpoint that reads as completed is no longer pending, so *)
(* nothing replays its window: its pages must be in the database, although *)
(* the checkpoint is written before the watermark.                         *)
CompletedIsStored ==
    \A s \in Scope : checkpoint[s] \in {"success", "empty_confirmed", "watermark_committed"} =>
        \A n \in 1 .. PagesOf[s] : Answer(s, n) \subseteq db

(* A process that is killed between two stores never leaves its ledger     *)
(* ahead of them: what a stage promises to a resumed run is there.         *)
LedgerFollowsTheStores ==
    \A r \in Run :
        /\ ledger[r].last \notin {"none", "raw_persisted"} => canonical[r] # None
        /\ ledger[r].db => canonical[r] \subseteq db
        /\ ledger[r].last = "evidence_committed" => evidence[r] # "none"
        /\ ledger[r].last = "watermark_committed" => watermark[ScopeOf[r]] # None

=============================================================================
