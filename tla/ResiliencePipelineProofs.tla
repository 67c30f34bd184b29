------------------------ MODULE ResiliencePipelineProofs ------------------------
(* Theorems about ResiliencePipeline, for any source, any runs and scopes  *)
(* and any number of processes.  A process works on a run that no other    *)
(* process works on, and a step of it changes the stores of that run only; *)
(* the invariant therefore speaks of one process and of one run at a time. *)
EXTENDS ResiliencePipeline, TLAPS

StoresTyped ==
    /\ page \in [PageScope -> PageRow]
    /\ ledger \in [Run -> [last : Stage, db : BOOLEAN]]
    /\ DOMAIN canonical = Run
    /\ \A r \in Run : canonical[r] = None \/ canonical[r] \subseteq Record
    /\ db \subseteq Record
    /\ evidence \in [Run -> {"none", "satisfactory", "unsatisfactory"}]
    /\ checkpoint \in [Scope -> {"none", "failed", "evidence_committed", "success",
                                 "empty_confirmed", "watermark_committed"}]
    /\ watermark \in [Scope -> Run \cup {None}]
    /\ dlq \subseteq Scope

LocalsTyped ==
    /\ pc \in [Process -> Step]
    /\ run \in [Process -> Run \cup {None}]
    /\ fetched \in [Process -> FetchResult]
    /\ stored \in [Process -> BOOLEAN]
    /\ \A p \in Process : pc[p] = "idle" <=> run[p] = None

LEMMA TypeParts == TypeOK <=> StoresTyped /\ LocalsTyped
BY DEF TypeOK, StoresTyped, LocalsTyped

BeforeNormalized == {"page", "request", "stage_raw", "write_canonical", "stage_normalized"}

AfterEvidence == {"stage_evidence", "save_checkpoint", "promote", "commit_watermark"}

\* What the local variables of a process know of the stores.
ProcessOK(p) ==
    /\ pc[p] \in {"page", "request"} => fetched[p].pages < MaxPage
    /\ pc[p] \in BeforeNormalized => ~stored[p]
    /\ pc[p] \in {"page", "request", "stage_raw"} =>
           ledger[run[p]].last \in {"none", "raw_persisted"}
    /\ pc[p] \in {"write_canonical", "stage_normalized"} =>
           ledger[run[p]].last \in {"raw_persisted", "normalized"}
    /\ pc[p] \notin (BeforeNormalized \ {"stage_normalized"}) \cup {"idle"} =>
           canonical[run[p]] = fetched[p].records
    /\ pc[p] = "stage_db" \/ stored[p] => fetched[p].records \subseteq db
    /\ pc[p] \in AfterEvidence =>
           evidence[run[p]] = IF Satisfactory(p) THEN "satisfactory" ELSE "unsatisfactory"
    /\ pc[p] \in {"promote", "commit_watermark"} => Satisfactory(p)
    /\ pc[p] = "complete" => watermark[ScopeAt(p)] # None
    /\ pc[p] \notin {"idle", "complete"} => watermark[ScopeAt(p)] # run[p]

\* What the ledger of a run knows of the other stores.
RunOK(r) ==
    /\ ledger[r].last \in {"none", "raw_persisted", "normalized"} => ~ledger[r].db
    /\ ledger[r].last \notin {"none", "raw_persisted"} => canonical[r] # None
    /\ ledger[r].db => canonical[r] \subseteq db
    /\ ledger[r].last = "evidence_committed" => evidence[r] # "none"
    /\ ledger[r].last = "watermark_committed" => watermark[ScopeOf[r]] # None

RunsApart == \A p, q \in Process : run[p] = run[q] /\ run[p] # None => p = q

PipelineInv ==
    /\ TypeOK
    /\ RunsApart
    /\ \A p \in Process : ProcessOK(p)
    /\ \A r \in Run : RunOK(r)
    /\ EvidenceBeforeWatermark

-----------------------------------------------------------------------------
(* A step of one process.                                                  *)

\* What a step of process p leaves alone: other processes, and other runs.
OthersFrame(p) ==
    /\ \A q \in Process \ {p} : /\ pc'[q] = pc[q]
                                /\ run'[q] = run[q]
                                /\ fetched'[q] = fetched[q]
                                /\ stored'[q] = stored[q]
    /\ \A r \in Run : r # run[p] => /\ ledger'[r] = ledger[r]
                                    /\ canonical'[r] = canonical[r]
                                    /\ evidence'[r] = evidence[r]
    /\ db \subseteq db'
    /\ \A s \in Scope : watermark'[s] # watermark[s] =>
           s = ScopeAt(p) /\ watermark'[s] = run[p] /\ run[p] \in Run
    /\ run'[p] \in {run[p], None} \/ \A q \in Process : run[q] # run'[p]

LEMMA OthersKeep ==
    ASSUME PipelineInv, NEW p \in Process, OthersFrame(p), NEW q \in Process \ {p}
    PROVE  ProcessOK(q)'
<1>1. /\ pc'[q] = pc[q] /\ run'[q] = run[q]
      /\ fetched'[q] = fetched[q] /\ stored'[q] = stored[q]
      /\ db \subseteq db'
  BY DEF OthersFrame
<1>2. ProcessOK(q) /\ (pc[q] = "idle" <=> run[q] = None) /\ run[q] \in Run \cup {None}
  BY DEF PipelineInv, TypeOK
<1>3. CASE pc[q] = "idle"
  BY <1>1, <1>2, <1>3 DEF ProcessOK, BeforeNormalized, AfterEvidence
<1>4. CASE pc[q] # "idle"
  <2>1. run[q] \in Run /\ run[q] # run[p]
    BY <1>2, <1>4 DEF PipelineInv, RunsApart
  <2>2. /\ ledger'[run[q]] = ledger[run[q]]
        /\ canonical'[run[q]] = canonical[run[q]]
        /\ evidence'[run[q]] = evidence[run[q]]
    BY <2>1 DEF OthersFrame
  <2>3. ScopeAt(q)' = ScopeAt(q) /\ ScopeAt(q) \in Scope
    BY <1>1, <2>1, SourceAssumption DEF ScopeAt
  <2>4. \/ watermark'[ScopeAt(q)] = watermark[ScopeAt(q)]
        \/ watermark'[ScopeAt(q)] = run[p] /\ run[p] # None
    BY <2>3, SourceAssumption DEF OthersFrame
  <2>. QED
    BY <1>1, <1>2, <2>1, <2>2, <2>3, <2>4
    DEF ProcessOK, BeforeNormalized, AfterEvidence, Satisfactory, Confirmed
<1>. QED
  BY <1>3, <1>4

(* The invariant, from what a step does to its own process and run.       *)
LEMMA StepKeeps ==
    ASSUME PipelineInv, NEW p \in Process, OthersFrame(p), TypeOK', ProcessOK(p)',
           \A r \in Run : r = run[p] => RunOK(r)',
           \/ canonical' = canonical /\ evidence' = evidence
           \/ pc[p] \notin {"idle", "complete"} /\ watermark' = watermark,
           \A s \in Scope : watermark'[s] # watermark[s] =>
               evidence'[run[p]] = "satisfactory" /\ canonical'[run[p]] \subseteq db'
    PROVE  PipelineInv'
<1>1. \A q \in Process : ProcessOK(q)'
  BY OthersKeep
<1>2. ASSUME NEW r \in Run PROVE RunOK(r)'
  <2>1. CASE r = run[p]
    BY <2>1
  <2>2. CASE r # run[p]
    <3>1. /\ ledger'[r] = ledger[r] /\ canonical'[r] = canonical[r] /\ evidence'[r] = evidence[r]
          /\ db \subseteq db'
      BY <2>2 DEF OthersFrame
    <3>2. ScopeOf[r] \in Scope
      BY SourceAssumption
    <3>3. watermark[ScopeOf[r]] # None => watermark'[ScopeOf[r]] # None
      BY <3>2, SourceAssumption DEF OthersFrame
    <3>. QED
      BY <3>1, <3>3 DEF PipelineInv, RunOK
  <2>. QED
    BY <2>1, <2>2
<1>3. RunsApart'
  <2>1. \A a, b \in Process : run[a] = run[b] /\ run[a] # None => a = b
    BY DEF PipelineInv, RunsApart
  <2>2. \A q \in Process \ {p} : run'[q] = run[q]
    BY DEF OthersFrame
  <2>3. \A q \in Process \ {p} : run'[q] = run'[p] => run'[p] = None
    BY <2>1, <2>2 DEF OthersFrame
  <2>. QED
    BY <2>1, <2>2, <2>3 DEF RunsApart
<1>4. ASSUME NEW s \in Scope, watermark'[s] # None
      PROVE  /\ ScopeOf[watermark'[s]] = s
             /\ evidence'[watermark'[s]] = "satisfactory"
             /\ canonical'[watermark'[s]] \subseteq db'
  <2>1. CASE watermark'[s] = watermark[s]
    <3>. DEFINE r == watermark[s]
    <3>1. r \in Run /\ ScopeOf[r] = s /\ evidence[r] = "satisfactory" /\ canonical[r] \subseteq db
      BY <1>4, <2>1 DEF PipelineInv, TypeOK, EvidenceBeforeWatermark
    <3>2. evidence'[r] = evidence[r] /\ canonical'[r] = canonical[r]
      <4>1. CASE r # run[p]
        BY <3>1, <4>1 DEF OthersFrame
      <4>2. CASE r = run[p]
        <5>1. ScopeAt(p) = s
          BY <3>1, <4>2 DEF ScopeAt
        <5>2. pc[p] \in {"idle", "complete"}
          BY <4>2, <5>1 DEF PipelineInv, ProcessOK
        <5>. QED
          BY <5>2
      <4>. QED
        BY <4>1, <4>2
    <3>3. db \subseteq db'
      BY DEF OthersFrame
    <3>. QED
      BY <2>1, <3>1, <3>2, <3>3
  <2>2. CASE watermark'[s] # watermark[s]
    <3>1. s = ScopeAt(p) /\ watermark'[s] = run[p]
      BY <2>2 DEF OthersFrame
    <3>. QED
      BY <2>2, <3>1 DEF ScopeAt
  <2>. QED
    BY <2>1, <2>2
<1>. QED
  BY <1>1, <1>2, <1>3, <1>4 DEF PipelineInv, EvidenceBeforeWatermark

-----------------------------------------------------------------------------
(* The process that takes the step.                                        *)

LEMMA RunAtWork ==
    ASSUME PipelineInv, NEW p \in Process, pc[p] # "idle"
    PROVE  /\ run[p] \in Run /\ run[p] # None
           /\ ScopeAt(p) \in Scope
           /\ ScopeAt(p).window \in Window /\ ScopeAt(p).target \in Target
           /\ \A r \in Run : r = run[p] => RunOK(r)
BY SourceAssumption DEF PipelineInv, TypeOK, ScopeAt, Scope

LEMMA GotoLocals ==
    ASSUME LocalsTyped, NEW p \in Process, pc[p] # "idle", NEW step \in Step \ {"idle"},
           Goto(p, step), UNCHANGED locals
    PROVE  LocalsTyped' /\ pc'[p] = step /\ \A q \in Process \ {p} : pc'[q] = pc[q]
BY DEF LocalsTyped, Goto, locals

LEMMA ReturnLocals ==
    ASSUME LocalsTyped, NEW p \in Process, Return(p)
    PROVE  /\ LocalsTyped'
           /\ ProcessOK(p)'
           /\ pc'[p] = "idle" /\ run'[p] = None
           /\ \A q \in Process \ {p} : /\ pc'[q] = pc[q] /\ run'[q] = run[q]
                                       /\ fetched'[q] = fetched[q] /\ stored'[q] = stored[q]
<1>1. NoFetch \in FetchResult
  BY SourceAssumption DEF NoFetch, FetchResult
<1>2. "idle" \in Step
  BY DEF Step
<1>3. LocalsTyped'
  BY <1>1, <1>2 DEF LocalsTyped, Return, Goto
<1>4. pc'[p] = "idle" /\ ~stored'[p]
  BY DEF LocalsTyped, Return, Goto
<1>5. ProcessOK(p)'
  BY <1>4 DEF ProcessOK, BeforeNormalized, AfterEvidence
<1>. QED
  BY <1>3, <1>4, <1>5 DEF LocalsTyped, Return, Goto

(* A step that only ends the run of its process, and writes no store that  *)
(* the invariant speaks of.                                                *)
LEMMA ReturnKeeps ==
    ASSUME PipelineInv, NEW p \in Process, Return(p),
           UNCHANGED <<ledger, canonical, db, evidence, watermark>>,
           StoresTyped'
    PROVE  PipelineInv'
<1>1. LocalsTyped
  BY TypeParts DEF PipelineInv
<1>2. OthersFrame(p)
  BY <1>1, ReturnLocals DEF OthersFrame
<1>3. TypeOK' /\ ProcessOK(p)'
  BY <1>1, ReturnLocals, TypeParts, PTL
<1>4. \A r \in Run : RunOK(r)'
  BY DEF PipelineInv, RunOK
<1>. QED
  BY <1>2, <1>3, <1>4, StepKeeps

LEMMA DlqTyped ==
    ASSUME PipelineInv, NEW p \in Process, pc[p] # "idle",
           dlq' = dlq \cup {ScopeAt(p)} \/ dlq' = dlq \/ dlq' = dlq \ {ScopeAt(p)}
    PROVE  dlq' \subseteq Scope
BY RunAtWork DEF PipelineInv, TypeOK

LEMMA BreakDownKeeps ==
    ASSUME PipelineInv, NEW p \in Process, Fails(p) \/ Dies(p)
    PROVE  PipelineInv'
<1>1. /\ Return(p) /\ pc[p] # "idle"
      /\ UNCHANGED <<page, ledger, canonical, db, evidence, checkpoint, watermark>>
      /\ dlq' = dlq \/ dlq' = dlq \cup {ScopeAt(p)}
  BY DEF Fails, Dies, Raised, stores
<1>2. StoresTyped'
  BY <1>1, DlqTyped DEF PipelineInv, TypeOK, StoresTyped
<1>. QED
  BY <1>1, <1>2, ReturnKeeps

-----------------------------------------------------------------------------
(* The fetch.                                                              *)

LEMMA FetchKeeps ==
    ASSUME PipelineInv, NEW p \in Process, pc[p] \in {"page", "request"},
           NEW f \in FetchResult, NEW step \in {"page", "request", "stage_raw"},
           step \in {"page", "request"} => f.pages < MaxPage,
           fetched' = [fetched EXCEPT ![p] = f],
           Goto(p, step),
           UNCHANGED <<run, stored>>,
           page' \in [PageScope -> PageRow],
           UNCHANGED <<ledger, canonical, db, evidence, checkpoint, watermark, dlq>>
    PROVE  PipelineInv'
<1>1. LocalsTyped /\ StoresTyped
  BY TypeParts DEF PipelineInv
<1>2. /\ pc'[p] = step /\ fetched'[p] = f
      /\ \A q \in Process \ {p} : pc'[q] = pc[q] /\ fetched'[q] = fetched[q]
  BY <1>1 DEF LocalsTyped, Goto
<1>3. TypeOK'
  <2>1. LocalsTyped'
    BY <1>1 DEF LocalsTyped, Goto, Step
  <2>2. StoresTyped'
    BY <1>1 DEF StoresTyped
  <2>. QED
    BY <2>1, <2>2, TypeParts, PTL
<1>4. OthersFrame(p)
  BY <1>2 DEF OthersFrame
<1>5. ProcessOK(p)'
  <2>1. ProcessOK(p) /\ ScopeAt(p)' = ScopeAt(p)
    BY DEF PipelineInv, ScopeAt
  <2>. QED
    BY <1>2, <2>1 DEF ProcessOK, BeforeNormalized, AfterEvidence
<1>6. \A r \in Run : RunOK(r)'
  BY DEF PipelineInv, RunOK
<1>. QED
  BY <1>3, <1>4, <1>5, <1>6, StepKeeps

LEMMA PageAtType ==
    ASSUME PipelineInv, NEW p \in Process, pc[p] \in {"page", "request"}
    PROVE  /\ PageAt(p) \in PageScope
           /\ fetched[p] \in FetchResult /\ fetched[p].pages \in 0 .. MaxPage
           /\ fetched[p].pages < MaxPage /\ MaxPage \in Nat
           /\ fetched[p].expected \in Nat \cup {None}
           /\ Expected(p) \in Nat \cup {None}
           /\ page[PageAt(p)] \in PageRow
<1>1. /\ fetched[p] \in FetchResult /\ fetched[p].pages \in 0 .. MaxPage
      /\ fetched[p].expected \in Nat \cup {None}
  BY DEF PipelineInv, TypeOK, FetchResult
<1>2. fetched[p].pages < MaxPage /\ MaxPage \in Nat
  BY SourceAssumption DEF PipelineInv, ProcessOK
<1>3. PageAt(p) \in PageScope
  <2>1. fetched[p].pages + 1 \in 1 .. MaxPage
    BY <1>1, <1>2
  <2>. QED
    BY <2>1, RunAtWork DEF PageAt, PageScope
<1>4. page[PageAt(p)] \in PageRow
  BY <1>3 DEF PipelineInv, TypeOK
<1>. QED
  BY <1>1, <1>2, <1>3, <1>4 DEF Expected, PageRow

LEMMA AnswerType ==
    \A s \in Scope, n \in 1 .. MaxPage : Answer(s, n) \subseteq Record
BY DEF Answer, Scope, Record

LEMMA AddPageKeeps ==
    ASSUME PipelineInv, NEW p \in Process, pc[p] \in {"page", "request"},
           NEW records \in SUBSET Record, NEW e \in Nat \cup {None},
           AddPage(p, records, e),
           page' \in [PageScope -> PageRow],
           UNCHANGED <<ledger, canonical, db, evidence, checkpoint, watermark, dlq>>
    PROVE  PipelineInv'
<1>. DEFINE f == [fetched[p] EXCEPT !.pages = @ + 1, !.expected = e, !.records = @ \cup records]
            last == IsLast(f.pages, e)
            g == IF last THEN Concluded(f) ELSE f
            step == IF last THEN "stage_raw" ELSE "page"
<1>1. f \in FetchResult /\ f.pages \in 1 .. MaxPage
  <2>1. \A x \in FetchResult, n \in 0 .. MaxPage, rs \in SUBSET Record :
            [x EXCEPT !.pages = n, !.expected = e, !.records = rs] \in FetchResult
    BY DEF FetchResult
  <2>2. fetched[p].pages + 1 \in 1 .. MaxPage /\ fetched[p].pages + 1 \in 0 .. MaxPage
    BY PageAtType
  <2>3. fetched[p].records \cup records \in SUBSET Record
    BY PageAtType DEF FetchResult
  <2>4. f \in FetchResult
    BY <2>1, <2>2, <2>3, PageAtType
  <2>5. f.pages = fetched[p].pages + 1
    BY PageAtType DEF FetchResult
  <2>. QED
    BY <2>2, <2>4, <2>5
<1>2. Concluded(f) \in FetchResult
  <2>1. \A x \in FetchResult, st \in FetchStatus : [x EXCEPT !.status = st] \in FetchResult
    BY DEF FetchResult
  <2>. QED
    BY <1>1, <2>1 DEF Concluded, FetchStatus
<1>3. g \in FetchResult
  BY <1>1, <1>2
<1>4. ~last => f.pages < MaxPage
  BY <1>1, PageAtType DEF IsLast
<1>5. fetched' = [fetched EXCEPT ![p] = g] /\ Goto(p, step) /\ UNCHANGED <<run, stored>>
  BY DEF AddPage
<1>6. step \in {"page", "request", "stage_raw"} /\ (step \in {"page", "request"} => g.pages < MaxPage)
  BY <1>4
<1>. HIDE DEF g, step
<1>. QED
  BY <1>3, <1>5, <1>6, FetchKeeps

LEMMA GiveUpKeeps ==
    ASSUME PipelineInv, NEW p \in Process, pc[p] \in {"page", "request"},
           GiveUp(p),
           page' \in [PageScope -> PageRow],
           UNCHANGED <<ledger, canonical, db, evidence, checkpoint, watermark, dlq>>
    PROVE  PipelineInv'
<1>. DEFINE f == [fetched[p] EXCEPT !.status = "failed"]
<1>1. f \in FetchResult
  BY PageAtType DEF FetchResult, FetchStatus
<1>2. fetched' = [fetched EXCEPT ![p] = f] /\ Goto(p, "stage_raw") /\ UNCHANGED <<run, stored>>
  BY PageAtType DEF GiveUp, PipelineInv, TypeOK
<1>. HIDE DEF f
<1>. QED
  BY <1>1, <1>2, FetchKeeps

LEMMA FetchStepKeeps ==
    ASSUME PipelineInv, NEW p \in Process,
           ReusePage(p) \/ MissPage(p) \/ Answered(p) \/ Denied(p) \/ RequestFails(p)
    PROVE  PipelineInv'
<1>1. pc[p] \in {"page", "request"} /\ page \in [PageScope -> PageRow]
  BY DEF ReusePage, MissPage, Answered, Denied, RequestFails, PipelineInv, TypeOK
<1>2. CASE ReusePage(p)
  <2>1. RawRecords(PageAt(p)) \in SUBSET Record
    <3>. DEFINE x == PageAt(p)
    <3>1. x[1] \in Window /\ x[2] \in 1 .. MaxPage /\ page[x].raw \in Target \cup {None}
      BY <1>1, PageAtType DEF PageScope, PageRow
    <3>2. page[x].raw # None => [window |-> x[1], target |-> page[x].raw] \in Scope
      BY <3>1 DEF Scope
    <3>. QED
      BY <3>1, <3>2, AnswerType DEF RawRecords
  <2>2. /\ AddPage(p, RawRecords(PageAt(p)), Expected(p))
        /\ UNCHANGED <<page, ledger, canonical, db, evidence, checkpoint, watermark, dlq>>
    BY <1>2 DEF ReusePage, stores
  <2>. QED
    BY <1>1, <2>1, <2>2, PageAtType, AddPageKeeps
<1>3. CASE MissPage(p)
  <2>. DEFINE f == [fetched[p] EXCEPT !.expected = Expected(p)]
  <2>1. f \in FetchResult /\ f.pages < MaxPage
    BY <1>1, PageAtType DEF FetchResult
  <2>2. /\ fetched' = [fetched EXCEPT ![p] = f]
        /\ Goto(p, "request")
        /\ UNCHANGED <<run, stored>>
        /\ UNCHANGED <<page, ledger, canonical, db, evidence, checkpoint, watermark, dlq>>
    BY <1>3 DEF MissPage, stores, PipelineInv, TypeOK
  <2>. HIDE DEF f
  <2>. QED
    BY <1>1, <2>1, <2>2, FetchKeeps
<1>4. CASE Denied(p)
  BY <1>1, <1>4, GiveUpKeeps DEF Denied, stores
<1>5. CASE Answered(p)
  <2>1. /\ Answer(ScopeAt(p), fetched[p].pages + 1) \in SUBSET Record
        /\ PagesOf[ScopeAt(p)] \in Nat
        /\ ScopeAt(p).target \in Target
    <3>1. fetched[p].pages + 1 \in 1 .. MaxPage
      BY <1>1, PageAtType
    <3>. QED
      BY <1>1, <3>1, RunAtWork, AnswerType, SourceAssumption
  <2>2. [status |-> "raw_persisted", raw |-> ScopeAt(p).target, total |-> PagesOf[ScopeAt(p)]]
            \in PageRow
    BY <2>1 DEF PageRow, PageStatus
  <2>3. page' \in [PageScope -> PageRow]
    BY <1>1, <1>5, <2>2, PageAtType DEF Answered, SavePage
  <2>. QED
    BY <1>1, <1>5, <2>1, <2>3, AddPageKeeps DEF Answered, SavePage
<1>6. CASE RequestFails(p)
  <2>1. [status |-> "failed", raw |-> None, total |-> fetched[p].expected] \in PageRow
    BY <1>1, PageAtType DEF PageRow, PageStatus
  <2>2. page' \in [PageScope -> PageRow]
    BY <1>1, <1>6, <2>1, PageAtType DEF RequestFails, SavePage
  <2>. QED
    BY <1>1, <1>6, <2>2, GiveUpKeeps DEF RequestFails, SavePage
<1>. QED
  BY <1>2, <1>3, <1>4, <1>5, <1>6

-----------------------------------------------------------------------------
(* The beginning of a run, fresh or resumed.                               *)

LEMMA BeginKeeps ==
    ASSUME PipelineInv, NEW p \in Process, NEW r \in Run, Begin(p, r)
    PROVE  PipelineInv'
<1>. DEFINE fresh == canonical[r] = None \/ ledger[r].last \in {"none", "raw_persisted"}
            f == IF fresh THEN NoFetch ELSE Resumed(r)
            d == IF fresh THEN FALSE ELSE ledger[r].last = "evidence_committed" /\ ledger[r].db
            step == IF fresh THEN "page" ELSE ResumeStep(r)
<1>1. /\ pc[p] = "idle" /\ run[p] = None
      /\ \A q \in Process : run[q] # r
      /\ watermark[ScopeOf[r]] = None
      /\ run' = [run EXCEPT ![p] = r]
      /\ fetched' = [fetched EXCEPT ![p] = f]
      /\ stored' = [stored EXCEPT ![p] = d]
      /\ pc' = [pc EXCEPT ![p] = step]
      /\ UNCHANGED stores
  BY DEF Begin, Goto, PipelineInv, TypeOK
<1>2. LocalsTyped /\ StoresTyped /\ RunOK(r) /\ r # None
  BY TypeParts, SourceAssumption DEF PipelineInv
<1>3. ledger[r].last \in Stage /\ ledger[r].db \in BOOLEAN
  BY <1>2 DEF StoresTyped
<1>4. ~fresh => canonical[r] # None /\ canonical[r] \in SUBSET Record
  BY <1>2 DEF StoresTyped
<1>5. f \in FetchResult /\ (fresh => f.pages < MaxPage) /\ (~fresh => f.records = canonical[r])
  <2>1. NoFetch \in FetchResult /\ NoFetch.pages < MaxPage
    BY SourceAssumption DEF NoFetch, FetchResult
  <2>2. ~fresh => Resumed(r) \in FetchResult /\ Resumed(r).records = canonical[r]
    BY <1>4, SourceAssumption DEF Resumed, FetchResult, FetchStatus
  <2>. QED
    BY <2>1, <2>2
<1>6. d \in BOOLEAN /\ (d => ~fresh /\ ledger[r].last = "evidence_committed" /\ ledger[r].db)
  BY <1>3
<1>7. /\ fresh => step = "page"
      /\ ~fresh => /\ step \in {"write_canonical", "persist", "write_evidence"}
                   /\ step = "write_canonical" => ledger[r].last = "normalized"
  BY DEF ResumeStep
<1>8. step \in Step \ {"idle"}
  BY <1>7 DEF Step
<1>9. fresh => ledger[r].last \in {"none", "raw_persisted"}
  BY <1>2 DEF RunOK
<1>. HIDE DEF fresh, f, d, step
<1>10. /\ pc'[p] = step /\ run'[p] = r /\ fetched'[p] = f /\ stored'[p] = d
       /\ \A q \in Process \ {p} : /\ pc'[q] = pc[q] /\ run'[q] = run[q]
                                   /\ fetched'[q] = fetched[q] /\ stored'[q] = stored[q]
  BY <1>1, <1>2 DEF LocalsTyped
<1>11. TypeOK'
  <2>1. LocalsTyped'
    BY <1>1, <1>2, <1>5, <1>6, <1>8 DEF LocalsTyped
  <2>2. StoresTyped'
    BY <1>1, <1>2 DEF StoresTyped, stores
  <2>. QED
    BY <2>1, <2>2, TypeParts, PTL
<1>12. OthersFrame(p)
  BY <1>1, <1>10 DEF OthersFrame, stores
<1>13. ProcessOK(p)'
  <2>1. UNCHANGED <<ledger, canonical, db, evidence, watermark>>
    BY <1>1 DEF stores
  <2>2. ScopeAt(p)' = ScopeOf[r]
    BY <1>10 DEF ScopeAt
  <2>3. d => canonical[r] \subseteq db
    BY <1>2, <1>6 DEF RunOK
  <2>4. CASE fresh
    BY <1>1, <1>2, <1>5, <1>6, <1>7, <1>9, <1>10, <2>1, <2>2, <2>4
    DEF ProcessOK, BeforeNormalized, AfterEvidence
  <2>5. CASE ~fresh
    <3>1. step = "write_canonical" => ~d
      BY <1>6, <1>7
    <3>. QED
      BY <1>1, <1>2, <1>5, <1>7, <1>10, <2>1, <2>2, <2>3, <2>5, <3>1
      DEF ProcessOK, BeforeNormalized, AfterEvidence
  <2>. QED
    BY <2>4, <2>5
<1>14. \A x \in Run : RunOK(x)'
  BY <1>1 DEF PipelineInv, RunOK, stores
<1>. QED
  BY <1>1, <1>11, <1>12, <1>13, <1>14, StepKeeps DEF stores

-----------------------------------------------------------------------------
(* The stages after the fetch.                                             *)

LEMMA AdvanceType ==
    ASSUME PipelineInv, NEW p \in Process, pc[p] # "idle", NEW stage \in Stage, Advance(p, stage)
    PROVE  /\ ledger' \in [Run -> [last : Stage, db : BOOLEAN]]
           /\ ledger'[run[p]].last = stage
           /\ ledger'[run[p]].db <=> ledger[run[p]].db \/ stage = "db_committed"
           /\ \A r \in Run : r # run[p] => ledger'[r] = ledger[r]
<1>1. run[p] \in Run /\ ledger \in [Run -> [last : Stage, db : BOOLEAN]]
  BY RunAtWork DEF PipelineInv, TypeOK
<1>. DEFINE row == ledger[run[p]]
            d == row.db \/ stage = "db_committed"
            new == [row EXCEPT !.last = stage, !.db = d]
<1>2. row \in [last : Stage, db : BOOLEAN]
  BY <1>1
<1>3. ledger' = [ledger EXCEPT ![run[p]] = new]
  BY <1>1, <1>2 DEF Advance
<1>4. d \in BOOLEAN
  BY Zenon
<1>. HIDE DEF d
<1>5. /\ new \in [last : Stage, db : BOOLEAN]
      /\ new.last = stage
      /\ new.db = d
  BY <1>2, <1>4
<1>. HIDE DEF row, new
<1>6. /\ ledger' \in [Run -> [last : Stage, db : BOOLEAN]]
      /\ ledger'[run[p]] = new
      /\ \A r \in Run : r # run[p] => ledger'[r] = ledger[r]
  BY <1>1, <1>3, <1>5
<1>. QED
  BY <1>5, <1>6 DEF d, row

(* A step to the next stage that no page promotion can stop.               *)
LEMMA StageKeeps ==
    ASSUME PipelineInv, NEW p \in Process, pc[p] # "idle",
           NEW step \in Step \ {"idle", "page", "request"}, Goto(p, step), UNCHANGED locals,
           StoresTyped',
           \A r \in Run : r # run[p] => /\ ledger'[r] = ledger[r]
                                       /\ canonical'[r] = canonical[r]
                                       /\ evidence'[r] = evidence[r],
           db \subseteq db',
           \A s \in Scope : watermark'[s] # watermark[s] => s = ScopeAt(p) /\ watermark'[s] = run[p],
           \A r \in Run : r = run[p] => RunOK(r)',
           ProcessOK(p)',
           \/ canonical' = canonical /\ evidence' = evidence
           \/ pc[p] # "complete" /\ watermark' = watermark,
           \A s \in Scope : watermark'[s] # watermark[s] =>
               evidence'[run[p]] = "satisfactory" /\ canonical'[run[p]] \subseteq db'
    PROVE  PipelineInv'
<1>1. LocalsTyped
  BY TypeParts DEF PipelineInv
<1>2. LocalsTyped' /\ \A q \in Process \ {p} : pc'[q] = pc[q]
  BY <1>1, GotoLocals
<1>3. OthersFrame(p)
  BY <1>2, RunAtWork DEF OthersFrame, locals
<1>4. TypeOK'
  BY <1>2, TypeParts, PTL
<1>. QED
  BY <1>3, <1>4, StepKeeps

LEMMA StageRawKeeps ==
    ASSUME PipelineInv, NEW p \in Process, StageRaw(p)
    PROVE  PipelineInv'
<1>1. /\ pc[p] = "stage_raw" /\ ProcessOK(p) /\ LocalsTyped /\ StoresTyped
      /\ Advance(p, "raw_persisted") /\ Goto(p, "write_canonical")
      /\ UNCHANGED <<page, canonical, db, evidence, checkpoint, watermark, dlq, locals>>
  BY TypeParts DEF StageRaw, PipelineInv
<1>2. run[p] \in Run /\ RunOK(run[p])
  BY <1>1, RunAtWork DEF PipelineInv
<1>3. "raw_persisted" \in Stage /\ "write_canonical" \in Step
  BY DEF Stage, Step
<1>4. /\ ledger' \in [Run -> [last : Stage, db : BOOLEAN]]
      /\ ledger'[run[p]].last = "raw_persisted" /\ ~ledger'[run[p]].db
      /\ \A r \in Run : r # run[p] => ledger'[r] = ledger[r]
  BY <1>1, <1>2, <1>3, AdvanceType DEF ProcessOK, RunOK
<1>5. ProcessOK(p)'
  BY <1>1, <1>3, <1>4, GotoLocals
  DEF ProcessOK, BeforeNormalized, AfterEvidence, locals, ScopeAt
<1>6. \A r \in Run : r = run[p] => RunOK(r)'
  BY <1>4 DEF RunOK
<1>7. StoresTyped'
  BY <1>1, <1>4 DEF StoresTyped
<1>. QED
  BY <1>1, <1>3, <1>4, <1>5, <1>6, <1>7, StageKeeps

LEMMA WriteCanonicalKeeps ==
    ASSUME PipelineInv, NEW p \in Process, WriteCanonical(p)
    PROVE  PipelineInv'
<1>1. /\ pc[p] = "write_canonical" /\ ProcessOK(p) /\ LocalsTyped /\ StoresTyped
      /\ canonical' = [canonical EXCEPT ![run[p]] = fetched[p].records]
      /\ Goto(p, "stage_normalized")
      /\ UNCHANGED <<page, ledger, db, evidence, checkpoint, watermark, dlq, locals>>
  BY TypeParts DEF WriteCanonical, PipelineInv
<1>2. run[p] \in Run /\ RunOK(run[p])
  BY <1>1, RunAtWork DEF PipelineInv
<1>3. "stage_normalized" \in Step
  BY DEF Step
<1>4. fetched[p].records \in SUBSET Record /\ fetched[p].records # None
  BY <1>1, SourceAssumption DEF LocalsTyped, FetchResult
<1>5. /\ canonical'[run[p]] = fetched[p].records
      /\ DOMAIN canonical' = Run
      /\ \A r \in Run : r # run[p] => canonical'[r] = canonical[r]
  BY <1>1, <1>2 DEF StoresTyped
<1>6. ProcessOK(p)'
  BY <1>1, <1>3, <1>5, GotoLocals
  DEF ProcessOK, BeforeNormalized, AfterEvidence, locals, ScopeAt
<1>7. \A r \in Run : r = run[p] => RunOK(r)'
  BY <1>1, <1>2, <1>4, <1>5 DEF RunOK, ProcessOK
<1>8. StoresTyped'
  BY <1>1, <1>4, <1>5 DEF StoresTyped
<1>. QED
  BY <1>1, <1>3, <1>5, <1>6, <1>7, <1>8, StageKeeps

LEMMA PersistKeeps ==
    ASSUME PipelineInv, NEW p \in Process, Persist(p)
    PROVE  PipelineInv'
<1>1. /\ pc[p] = "persist" /\ ProcessOK(p) /\ LocalsTyped /\ StoresTyped
      /\ db' = db \cup fetched[p].records
      /\ Goto(p, "stage_db")
      /\ UNCHANGED <<page, ledger, canonical, evidence, checkpoint, watermark, dlq, locals>>
  BY TypeParts DEF Persist, PipelineInv
<1>2. run[p] \in Run /\ RunOK(run[p])
  BY <1>1, RunAtWork DEF PipelineInv
<1>3. "stage_db" \in Step
  BY DEF Step
<1>4. fetched[p].records \subseteq Record
  BY <1>1 DEF LocalsTyped, FetchResult
<1>5. ProcessOK(p)'
  BY <1>1, <1>3, GotoLocals
  DEF ProcessOK, BeforeNormalized, AfterEvidence, locals, ScopeAt
<1>6. \A r \in Run : r = run[p] => RunOK(r)'
  BY <1>1, <1>2 DEF RunOK
<1>7. StoresTyped'
  BY <1>1, <1>4 DEF StoresTyped
<1>. QED
  BY <1>1, <1>3, <1>5, <1>6, <1>7, StageKeeps

LEMMA WriteEvidenceKeeps ==
    ASSUME PipelineInv, NEW p \in Process, WriteEvidence(p)
    PROVE  PipelineInv'
<1>1. /\ pc[p] = "write_evidence" /\ ProcessOK(p) /\ LocalsTyped /\ StoresTyped
      /\ evidence' = [evidence EXCEPT ![run[p]] =
                          IF Satisfactory(p) THEN "satisfactory" ELSE "unsatisfactory"]
      /\ Goto(p, "stage_evidence")
      /\ UNCHANGED <<page, ledger, canonical, db, checkpoint, watermark, dlq, locals>>
  BY TypeParts DEF WriteEvidence, PipelineInv
<1>2. run[p] \in Run /\ RunOK(run[p])
  BY <1>1, RunAtWork DEF PipelineInv
<1>3. "stage_evidence" \in Step
  BY DEF Step
<1>4. /\ evidence'[run[p]] = IF Satisfactory(p) THEN "satisfactory" ELSE "unsatisfactory"
      /\ evidence' \in [Run -> {"none", "satisfactory", "unsatisfactory"}]
      /\ \A r \in Run : r # run[p] => evidence'[r] = evidence[r]
  BY <1>1, <1>2 DEF StoresTyped
<1>5. Satisfactory(p)' <=> Satisfactory(p)
  BY <1>1 DEF Satisfactory, Confirmed, locals
<1>6. ProcessOK(p)'
  BY <1>1, <1>3, <1>4, <1>5, GotoLocals
  DEF ProcessOK, BeforeNormalized, AfterEvidence, locals, ScopeAt
<1>7. \A r \in Run : r = run[p] => RunOK(r)'
  BY <1>1, <1>2, <1>4 DEF RunOK
<1>8. StoresTyped'
  BY <1>1, <1>4 DEF StoresTyped
<1>. QED
  BY <1>1, <1>3, <1>4, <1>6, <1>7, <1>8, StageKeeps

LEMMA StageEvidenceKeeps ==
    ASSUME PipelineInv, NEW p \in Process, StageEvidence(p)
    PROVE  PipelineInv'
<1>1. /\ pc[p] = "stage_evidence" /\ ProcessOK(p) /\ LocalsTyped /\ StoresTyped
      /\ Advance(p, "evidence_committed") /\ Goto(p, "save_checkpoint")
      /\ UNCHANGED <<page, canonical, db, evidence, checkpoint, watermark, dlq, locals>>
  BY TypeParts DEF StageEvidence, PipelineInv
<1>2. run[p] \in Run /\ RunOK(run[p])
  BY <1>1, RunAtWork DEF PipelineInv
<1>3. "evidence_committed" \in Stage /\ "save_checkpoint" \in Step
  BY DEF Stage, Step
<1>4. /\ ledger' \in [Run -> [last : Stage, db : BOOLEAN]]
      /\ ledger'[run[p]].last = "evidence_committed"
      /\ ledger'[run[p]].db => ledger[run[p]].db
      /\ \A r \in Run : r # run[p] => ledger'[r] = ledger[r]
  BY <1>1, <1>3, AdvanceType
<1>5. canonical[run[p]] = fetched[p].records /\ fetched[p].records # None
  BY <1>1, SourceAssumption DEF ProcessOK, BeforeNormalized, LocalsTyped, FetchResult
<1>6. evidence[run[p]] # "none"
  BY <1>1 DEF ProcessOK, AfterEvidence
<1>7. Satisfactory(p)' <=> Satisfactory(p)
  BY <1>1 DEF Satisfactory, Confirmed, locals
<1>8. ProcessOK(p)'
  BY <1>1, <1>3, <1>7, GotoLocals
  DEF ProcessOK, BeforeNormalized, AfterEvidence, locals, ScopeAt
<1>9. \A r \in Run : r = run[p] => RunOK(r)'
  BY <1>1, <1>2, <1>4, <1>5, <1>6 DEF RunOK
<1>10. StoresTyped'
  BY <1>1, <1>4 DEF StoresTyped
<1>. QED
  BY <1>1, <1>3, <1>4, <1>8, <1>9, <1>10, StageKeeps

LEMMA CommitWatermarkKeeps ==
    ASSUME PipelineInv, NEW p \in Process, CommitWatermark(p)
    PROVE  PipelineInv'
<1>1. /\ pc[p] = "commit_watermark" /\ ProcessOK(p) /\ LocalsTyped /\ StoresTyped
      /\ watermark' = [watermark EXCEPT ![ScopeAt(p)] = run[p]]
      /\ Goto(p, "complete")
      /\ UNCHANGED <<page, ledger, canonical, db, evidence, checkpoint, dlq, locals>>
  BY TypeParts DEF CommitWatermark, PipelineInv
<1>2. run[p] \in Run /\ run[p] # None /\ RunOK(run[p]) /\ ScopeAt(p) \in Scope
  BY <1>1, RunAtWork DEF PipelineInv
<1>3. "complete" \in Step
  BY DEF Step
<1>4. /\ watermark'[ScopeAt(p)] = run[p]
      /\ watermark' \in [Scope -> Run \cup {None}]
      /\ \A s \in Scope : watermark'[s] # watermark[s] => s = ScopeAt(p)
  BY <1>1, <1>2 DEF StoresTyped
<1>5. evidence[run[p]] = "satisfactory" /\ canonical[run[p]] \subseteq db
  BY <1>1 DEF ProcessOK, BeforeNormalized, AfterEvidence, Satisfactory
<1>6. ProcessOK(p)'
  BY <1>1, <1>2, <1>3, <1>4, GotoLocals
  DEF ProcessOK, BeforeNormalized, AfterEvidence, locals, ScopeAt
<1>7. \A r \in Run : r = run[p] => RunOK(r)'
  BY <1>1, <1>2, <1>4 DEF RunOK, ScopeAt
<1>8. StoresTyped'
  BY <1>1, <1>4 DEF StoresTyped
<1>. QED
  BY <1>1, <1>3, <1>4, <1>5, <1>6, <1>7, <1>8, StageKeeps

-----------------------------------------------------------------------------
(* The stages that promote pages.  The promotion goes on to the next step, *)
(* or it raises and the run ends.                                          *)

LEMMA PromotedPages ==
    ASSUME PipelineInv, NEW p \in Process, pc[p] # "idle",
           NEW to \in PageStatus, NEW d \in BOOLEAN, NEW step \in Step \ {"idle"},
           PromotePages(p, to, d, step)
    PROVE  /\ page' \in [PageScope -> PageRow]
           /\ dlq' \subseteq Scope
           /\ LocalsTyped'
           /\ \A q \in Process \ {p} : /\ pc'[q] = pc[q] /\ run'[q] = run[q]
                                       /\ fetched'[q] = fetched[q] /\ stored'[q] = stored[q]
           /\ \/ /\ pc'[p] = step /\ stored'[p] = d
                 /\ run'[p] = run[p] /\ fetched'[p] = fetched[p]
              \/ ProcessOK(p)' /\ run'[p] = None
<1>1. LocalsTyped /\ page \in [PageScope -> PageRow] /\ dlq \subseteq Scope
  BY TypeParts DEF PipelineInv, StoresTyped
<1>2. page' \in [PageScope -> PageRow]
  <2>1. \A row \in PageRow : [row EXCEPT !.status = to] \in PageRow
    BY DEF PageRow
  <2>. QED
    BY <1>1, <2>1 DEF PromotePages
<1>3. CASE Illegal(p, to) = {}
  <2>1. /\ pc' = [pc EXCEPT ![p] = step] /\ stored' = [stored EXCEPT ![p] = d]
        /\ dlq' = dlq /\ run' = run /\ fetched' = fetched
    BY <1>3 DEF PromotePages, Goto
  <2>2. LocalsTyped'
    BY <1>1, <2>1 DEF LocalsTyped
  <2>. QED
    BY <1>1, <1>2, <2>1, <2>2 DEF LocalsTyped
<1>4. CASE Illegal(p, to) # {}
  <2>1. Return(p) /\ dlq' = dlq \cup {ScopeAt(p)}
    BY <1>4 DEF PromotePages, Raised
  <2>. QED
    BY <1>1, <1>2, <2>1, ReturnLocals, DlqTyped
<1>. QED
  BY <1>3, <1>4

LEMMA StageNormalizedKeeps ==
    ASSUME PipelineInv, NEW p \in Process, StageNormalized(p)
    PROVE  PipelineInv'
<1>. DEFINE step == IF Confirmed(p) THEN "persist" ELSE "write_evidence"
<1>1. /\ pc[p] = "stage_normalized" /\ ProcessOK(p) /\ LocalsTyped /\ StoresTyped
      /\ Advance(p, "normalized") /\ PromotePages(p, "normalized", FALSE, step)
      /\ UNCHANGED <<canonical, db, evidence, checkpoint, watermark>>
  BY TypeParts DEF StageNormalized, PipelineInv
<1>2. step \in {"persist", "write_evidence"} /\ step \in Step \ {"idle"}
  BY DEF Step
<1>. HIDE DEF step
<1>3. run[p] \in Run /\ RunOK(run[p])
  BY <1>1, RunAtWork DEF PipelineInv
<1>4. "normalized" \in Stage /\ "normalized" \in PageStatus
  BY DEF Stage, PageStatus
<1>5. /\ ledger' \in [Run -> [last : Stage, db : BOOLEAN]]
      /\ ledger'[run[p]].last = "normalized" /\ ~ledger'[run[p]].db
      /\ \A r \in Run : r # run[p] => ledger'[r] = ledger[r]
  BY <1>1, <1>3, <1>4, AdvanceType DEF ProcessOK, RunOK
<1>6. canonical[run[p]] = fetched[p].records /\ fetched[p].records # None
  BY <1>1, SourceAssumption DEF ProcessOK, BeforeNormalized, LocalsTyped, FetchResult
<1>7. /\ page' \in [PageScope -> PageRow] /\ dlq' \subseteq Scope /\ LocalsTyped'
      /\ \A q \in Process \ {p} : /\ pc'[q] = pc[q] /\ run'[q] = run[q]
                                  /\ fetched'[q] = fetched[q] /\ stored'[q] = stored[q]
      /\ \/ /\ pc'[p] = step /\ ~stored'[p]
            /\ run'[p] = run[p] /\ fetched'[p] = fetched[p]
         \/ ProcessOK(p)' /\ run'[p] = None
  BY <1>1, <1>2, <1>4, PromotedPages
<1>8. ProcessOK(p)'
  BY <1>1, <1>2, <1>6, <1>7 DEF ProcessOK, BeforeNormalized, AfterEvidence, ScopeAt
<1>9. \A r \in Run : r = run[p] => RunOK(r)'
  BY <1>1, <1>5, <1>6 DEF RunOK
<1>10. TypeOK'
  <2>1. StoresTyped'
    BY <1>1, <1>5, <1>7 DEF StoresTyped
  <2>. QED
    BY <1>7, <2>1, TypeParts, PTL
<1>11. OthersFrame(p)
  BY <1>1, <1>5, <1>7 DEF OthersFrame
<1>. QED
  BY <1>1, <1>8, <1>9, <1>10, <1>11, StepKeeps

LEMMA StageDbKeeps ==
    ASSUME PipelineInv, NEW p \in Process, StageDb(p)
    PROVE  PipelineInv'
<1>1. /\ pc[p] = "stage_db" /\ ProcessOK(p) /\ LocalsTyped /\ StoresTyped
      /\ Advance(p, "db_committed") /\ PromotePages(p, "db_committed", TRUE, "write_evidence")
      /\ UNCHANGED <<canonical, db, evidence, checkpoint, watermark>>
  BY TypeParts DEF StageDb, PipelineInv
<1>2. run[p] \in Run /\ RunOK(run[p])
  BY <1>1, RunAtWork DEF PipelineInv
<1>3. "db_committed" \in Stage /\ "db_committed" \in PageStatus /\ "write_evidence" \in Step
  BY DEF Stage, PageStatus, Step
<1>4. /\ ledger' \in [Run -> [last : Stage, db : BOOLEAN]]
      /\ ledger'[run[p]].last = "db_committed"
      /\ \A r \in Run : r # run[p] => ledger'[r] = ledger[r]
  BY <1>1, <1>3, AdvanceType
<1>5. /\ canonical[run[p]] = fetched[p].records /\ fetched[p].records # None
      /\ fetched[p].records \subseteq db
  BY <1>1, SourceAssumption DEF ProcessOK, BeforeNormalized, LocalsTyped, FetchResult
<1>6. /\ page' \in [PageScope -> PageRow] /\ dlq' \subseteq Scope /\ LocalsTyped'
      /\ \A q \in Process \ {p} : /\ pc'[q] = pc[q] /\ run'[q] = run[q]
                                  /\ fetched'[q] = fetched[q] /\ stored'[q] = stored[q]
      /\ \/ /\ pc'[p] = "write_evidence"
            /\ run'[p] = run[p] /\ fetched'[p] = fetched[p]
         \/ ProcessOK(p)' /\ run'[p] = None
  BY <1>1, <1>3, PromotedPages
<1>7. ProcessOK(p)'
  BY <1>1, <1>5, <1>6 DEF ProcessOK, BeforeNormalized, AfterEvidence, ScopeAt
<1>8. \A r \in Run : r = run[p] => RunOK(r)'
  BY <1>1, <1>4, <1>5 DEF RunOK
<1>9. TypeOK'
  <2>1. StoresTyped'
    BY <1>1, <1>4, <1>6 DEF StoresTyped
  <2>. QED
    BY <1>6, <2>1, TypeParts, PTL
<1>10. OthersFrame(p)
  BY <1>1, <1>4, <1>6 DEF OthersFrame
<1>. QED
  BY <1>1, <1>7, <1>8, <1>9, <1>10, StepKeeps

LEMMA PromoteCheckpointKeeps ==
    ASSUME PipelineInv, NEW p \in Process, PromoteCheckpoint(p)
    PROVE  PipelineInv'
<1>1. /\ pc[p] = "promote" /\ ProcessOK(p) /\ LocalsTyped /\ StoresTyped
      /\ checkpoint' = [checkpoint EXCEPT ![ScopeAt(p)] = TerminalStatus(p)]
      /\ PromotePages(p, TerminalStatus(p), TRUE, "commit_watermark")
      /\ UNCHANGED <<ledger, canonical, db, evidence, watermark>>
  BY TypeParts DEF PromoteCheckpoint, PipelineInv
<1>2. ScopeAt(p) \in Scope
  BY <1>1, RunAtWork
<1>3. TerminalStatus(p) \in {"success", "empty_confirmed"}
  BY DEF TerminalStatus
<1>4. TerminalStatus(p) \in PageStatus /\ "commit_watermark" \in Step
  BY <1>3 DEF PageStatus, Step
<1>5. /\ page' \in [PageScope -> PageRow] /\ dlq' \subseteq Scope /\ LocalsTyped'
      /\ \A q \in Process \ {p} : /\ pc'[q] = pc[q] /\ run'[q] = run[q]
                                  /\ fetched'[q] = fetched[q] /\ stored'[q] = stored[q]
      /\ \/ /\ pc'[p] = "commit_watermark" /\ stored'[p] = TRUE
            /\ run'[p] = run[p] /\ fetched'[p] = fetched[p]
         \/ ProcessOK(p)' /\ run'[p] = None
  BY <1>1, <1>4, PromotedPages
<1>6. stored[p] /\ Confirmed(p)
  BY <1>1 DEF ProcessOK, Satisfactory
<1>7. ProcessOK(p)'
  BY <1>1, <1>5, <1>6
  DEF ProcessOK, BeforeNormalized, AfterEvidence, ScopeAt, Satisfactory, Confirmed
<1>8. \A r \in Run : RunOK(r)'
  BY <1>1 DEF PipelineInv, RunOK
<1>9. TypeOK'
  <2>1. StoresTyped'
    BY <1>1, <1>2, <1>3, <1>5 DEF StoresTyped
  <2>. QED
    BY <1>5, <2>1, TypeParts, PTL
<1>10. OthersFrame(p)
  BY <1>1, <1>5 DEF OthersFrame
<1>. QED
  BY <1>1, <1>7, <1>8, <1>9, <1>10, StepKeeps

LEMMA SaveCheckpointKeeps ==
    ASSUME PipelineInv, NEW p \in Process, SaveCheckpoint(p)
    PROVE  PipelineInv'
<1>1. /\ pc[p] = "save_checkpoint" /\ ProcessOK(p) /\ LocalsTyped /\ StoresTyped
      /\ checkpoint' = [checkpoint EXCEPT ![ScopeAt(p)] =
                            IF Satisfactory(p) THEN "evidence_committed" ELSE "failed"]
      /\ UNCHANGED <<page, ledger, canonical, db, evidence, watermark, dlq>>
  BY TypeParts DEF SaveCheckpoint, PipelineInv
<1>2. StoresTyped'
  BY <1>1, RunAtWork DEF StoresTyped
<1>3. CASE Satisfactory(p)
  <2>1. Goto(p, "promote") /\ UNCHANGED locals /\ "promote" \in Step
    BY <1>3 DEF SaveCheckpoint, Step
  <2>2. ProcessOK(p)'
    BY <1>1, <1>3, <2>1, GotoLocals
    DEF ProcessOK, BeforeNormalized, AfterEvidence, locals, ScopeAt, Satisfactory, Confirmed
  <2>3. \A r \in Run : RunOK(r)'
    BY <1>1 DEF PipelineInv, RunOK
  <2>. QED
    BY <1>1, <1>2, <2>1, <2>2, <2>3, StageKeeps
<1>4. CASE ~Satisfactory(p)
  BY <1>1, <1>2, <1>4, ReturnKeeps DEF SaveCheckpoint
<1>. QED
  BY <1>3, <1>4

LEMMA CompleteKeeps ==
    ASSUME PipelineInv, NEW p \in Process, Complete(p)
    PROVE  PipelineInv'
<1>1. /\ pc[p] = "complete" /\ ProcessOK(p) /\ LocalsTyped /\ StoresTyped
      /\ checkpoint' = [checkpoint EXCEPT ![ScopeAt(p)] = "watermark_committed"]
      /\ Advance(p, "watermark_committed")
      /\ dlq' = dlq \ {ScopeAt(p)}
      /\ Return(p)
      /\ UNCHANGED <<page, canonical, db, evidence, watermark>>
  BY TypeParts DEF Complete, PipelineInv
<1>2. run[p] \in Run /\ RunOK(run[p]) /\ ScopeAt(p) \in Scope
  BY <1>1, RunAtWork DEF PipelineInv
<1>3. "watermark_committed" \in Stage
  BY DEF Stage
<1>4. /\ ledger' \in [Run -> [last : Stage, db : BOOLEAN]]
      /\ ledger'[run[p]].last = "watermark_committed"
      /\ ledger'[run[p]].db => ledger[run[p]].db
      /\ \A r \in Run : r # run[p] => ledger'[r] = ledger[r]
  BY <1>1, <1>3, AdvanceType
<1>5. /\ canonical[run[p]] = fetched[p].records /\ fetched[p].records # None
      /\ watermark[ScopeOf[run[p]]] # None
  BY <1>1, SourceAssumption DEF ProcessOK, BeforeNormalized, LocalsTyped, FetchResult, ScopeAt
<1>6. \A r \in Run : r = run[p] => RunOK(r)'
  BY <1>1, <1>2, <1>4, <1>5 DEF RunOK
<1>7. LocalsTyped' /\ ProcessOK(p)' /\ OthersFrame(p)
  BY <1>1, <1>4, ReturnLocals DEF OthersFrame
<1>8. TypeOK'
  <2>1. StoresTyped'
    BY <1>1, <1>2, <1>4 DEF StoresTyped
  <2>. QED
    BY <1>7, <2>1, TypeParts, PTL
<1>. QED
  BY <1>1, <1>6, <1>7, <1>8, StepKeeps

-----------------------------------------------------------------------------
(* The invariant and the theorems.                                         *)

LEMMA ProcessStepKeeps ==
    ASSUME PipelineInv, NEW p \in Process,
           Works(p) \/ Breaks(p) \/ \E r \in Run : Begin(p, r)
    PROVE  PipelineInv'
BY BeginKeeps, FetchStepKeeps, StageRawKeeps, WriteCanonicalKeeps, StageNormalizedKeeps,
   PersistKeeps, StageDbKeeps, WriteEvidenceKeeps, StageEvidenceKeeps, SaveCheckpointKeeps,
   PromoteCheckpointKeeps, CommitWatermarkKeeps, CompleteKeeps, BreakDownKeeps
DEF Works, Breaks

(* A run id that is used again was nobody's run and no watermark's.        *)
LEMMA ForgetKeeps ==
    ASSUME PipelineInv, NEW r \in Run, Forget(r)
    PROVE  PipelineInv'
<1>1. /\ \A p \in Process : run[p] # r
      /\ \A s \in Scope : watermark[s] # r
      /\ UNCHANGED <<page, db, checkpoint, watermark, dlq, pc, run, fetched, stored>>
      /\ ledger' = [ledger EXCEPT ![r] = [last |-> "none", db |-> FALSE]]
      /\ canonical' = [canonical EXCEPT ![r] = None]
      /\ evidence' = [evidence EXCEPT ![r] = "none"]
  BY DEF Forget, locals
<1>2. StoresTyped /\ LocalsTyped
  BY TypeParts DEF PipelineInv
<1>3. \A x \in Run \ {r} : /\ ledger'[x] = ledger[x]
                           /\ canonical'[x] = canonical[x]
                           /\ evidence'[x] = evidence[x]
  BY <1>1, <1>2 DEF StoresTyped
<1>4. ledger'[r] = [last |-> "none", db |-> FALSE]
  BY <1>1, <1>2 DEF StoresTyped
<1>5. TypeOK'
  <2>1. [last |-> "none", db |-> FALSE] \in [last : Stage, db : BOOLEAN]
    BY DEF Stage
  <2>2. DOMAIN canonical' = Run /\ canonical'[r] = None
    BY <1>1, <1>2 DEF StoresTyped
  <2>3. StoresTyped'
    BY <1>1, <1>2, <1>3, <2>1, <2>2 DEF StoresTyped
  <2>4. LocalsTyped'
    BY <1>1, <1>2 DEF LocalsTyped
  <2>. QED
    BY <2>3, <2>4, TypeParts, PTL
<1>6. ASSUME NEW p \in Process PROVE ProcessOK(p)'
  <2>1. ProcessOK(p) /\ (pc[p] = "idle" \/ run[p] \in Run \ {r})
    BY <1>1, <1>2 DEF PipelineInv, LocalsTyped
  <2>2. CASE pc[p] = "idle"
    BY <1>1, <2>1, <2>2 DEF ProcessOK, BeforeNormalized, AfterEvidence
  <2>3. CASE run[p] \in Run \ {r}
    BY <1>1, <1>3, <2>1, <2>3
    DEF ProcessOK, BeforeNormalized, AfterEvidence, ScopeAt, Satisfactory, Confirmed
  <2>. QED
    BY <2>1, <2>2, <2>3
<1>7. ASSUME NEW x \in Run PROVE RunOK(x)'
  <2>1. CASE x = r
    BY <1>4, <2>1 DEF RunOK
  <2>2. CASE x # r
    BY <1>1, <1>3, <2>2 DEF PipelineInv, RunOK
  <2>. QED
    BY <2>1, <2>2
<1>8. EvidenceBeforeWatermark'
  BY <1>1, <1>2, <1>3 DEF PipelineInv, EvidenceBeforeWatermark, StoresTyped
<1>9. RunsApart'
  BY <1>1 DEF PipelineInv, RunsApart
<1>. QED
  BY <1>5, <1>6, <1>7, <1>8, <1>9 DEF PipelineInv

LEMMA InitPipeline == Init => PipelineInv
<1>. SUFFICES ASSUME Init PROVE PipelineInv
  OBVIOUS
<1>1. NoFetch \in FetchResult /\ "idle" \in Step /\ "none" \in Stage
  BY SourceAssumption DEF NoFetch, FetchResult, Step, Stage
<1>2. [status |-> "none", raw |-> None, total |-> None] \in PageRow
  BY DEF PageRow, PageStatus
<1>3. TypeOK
  BY <1>1, <1>2 DEF Init, TypeOK
<1>4. \A p \in Process : ProcessOK(p)
  BY DEF Init, ProcessOK, BeforeNormalized, AfterEvidence
<1>5. RunsApart /\ EvidenceBeforeWatermark /\ \A r \in Run : RunOK(r)
  BY DEF Init, RunsApart, EvidenceBeforeWatermark, RunOK
<1>. QED
  BY <1>3, <1>4, <1>5 DEF PipelineInv

LEMMA StutterKeeps == PipelineInv /\ UNCHANGED vars => PipelineInv'
BY DEF vars, PipelineInv, TypeOK, RunsApart, ProcessOK, RunOK, EvidenceBeforeWatermark,
       Satisfactory, Confirmed, ScopeAt

LEMMA NextPipeline == PipelineInv /\ [Next]_vars => PipelineInv'
BY ProcessStepKeeps, StutterKeeps DEF Next

LEMMA NextDeployed == PipelineInv /\ [DeployedNext]_vars => PipelineInv'
BY ProcessStepKeeps, ForgetKeeps, StutterKeeps DEF DeployedNext, BeginFresh

LEMMA PipelineInvariant == Spec => []PipelineInv
BY InitPipeline, NextPipeline, PTL DEF Spec

LEMMA DeployedInvariant == DeployedSpec => []PipelineInv
BY InitPipeline, NextDeployed, PTL DEF DeployedSpec

LEMMA PipelineInvImplies ==
    PipelineInv => TypeOK /\ EvidenceBeforeWatermark /\ LedgerFollowsTheStores
BY DEF PipelineInv, RunOK, LedgerFollowsTheStores

(* The stores and the local variables of run_source() keep their types.    *)
THEOREM TypeCorrect == Spec => []TypeOK
BY PipelineInvariant, PipelineInvImplies, PTL

(* Confirmed progress only: wherever runs are interrupted and resumed, a   *)
(* watermark stands on satisfactory evidence and on records that are in    *)
(* the database.                                                           *)
THEOREM EvidenceCorrect == Spec => []EvidenceBeforeWatermark
BY PipelineInvariant, PipelineInvImplies, PTL

(* Wherever a process is killed, the ledger is never ahead of the stores.  *)
THEOREM LedgerCorrect == Spec => []LedgerFollowsTheStores
BY PipelineInvariant, PipelineInvImplies, PTL

(* The same holds of the deployed callers, which use a new run id for      *)
(* every attempt.                                                          *)
THEOREM DeployedCorrect == DeployedSpec => [](EvidenceBeforeWatermark /\ LedgerFollowsTheStores)
BY DeployedInvariant, PipelineInvImplies, PTL

-----------------------------------------------------------------------------
(* What a watermark covers.  Page checkpoints name the window and not the  *)
(* target, so this is about callers that crawl a window for one target, as *)
(* the timer does, which gives none (resilient_cycle.py:274).              *)

OneTargetPerWindow ==
    \A r, x \in Run : ScopeOf[r].window = ScopeOf[x].window => ScopeOf[r] = ScopeOf[x]

StoredInFull(s) == \A n \in 1 .. PagesOf[s] : Answer(s, n) \subseteq db

\* A page checkpoint belongs to the scope that its window has.
PagesOK ==
    \A x \in PageScope :
        /\ page[x].status \in {"raw_persisted", "normalized", "db_committed", "empty_confirmed"} =>
               page[x].raw # None
        /\ page[x].raw # None => page[x].total # None
        /\ \A r \in Run : ScopeOf[r].window = x[1] =>
               /\ page[x].raw \in {None, ScopeOf[r].target}
               /\ page[x].total \in {None, PagesOf[ScopeOf[r]]}

\* The records of a fetch f of scope s are those of the pages it has read, and
\* a confirmed fetch has read all of them.
Covers(f, s) ==
    /\ f.expected \in {None, PagesOf[s]}
    /\ f.pages > 0 => f.expected # None
    /\ \A n \in 1 .. f.pages : Answer(s, n) \subseteq f.records
    /\ f.status \in {"success", "empty_confirmed"} => f.expected # None /\ f.expected <= f.pages

CoverInv ==
    /\ PagesOK
    /\ \A p \in Process : pc[p] # "idle" => Covers(fetched[p], ScopeAt(p))
    /\ WatermarkCoversItsScope
    /\ CompletedIsStored

\* Satisfactory evidence, which is what both promotions ask for, is enough.
LEMMA SatisfactoryIsStored ==
    ASSUME PipelineInv, CoverInv, NEW p \in Process, pc[p] # "idle", Satisfactory(p)
    PROVE  StoredInFull(ScopeAt(p))
<1>1. fetched[p].records \subseteq db
  BY DEF PipelineInv, ProcessOK, Satisfactory
<1>2. Covers(fetched[p], ScopeAt(p)) /\ fetched[p].status \in {"success", "empty_confirmed"}
  BY DEF CoverInv, Satisfactory, Confirmed
<1>3. fetched[p].pages \in Nat /\ PagesOf[ScopeAt(p)] \in Nat /\ PagesOf[ScopeAt(p)] <= fetched[p].pages
  BY <1>2, RunAtWork, SourceAssumption DEF Covers, PipelineInv, TypeOK, FetchResult
<1>4. \A n \in 1 .. PagesOf[ScopeAt(p)] : n \in 1 .. fetched[p].pages
  BY <1>3
<1>. QED
  BY <1>1, <1>2, <1>4 DEF Covers, StoredInFull

(* The invariant, from what a step of process p does.                      *)
LEMMA CoverStep ==
    ASSUME CoverInv, NEW p \in Process,
           \A q \in Process \ {p} : pc'[q] = pc[q] /\ run'[q] = run[q] /\ fetched'[q] = fetched[q],
           pc'[p] # "idle" => Covers(fetched'[p], ScopeOf[run'[p]]),
           PagesOK',
           db \subseteq db',
           \A s \in Scope : watermark'[s] # None => watermark[s] # None \/ StoredInFull(s),
           \A s \in Scope : checkpoint'[s] \in {"success", "empty_confirmed", "watermark_committed"} =>
               \/ checkpoint[s] \in {"success", "empty_confirmed", "watermark_committed"}
               \/ StoredInFull(s)
    PROVE  CoverInv'
<1>1. ASSUME NEW q \in Process, pc'[q] # "idle"
      PROVE  Covers(fetched'[q], ScopeOf[run'[q]])
  BY <1>1 DEF CoverInv, ScopeAt
<1>2. \A s \in Scope : StoredInFull(s) => StoredInFull(s)'
  BY DEF StoredInFull
<1>3. WatermarkCoversItsScope'
  BY <1>2 DEF CoverInv, WatermarkCoversItsScope, StoredInFull
<1>4. CompletedIsStored'
  BY <1>2 DEF CoverInv, CompletedIsStored, StoredInFull
<1>. QED
  BY <1>1, <1>3, <1>4 DEF CoverInv, ScopeAt

-----------------------------------------------------------------------------
(* Page checkpoints.                                                       *)

LEMMA OnePageKeeps ==
    ASSUME OneTargetPerWindow, PipelineInv, CoverInv,
           NEW p \in Process, pc[p] \in {"page", "request"}, NEW row,
           row.status \in {"raw_persisted", "normalized", "db_committed", "empty_confirmed"} =>
               row.raw # None,
           row.raw # None => row.total # None,
           row.raw \in {None, ScopeAt(p).target},
           row.total \in {None, PagesOf[ScopeAt(p)]},
           page' = [page EXCEPT ![PageAt(p)] = row]
    PROVE  PagesOK'
<1>1. page \in [PageScope -> PageRow] /\ PageAt(p) \in PageScope /\ run[p] \in Run
  BY PageAtType, RunAtWork DEF PipelineInv, TypeOK
<1>2. \A x \in PageScope : page'[x] = IF x = PageAt(p) THEN row ELSE page[x]
  BY <1>1
<1>3. PageAt(p)[1] = ScopeOf[run[p]].window /\ ScopeAt(p) = ScopeOf[run[p]]
  BY DEF PageAt, ScopeAt
<1>4. \A r \in Run : ScopeOf[r].window = PageAt(p)[1] => ScopeOf[r] = ScopeAt(p)
  BY <1>1, <1>3 DEF OneTargetPerWindow
<1>5. ASSUME NEW x \in PageScope
      PROVE  /\ page'[x].status \in {"raw_persisted", "normalized", "db_committed", "empty_confirmed"} =>
                    page'[x].raw # None
             /\ page'[x].raw # None => page'[x].total # None
             /\ \A r \in Run : ScopeOf[r].window = x[1] =>
                    /\ page'[x].raw \in {None, ScopeOf[r].target}
                    /\ page'[x].total \in {None, PagesOf[ScopeOf[r]]}
  <2>1. CASE x = PageAt(p)
    BY <1>2, <1>4, <2>1
  <2>2. CASE x # PageAt(p)
    BY <1>2, <2>2 DEF CoverInv, PagesOK
  <2>. QED
    BY <2>1, <2>2
<1>. QED
  BY <1>5 DEF PagesOK

LEMMA PromotionKeeps ==
    ASSUME PipelineInv, CoverInv, NEW p \in Process, NEW d, NEW step,
           NEW to \in {"normalized", "db_committed", "empty_confirmed", "success"},
           PromotePages(p, to, d, step)
    PROVE  PagesOK'
<1>1. page \in [PageScope -> PageRow]
  BY DEF PipelineInv, TypeOK
<1>2. ASSUME NEW x \in PageScope
      PROVE  \/ page'[x] = page[x]
             \/ /\ page[x].status \in Promotable(to)
                /\ page'[x] = [page[x] EXCEPT !.status = to]
  BY DEF PromotePages
<1>3. ASSUME NEW x \in PageScope
      PROVE  /\ page'[x].raw = page[x].raw /\ page'[x].total = page[x].total
             /\ \/ page'[x].status = page[x].status
                \/ page[x].status \in {"raw_persisted", "normalized", "db_committed"}
                \/ page'[x].status = "success"
  <2>1. page[x] \in PageRow
    BY <1>1
  <2>. QED
    BY <1>2, <2>1 DEF PageRow, Promotable
<1>. QED
  BY <1>3 DEF CoverInv, PagesOK

-----------------------------------------------------------------------------
(* The fetch reads every page or it is not confirmed.                      *)

LEMMA AddPageCovers ==
    ASSUME PipelineInv, CoverInv, NEW p \in Process, pc[p] \in {"page", "request"},
           NEW records, Answer(ScopeAt(p), fetched[p].pages + 1) \subseteq records,
           AddPage(p, records, PagesOf[ScopeAt(p)])
    PROVE  Covers(fetched'[p], ScopeAt(p))
<1>. DEFINE e == PagesOf[ScopeAt(p)]
            f == [fetched[p] EXCEPT !.pages = @ + 1, !.expected = e, !.records = @ \cup records]
<1>1. /\ e \in Nat /\ e # None
      /\ fetched \in [Process -> FetchResult] /\ fetched[p].pages \in Nat
      /\ Covers(fetched[p], ScopeAt(p))
  BY RunAtWork, PageAtType, SourceAssumption DEF PipelineInv, TypeOK, CoverInv
<1>2. /\ f.status = fetched[p].status
      /\ f.pages = fetched[p].pages + 1 /\ f.expected = e
      /\ f.records = fetched[p].records \cup records
  BY <1>1 DEF FetchResult
<1>3. Covers(f, ScopeAt(p))
  <2>1. \A n \in 1 .. f.pages : n \in 1 .. fetched[p].pages \/ n = fetched[p].pages + 1
    BY <1>1, <1>2
  <2>2. \A n \in 1 .. f.pages : Answer(ScopeAt(p), n) \subseteq f.records
    BY <1>1, <1>2, <2>1 DEF Covers
  <2>3. f.status \in {"success", "empty_confirmed"} => f.expected <= f.pages
    BY <1>1, <1>2 DEF Covers
  <2>. QED
    BY <1>1, <1>2, <2>2, <2>3 DEF Covers
<1>4. Covers(Concluded(f), ScopeAt(p))
  <2>1. /\ Concluded(f).pages = f.pages /\ Concluded(f).expected = f.expected
        /\ Concluded(f).records = f.records
        /\ Concluded(f).status \in {"success", "empty_confirmed"} => ~(f.pages < f.expected)
    BY <1>1, <1>2 DEF Concluded, FetchResult
  <2>. QED
    BY <1>1, <1>2, <1>3, <2>1 DEF Covers
<1>5. fetched'[p] = f \/ fetched'[p] = Concluded(f)
  BY <1>1 DEF AddPage
<1>. QED
  BY <1>3, <1>4, <1>5

\* What a reused page adds is what the source answered for this scope.
LEMMA ReusedPage ==
    ASSUME PipelineInv, CoverInv, NEW p \in Process, pc[p] = "page", Reusable(page[PageAt(p)])
    PROVE  /\ RawRecords(PageAt(p)) = Answer(ScopeAt(p), fetched[p].pages + 1)
           /\ Expected(p) = PagesOf[ScopeAt(p)]
<1>. DEFINE x == PageAt(p)
<1>1. /\ x \in PageScope /\ page[x] \in PageRow /\ run[p] \in Run /\ ScopeAt(p) \in Scope
      /\ x[1] = ScopeAt(p).window /\ x[2] = fetched[p].pages + 1
      /\ ScopeAt(p) = ScopeOf[run[p]]
  BY PageAtType, RunAtWork DEF PageAt, ScopeAt
<1>2. /\ page[x].raw \in {None, ScopeAt(p).target} /\ page[x].total \in {None, PagesOf[ScopeAt(p)]}
      /\ page[x].raw # None => page[x].total # None
  BY <1>1 DEF CoverInv, PagesOK
<1>3. page[x].raw # None
  BY <1>1 DEF Reusable, CoverInv, PagesOK
<1>4. [window |-> x[1], target |-> page[x].raw] = ScopeAt(p)
  BY <1>1, <1>2, <1>3 DEF Scope
<1>5. fetched[p].expected \in {None, PagesOf[ScopeAt(p)]}
  BY DEF CoverInv, Covers
<1>. QED
  BY <1>1, <1>2, <1>3, <1>4, <1>5 DEF RawRecords, Expected

LEMMA FetchStepCovers ==
    ASSUME OneTargetPerWindow, PipelineInv, CoverInv, NEW p \in Process,
           ReusePage(p) \/ MissPage(p) \/ Answered(p) \/ Denied(p) \/ RequestFails(p)
    PROVE  CoverInv'
<1>1. /\ pc[p] \in {"page", "request"} /\ LocalsTyped
      /\ Covers(fetched[p], ScopeAt(p))
      /\ fetched[p] \in FetchResult /\ fetched[p].pages \in Nat
      /\ PagesOf[ScopeAt(p)] \in Nat /\ PagesOf[ScopeAt(p)] # None
  BY TypeParts, PageAtType, RunAtWork, SourceAssumption
  DEF ReusePage, MissPage, Answered, Denied, RequestFails, PipelineInv, CoverInv
<1>2. /\ UNCHANGED <<db, watermark, checkpoint, run>>
      /\ \A q \in Process \ {p} : pc'[q] = pc[q] /\ fetched'[q] = fetched[q]
  BY <1>1 DEF ReusePage, MissPage, Answered, Denied, RequestFails, AddPage, GiveUp, SavePage,
              stores, Goto, LocalsTyped
<1>3. ASSUME PagesOK', Covers(fetched'[p], ScopeAt(p)) PROVE CoverInv'
  BY <1>2, <1>3, CoverStep DEF ScopeAt
<1>4. PagesOK
  BY DEF CoverInv
<1>5. page' = page => PagesOK'
  BY <1>4 DEF PagesOK
<1>6. Expected(p) \in {None, PagesOf[ScopeAt(p)]}
  <2>1. PageAt(p) \in PageScope /\ PageAt(p)[1] = ScopeAt(p).window /\ run[p] \in Run
    BY <1>1, PageAtType, RunAtWork DEF PageAt
  <2>. QED
    BY <1>1, <1>4, <2>1 DEF Expected, Covers, PagesOK, ScopeAt
<1>7. CASE ReusePage(p)
  BY <1>1, <1>3, <1>5, <1>7, ReusedPage, AddPageCovers DEF ReusePage, stores
<1>8. CASE MissPage(p)
  <2>1. fetched'[p] = [fetched[p] EXCEPT !.expected = Expected(p)] /\ page' = page
    BY <1>1, <1>8 DEF MissPage, LocalsTyped, stores
  <2>2. fetched[p].expected # None => Expected(p) = fetched[p].expected
    BY DEF Expected
  <2>3. Covers(fetched'[p], ScopeAt(p))
    BY <1>1, <1>6, <2>1, <2>2 DEF Covers, FetchResult
  <2>. QED
    BY <1>3, <1>5, <2>1, <2>3
<1>9. ASSUME GiveUp(p) PROVE Covers(fetched'[p], ScopeAt(p))
  <2>1. fetched'[p] = [fetched[p] EXCEPT !.status = "failed"]
    BY <1>1, <1>9 DEF GiveUp, LocalsTyped
  <2>. QED
    BY <1>1, <2>1 DEF Covers, FetchResult
<1>10. CASE Denied(p)
  BY <1>3, <1>5, <1>9, <1>10 DEF Denied, stores
<1>11. CASE Answered(p)
  <2>. DEFINE row == [status |-> "raw_persisted", raw |-> ScopeAt(p).target,
                      total |-> PagesOf[ScopeAt(p)]]
  <2>1. page' = [page EXCEPT ![PageAt(p)] = row]
        /\ AddPage(p, Answer(ScopeAt(p), fetched[p].pages + 1), PagesOf[ScopeAt(p)])
    BY <1>11 DEF Answered, SavePage
  <2>2. row.total # None /\ row.raw # None
    BY <1>1, RunAtWork, SourceAssumption
  <2>3. row.raw \in {None, ScopeAt(p).target} /\ row.total \in {None, PagesOf[ScopeAt(p)]}
    OBVIOUS
  <2>. HIDE DEF row
  <2>4. PagesOK'
    BY <1>1, <2>1, <2>2, <2>3, OnePageKeeps
  <2>. QED
    BY <1>1, <1>3, <2>1, <2>4, AddPageCovers
<1>12. CASE RequestFails(p)
  <2>. DEFINE row == [status |-> "failed", raw |-> None, total |-> fetched[p].expected]
  <2>1. page' = [page EXCEPT ![PageAt(p)] = row] /\ GiveUp(p)
    BY <1>12 DEF RequestFails, SavePage
  <2>2. /\ row.raw = None /\ row.status = "failed" /\ row.total \in {None, PagesOf[ScopeAt(p)]}
        /\ row.raw \in {None, ScopeAt(p).target}
    BY <1>1 DEF Covers
  <2>. HIDE DEF row
  <2>3. PagesOK'
    BY <1>1, <2>1, <2>2, OnePageKeeps
  <2>. QED
    BY <1>3, <1>9, <2>1, <2>3
<1>. QED
  BY <1>7, <1>8, <1>10, <1>11, <1>12

-----------------------------------------------------------------------------
(* The other steps.                                                        *)

LEMMA BeginFreshCovers ==
    ASSUME PipelineInv, CoverInv, NEW p \in Process, NEW r \in Run, BeginFresh(p, r)
    PROVE  CoverInv'
<1>1. /\ UNCHANGED stores
      /\ run' = [run EXCEPT ![p] = r]
      /\ fetched' = [fetched EXCEPT ![p] = NoFetch]
      /\ Goto(p, "page")
  BY DEF BeginFresh, Begin
<1>2. /\ fetched'[p] = NoFetch /\ run'[p] = r
      /\ \A q \in Process \ {p} : pc'[q] = pc[q] /\ run'[q] = run[q] /\ fetched'[q] = fetched[q]
  BY <1>1 DEF PipelineInv, TypeOK, Goto
<1>3. Covers(NoFetch, ScopeOf[r])
  BY DEF Covers, NoFetch
<1>4. PagesOK'
  BY <1>1 DEF CoverInv, PagesOK, stores
<1>. QED
  BY <1>1, <1>2, <1>3, <1>4, CoverStep DEF stores

(* A step that goes on with the same fetch, or ends the run.               *)
LEMMA StageCovers ==
    ASSUME PipelineInv, CoverInv, NEW p \in Process, pc[p] # "idle",
           \/ Return(p)
           \/ UNCHANGED <<run, fetched>> /\ \E step : Goto(p, step),
           PagesOK', db \subseteq db',
           \A s \in Scope : watermark'[s] # None => watermark[s] # None \/ StoredInFull(s),
           \A s \in Scope : checkpoint'[s] \in {"success", "empty_confirmed", "watermark_committed"} =>
               \/ checkpoint[s] \in {"success", "empty_confirmed", "watermark_committed"}
               \/ StoredInFull(s)
    PROVE  CoverInv'
<1>1. LocalsTyped /\ Covers(fetched[p], ScopeAt(p))
  BY TypeParts DEF PipelineInv, CoverInv
<1>2. CASE Return(p)
  BY <1>1, <1>2, ReturnLocals, CoverStep
<1>3. CASE UNCHANGED <<run, fetched>> /\ \E step : Goto(p, step)
  <2>1. \A q \in Process \ {p} : pc'[q] = pc[q] /\ run'[q] = run[q] /\ fetched'[q] = fetched[q]
    BY <1>1, <1>3 DEF Goto, LocalsTyped
  <2>. QED
    BY <1>1, <1>3, <2>1, CoverStep DEF ScopeAt
<1>. QED
  BY <1>2, <1>3

LEMMA PromotionGoesOn ==
    ASSUME NEW p \in Process, NEW to, NEW d, NEW step, PromotePages(p, to, d, step)
    PROVE  \/ Return(p)
           \/ UNCHANGED <<run, fetched>> /\ \E x : Goto(p, x)
BY DEF PromotePages, Raised

LEMMA UnpromotedStageCovers ==
    ASSUME PipelineInv, CoverInv, NEW p \in Process,
           StageRaw(p) \/ WriteCanonical(p) \/ StageNormalized(p) \/ Persist(p) \/ StageDb(p)
           \/ WriteEvidence(p) \/ StageEvidence(p) \/ Fails(p) \/ Dies(p)
    PROVE  CoverInv'
<1>1. /\ pc[p] # "idle"
      /\ UNCHANGED <<watermark, checkpoint>>
      /\ db \subseteq db'
  BY DEF StageRaw, WriteCanonical, StageNormalized, Persist, StageDb, WriteEvidence,
         StageEvidence, Fails, Dies, stores
<1>2. Return(p) \/ (UNCHANGED <<run, fetched>> /\ \E step : Goto(p, step))
  BY PromotionGoesOn
  DEF StageRaw, WriteCanonical, StageNormalized, Persist, StageDb, WriteEvidence, StageEvidence,
      Fails, Dies, Raised, locals
<1>3. PagesOK'
  <2>1. CASE page' = page
    BY <2>1 DEF CoverInv, PagesOK
  <2>2. CASE StageNormalized(p) \/ StageDb(p)
    BY <2>2, PromotionKeeps DEF StageNormalized, StageDb
  <2>. QED
    BY <2>1, <2>2 DEF StageRaw, WriteCanonical, Persist, WriteEvidence, StageEvidence, Fails, Dies,
                      stores
<1>. QED
  BY <1>1, <1>2, <1>3, StageCovers

(* The checkpoint that reads as completed, the watermark, and the end.     *)
LEMMA ConfirmedStageCovers ==
    ASSUME PipelineInv, CoverInv, NEW p \in Process,
           SaveCheckpoint(p) \/ PromoteCheckpoint(p) \/ CommitWatermark(p) \/ Complete(p)
    PROVE  CoverInv'
<1>1. /\ pc[p] # "idle" /\ ProcessOK(p) /\ db' = db
      /\ checkpoint \in [Scope -> {"none", "failed", "evidence_committed", "success",
                                   "empty_confirmed", "watermark_committed"}]
      /\ watermark \in [Scope -> Run \cup {None}]
      /\ ScopeAt(p) \in Scope
  BY RunAtWork DEF SaveCheckpoint, PromoteCheckpoint, CommitWatermark, Complete, PipelineInv, TypeOK
<1>2. \A s \in Scope : s # ScopeAt(p) => checkpoint'[s] = checkpoint[s] /\ watermark'[s] = watermark[s]
  BY <1>1 DEF SaveCheckpoint, PromoteCheckpoint, CommitWatermark, Complete
<1>3. pc[p] \in {"promote", "commit_watermark"} => StoredInFull(ScopeAt(p))
  BY <1>1, SatisfactoryIsStored DEF ProcessOK
<1>4. pc[p] = "complete" => StoredInFull(ScopeAt(p))
  BY <1>1 DEF ProcessOK, CoverInv, WatermarkCoversItsScope, StoredInFull
<1>5. Return(p) \/ (UNCHANGED <<run, fetched>> /\ \E step : Goto(p, step))
  BY PromotionGoesOn DEF SaveCheckpoint, PromoteCheckpoint, CommitWatermark, Complete, locals
<1>6. PagesOK'
  <2>1. CASE page' = page
    BY <2>1 DEF CoverInv, PagesOK
  <2>2. CASE PromoteCheckpoint(p)
    <3>1. TerminalStatus(p) \in {"empty_confirmed", "success"}
      BY DEF TerminalStatus
    <3>. QED
      BY <2>2, <3>1, PromotionKeeps DEF PromoteCheckpoint
  <2>. QED
    BY <2>1, <2>2 DEF SaveCheckpoint, CommitWatermark, Complete
<1>7. watermark'[ScopeAt(p)] # None => watermark[ScopeAt(p)] # None \/ StoredInFull(ScopeAt(p))
  BY <1>3 DEF SaveCheckpoint, PromoteCheckpoint, CommitWatermark, Complete
<1>8. checkpoint'[ScopeAt(p)] \in {"success", "empty_confirmed", "watermark_committed"} =>
          \/ checkpoint[ScopeAt(p)] \in {"success", "empty_confirmed", "watermark_committed"}
          \/ StoredInFull(ScopeAt(p))
  BY <1>1, <1>3, <1>4 DEF SaveCheckpoint, PromoteCheckpoint, CommitWatermark, Complete
<1>. QED
  BY <1>1, <1>2, <1>5, <1>6, <1>7, <1>8, StageCovers

LEMMA InitCovers == Init => CoverInv
BY DEF Init, CoverInv, PagesOK, WatermarkCoversItsScope, CompletedIsStored

LEMMA NextCovers ==
    OneTargetPerWindow /\ PipelineInv /\ CoverInv /\ [DeployedNext]_vars => CoverInv'
<1>. SUFFICES ASSUME OneTargetPerWindow, PipelineInv, CoverInv, [DeployedNext]_vars
              PROVE  CoverInv'
  OBVIOUS
<1>1. CASE \E p \in Process : Works(p) \/ Breaks(p) \/ \E r \in Run : BeginFresh(p, r)
  BY <1>1, FetchStepCovers, BeginFreshCovers, UnpromotedStageCovers, ConfirmedStageCovers
  DEF Works, Breaks
<1>2. CASE UNCHANGED <<page, db, checkpoint, watermark, pc, run, fetched>>
  BY <1>2 DEF CoverInv, PagesOK, WatermarkCoversItsScope, CompletedIsStored, ScopeAt
<1>. QED
  BY <1>1, <1>2 DEF DeployedNext, Forget, vars, locals

LEMMA CoverInvariant == OneTargetPerWindow => (DeployedSpec => []CoverInv)
<1>1. OneTargetPerWindow => OneTargetPerWindow'
  BY DEF OneTargetPerWindow
<1>. QED
  BY <1>1, DeployedInvariant, InitCovers, NextCovers, PTL DEF DeployedSpec

(* A scope that has its watermark is never crawled again: if a window is   *)
(* crawled for one target, every page the source has for it is in the      *)
(* database, whatever was cut short, failed or reused on the way.          *)
THEOREM CoverCorrect == OneTargetPerWindow => (DeployedSpec => []WatermarkCoversItsScope)
<1>1. CoverInv => WatermarkCoversItsScope
  BY DEF CoverInv
<1>. QED
  BY <1>1, CoverInvariant, PTL

(* The run-level checkpoint of a scope is promoted before its watermark is *)
(* committed, and window replay leaves out the windows it calls completed: *)
(* under the same hypothesis the pages of the scope are in the database    *)
(* whenever it does.                                                       *)
THEOREM CompletedCorrect == OneTargetPerWindow => (DeployedSpec => []CompletedIsStored)
<1>1. CoverInv => CompletedIsStored
  BY DEF CoverInv
<1>. QED
  BY <1>1, CoverInvariant, PTL

=============================================================================
