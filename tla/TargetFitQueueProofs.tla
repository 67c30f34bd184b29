------------------------- MODULE TargetFitQueueProofs -------------------------
(* Theorems about TargetFitQueue, for any finite number of companies, any  *)
(* workers, any batch and detection limits and any bounds.                 *)
EXTENDS TargetFitQueue, FiniteSetTheorems, SequenceTheorems, WellFoundedInduction, TLAPS

-----------------------------------------------------------------------------
(* Finite sets and sequences.                                              *)

\* A nonempty set of bounded numbers has its maximum.
LEMMA MaxOfBounded ==
    ASSUME NEW n \in Nat, NEW S \in SUBSET (0 .. n), S # {}
    PROVE  Max(S) \in S /\ \A y \in S : Max(S) >= y
<1>. DEFINE T == {n - x : x \in S}
<1>1. T \subseteq Nat /\ T # {}
  <2>1. \A x \in S : n - x \in Nat
    OBVIOUS
  <2>. QED
    BY <2>1
<1>2. PICK t \in T : \A y \in T : <<y, t>> \notin OpToRel(<, Nat)
  BY <1>1, NatLessThanWellFounded, WFMin
<1>3. \A y \in T : ~(y < t)
  BY <1>1, <1>2 DEF OpToRel
<1>4. PICK x \in S : t = n - x
  BY <1>2
<1>5. \A y \in S : x >= y
  BY <1>3, <1>4
<1>. QED
  BY <1>5 DEF Max

LEMMA FiniteImage ==
    ASSUME NEW S, IsFiniteSet(S), NEW f, DOMAIN f = S
    PROVE  IsFiniteSet({f[x] : x \in S})
<1>. DEFINE T == {f[x] : x \in S}
            g == [x \in S |-> f[x]]
<1>1. g \in Surjection(S, T)
  BY DEF Surjection
<1>. QED
  BY <1>1, FS_Surjection

LEMMA SeqOfFunction ==
    ASSUME NEW S, NEW n \in Nat, NEW f \in [1 .. n -> S]
    PROVE  f \in Seq(S) /\ Len(f) = n /\ DOMAIN f = 1 .. n
OBVIOUS

\* A sequence of the elements of a finite set.
LEMMA EnumerationType ==
    ASSUME NEW S, IsFiniteSet(S), NEW order \in SetToSeqs(S)
    PROVE  /\ order \in Seq(S)
           /\ DOMAIN order = 1 .. Len(order)
           /\ Len(order) \in Nat
           /\ S # {} => Len(order) > 0
           /\ S = {} => order = <<>>
<1>1. Cardinality(S) \in Nat /\ (Cardinality(S) = 0 <=> S = {})
  BY FS_CardinalityType, FS_EmptySet
<1>2. order \in [1 .. Cardinality(S) -> S]
  BY DEF SetToSeqs
<1>3. order \in Seq(S) /\ Len(order) = Cardinality(S) /\ DOMAIN order = 1 .. Len(order)
  BY <1>1, <1>2, SeqOfFunction
<1>. QED
  BY <1>1, <1>3

-----------------------------------------------------------------------------
(* The inductive invariant.                                                *)

Settled == {"done", "skipped"}

\* What was detected is still there: contents and ingestion times only grow.
DetectedOK ==
    /\ \A c \in Company : contract[c].ingested <= contract[c].content
    /\ \A c \in Company : published[c].content <= contract[c].content
    /\ \A r \in DOMAIN row : row[r].seen <= contract[row[r].company].content
    /\ \A f \in cdc.found : f.seen <= contract[f.company].ingested
    /\ IsFiniteSet(cdc.found)

\* The input a worker loaded is as new as the decision that stands and as the
\* change its row tells of.
WorkerOK(w) ==
    /\ worker[w].pc \in {"batch", "working"} => worker[w].todo # <<>>
    /\ \A i \in 1 .. Len(worker[w].todo) : worker[w].todo[i].id \in DOMAIN row
    /\ worker[w].pc = "working" =>
           /\ worker[w].loaded <= contract[ItemCompany(w)].content
           /\ published[ItemCompany(w)].content <= worker[w].loaded
           /\ row[Item(w).id].seen <= worker[w].loaded

\* The advisory lock of a company is in one hand.
LockOK ==
    \A v, w \in Worker :
        worker[v].pc = "working" /\ worker[w].pc = "working" /\ ItemCompany(v) = ItemCompany(w) => v = w

TargetFitInv ==
    /\ TypeOK
    /\ DetectedOK
    /\ \A w \in Worker : WorkerOK(w)
    /\ LockOK
    /\ DoneRowIsCovered
    /\ FailedDecisionIsRetried

-----------------------------------------------------------------------------
(* What every step leaves alone.                                           *)

RowsKept ==
    /\ DOMAIN row \subseteq DOMAIN row'
    /\ \A r \in DOMAIN row : row'[r].company = row[r].company /\ row'[r].seen = row[r].seen

\* No row is settled that was not.
NothingSettled ==
    \A r \in DOMAIN row' : row'[r].status \in Settled => r \in DOMAIN row /\ row[r].status \in Settled

ContractGrows ==
    \A c \in Company : /\ contract[c].content <= contract'[c].content
                       /\ contract[c].ingested <= contract'[c].ingested

LEMMA RowsType ==
    ASSUME TypeOK
    PROVE  /\ Len(row) \in Nat /\ DOMAIN row = 1 .. Len(row)
           /\ \A r \in DOMAIN row : row[r] \in Row
           /\ IsFiniteSet(DOMAIN row)
<1>1. row \in Seq(Row)
  BY DEF TypeOK
<1>2. Len(row) \in Nat /\ DOMAIN row = 1 .. Len(row)
  BY <1>1
<1>3. IsFiniteSet(1 .. Len(row))
  BY <1>2, FS_Interval
<1>. QED
  BY <1>1, <1>2, <1>3

(* The item in hand and its row.                                           *)
LEMMA ItemType ==
    ASSUME TargetFitInv, NEW w \in Worker, worker[w].pc \in {"batch", "working"}
    PROVE  /\ worker[w].todo \in Seq([id : Nat, attempt : 0 .. MaxAttempts])
           /\ Len(worker[w].todo) \in Nat \ {0}
           /\ Item(w) = worker[w].todo[1]
           /\ Item(w).id \in DOMAIN row
           /\ row[Item(w).id] \in Row
           /\ ItemCompany(w) \in Company
<1>1. worker[w].todo \in Seq([id : Nat, attempt : 0 .. MaxAttempts]) /\ worker[w].todo # <<>>
  BY DEF TargetFitInv, TypeOK, Process, WorkerOK
<1>2. Len(worker[w].todo) \in Nat \ {0} /\ Item(w) = worker[w].todo[1]
  BY <1>1 DEF Item
<1>3. Item(w).id \in DOMAIN row
  BY <1>2 DEF TargetFitInv, WorkerOK
<1>4. row[Item(w).id] \in Row
  BY <1>3, RowsType DEF TargetFitInv
<1>. QED
  BY <1>1, <1>2, <1>3, <1>4 DEF ItemCompany, Row

(* A worker that a step does not touch.                                    *)
LEMMA WorkerKept ==
    ASSUME TargetFitInv, TypeOK', NEW w \in Worker, worker'[w] = worker[w], RowsKept, ContractGrows,
           worker[w].pc = "working" =>
               published'[ItemCompany(w)].content <= worker[w].loaded
    PROVE  /\ WorkerOK(w)'
           /\ worker[w].pc = "working" => ItemCompany(w)' = ItemCompany(w)
<1>1. WorkerOK(w)
  BY DEF TargetFitInv
<1>2. \A i \in 1 .. Len(worker[w].todo) : worker[w].todo[i].id \in DOMAIN row'
  BY <1>1 DEF WorkerOK, RowsKept
<1>3. CASE worker[w].pc = "working"
  <2>1. /\ ItemCompany(w) \in Company /\ Item(w).id \in DOMAIN row
        /\ ItemCompany(w)' = ItemCompany(w) /\ Item(w)' = Item(w)
        /\ row'[Item(w).id].seen = row[Item(w).id].seen
    BY <1>3, ItemType DEF RowsKept, ItemCompany, Item
  <2>2. worker[w].loaded <= contract'[ItemCompany(w)].content
    <3>1. /\ worker[w].loaded \in Nat
          /\ contract[ItemCompany(w)].content \in Nat /\ contract'[ItemCompany(w)].content \in Nat
      BY <2>1 DEF TargetFitInv, TypeOK, Process
    <3>. QED
      BY <1>1, <1>3, <2>1, <3>1 DEF WorkerOK, ContractGrows
  <2>. QED
    BY <1>1, <1>2, <1>3, <2>1, <2>2 DEF WorkerOK
<1>4. CASE worker[w].pc # "working"
  BY <1>1, <1>2, <1>4 DEF WorkerOK
<1>. QED
  BY <1>3, <1>4

(* A step that publishes nothing and settles no row.                       *)
LEMMA QuietKeeps ==
    ASSUME TargetFitInv, TypeOK', RowsKept, NothingSettled, ContractGrows, published' = published,
           \A c \in Company : contract'[c].ingested <= contract'[c].content,
           \A r \in DOMAIN row' \ DOMAIN row : row'[r].seen <= contract'[row'[r].company].content,
           \A f \in cdc'.found : f.seen <= contract'[f.company].ingested,
           IsFiniteSet(cdc'.found),
           \A w \in Worker :
               \/ worker'[w] = worker[w]
               \/ WorkerOK(w)' /\ worker'[w].pc # "working"
    PROVE  TargetFitInv'
<1>1. \A c \in Company : /\ contract[c].content \in Nat /\ contract'[c].content \in Nat
                         /\ published[c].content \in Nat
  BY DEF TargetFitInv, TypeOK
<1>2. \A r \in DOMAIN row : row[r].company \in Company /\ row[r].seen \in Nat
  BY RowsType DEF TargetFitInv, Row
<1>3. DetectedOK'
  <2>1. \A c \in Company : published'[c].content <= contract'[c].content
    BY <1>1 DEF TargetFitInv, DetectedOK, ContractGrows
  <2>2. ASSUME NEW r \in DOMAIN row PROVE row'[r].seen <= contract'[row'[r].company].content
    BY <1>1, <1>2 DEF TargetFitInv, DetectedOK, ContractGrows, RowsKept
  <2>. QED
    BY <2>1, <2>2 DEF DetectedOK
<1>4. ASSUME NEW w \in Worker
      PROVE  /\ WorkerOK(w)'
             /\ worker'[w].pc = "working" =>
                    worker[w].pc = "working" /\ ItemCompany(w)' = ItemCompany(w)
  <2>1. CASE worker'[w] = worker[w]
    <3>1. worker[w].pc = "working" => published'[ItemCompany(w)].content <= worker[w].loaded
      BY DEF TargetFitInv, WorkerOK
    <3>. QED
      BY <2>1, <3>1, WorkerKept
  <2>2. CASE worker'[w] # worker[w]
    BY <2>2
  <2>. QED
    BY <2>1, <2>2
<1>5. LockOK'
  BY <1>4 DEF TargetFitInv, LockOK
<1>6. DoneRowIsCovered'
  BY <1>2 DEF TargetFitInv, DoneRowIsCovered, NothingSettled, Settled, RowsKept
<1>7. FailedDecisionIsRetried'
  <2>1. ASSUME NEW c \in Company, ~published'[c].ok
        PROVE  \E r \in DOMAIN row' : row'[r].company = c /\ (Open(r)' \/ row'[r].status = "dead")
    <3>1. PICK r \in DOMAIN row : row[r].company = c /\ (Open(r) \/ row[r].status = "dead")
      BY <2>1 DEF TargetFitInv, FailedDecisionIsRetried
    <3>2. row[r].status \notin Settled
      BY <3>1 DEF Open, Settled
    <3>3. r \in DOMAIN row' /\ row'[r].company = c /\ row'[r].status \notin Settled
      BY <3>1, <3>2 DEF RowsKept, NothingSettled
    <3>4. row'[r] \in Row
      BY <3>3 DEF TypeOK
    <3>. QED
      BY <3>3, <3>4 DEF Row, Open, Settled
  <2>. QED
    BY <2>1 DEF FailedDecisionIsRetried
<1>. QED
  BY <1>3, <1>4, <1>5, <1>6, <1>7 DEF TargetFitInv

-----------------------------------------------------------------------------
(* Contracts and detection.                                                *)

LEMMA BoundsType ==
    /\ MaxChanges \in Nat \ {0} /\ MaxAttempts \in Nat \ {0} /\ BatchSize \in Nat \ {0}
    /\ MaxRows \in Nat /\ Now \in Nat /\ IsFiniteSet(Company) /\ Company # {}
BY TargetFitAssumption DEF Now

LEMMA LastTypes ==
    ASSUME TypeOK
    PROVE  /\ LastChange \in 0 .. MaxChanges
           /\ LastIngested \in 0 .. MaxChanges
           /\ \A c \in Company : /\ contract[c].content <= LastChange
                                 /\ contract[c].ingested <= LastIngested
<1>. DEFINE S == {contract[c].content : c \in Company}
            T == {contract[c].ingested : c \in Company}
<1>1. S \subseteq 0 .. MaxChanges /\ T \subseteq 0 .. MaxChanges
  BY DEF TypeOK
<1>2. S # {} /\ T # {}
  BY BoundsType
<1>3. Max(S) \in S /\ (\A y \in S : Max(S) >= y) /\ Max(T) \in T /\ (\A y \in T : Max(T) >= y)
  BY <1>1, <1>2, MaxOfBounded, BoundsType
<1>4. LastChange = Max(S) /\ LastIngested = Max(T)
  BY DEF LastChange, LastIngested
<1>5. \A c \in Company : contract[c].content \in S /\ contract[c].ingested \in T
  OBVIOUS
<1>6. \A x \in 0 .. MaxChanges, y \in 0 .. MaxChanges : x >= y => y <= x
  BY BoundsType
<1>. QED
  BY <1>1, <1>3, <1>4, <1>5, <1>6

(* A step of the contracts table.                                          *)
LEMMA ContractKeeps ==
    ASSUME TargetFitInv, NEW c \in Company, InsertContract(c) \/ UpdateContract(c)
    PROVE  TargetFitInv'
<1>. DEFINE new == LastChange + 1
<1>1. /\ LastChange \in 0 .. MaxChanges /\ LastChange < MaxChanges
      /\ new \in 0 .. MaxChanges /\ new > LastChange
      /\ \A d \in Company : /\ contract[d].content <= LastChange
                            /\ contract[d].content \in 0 .. MaxChanges
                            /\ contract[d].ingested \in 0 .. MaxChanges
                            /\ contract[d].ingested <= contract[d].content
  <2>1. TypeOK /\ DetectedOK /\ LastChange < MaxChanges
    BY DEF InsertContract, UpdateContract, TargetFitInv
  <2>2. LastChange \in 0 .. MaxChanges /\ \A d \in Company : contract[d].content <= LastChange
    BY <2>1, LastTypes
  <2>3. new \in 0 .. MaxChanges /\ new > LastChange
    BY <2>1, <2>2, BoundsType
  <2>. QED
    BY <2>1, <2>2, <2>3 DEF TypeOK, DetectedOK
<1>2. UNCHANGED <<row, watermark, cdc, published, worker>>
  BY DEF InsertContract, UpdateContract
<1>3. /\ contract' \in [Company -> [content : 0 .. MaxChanges, ingested : 0 .. MaxChanges]]
      /\ contract'[c].content = new
      /\ contract'[c].ingested \in {new, contract[c].ingested}
      /\ \A d \in Company : d # c => contract'[d] = contract[d]
  <2>1. contract \in [Company -> [content : 0 .. MaxChanges, ingested : 0 .. MaxChanges]]
    BY DEF TargetFitInv, TypeOK
  <2>2. CASE InsertContract(c)
    BY <1>1, <2>1, <2>2 DEF InsertContract
  <2>3. CASE UpdateContract(c)
    BY <1>1, <2>1, <2>3 DEF UpdateContract
  <2>. QED
    BY <2>2, <2>3
<1>. HIDE DEF new
<1>4. TypeOK'
  BY <1>2, <1>3 DEF TargetFitInv, TypeOK
<1>5. ContractGrows /\ \A d \in Company : contract'[d].ingested <= contract'[d].content
  <2>1. ASSUME NEW d \in Company
        PROVE  /\ contract[d].content <= contract'[d].content
               /\ contract[d].ingested <= contract'[d].ingested
               /\ contract'[d].ingested <= contract'[d].content
    BY <1>1, <1>3, BoundsType
  <2>. QED
    BY <2>1 DEF ContractGrows
<1>6. RowsKept /\ NothingSettled
  BY <1>2 DEF RowsKept, NothingSettled
<1>7. \A f \in cdc'.found : f.seen <= contract'[f.company].ingested
  <2>1. \A f \in cdc.found : f.company \in Company /\ f.seen \in Nat /\ f.seen <= contract[f.company].ingested
    BY DEF TargetFitInv, TypeOK, DetectedOK
  <2>. QED
    BY <1>1, <1>2, <1>3, <1>5, <2>1 DEF ContractGrows
<1>. QED
  BY <1>2, <1>4, <1>5, <1>6, <1>7, QuietKeeps DEF TargetFitInv, DetectedOK

\* A step that leaves the contracts alone.
LEMMA SameContracts ==
    ASSUME TargetFitInv, contract' = contract
    PROVE  ContractGrows /\ \A c \in Company : contract'[c].ingested <= contract'[c].content
BY DEF TargetFitInv, TypeOK, ContractGrows, DetectedOK

LEMMA DetectKeeps ==
    ASSUME TargetFitInv, Detect
    PROVE  TargetFitInv'
<1>. DEFINE N == Newest(ChangedSince(watermark))
            f == [c \in N |-> [company |-> c, seen |-> contract[c].ingested]]
<1>1. /\ cdc'.pc = "detected" /\ cdc'.found = {f[c] : c \in N}
      /\ cdc' = [pc |-> "detected", found |-> {f[c] : c \in N}]
      /\ UNCHANGED <<contract, row, watermark, published, worker>>
  BY DEF Detect
<1>2. N \subseteq Company /\ \A c \in N : contract[c].ingested > watermark
  BY DEF Newest, ChangedSince
<1>3. IsFiniteSet(cdc'.found)
  <2>1. IsFiniteSet(N)
    BY <1>2, BoundsType, FS_Subset
  <2>2. DOMAIN f = N
    OBVIOUS
  <2>. HIDE DEF f
  <2>. QED
    BY <1>1, <2>1, <2>2, FiniteImage
<1>4. \A c \in N : f[c] \in [company : Company, seen : 1 .. MaxChanges] /\ f[c].seen <= contract[f[c].company].ingested
  <2>1. ASSUME NEW c \in N
        PROVE  contract[c].ingested \in 1 .. MaxChanges
    BY <1>2, BoundsType DEF TargetFitInv, TypeOK
  <2>. QED
    BY <1>2, <2>1
<1>. HIDE DEF f, N
<1>5. TypeOK'
  BY <1>1, <1>4 DEF TargetFitInv, TypeOK
<1>6. RowsKept /\ NothingSettled
  BY <1>1 DEF RowsKept, NothingSettled
<1>7. \A x \in cdc'.found : x.seen <= contract'[x.company].ingested
  BY <1>1, <1>4
<1>. QED
  BY <1>1, <1>3, <1>5, <1>6, <1>7, SameContracts, QuietKeeps

LEMMA DetectionFailsKeeps ==
    ASSUME TargetFitInv, DetectionFails
    PROVE  TargetFitInv'
<1>1. cdc' = NoDetection /\ UNCHANGED <<contract, row, watermark, published, worker>>
  BY DEF DetectionFails
<1>2. TypeOK'
  BY <1>1 DEF TargetFitInv, TypeOK, NoDetection
<1>3. RowsKept /\ NothingSettled
  BY <1>1 DEF RowsKept, NothingSettled
<1>4. cdc'.found = {} /\ IsFiniteSet({})
  BY <1>1, FS_EmptySet DEF NoDetection
<1>. QED
  BY <1>1, <1>2, <1>3, <1>4, SameContracts, QuietKeeps

-----------------------------------------------------------------------------
(* New rows.                                                               *)

LEMMA NewRowType ==
    ASSUME NEW c \in Company, NEW origin \in {"cdc", "reconcile", "manual"},
           NEW wm \in 1 .. Now, NEW seen \in 0 .. MaxChanges
    PROVE  /\ NewRow(c, origin, wm, seen) \in Row
           /\ NewRow(c, origin, wm, seen).company = c
           /\ NewRow(c, origin, wm, seen).seen = seen
           /\ NewRow(c, origin, wm, seen).status = "pending"
BY BoundsType DEF NewRow, Row

LEMMA AppendKeeps ==
    ASSUME TargetFitInv, NEW more \in Seq(Row), row' = row \o more,
           \A i \in 1 .. Len(more) : /\ more[i].status = "pending"
                                     /\ more[i].seen <= contract[more[i].company].content,
           UNCHANGED <<contract, published, worker>>,
           watermark' \in 0 .. MaxChanges,
           cdc' = cdc \/ cdc' = NoDetection
    PROVE  TargetFitInv'
<1>1. /\ row \in Seq(Row) /\ DOMAIN row = 1 .. Len(row)
      /\ Len(row) \in Nat /\ Len(more) \in Nat
  BY RowsType DEF TargetFitInv, TypeOK
<1>2. /\ row' \in Seq(Row)
      /\ DOMAIN row' = 1 .. (Len(row) + Len(more))
      /\ \A r \in DOMAIN row : r \in DOMAIN row' /\ row'[r] = row[r]
      /\ \A r \in DOMAIN row' \ DOMAIN row : \E i \in 1 .. Len(more) : row'[r] = more[i]
  <2>1. /\ row' \in Seq(Row) /\ Len(row') = Len(row) + Len(more)
        /\ \A i \in 1 .. Len(row) + Len(more) :
               row'[i] = IF i <= Len(row) THEN row[i] ELSE more[i - Len(row)]
    BY <1>1, ConcatProperties
  <2>2. DOMAIN row' = 1 .. (Len(row) + Len(more))
    BY <2>1
  <2>3. ASSUME NEW r \in DOMAIN row' \ DOMAIN row
        PROVE  r - Len(row) \in 1 .. Len(more) /\ row'[r] = more[r - Len(row)]
    BY <1>1, <2>1, <2>2
  <2>4. \A r \in DOMAIN row : r \in DOMAIN row' /\ row'[r] = row[r]
    BY <1>1, <2>1, <2>2
  <2>. QED
    BY <2>1, <2>2, <2>3, <2>4
<1>3. TypeOK'
  BY <1>2 DEF TargetFitInv, TypeOK, NoDetection
<1>4. RowsKept
  BY <1>2 DEF RowsKept
<1>5. NothingSettled
  BY <1>2 DEF NothingSettled, Settled
<1>6. \A r \in DOMAIN row' \ DOMAIN row : row'[r].seen <= contract'[row'[r].company].content
  BY <1>2
<1>7. IsFiniteSet(cdc'.found) /\ \A f \in cdc'.found : f.seen <= contract'[f.company].ingested
  <2>1. CASE cdc' = cdc
    BY <2>1 DEF TargetFitInv, DetectedOK
  <2>2. CASE cdc' = NoDetection
    <3>1. cdc'.found = {}
      BY <2>2 DEF NoDetection
    <3>. QED
      BY <3>1, FS_EmptySet
  <2>. QED
    BY <2>1, <2>2
<1>. QED
  BY <1>3, <1>4, <1>5, <1>6, <1>7, SameContracts, QuietKeeps

LEMMA EnqueueKeeps ==
    ASSUME TargetFitInv, EnqueueDetected
    PROVE  TargetFitInv'
<1>1. /\ cdc.found \subseteq [company : Company, seen : 1 .. MaxChanges]
      /\ IsFiniteSet(cdc.found)
      /\ \A f \in cdc.found : /\ f.seen <= contract[f.company].ingested
                              /\ contract[f.company].ingested <= contract[f.company].content
                              /\ contract[f.company].ingested <= LastIngested
      /\ LastIngested \in 0 .. MaxChanges
  BY LastTypes DEF TargetFitInv, TypeOK, DetectedOK
<1>2. Fresh(cdc.found) \subseteq cdc.found
  BY DEF Fresh
<1>3. PICK order \in SetToSeqs(Fresh(cdc.found)) :
          row' = row \o [i \in DOMAIN order |-> NewRow(order[i].company, "cdc", LastIngested, order[i].seen)]
  BY DEF EnqueueDetected
<1>4. order \in Seq(Fresh(cdc.found)) /\ DOMAIN order = 1 .. Len(order) /\ Len(order) \in Nat
  BY <1>1, <1>2, FS_Subset, EnumerationType
<1>. DEFINE more == [i \in DOMAIN order |->
                        NewRow(order[i].company, "cdc", LastIngested, order[i].seen)]
<1>5. ASSUME NEW i \in 1 .. Len(order)
      PROVE  /\ more[i] \in Row /\ more[i].status = "pending"
             /\ more[i].seen <= contract[more[i].company].content
  <2>. DEFINE x == order[i]
  <2>1. x \in cdc.found
    BY <1>2, <1>4
  <2>2. x.company \in Company /\ x.seen \in 1 .. MaxChanges
    BY <1>1, <2>1
  <2>3. /\ contract[x.company].ingested \in Nat /\ contract[x.company].content \in Nat
        /\ x.seen <= contract[x.company].ingested
        /\ contract[x.company].ingested <= contract[x.company].content
        /\ contract[x.company].ingested <= LastIngested
    BY <1>1, <2>1, <2>2 DEF TargetFitInv, TypeOK
  <2>4. LastIngested \in 1 .. Now /\ x.seen \in 0 .. MaxChanges /\ x.seen <= contract[x.company].content
    BY <1>1, <2>2, <2>3, BoundsType DEF Now
  <2>5. more[i] = NewRow(x.company, "cdc", LastIngested, x.seen)
    BY <1>4
  <2>. HIDE DEF x, more
  <2>. QED
    BY <2>2, <2>4, <2>5, NewRowType
<1>6. DOMAIN more = 1 .. Len(order) /\ row' = row \o more
  BY <1>3, <1>4
<1>. HIDE DEF more
<1>7. more \in Seq(Row) /\ Len(more) = Len(order)
  <2>1. more = [i \in 1 .. Len(order) |-> more[i]]
    BY <1>6, <1>3 DEF more
  <2>2. more \in [1 .. Len(order) -> Row]
    BY <1>5, <2>1
  <2>. QED
    BY <1>4, <2>2, SeqOfFunction
<1>8. watermark' \in 0 .. MaxChanges /\ cdc' = NoDetection /\ UNCHANGED <<contract, published, worker>>
  BY <1>1 DEF EnqueueDetected
<1>. QED
  BY <1>5, <1>6, <1>7, <1>8, AppendKeeps

LEMMA ReconcileKeeps ==
    ASSUME TargetFitInv, Reconcile
    PROVE  TargetFitInv'
<1>. DEFINE wm == IF watermark = 0 THEN Now ELSE watermark
<1>1. wm \in 1 .. Now
  BY BoundsType DEF TargetFitInv, TypeOK, Now
<1>2. Drifted \subseteq Company /\ IsFiniteSet(Drifted)
  BY BoundsType, FS_Subset DEF Drifted
<1>3. PICK order \in SetToSeqs(Drifted) :
          row' = row \o [i \in DOMAIN order |-> NewRow(order[i], "reconcile", wm, 0)]
  BY DEF Reconcile
<1>. HIDE DEF wm
<1>4. order \in Seq(Drifted) /\ DOMAIN order = 1 .. Len(order) /\ Len(order) \in Nat
  BY <1>2, EnumerationType
<1>. DEFINE more == [i \in DOMAIN order |-> NewRow(order[i], "reconcile", wm, 0)]
<1>5. ASSUME NEW i \in 1 .. Len(order)
      PROVE  /\ more[i] \in Row /\ more[i].status = "pending"
             /\ more[i].seen <= contract[more[i].company].content
  <2>1. order[i] \in Company /\ 0 \in 0 .. MaxChanges
    BY <1>2, <1>4, BoundsType
  <2>2. more[i] = NewRow(order[i], "reconcile", wm, 0)
    BY <1>4
  <2>3. contract[order[i]].content \in 0 .. MaxChanges
    BY <2>1 DEF TargetFitInv, TypeOK
  <2>. HIDE DEF more
  <2>4. more[i] \in Row /\ more[i].company = order[i] /\ more[i].seen = 0 /\ more[i].status = "pending"
    BY <1>1, <2>1, <2>2, NewRowType
  <2>. QED
    BY <2>3, <2>4, BoundsType
<1>6. more \in [1 .. Len(order) -> Row] /\ row' = row \o more
  <2>1. more = [i \in 1 .. Len(order) |-> more[i]]
    BY <1>4
  <2>. HIDE DEF more
  <2>2. more \in [1 .. Len(order) -> Row]
    BY <1>5, <2>1
  <2>. QED
    BY <1>3, <2>2 DEF more
<1>. HIDE DEF more
<1>7. more \in Seq(Row) /\ Len(more) = Len(order)
  BY <1>4, <1>6, SeqOfFunction
<1>8. watermark' \in 0 .. MaxChanges /\ cdc' = cdc /\ UNCHANGED <<contract, published, worker>>
  BY DEF Reconcile, TargetFitInv, TypeOK
<1>. QED
  BY <1>5, <1>6, <1>7, <1>8, AppendKeeps

LEMMA RequeueKeeps ==
    ASSUME TargetFitInv, NEW c \in Company, Requeue(c)
    PROVE  TargetFitInv'
<1>. DEFINE new == NewRow(c, "manual", watermark, 0)
<1>1. watermark \in 1 .. Now /\ 0 \in 0 .. MaxChanges /\ contract[c].content \in 0 .. MaxChanges
  BY BoundsType DEF Requeue, TargetFitInv, TypeOK, Now
<1>2. new \in Row /\ new.company = c /\ new.seen = 0 /\ new.status = "pending"
  BY <1>1, NewRowType
<1>3. row' = Append(row, new) /\ UNCHANGED <<contract, watermark, cdc, published, worker>>
  BY DEF Requeue
<1>. HIDE DEF new
<1>4. row' = row \o <<new>> /\ <<new>> \in Seq(Row)
  BY <1>2, <1>3 DEF TargetFitInv, TypeOK
<1>5. \A i \in 1 .. Len(<<new>>) : /\ <<new>>[i].status = "pending"
                                   /\ <<new>>[i].seen <= contract[<<new>>[i].company].content
  BY <1>1, <1>2, BoundsType
<1>. QED
  BY <1>3, <1>4, <1>5, AppendKeeps DEF TargetFitInv, TypeOK

-----------------------------------------------------------------------------
(* The rows that are there change.                                         *)

\* The state of a worker that has no transaction open.
Resting(local) ==
    /\ local.pc # "working"
    /\ local.pc = "batch" => local.todo # <<>>
    /\ \A i \in 1 .. Len(local.todo) : local.todo[i].id \in DOMAIN row

LEMMA RewriteKeeps ==
    ASSUME TargetFitInv, NEW new, row' = new, new = [r \in DOMAIN row |-> new[r]],
           \A r \in DOMAIN row : /\ new[r] \in Row
                                 /\ new[r].company = row[r].company /\ new[r].seen = row[r].seen
                                 /\ new[r].status \in Settled => row[r].status \in Settled,
           UNCHANGED <<contract, watermark, cdc, published>>,
           worker' \in [Worker -> Process],
           \A w \in Worker : worker'[w] = worker[w] \/ Resting(worker'[w])
    PROVE  TargetFitInv'
<1>1. Len(row) \in Nat /\ DOMAIN row = 1 .. Len(row)
  BY RowsType DEF TargetFitInv
<1>2. DOMAIN new = DOMAIN row
  OBVIOUS
<1>3. new \in Seq(Row)
  <2>1. new \in [1 .. Len(row) -> Row]
    BY <1>1
  <2>. QED
    BY <1>1, <2>1, SeqOfFunction
<1>4. TypeOK'
  BY <1>3 DEF TargetFitInv, TypeOK
<1>5. RowsKept /\ NothingSettled
  BY <1>2 DEF RowsKept, NothingSettled
<1>6. \A w \in Worker : worker'[w] = worker[w] \/ (WorkerOK(w)' /\ worker'[w].pc # "working")
  BY <1>2 DEF Resting, WorkerOK
<1>7. IsFiniteSet(cdc'.found) /\ \A f \in cdc'.found : f.seen <= contract'[f.company].ingested
  BY DEF TargetFitInv, DetectedOK
<1>. QED
  BY <1>2, <1>4, <1>5, <1>6, <1>7, SameContracts, QuietKeeps

LEMMA IdleRests == Idle \in Process /\ Resting(Idle)
BY BoundsType DEF Idle, Process, Resting

LEMMA BeginClaimKeeps ==
    ASSUME TargetFitInv, NEW w \in Worker, BeginClaim(w)
    PROVE  TargetFitInv'
<1>1. \A r \in DOMAIN row : row[r] \in Row
  BY RowsType DEF TargetFitInv
<1>2. ASSUME NEW r \in DOMAIN row
      PROVE  /\ Reclaimed[r] \in Row
             /\ Reclaimed[r].company = row[r].company /\ Reclaimed[r].seen = row[r].seen
             /\ Reclaimed[r].status \in Settled => row[r].status \in Settled
  <2>1. CASE r \in Expired
    BY <1>1, <2>1 DEF Reclaimed, Row, Settled
  <2>2. CASE r \notin Expired
    BY <1>1, <2>2 DEF Reclaimed
  <2>. QED
    BY <2>1, <2>2
<1>3. DOMAIN Reclaimed = DOMAIN row /\ Reclaimed = [r \in DOMAIN row |-> Reclaimed[r]]
  BY DEF Reclaimed
<1>. DEFINE local == [Idle EXCEPT !.pc = "claiming", !.busy = Busy(Reclaimed)]
<1>4. Busy(Reclaimed) \subseteq Company
  BY <1>2, <1>3 DEF Busy, Row
<1>5. local \in Process /\ Resting(local)
  BY <1>4, IdleRests DEF Idle, Process, Resting
<1>6. worker \in [Worker -> Process] /\ worker' = [worker EXCEPT ![w] = local]
      /\ row' = Reclaimed /\ UNCHANGED <<contract, watermark, cdc, published>>
  BY DEF BeginClaim, TargetFitInv, TypeOK
<1>. HIDE DEF local
<1>7. worker' \in [Worker -> Process] /\ \A v \in Worker : worker'[v] = worker[v] \/ Resting(worker'[v])
  BY <1>5, <1>6
<1>. QED
  BY <1>2, <1>3, <1>6, <1>7, RewriteKeeps

\* The state of a worker that has items to process, or none.
LEMMA TodoRests ==
    ASSUME NEW pc \in {"idle", "batch"}, NEW order \in Seq([id : Nat, attempt : 0 .. MaxAttempts]),
           pc = "batch" => order # <<>>,
           \A i \in 1 .. Len(order) : order[i].id \in DOMAIN row
    PROVE  LET local == [Idle EXCEPT !.pc = pc, !.todo = order]
           IN  local \in Process /\ Resting(local)
<1>. DEFINE mid == [Idle EXCEPT !.pc = pc]
            local == [mid EXCEPT !.todo = order]
<1>1. mid \in Process /\ mid.pc = pc
  BY IdleRests DEF Process
<1>. HIDE DEF mid
<1>2. local \in Process /\ local.pc = pc /\ local.todo = order
  BY <1>1 DEF Process
<1>. HIDE DEF local
<1>3. Resting(local)
  BY <1>2 DEF Resting
<1>. QED
  BY <1>2, <1>3 DEF local, mid

\* A claim takes rows that wait to be claimed.
LEMMA SelectedType ==
    ASSUME NEW w, NEW missed
    PROVE  Selected(w, missed) \subseteq Claimable
BY DEF Selected, FirstOf, Candidates

LEMMA ClaimKeeps ==
    ASSUME TargetFitInv, NEW w \in Worker, NEW missed, Claim(w, missed)
    PROVE  TargetFitInv'
<1>. DEFINE batch == Selected(w, missed)
            item == [r \in batch |-> [id |-> r, attempt |-> NextAttempt(r)]]
            items == {item[r] : r \in batch}
<1>1. batch \subseteq DOMAIN row /\ IsFiniteSet(batch)
      /\ \A r \in DOMAIN row : row[r] \in Row /\ r \in Nat
  <2>1. batch \subseteq DOMAIN row
    BY SelectedType DEF Claimable
  <2>. QED
    BY <2>1, RowsType, FS_Subset DEF TargetFitInv
<1>2. {[id |-> r, attempt |-> NextAttempt(r)] : r \in batch} = items
  OBVIOUS
<1>3. PICK order \in SetToSeqs(items) :
          worker' = [worker EXCEPT ![w] =
                        [Idle EXCEPT !.pc = IF batch = {} THEN "idle" ELSE "batch", !.todo = order]]
  BY <1>2 DEF Claim
<1>4. /\ row' = [r \in DOMAIN row |->
                    IF r \in batch
                    THEN [row[r] EXCEPT !.status = "processing", !.attempts = NextAttempt(r),
                                        !.live = TRUE, !.batch = batch]
                    ELSE row[r]]
      /\ UNCHANGED <<contract, watermark, cdc, published>>
  BY DEF Claim
<1>5. DOMAIN item = batch
  OBVIOUS
<1>6. \A r \in batch : NextAttempt(r) \in 0 .. MaxAttempts
  BY <1>1, BoundsType DEF NextAttempt, Row
<1>7. \A r \in batch : item[r] \in [id : Nat, attempt : 0 .. MaxAttempts] /\ item[r].id = r
  BY <1>1, <1>6
<1>. HIDE DEF item
<1>8. /\ IsFiniteSet(items) /\ (batch # {} => items # {})
      /\ \A x \in items : x \in [id : Nat, attempt : 0 .. MaxAttempts] /\ x.id \in DOMAIN row
  BY <1>1, <1>5, <1>7, FiniteImage
<1>. HIDE DEF batch, items
<1>9. /\ order \in Seq(items) /\ Len(order) \in Nat
      /\ items # {} => Len(order) > 0
  BY <1>3, <1>8, EnumerationType
<1>10. \A i \in 1 .. Len(order) : order[i].id \in DOMAIN row
  BY <1>8, <1>9
<1>11. order \in Seq([id : Nat, attempt : 0 .. MaxAttempts])
  BY <1>8, <1>9, SeqMonotonic
<1>. DEFINE pc0 == IF batch = {} THEN "idle" ELSE "batch"
            local == [Idle EXCEPT !.pc = pc0, !.todo = order]
<1>12. local \in Process /\ Resting(local)
  <2>1. pc0 \in {"idle", "batch"} /\ (pc0 = "batch" => order # <<>>)
    BY <1>8, <1>9
  <2>. HIDE DEF pc0
  <2>. QED
    BY <1>10, <1>11, <2>1, TodoRests
<1>13. worker' \in [Worker -> Process] /\ \A v \in Worker : worker'[v] = worker[v] \/ Resting(worker'[v])
  <2>1. worker \in [Worker -> Process] /\ worker' = [worker EXCEPT ![w] = local]
    BY <1>3 DEF TargetFitInv, TypeOK
  <2>. HIDE DEF local
  <2>. QED
    BY <1>12, <2>1
<1>14. ASSUME NEW r \in DOMAIN row
       PROVE  /\ row'[r] \in Row
              /\ row'[r].company = row[r].company /\ row'[r].seen = row[r].seen
              /\ row'[r].status \in Settled => row[r].status \in Settled
  <2>1. CASE r \in batch
    <3>1. row'[r] = [row[r] EXCEPT !.status = "processing", !.attempts = NextAttempt(r),
                                   !.live = TRUE, !.batch = batch]
      BY <1>4, <2>1
    <3>2. batch \in SUBSET Nat
      BY <1>1
    <3>. QED
      BY <1>1, <1>6, <2>1, <3>1, <3>2 DEF Row, Settled
  <2>2. CASE r \notin batch
    BY <1>1, <1>4, <2>2
  <2>. QED
    BY <2>1, <2>2
<1>15. row' = [r \in DOMAIN row |-> row'[r]]
  BY <1>4
<1>. QED
  BY <1>4, <1>13, <1>14, <1>15, RewriteKeeps

-----------------------------------------------------------------------------
(* The items of a batch.                                                   *)

LEMMA NextItemRests ==
    ASSUME TargetFitInv, NEW w \in Worker, worker[w].pc \in {"batch", "working"}
    PROVE  NextItem(w) \in Process /\ Resting(NextItem(w))
<1>. DEFINE todo == worker[w].todo
            rest == Tail(todo)
<1>1. /\ todo \in Seq([id : Nat, attempt : 0 .. MaxAttempts]) /\ Len(todo) \in Nat \ {0}
      /\ \A i \in 1 .. Len(todo) : todo[i].id \in DOMAIN row
  BY ItemType DEF TargetFitInv, WorkerOK
<1>2. CASE Len(todo) = 1
  BY <1>2, IdleRests DEF NextItem
<1>3. CASE Len(todo) # 1
  <2>1. /\ rest \in Seq([id : Nat, attempt : 0 .. MaxAttempts])
        /\ Len(rest) = Len(todo) - 1
        /\ \A i \in 1 .. Len(rest) : rest[i] = todo[i + 1]
    BY <1>1
  <2>2. NextItem(w) = [Idle EXCEPT !.pc = "batch", !.todo = rest]
    BY <1>3 DEF NextItem
  <2>. HIDE DEF rest, todo
  <2>3. Len(rest) > 0
    BY <1>1, <1>3, <2>1
  <2>4. rest # <<>>
    BY <2>3
  <2>5. \A i \in 1 .. Len(rest) : i + 1 \in 1 .. Len(todo)
    BY <1>1, <2>1
  <2>6. \A i \in 1 .. Len(rest) : rest[i].id \in DOMAIN row
    BY <1>1, <2>1, <2>5
  <2>. QED
    BY <2>1, <2>2, <2>4, <2>6, TodoRests
<1>. QED
  BY <1>2, <1>3

\* The row of the item in hand is closed, the others are left.
LEMMA MarkedType ==
    ASSUME TargetFitInv, NEW w \in Worker, worker[w].pc \in {"batch", "working"},
           NEW status \in {"backoff", "done", "dead", "skipped"}
    PROVE  LET new == Marked(w, status) IN
           /\ new = [r \in DOMAIN row |-> new[r]]
           /\ new[Item(w).id].status = status
           /\ \A r \in DOMAIN row : /\ new[r] \in Row
                                    /\ new[r].company = row[r].company /\ new[r].seen = row[r].seen
                                    /\ r # Item(w).id => new[r] = row[r]
<1>. DEFINE id == Item(w).id
            old == row[id]
            closed == [old EXCEPT !.status = status, !.live = FALSE, !.batch = {}]
            new == Marked(w, status)
<1>1. id \in DOMAIN row /\ old \in Row /\ \A r \in DOMAIN row : row[r] \in Row
  BY ItemType, RowsType DEF TargetFitInv
<1>2. row = [r \in DOMAIN row |-> row[r]]
  BY DEF TargetFitInv, TypeOK
<1>. HIDE DEF id
<1>3. new = [row EXCEPT ![id] = closed]
  BY <1>1 DEF Marked, id
<1>4. closed \in Row /\ closed.status = status /\ closed.company = old.company /\ closed.seen = old.seen
  BY <1>1 DEF Row
<1>. HIDE DEF closed, new
<1>5. DOMAIN new = DOMAIN row /\ new = [r \in DOMAIN row |-> new[r]]
  BY <1>2, <1>3
<1>6. new[id] = closed /\ \A r \in DOMAIN row : r # id => new[r] = row[r]
  BY <1>1, <1>3
<1>7. \A r \in DOMAIN row : /\ new[r] \in Row
                            /\ new[r].company = row[r].company /\ new[r].seen = row[r].seen
  BY <1>1, <1>4, <1>6
<1>. QED
  BY <1>4, <1>5, <1>6, <1>7 DEF new, id

\* An item is given back or gives up: nothing is published.
LEMMA GivenBackKeeps ==
    ASSUME TargetFitInv, NEW w \in Worker, worker[w].pc \in {"batch", "working"},
           NEW status \in {"backoff", "dead"}, row' = Marked(w, status),
           worker' = [worker EXCEPT ![w] = NextItem(w)],
           UNCHANGED <<contract, watermark, cdc, published>>
    PROVE  TargetFitInv'
<1>. DEFINE new == Marked(w, status)
<1>1. /\ new = [r \in DOMAIN row |-> new[r]]
      /\ new[Item(w).id].status = status
      /\ \A r \in DOMAIN row : /\ new[r] \in Row
                               /\ new[r].company = row[r].company /\ new[r].seen = row[r].seen
                               /\ r # Item(w).id => new[r] = row[r]
  BY MarkedType
<1>2. \A r \in DOMAIN row : new[r].status \in Settled => row[r].status \in Settled
  BY <1>1 DEF Settled
<1>3. worker' \in [Worker -> Process] /\ \A v \in Worker : worker'[v] = worker[v] \/ Resting(worker'[v])
  BY NextItemRests DEF TargetFitInv, TypeOK
<1>4. row' = new
  OBVIOUS
<1>. HIDE DEF new
<1>. QED
  BY <1>1, <1>2, <1>3, <1>4, RewriteKeeps

LEMMA LockBusyKeeps ==
    ASSUME TargetFitInv, NEW w \in Worker, LockBusy(w)
    PROVE  TargetFitInv'
BY GivenBackKeeps DEF LockBusy

LEMMA ItemFailsKeeps ==
    ASSUME TargetFitInv, NEW w \in Worker, ItemFails(w)
    PROVE  TargetFitInv'
<1>1. AfterFailure(w) \in {"backoff", "dead"}
  BY DEF AfterFailure
<1>. QED
  BY <1>1, GivenBackKeeps DEF ItemFails

LEMMA CycleFailsKeeps ==
    ASSUME TargetFitInv, NEW w \in Worker, CycleFails(w)
    PROVE  TargetFitInv'
<1>1. /\ worker' = [worker EXCEPT ![w] = Idle] /\ UNCHANGED <<contract, row, watermark, cdc, published>>
  BY DEF CycleFails
<1>2. worker' \in [Worker -> Process] /\ \A v \in Worker : worker'[v] = worker[v] \/ Resting(worker'[v])
  BY <1>1, IdleRests DEF TargetFitInv, TypeOK
<1>3. row = [r \in DOMAIN row |-> row[r]] /\ \A r \in DOMAIN row : row[r] \in Row
  BY RowsType DEF TargetFitInv, TypeOK
<1>. QED
  BY <1>1, <1>2, <1>3, RewriteKeeps

LEMMA LocksExpireKeeps ==
    ASSUME TargetFitInv, NEW r \in DOMAIN row, LocksExpire(r)
    PROVE  TargetFitInv'
<1>. DEFINE new == [q \in DOMAIN row |->
                       IF row[q].batch = row[r].batch THEN [row[q] EXCEPT !.live = FALSE] ELSE row[q]]
<1>1. row' = new /\ UNCHANGED <<contract, watermark, cdc, published, worker>>
  BY DEF LocksExpire
<1>2. ASSUME NEW q \in DOMAIN row
      PROVE  /\ new[q] \in Row
             /\ new[q].company = row[q].company /\ new[q].seen = row[q].seen
             /\ new[q].status \in Settled => row[q].status \in Settled
  <2>1. row[q] \in Row
    BY RowsType DEF TargetFitInv
  <2>. QED
    BY <2>1 DEF Row
<1>3. new = [q \in DOMAIN row |-> new[q]]
  OBVIOUS
<1>. HIDE DEF new
<1>4. worker' \in [Worker -> Process] /\ \A v \in Worker : worker'[v] = worker[v]
  BY <1>1 DEF TargetFitInv, TypeOK
<1>. QED
  BY <1>1, <1>2, <1>3, <1>4, RewriteKeeps

LEMMA BackoffEndsKeeps ==
    ASSUME TargetFitInv, NEW r \in DOMAIN row, BackoffEnds(r)
    PROVE  TargetFitInv'
<1>. DEFINE new == [row EXCEPT ![r].status = "retry"]
<1>1. row' = new /\ UNCHANGED <<contract, watermark, cdc, published, worker>>
  BY DEF BackoffEnds
<1>2. \A q \in DOMAIN row : row[q] \in Row
  BY RowsType DEF TargetFitInv
<1>3. ASSUME NEW q \in DOMAIN row
      PROVE  /\ new[q] \in Row
             /\ new[q].company = row[q].company /\ new[q].seen = row[q].seen
             /\ new[q].status \in Settled => row[q].status \in Settled
  BY <1>2 DEF Row, Settled
<1>4. row = [q \in DOMAIN row |-> row[q]]
  BY DEF TargetFitInv, TypeOK
<1>5. new = [q \in DOMAIN row |-> new[q]]
  BY <1>4
<1>. HIDE DEF new
<1>6. worker' \in [Worker -> Process] /\ \A v \in Worker : worker'[v] = worker[v]
  BY <1>1 DEF TargetFitInv, TypeOK
<1>. QED
  BY <1>1, <1>3, <1>5, <1>6, RewriteKeeps

-----------------------------------------------------------------------------
(* process_one().                                                          *)

\* Between the advisory lock and the transaction's end the company belongs
\* to one worker.
LEMMA TakeItemKeeps ==
    ASSUME TargetFitInv, NEW w \in Worker, TakeItem(w)
    PROVE  TargetFitInv'
<1>. DEFINE c == ItemCompany(w)
            local == [worker[w] EXCEPT !.pc = "working", !.loaded = contract[c].content]
<1>1. /\ worker[w].pc = "batch" /\ ~Locked(w, c)
      /\ worker' = [worker EXCEPT ![w] = local]
      /\ UNCHANGED <<contract, row, watermark, cdc, published>>
  <2>1. worker' = [worker EXCEPT ![w].pc = "working", ![w].loaded = contract[c].content]
    BY DEF TakeItem
  <2>2. [worker EXCEPT ![w].pc = "working", ![w].loaded = contract[c].content] = [worker EXCEPT ![w] = local]
    BY DEF TargetFitInv, TypeOK
  <2>. QED
    BY <2>1, <2>2 DEF TakeItem
<1>2. /\ c \in Company /\ Item(w).id \in DOMAIN row /\ row[Item(w).id] \in Row
      /\ contract[c].content \in 0 .. MaxChanges
      /\ worker[w] \in Process
  BY <1>1, ItemType DEF TargetFitInv, TypeOK
<1>3. local \in Process /\ local.pc = "working" /\ local.loaded = contract[c].content
      /\ local.todo = worker[w].todo
  BY <1>2 DEF Process
<1>. HIDE DEF local
<1>4. /\ worker' \in [Worker -> Process] /\ worker'[w] = local
      /\ \A v \in Worker \ {w} : worker'[v] = worker[v]
  BY <1>1, <1>3 DEF TargetFitInv, TypeOK
<1>5. TypeOK'
  BY <1>1, <1>4 DEF TargetFitInv, TypeOK
<1>6. RowsKept /\ ContractGrows
  BY <1>1, SameContracts DEF RowsKept
<1>7. Item(w)' = Item(w) /\ ItemCompany(w)' = c
  BY <1>1, <1>3, <1>4 DEF Item, ItemCompany
<1>8. WorkerOK(w)'
  <2>1. /\ local.todo # <<>>
        /\ \A i \in 1 .. Len(local.todo) : local.todo[i].id \in DOMAIN row
    BY <1>1, <1>3 DEF TargetFitInv, WorkerOK
  <2>2. /\ local.loaded <= contract[c].content
        /\ published[c].content <= local.loaded
        /\ row[Item(w).id].seen <= local.loaded
    <3>1. row[Item(w).id].company = c
      BY DEF ItemCompany
    <3>. HIDE DEF c
    <3>. QED
      BY <1>2, <1>3, <3>1 DEF TargetFitInv, DetectedOK
  <2>. HIDE DEF c
  <2>. QED
    BY <1>1, <1>4, <1>7, <2>1, <2>2 DEF WorkerOK
<1>9. ASSUME NEW v \in Worker \ {w}
      PROVE  /\ WorkerOK(v)'
             /\ worker[v].pc = "working" => ItemCompany(v)' = ItemCompany(v) /\ ItemCompany(v) # c
  <2>1. worker[v].pc = "working" => published'[ItemCompany(v)].content <= worker[v].loaded
    BY <1>1 DEF TargetFitInv, WorkerOK
  <2>2. worker[v].pc = "working" => ItemCompany(v) # c
    BY <1>1 DEF Locked, ItemCompany, Item
  <2>3. worker'[v] = worker[v]
    BY <1>4
  <2>. QED
    BY <1>5, <1>6, <2>1, <2>2, <2>3, WorkerKept
<1>10. LockOK'
  <2>. SUFFICES ASSUME NEW u \in Worker, NEW v \in Worker,
                       worker'[u].pc = "working", worker'[v].pc = "working",
                       ItemCompany(u)' = ItemCompany(v)'
                PROVE  u = v
    BY DEF LockOK
  <2>1. CASE u # w /\ v # w
    BY <1>4, <1>9, <2>1 DEF TargetFitInv, LockOK
  <2>2. CASE u = w \/ v = w
    <3>. HIDE DEF c
    <3>. QED
      BY <1>4, <1>7, <1>9, <2>2
  <2>. QED
    BY <2>1, <2>2
<1>11. DetectedOK' /\ DoneRowIsCovered' /\ FailedDecisionIsRetried'
  BY <1>1 DEF TargetFitInv, DetectedOK, DoneRowIsCovered, FailedDecisionIsRetried, Open
<1>. QED
  BY <1>5, <1>8, <1>9, <1>10, <1>11 DEF TargetFitInv

\* The transaction of an item ends with the decision of its input, the one
\* that stood or a new one: no other worker has the company.
LEMMA DecidedKeeps ==
    ASSUME TargetFitInv, NEW w \in Worker, worker[w].pc = "working",
           NEW status \in {"backoff", "done", "dead", "skipped"}, row' = Marked(w, status),
           worker' = [worker EXCEPT ![w] = NextItem(w)],
           UNCHANGED <<contract, watermark, cdc>>,
           NEW decision \in [content : 0 .. MaxChanges, watermark : 0 .. Now, ok : BOOLEAN],
           published' = [published EXCEPT ![ItemCompany(w)] = decision],
           decision.content = worker[w].loaded,
           ~decision.ok => status \in {"backoff", "dead"}
    PROVE  TargetFitInv'
<1>. DEFINE c == ItemCompany(w)
            id == Item(w).id
            new == Marked(w, status)
<1>1. /\ new = [r \in DOMAIN row |-> new[r]]
      /\ new[id].status = status
      /\ \A r \in DOMAIN row : /\ new[r] \in Row
                               /\ new[r].company = row[r].company /\ new[r].seen = row[r].seen
                               /\ r # id => new[r] = row[r]
  BY MarkedType
<1>2. row' = new
  OBVIOUS
<1>3. /\ c \in Company /\ id \in DOMAIN row /\ row[id].company = c
      /\ Len(row) \in Nat /\ DOMAIN row = 1 .. Len(row)
      /\ \A r \in DOMAIN row : row[r] \in Row
  BY ItemType, RowsType DEF TargetFitInv, ItemCompany
<1>4. /\ worker' \in [Worker -> Process] /\ worker'[w] = NextItem(w) /\ Resting(NextItem(w))
      /\ \A v \in Worker \ {w} : worker'[v] = worker[v]
  BY NextItemRests DEF TargetFitInv, TypeOK
<1>5. /\ worker[w].loaded \in Nat
      /\ worker[w].loaded <= contract[c].content
      /\ published[c].content <= worker[w].loaded
      /\ row[id].seen <= worker[w].loaded
  BY DEF TargetFitInv, TypeOK, Process, WorkerOK
<1>. HIDE DEF new, id
<1>6. /\ published' \in [Company -> [content : 0 .. MaxChanges, watermark : 0 .. Now, ok : BOOLEAN]]
      /\ published'[c] = decision /\ \A d \in Company : d # c => published'[d] = published[d]
  BY <1>3 DEF TargetFitInv, TypeOK
<1>7. \A d \in Company : /\ published[d].content \in Nat /\ contract[d].content \in Nat
                         /\ published'[d].content \in Nat
  BY <1>6 DEF TargetFitInv, TypeOK
<1>. HIDE DEF c
<1>8. \A d \in Company : /\ published[d].content <= published'[d].content
                         /\ published'[d].content <= contract[d].content
  BY <1>3, <1>5, <1>6, <1>7 DEF TargetFitInv, DetectedOK
<1>9. DOMAIN row' = DOMAIN row /\ row' \in Seq(Row)
  <2>1. DOMAIN new = DOMAIN row /\ new \in [1 .. Len(row) -> Row]
    BY <1>1, <1>3
  <2>. QED
    BY <1>2, <1>3, <2>1, SeqOfFunction
<1>10. TypeOK'
  BY <1>4, <1>6, <1>9 DEF TargetFitInv, TypeOK
<1>11. RowsKept /\ ContractGrows
  BY <1>1, <1>2, <1>9, SameContracts DEF RowsKept
<1>12. DetectedOK'
  <2>1. \A r \in DOMAIN row' : row'[r].seen <= contract'[row'[r].company].content
    <3>1. \A r \in DOMAIN row : row[r].seen <= contract[row[r].company].content
      BY DEF TargetFitInv, DetectedOK
    <3>. QED
      BY <1>1, <1>2, <1>9, <3>1
  <2>2. /\ \A f \in cdc.found : f.seen <= contract[f.company].ingested
        /\ IsFiniteSet(cdc.found)
        /\ \A d \in Company : contract[d].ingested <= contract[d].content
    BY DEF TargetFitInv, DetectedOK
  <2>. QED
    BY <1>8, <2>1, <2>2 DEF DetectedOK
<1>13. ASSUME NEW v \in Worker
       PROVE  /\ WorkerOK(v)'
              /\ worker'[v].pc = "working" =>
                     v # w /\ worker[v].pc = "working" /\ ItemCompany(v)' = ItemCompany(v)
  <2>1. CASE v = w
    BY <1>4, <1>9, <2>1 DEF Resting, WorkerOK
  <2>2. CASE v # w
    <3>1. worker'[v] = worker[v]
      BY <1>4, <2>2
    <3>2. ASSUME worker[v].pc = "working"
          PROVE  published'[ItemCompany(v)].content <= worker[v].loaded
      <4>1. ItemCompany(v) \in Company /\ ItemCompany(v) # c
        BY <2>2, <3>2, ItemType DEF TargetFitInv, LockOK, c
      <4>. QED
        BY <1>6, <3>2, <4>1 DEF TargetFitInv, WorkerOK
    <3>. QED
      BY <1>10, <1>11, <2>2, <3>1, <3>2, WorkerKept
  <2>. QED
    BY <2>1, <2>2
<1>14. LockOK'
  BY <1>13 DEF TargetFitInv, LockOK
<1>15. DoneRowIsCovered'
  <2>. SUFFICES ASSUME NEW r \in DOMAIN row, row'[r].status \in {"done", "skipped"}
                PROVE  published'[row'[r].company].content >= row'[r].seen
    BY <1>9 DEF DoneRowIsCovered
  <2>1. row[r].company \in Company /\ row[r].seen \in Nat
    BY <1>3, BoundsType DEF Row
  <2>2. row'[r].company = row[r].company /\ row'[r].seen = row[r].seen
    BY <1>1, <1>2
  <2>3. CASE r = id
    BY <1>3, <1>5, <1>6, <2>1, <2>2, <2>3
  <2>4. CASE r # id
    <3>1. published[row[r].company].content >= row[r].seen
      BY <1>1, <1>2, <2>4 DEF TargetFitInv, DoneRowIsCovered
    <3>. QED
      BY <1>7, <1>8, <2>1, <2>2, <3>1
  <2>. QED
    BY <2>3, <2>4
<1>16. FailedDecisionIsRetried'
  <2>. SUFFICES ASSUME NEW d \in Company, ~published'[d].ok
                PROVE  \E r \in DOMAIN row : row'[r].company = d /\ (Open(r)' \/ row'[r].status = "dead")
    BY <1>9 DEF FailedDecisionIsRetried
  <2>1. CASE d = c
    <3>1. row'[id].company = c /\ row'[id].status \in {"backoff", "dead"}
      BY <1>1, <1>2, <1>3, <1>6, <2>1
    <3>. QED
      BY <1>3, <2>1, <3>1 DEF Open
  <2>2. CASE d # c
    <3>1. PICK r \in DOMAIN row : row[r].company = d /\ (Open(r) \/ row[r].status = "dead")
      BY <1>6, <2>2 DEF TargetFitInv, FailedDecisionIsRetried
    <3>2. row'[r] = row[r]
      BY <1>1, <1>2, <1>3, <2>2, <3>1
    <3>. QED
      BY <3>1, <3>2 DEF Open
  <2>. QED
    BY <2>1, <2>2
<1>. QED
  BY <1>10, <1>12, <1>13, <1>14, <1>15, <1>16 DEF TargetFitInv

LEMMA DecisionType ==
    ASSUME TargetFitInv, NEW w \in Worker, worker[w].pc = "working", NEW ok \in BOOLEAN
    PROVE  /\ Decision(w, ok) \in [content : 0 .. MaxChanges, watermark : 0 .. Now, ok : BOOLEAN]
           /\ Decision(w, ok).content = worker[w].loaded
           /\ Decision(w, ok).ok = ok
<1>1. worker[w].loaded \in 0 .. MaxChanges
  BY DEF TargetFitInv, TypeOK, Process
<1>2. row[Item(w).id].watermark \in 0 .. Now
  BY ItemType, BoundsType DEF Row
<1>. QED
  BY <1>1, <1>2 DEF Decision

LEMMA FinishItemKeeps ==
    ASSUME TargetFitInv, NEW w \in Worker, FinishItem(w)
    PROVE  TargetFitInv'
<1>1. worker[w].pc = "working" /\ worker' = [worker EXCEPT ![w] = NextItem(w)] /\ UNCHANGED <<contract, watermark, cdc>>
  BY DEF FinishItem
<1>2. CASE SameInput(w)
  <2>. DEFINE previous == published[ItemCompany(w)]
  <2>1. row' = Marked(w, "skipped") /\ published' = published
    BY <1>2 DEF FinishItem
  <2>2. /\ previous \in [content : 0 .. MaxChanges, watermark : 0 .. Now, ok : BOOLEAN]
        /\ published = [published EXCEPT ![ItemCompany(w)] = previous]
    BY <1>1, ItemType DEF TargetFitInv, TypeOK
  <2>3. previous.content = worker[w].loaded /\ previous.ok
    BY <1>2 DEF SameInput
  <2>. HIDE DEF previous
  <2>. QED
    BY <1>1, <2>1, <2>2, <2>3, DecidedKeeps
<1>3. CASE ~SameInput(w)
  <2>1. row' = Marked(w, "done") /\ published' = [published EXCEPT ![ItemCompany(w)] = Decision(w, TRUE)]
    BY <1>3 DEF FinishItem
  <2>. QED
    BY <1>1, <2>1, DecisionType, DecidedKeeps
<1>. QED
  BY <1>2, <1>3

LEMMA RefreshFailsKeeps ==
    ASSUME TargetFitInv, NEW w \in Worker, RefreshFails(w)
    PROVE  TargetFitInv'
<1>1. AfterFailure(w) \in {"backoff", "dead"}
  BY DEF AfterFailure
<1>. QED
  BY <1>1, DecisionType, DecidedKeeps DEF RefreshFails

-----------------------------------------------------------------------------
(* The specification.                                                      *)

LEMMA InitInv == Init => TargetFitInv
<1>. SUFFICES ASSUME Init PROVE TargetFitInv
  OBVIOUS
<1>1. 0 \in 0 .. MaxChanges /\ 0 \in 0 .. Now
  BY BoundsType
<1>2. row = <<>> /\ DOMAIN row = {} /\ row \in Seq(Row)
  BY DEF Init
<1>3. cdc = NoDetection /\ NoDetection.pc = "idle" /\ NoDetection.found = {} /\ IsFiniteSet({})
  BY FS_EmptySet DEF Init, NoDetection
<1>4. TypeOK
  BY <1>1, <1>2, <1>3, IdleRests DEF Init, TypeOK, NoDetection
<1>5. \A c \in Company : /\ contract[c].content = 0 /\ contract[c].ingested = 0
                         /\ published[c].content = 0 /\ published[c].ok
  BY DEF Init
<1>6. DetectedOK
  BY <1>2, <1>3, <1>5 DEF DetectedOK
<1>7. \A w \in Worker : worker[w].pc = "idle" /\ Len(worker[w].todo) = 0
  BY DEF Init, Idle
<1>8. (\A w \in Worker : WorkerOK(w)) /\ LockOK
  BY <1>7 DEF WorkerOK, LockOK
<1>9. DoneRowIsCovered /\ FailedDecisionIsRetried
  BY <1>2, <1>5 DEF DoneRowIsCovered, FailedDecisionIsRetried
<1>. QED
  BY <1>4, <1>6, <1>8, <1>9 DEF TargetFitInv

LEMMA UnchangedKeeps ==
    ASSUME TargetFitInv, UNCHANGED vars
    PROVE  TargetFitInv'
BY DEF vars, TargetFitInv, TypeOK, DetectedOK, WorkerOK, LockOK, DoneRowIsCovered,
       FailedDecisionIsRetried, Open, Item, ItemCompany

LEMMA NextKeeps ==
    ASSUME TargetFitInv, Next
    PROVE  TargetFitInv'
<1>1. CASE \E c \in Company : InsertContract(c) \/ UpdateContract(c) \/ Requeue(c)
  BY <1>1, ContractKeeps, RequeueKeeps
<1>2. CASE Detect \/ EnqueueDetected \/ DetectionFails \/ Reconcile
  BY <1>2, DetectKeeps, EnqueueKeeps, DetectionFailsKeeps, ReconcileKeeps
<1>3. CASE \E w \in Worker : WorkerStep(w)
  <2>1. PICK w \in Worker : WorkerStep(w)
    BY <1>3
  <2>2. CASE BeginClaim(w)
    BY <2>2, BeginClaimKeeps
  <2>3. CASE \E missed \in SUBSET Company : Claim(w, missed)
    BY <2>3, ClaimKeeps
  <2>4. CASE TakeItem(w) \/ LockBusy(w)
    BY <2>4, TakeItemKeeps, LockBusyKeeps
  <2>5. CASE ProcessItem(w)
    BY <2>5, FinishItemKeeps, RefreshFailsKeeps, ItemFailsKeeps DEF ProcessItem
  <2>6. CASE CycleFails(w)
    BY <2>6, CycleFailsKeeps
  <2>. QED
    BY <2>1, <2>2, <2>3, <2>4, <2>5, <2>6 DEF WorkerStep
<1>4. CASE \E r \in DOMAIN row : LocksExpire(r) \/ BackoffEnds(r)
  BY <1>4, LocksExpireKeeps, BackoffEndsKeeps
<1>. QED
  BY <1>1, <1>2, <1>3, <1>4 DEF Next

\* The inductive invariant: what workers hold is as new as the decision that
\* stands, which is as new as the changes of the rows it settled.
THEOREM TargetFitInvariant == Spec => []TargetFitInv
<1>1. Init => TargetFitInv
  BY InitInv
<1>2. TargetFitInv /\ [Next]_vars => TargetFitInv'
  BY NextKeeps, UnchangedKeeps
<1>. QED
  BY <1>1, <1>2, PTL DEF Spec

\* Contracts, queue, decisions and workers keep their types
\* (scripts/confenge_target_fit/store.py, worker.py).
THEOREM TypeCorrect == Spec => []TypeOK
<1>1. TargetFitInv => TypeOK
  BY DEF TargetFitInv
<1>. QED
  BY <1>1, TargetFitInvariant, PTL

\* A row that process_one() closed as done or skipped tells of no change that
\* the decision of its company does not cover, whatever batches, expired
\* locks and failed cycles the row went through.
THEOREM DoneCorrect == Spec => []DoneRowIsCovered
<1>1. TargetFitInv => DoneRowIsCovered
  BY DEF TargetFitInv
<1>. QED
  BY <1>1, TargetFitInvariant, PTL

\* Where a failure of the classifier was published, a row of the company is
\* open or in the dead letters: run_reconcile() is not the only way back.
THEOREM FailedCorrect == Spec => []FailedDecisionIsRetried
<1>1. TargetFitInv => FailedDecisionIsRetried
  BY DEF TargetFitInv
<1>. QED
  BY <1>1, TargetFitInvariant, PTL

\* No step replaces a decision by one of older contracts: the advisory lock
\* spans the read of the contracts and the publication.
THEOREM NeverOlderCorrect == Spec => NeverPublishesOlderContent
<1>1. ASSUME TargetFitInv, Next
      PROVE  \A c \in Company : published'[c].content >= published[c].content
  <2>1. \A c \in Company : published[c].content \in Nat
    BY <1>1 DEF TargetFitInv, TypeOK
  <2>2. CASE published' = published
    BY <2>1, <2>2
  <2>3. ASSUME NEW w \in Worker, NEW ok \in BOOLEAN, worker[w].pc = "working",
               published' = [published EXCEPT ![ItemCompany(w)] = Decision(w, ok)]
        PROVE  \A c \in Company : published'[c].content >= published[c].content
    <3>1. published[ItemCompany(w)].content <= worker[w].loaded
      BY <1>1, <2>3 DEF TargetFitInv, WorkerOK
    <3>2. worker[w].loaded \in Nat
      BY <1>1 DEF TargetFitInv, TypeOK, Process
    <3>3. ItemCompany(w) \in Company
      BY <1>1, <2>3, ItemType
    <3>4. Decision(w, ok).content = worker[w].loaded
      BY <1>1, <2>3, DecisionType
    <3>5. published \in [Company -> [content : 0 .. MaxChanges, watermark : 0 .. Now, ok : BOOLEAN]]
      BY <1>1 DEF TargetFitInv, TypeOK
    <3>6. /\ published'[ItemCompany(w)].content = worker[w].loaded
          /\ \A c \in Company : c # ItemCompany(w) => published'[c] = published[c]
      BY <2>3, <3>3, <3>4, <3>5
    <3>. QED
      BY <2>1, <3>1, <3>2, <3>3, <3>6
  <2>4. ASSUME NEW w \in Worker, WorkerStep(w)
        PROVE  \/ published' = published
               \/ /\ worker[w].pc = "working"
                  /\ \E ok \in BOOLEAN : published' = [published EXCEPT ![ItemCompany(w)] = Decision(w, ok)]
    BY <2>4 DEF WorkerStep, BeginClaim, Claim, TakeItem, LockBusy, ProcessItem, FinishItem,
                RefreshFails, ItemFails, CycleFails
  <2>5. \/ published' = published
        \/ \E w \in Worker : WorkerStep(w)
    BY <1>1 DEF Next, InsertContract, UpdateContract, Requeue, Detect, EnqueueDetected,
                DetectionFails, Reconcile, LocksExpire, BackoffEnds
  <2>. QED
    BY <2>2, <2>3, <2>4, <2>5
<1>2. TargetFitInv /\ [Next]_vars => [\A c \in Company : published'[c].content >= published[c].content]_published
  BY <1>1 DEF vars
<1>. QED
  BY <1>2, TargetFitInvariant, PTL DEF Spec, NeverPublishesOlderContent

=============================================================================
