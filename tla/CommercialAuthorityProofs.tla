----------------------- MODULE CommercialAuthorityProofs -----------------------
(* Theorems about CommercialAuthority, for any number of operations,       *)
(* owners and processes.                                                   *)
EXTENDS CommercialAuthority, SequenceTheorems, TLAPS

-----------------------------------------------------------------------------
(* The inductive invariant.                                                *)

(* The flock is held exactly by the process inside the protected body, and *)
(* the record names it; a record without a live owner can only be left     *)
(* ACTIVE, never be taken over.                                            *)
LockOK ==
    /\ \A p \in Process : lock = p <=> pc[p] \in {"running", "mutated"}
    /\ lock # None => record # None /\ record.status = "ACTIVE" /\ record.owner = lock

\* The parts of a record fit together.
RecordOK ==
    record # None =>
        /\ record.history[record.operation] = "absent"
        /\ record.status = "ACTIVE" => /\ record.active \in Stage /\ record.owner \in Process
                                       /\ record.stages[record.active] = "ACTIVE"
        /\ record.status \in {"ACTIVE", "OPEN"} =>
               \A s \in Stage : \/ record.stages[s] \in {"absent", "COMPLETED"}
                                \/ record.status = "ACTIVE" /\ s = record.active

(* The record remembers every stage that was ever entered: those of its    *)
(* own operation by name, the others by the tombstone of their operation.  *)
LogOK ==
    \A i \in DOMAIN log :
        /\ record # None
        /\ \/ log[i][1] = record.operation /\ record.stages[log[i][2]] # "absent"
           \/ record.history[log[i][1]] # "absent"

\* And it invents none.
StagesWereEntered ==
    record # None =>
        \A s \in Stage : record.stages[s] # "absent" =>
            \E i \in DOMAIN log : log[i] = <<record.operation, s>>

AuthorityInv == TypeOK /\ LockOK /\ RecordOK /\ LogOK /\ StagesWereEntered

-----------------------------------------------------------------------------
(* The two forms a step that changes the record takes.                     *)

LEMMA RecordFields ==
    ASSUME NEW r \in Record
    PROVE  /\ r.operation \in Operation /\ r.reserver \in Owner
           /\ r.scope \in Scope /\ r.status \in RecordStatus
           /\ r.active \in Stage \cup {None} /\ r.owner \in Process \cup {None}
           /\ r.stages \in [Stage -> StageStatus] /\ r.history \in [Operation -> Tombstone]
BY DEF Record

(* What is left of a record when its active stage is closed.               *)
LEMMA ClosedRecord ==
    ASSUME record \in Record, record.active \in Stage,
           NEW a \in {"COMPLETED", "ABORTED"}, NEW b \in {"OPEN", "COMPLETED", "ABORTED"}
    PROVE  /\ Closed(a, b) \in Record
           /\ Closed(a, b).operation = record.operation
           /\ Closed(a, b).status = b
           /\ Closed(a, b).history = record.history
           /\ Closed(a, b).stages = [record.stages EXCEPT ![record.active] = a]
BY DEF Closed, Record, RecordStatus, StageStatus

LEMMA ActiveRecordFields ==
    ASSUME record \in Record \cup {None},
           NEW p \in Process, NEW o \in Operation, NEW w \in Owner, NEW sc \in Scope,
           NEW s \in Stage, Admits(o, w, sc, s)
    PROVE  LET r == ActiveRecord(p, o, w, sc, s)
           IN  /\ r \in Record
               /\ r.operation = o /\ r.status = "ACTIVE" /\ r.active = s /\ r.owner = p
               /\ r.stages = StagesWith(s) /\ r.history = History(o)
<1>1. StagesWith(s) \in [Stage -> StageStatus]
  BY RecordFields DEF StagesWith, StageStatus
<1>2. History(o) \in [Operation -> Tombstone]
  <2>1. CASE record = None
    BY <2>1 DEF History, Tombstone
  <2>2. CASE record # None /\ record.operation = o
    BY <2>2, RecordFields DEF History
  <2>3. CASE record # None /\ record.operation # o
    <3>1. record.status \in Tombstone
      BY <2>3 DEF Admits, Continues, Succeeds, Tombstone
    <3>. QED
      BY <2>3, <3>1, RecordFields DEF History
  <2>. QED
    BY <2>1, <2>2, <2>3
<1>. QED
  BY <1>1, <1>2 DEF ActiveRecord, Record, RecordStatus

(* The stage after the completed ones was not entered yet.                 *)
LEMMA NextStageIsNew ==
    ASSUME AuthorityInv, record # None,
           NEW o \in Operation, NEW w \in Owner, NEW sc \in Scope, NEW s \in Stage,
           sc = "cycle" => s \in CycleStage, Continues(o, w, sc, s)
    PROVE  record.stages[s] = "absent"
<1>1. s \in CycleStage /\ record.status = "OPEN" /\ Earlier(s) = Completed(record.stages)
  BY DEF Continues
<1>2. s \notin Earlier(s)
  BY <1>1 DEF CycleStage, Earlier
<1>3. record.stages[s] # "COMPLETED"
  BY <1>1, <1>2 DEF Completed
<1>. QED
  BY <1>1, <1>3 DEF AuthorityInv, RecordOK

(* Whatever acquire_stage() admits was not entered before.                 *)
LEMMA AdmittedIsNew ==
    ASSUME AuthorityInv,
           NEW o \in Operation, NEW w \in Owner, NEW sc \in Scope, NEW s \in Stage,
           Admits(o, w, sc, s), NEW i \in DOMAIN log
    PROVE  /\ log[i] # <<o, s>>
           /\ log[i][1] = o => Continues(o, w, sc, s)
<1>1. record # None /\ record.history[o] = "absent"
  BY DEF AuthorityInv, LogOK, Admits
<1>2. log[i][1] = o => record.operation = o /\ record.stages[log[i][2]] # "absent"
  BY <1>1 DEF AuthorityInv, LogOK
<1>3. log[i][1] = o => Continues(o, w, sc, s)
  BY <1>1, <1>2 DEF Admits, Succeeds
<1>4. CASE log[i][1] = o
  BY <1>1, <1>2, <1>3, <1>4, NextStageIsNew DEF Admits
<1>. QED
  BY <1>3, <1>4

-----------------------------------------------------------------------------
(* Every step preserves the invariant.                                     *)

LEMMA AcquirePreserves ==
    ASSUME AuthorityInv,
           NEW p \in Process, NEW o \in Operation, NEW w \in Owner, NEW sc \in Scope,
           NEW s \in Stage, Acquire(p, o, w, sc, s)
    PROVE  AuthorityInv'
<1>. DEFINE new == ActiveRecord(p, o, w, sc, s)
<1>1. /\ Admits(o, w, sc, s) /\ record' = new /\ lock = None /\ lock' = p
      /\ pc' = [pc EXCEPT ![p] = "running"] /\ log' = Append(log, <<o, s>>)
  BY DEF Acquire
<1>2. /\ new \in Record /\ new # None
      /\ new.operation = o /\ new.status = "ACTIVE" /\ new.active = s /\ new.owner = p
      /\ new.stages = StagesWith(s) /\ new.history = History(o)
  BY <1>1, ActiveRecordFields, NoneAssumption DEF AuthorityInv, TypeOK
<1>3. log \in Seq(Operation \X Stage) /\ <<o, s>> \in Operation \X Stage
  BY DEF AuthorityInv, TypeOK
<1>4. /\ log' \in Seq(Operation \X Stage)
      /\ DOMAIN log' = DOMAIN log \cup {Len(log) + 1}
      /\ log'[Len(log) + 1] = <<o, s>>
      /\ \A i \in DOMAIN log : log'[i] = log[i] /\ log[i][1] \in Operation /\ log[i][2] \in Stage
  BY <1>1, <1>3, AppendProperties, LenProperties
<1>5. TypeOK'
  BY <1>1, <1>2, <1>4 DEF AuthorityInv, TypeOK
<1>6. LockOK'
  <2>1. \A q \in Process : pc[q] \notin {"running", "mutated"}
    BY <1>1, NoneAssumption DEF AuthorityInv, LockOK
  <2>. QED
    BY <1>1, <1>2, <2>1 DEF AuthorityInv, TypeOK, LockOK
<1>7. record # None => /\ record \in Record
                       /\ record.history[o] = "absent"
                       /\ Continues(o, w, sc, s) \/ Succeeds(o)
  BY <1>1 DEF AuthorityInv, TypeOK, Admits
<1>8. CASE record = None
  <2>1. DOMAIN log = {}
    BY <1>8 DEF AuthorityInv, LogOK
  <2>2. /\ new.history = [h \in Operation |-> "absent"]
        /\ new.stages = [t \in Stage |-> IF t = s THEN "ACTIVE" ELSE "absent"]
    BY <1>2, <1>8 DEF History, StagesWith
  <2>3. RecordOK'
    BY <1>1, <1>2, <2>2 DEF RecordOK
  <2>4. LogOK'
    BY <1>1, <1>2, <1>4, <2>1, <2>2 DEF LogOK
  <2>5. StagesWereEntered'
    BY <1>1, <1>2, <1>4, <2>2 DEF StagesWereEntered
  <2>. QED
    BY <1>5, <1>6, <2>3, <2>4, <2>5 DEF AuthorityInv
<1>9. CASE record # None /\ Continues(o, w, sc, s)
  <2>1. record.status = "OPEN" /\ record.operation = o
    BY <1>9 DEF Continues
  <2>2. /\ new.history = record.history
        /\ new.stages = [record.stages EXCEPT ![s] = "ACTIVE"]
        /\ record.stages \in [Stage -> StageStatus]
    BY <1>2, <1>7, <1>9, <2>1, RecordFields DEF History, StagesWith
  <2>3. RecordOK'
    BY <1>1, <1>2, <1>7, <1>9, <2>1, <2>2 DEF AuthorityInv, RecordOK
  <2>4. LogOK'
    BY <1>1, <1>2, <1>4, <2>1, <2>2 DEF AuthorityInv, LogOK
  <2>5. StagesWereEntered'
    <3>1. \A t \in Stage : t # s /\ record.stages[t] # "absent" =>
              \E i \in DOMAIN log' : log'[i] = <<o, t>>
      BY <1>4, <1>9, <2>1 DEF AuthorityInv, StagesWereEntered
    <3>2. \E i \in DOMAIN log' : log'[i] = <<o, s>>
      BY <1>4
    <3>3. \A t \in Stage : new.stages[t] # "absent" => t = s \/ record.stages[t] # "absent"
      BY <2>2
    <3>4. \A t \in Stage : new.stages[t] # "absent" => \E i \in DOMAIN log' : log'[i] = <<o, t>>
      BY <3>1, <3>2, <3>3
    <3>. QED
      BY <1>1, <1>2, <3>4 DEF StagesWereEntered
  <2>. QED
    BY <1>5, <1>6, <2>3, <2>4, <2>5 DEF AuthorityInv
<1>10. CASE record # None /\ Succeeds(o)
  <2>1. record.status \in {"COMPLETED", "ABORTED"} /\ record.operation # o
    BY <1>10 DEF Succeeds
  <2>2. /\ new.history = [record.history EXCEPT ![record.operation] = record.status]
        /\ new.stages = [t \in Stage |-> IF t = s THEN "ACTIVE" ELSE "absent"]
        /\ record.history \in [Operation -> Tombstone]
        /\ record.operation \in Operation
    BY <1>2, <1>7, <1>10, <2>1, RecordFields DEF History, StagesWith
  <2>3. RecordOK'
    BY <1>1, <1>2, <1>7, <1>10, <2>1, <2>2 DEF RecordOK
  <2>4. LogOK'
    <3>1. \A h \in Operation :
              h = record.operation \/ record.history[h] # "absent" => new.history[h] # "absent"
      BY <2>1, <2>2
    <3>2. \A i \in DOMAIN log : new.history[log[i][1]] # "absent"
      BY <1>4, <3>1 DEF AuthorityInv, LogOK
    <3>3. new.stages[s] # "absent"
      BY <2>2
    <3>. QED
      BY <1>1, <1>2, <1>4, <3>2, <3>3 DEF LogOK
  <2>5. StagesWereEntered'
    BY <1>1, <1>2, <1>4, <2>2 DEF StagesWereEntered
  <2>. QED
    BY <1>5, <1>6, <2>3, <2>4, <2>5 DEF AuthorityInv
<1>. QED
  BY <1>7, <1>8, <1>9, <1>10

(* A process that ends its stage, whatever becomes of the record.          *)
LEMMA LeavesPreserves ==
    ASSUME AuthorityInv, NEW p \in Process, pc[p] \in {"running", "mutated"}, Leaves(p)
    PROVE  /\ lock = p /\ record \in Record /\ record.status = "ACTIVE"
           /\ record.active \in Stage /\ record.owner = p
           /\ lock' = None /\ log' = log
           /\ pc' \in [Process -> {"out", "running", "mutated", "leaving"}]
           /\ \A q \in Process : pc'[q] \notin {"running", "mutated"}
<1>1. lock = p
  BY DEF AuthorityInv, LockOK
<1>2. /\ record # None /\ record \in Record /\ record.status = "ACTIVE"
      /\ record.active \in Stage /\ record.owner = p
  BY <1>1, NoneAssumption DEF AuthorityInv, TypeOK, LockOK, RecordOK
<1>3. \A q \in Process : q # p => pc[q] \notin {"running", "mutated"}
  BY <1>1 DEF AuthorityInv, LockOK
<1>. QED
  BY <1>1, <1>2, <1>3 DEF Leaves, AuthorityInv, TypeOK

(* Closing the active stage, by the process that ran it or after its death. *)
LEMMA ClosePreserves ==
    ASSUME AuthorityInv, record # None, record.status = "ACTIVE",
           NEW a \in {"COMPLETED", "ABORTED"}, NEW b \in {"OPEN", "COMPLETED", "ABORTED"},
           b = "OPEN" => a = "COMPLETED",
           record' = Closed(a, b), log' = log
    PROVE  record' \in Record /\ RecordOK' /\ LogOK' /\ StagesWereEntered'
<1>1. record \in Record /\ record.active \in Stage
  BY DEF AuthorityInv, TypeOK, RecordOK
<1>2. /\ record' \in Record /\ record' # None
      /\ record'.operation = record.operation /\ record'.status = b
      /\ record'.history = record.history
      /\ record'.stages = [record.stages EXCEPT ![record.active] = a]
      /\ record.stages \in [Stage -> StageStatus]
  BY <1>1, ClosedRecord, RecordFields, NoneAssumption
<1>3. RecordOK'
  BY <1>1, <1>2 DEF AuthorityInv, RecordOK
<1>4. log \in Seq(Operation \X Stage) /\ \A i \in DOMAIN log : log[i][2] \in Stage
  BY LenProperties, ElementOfSeq DEF AuthorityInv, TypeOK
<1>5. LogOK'
  BY <1>1, <1>2, <1>4 DEF AuthorityInv, LogOK
<1>6. record.stages[record.active] # "absent"
  BY <1>1 DEF AuthorityInv, RecordOK
<1>7. StagesWereEntered'
  BY <1>1, <1>2, <1>6 DEF AuthorityInv, StagesWereEntered
<1>. QED
  BY <1>2, <1>3, <1>5, <1>7

(* A process that only moves on, or is gone.                               *)
LEMMA MovePreserves ==
    ASSUME AuthorityInv, UNCHANGED <<record, log>>,
           pc' \in [Process -> {"out", "running", "mutated", "leaving"}],
           lock' \in {lock, None},
           \A p \in Process : lock' = p <=> pc'[p] \in {"running", "mutated"}
    PROVE  AuthorityInv'
<1>1. TypeOK'
  BY DEF AuthorityInv, TypeOK
<1>2. LockOK'
  BY DEF AuthorityInv, LockOK
<1>3. RecordOK' /\ LogOK' /\ StagesWereEntered'
  BY DEF AuthorityInv, RecordOK, LogOK, StagesWereEntered
<1>. QED
  BY <1>1, <1>2, <1>3 DEF AuthorityInv

(* One step of a process, but for acquire_stage().                         *)
LEMMA ProcessPreserves ==
    ASSUME AuthorityInv, NEW p \in Process,
           \/ Mutate(p) \/ Complete(p) \/ Abort(p) \/ AbortsCompletion(p) \/ WriteFails(p)
           \/ Exit(p) \/ Crash(p)
    PROVE  AuthorityInv'
<1>1. CASE Mutate(p)
  BY <1>1, MovePreserves DEF Mutate, AuthorityInv, TypeOK, LockOK
<1>2. ASSUME NEW a \in {"COMPLETED", "ABORTED"}, NEW b \in {"OPEN", "COMPLETED", "ABORTED"},
             b = "OPEN" => a = "COMPLETED", pc[p] \in {"running", "mutated"},
             record' = Closed(a, b), Leaves(p)
      PROVE  AuthorityInv'
  <2>1. /\ record # None /\ record.status = "ACTIVE" /\ lock' = None /\ log' = log
        /\ pc' \in [Process -> {"out", "running", "mutated", "leaving"}]
        /\ \A q \in Process : pc'[q] \notin {"running", "mutated"}
    BY <1>2, LeavesPreserves, NoneAssumption
  <2>2. record' \in Record /\ RecordOK' /\ LogOK' /\ StagesWereEntered'
    BY <1>2, <2>1, ClosePreserves
  <2>3. TypeOK'
    BY <2>1, <2>2 DEF AuthorityInv, TypeOK
  <2>4. LockOK'
    BY <2>1, NoneAssumption DEF LockOK
  <2>. QED
    BY <2>2, <2>3, <2>4 DEF AuthorityInv
<1>3. CASE Complete(p)
  BY <1>2, <1>3 DEF Complete
<1>4. CASE Abort(p) \/ AbortsCompletion(p)
  BY <1>2, <1>4 DEF Abort, AbortsCompletion
<1>5. CASE WriteFails(p)
  <2>1. /\ UNCHANGED <<record, log>> /\ lock' = None
        /\ pc' \in [Process -> {"out", "running", "mutated", "leaving"}]
        /\ \A q \in Process : pc'[q] \notin {"running", "mutated"}
    BY <1>5, LeavesPreserves DEF WriteFails
  <2>. QED
    BY <2>1, MovePreserves, NoneAssumption
<1>6. CASE Exit(p)
  BY <1>6, MovePreserves DEF Exit, AuthorityInv, TypeOK, LockOK
<1>7. CASE Crash(p)
  <2>1. UNCHANGED <<record, log>> /\ pc' = [pc EXCEPT ![p] = "out"]
        /\ lock' = IF lock = p THEN None ELSE lock
    BY <1>7 DEF Crash
  <2>2. pc' \in [Process -> {"out", "running", "mutated", "leaving"}]
    BY <2>1 DEF AuthorityInv, TypeOK
  <2>3. \A q \in Process : lock' = q <=> pc'[q] \in {"running", "mutated"}
    BY <2>1, NoneAssumption DEF AuthorityInv, TypeOK, LockOK
  <2>. QED
    BY <2>1, <2>2, <2>3, MovePreserves
<1>. QED
  BY <1>1, <1>3, <1>4, <1>5, <1>6, <1>7

(* One command of the operator: it needs the lock, so nobody is inside.    *)
LEMMA OperatorPreserves ==
    ASSUME AuthorityInv, NEW o \in Operation, RecoverStale(o) \/ AbortOpen(o)
    PROVE  AuthorityInv'
<1>1. UNCHANGED <<lock, pc, log>> /\ lock = None /\ record # None
  BY DEF RecoverStale, AbortOpen
<1>2. ASSUME record' \in Record, RecordOK', LogOK', StagesWereEntered'
      PROVE  AuthorityInv'
  BY <1>1, <1>2 DEF AuthorityInv, TypeOK, LockOK
<1>3. CASE RecoverStale(o)
  <2>1. record.status = "ACTIVE" /\ record' = Closed("ABORTED", "ABORTED")
    BY <1>3 DEF RecoverStale
  <2>. QED
    BY <1>1, <1>2, <2>1, ClosePreserves
<1>4. CASE AbortOpen(o)
  <2>1. /\ record \in Record /\ record.status = "OPEN"
        /\ record' = [record EXCEPT !.status = "ABORTED"]
    BY <1>1, <1>4 DEF AbortOpen, AuthorityInv, TypeOK
  <2>2. /\ record' \in Record /\ record' # None
        /\ record'.operation = record.operation /\ record'.status = "ABORTED"
        /\ record'.stages = record.stages /\ record'.history = record.history
    BY <2>1, NoneAssumption DEF Record, RecordStatus
  <2>3. RecordOK' /\ LogOK' /\ StagesWereEntered'
    BY <1>1, <2>2 DEF AuthorityInv, RecordOK, LogOK, StagesWereEntered
  <2>. QED
    BY <1>2, <2>2, <2>3
<1>. QED
  BY <1>3, <1>4

LEMMA InitEstablishes == Init => AuthorityInv
<1>. SUFFICES ASSUME Init PROVE AuthorityInv
  OBVIOUS
<1>1. log \in Seq(Operation \X Stage) /\ DOMAIN log = {}
  BY EmptySeq DEF Init
<1>. QED
  BY <1>1, NoneAssumption
     DEF Init, AuthorityInv, TypeOK, LockOK, RecordOK, LogOK, StagesWereEntered

LEMMA NextPreserves == AuthorityInv /\ [Next]_vars => AuthorityInv'
<1>. SUFFICES ASSUME AuthorityInv, [Next]_vars PROVE AuthorityInv'
  OBVIOUS
<1>1. ASSUME NEW p \in Process, ProcessStep(p) PROVE AuthorityInv'
  BY <1>1, AcquirePreserves, ProcessPreserves DEF ProcessStep
<1>2. ASSUME OperatorStep PROVE AuthorityInv'
  BY <1>2, OperatorPreserves DEF OperatorStep
<1>3. CASE UNCHANGED vars
  BY <1>3 DEF vars, AuthorityInv, TypeOK, LockOK, RecordOK, LogOK, StagesWereEntered
<1>. QED
  BY <1>1, <1>2, <1>3 DEF Next

(* The strengthening of the two theorems below holds for every instance.   *)
THEOREM AuthorityCorrect == Spec => []AuthorityInv
BY InitEstablishes, NextPreserves, PTL DEF Spec

(* The record, the lock and the processes keep their types.                *)
THEOREM AuthorityTypeCorrect == Spec => []TypeOK
<1>1. AuthorityInv => TypeOK
  BY DEF AuthorityInv
<1>. QED
  BY <1>1, AuthorityCorrect, PTL

-----------------------------------------------------------------------------
(* The order of a cycle.                                                   *)

LEMMA OrderPreserved ==
    ASSUME AuthorityInv, CycleContinuesInOrder, [Next]_vars
    PROVE  CycleContinuesInOrder'
<1>1. CASE log' = log
  BY <1>1 DEF CycleContinuesInOrder
<1>2. ASSUME NEW p \in Process, NEW o \in Operation, NEW w \in Owner, NEW sc \in Scope,
             NEW s \in Stage, Acquire(p, o, w, sc, s)
      PROVE  CycleContinuesInOrder'
  <2>1. log \in Seq(Operation \X Stage) /\ log' = Append(log, <<o, s>>) /\ Admits(o, w, sc, s)
    BY <1>2 DEF AuthorityInv, TypeOK, Acquire
  <2>2. /\ Len(log) \in Nat /\ DOMAIN log = 1 .. Len(log)
        /\ DOMAIN log' = 1 .. (Len(log) + 1)
        /\ log'[Len(log) + 1] = <<o, s>>
        /\ \A i \in DOMAIN log : log'[i] = log[i]
    BY <2>1, AppendProperties, LenProperties
  <2>. SUFFICES ASSUME NEW i \in DOMAIN log', NEW j \in DOMAIN log',
                       i < j, log'[i][1] = log'[j][1],
                       NEW t \in Earlier(log'[j][2])
                PROVE  \E k \in DOMAIN log' : k < j /\ log'[k] = <<log'[j][1], t>>
    BY DEF CycleContinuesInOrder
  <2>3. CASE j \in DOMAIN log
    <3>1. i \in DOMAIN log
      BY <2>2, <2>3
    <3>2. PICK k \in DOMAIN log : k < j /\ log[k] = <<log[j][1], t>>
      BY <2>2, <2>3, <3>1 DEF CycleContinuesInOrder
    <3>. QED
      BY <2>2, <2>3, <3>2
  <2>4. CASE j = Len(log) + 1
    <3>1. i \in DOMAIN log /\ log[i][1] = o /\ t \in Earlier(s)
      BY <2>2, <2>4
    <3>2. Continues(o, w, sc, s) /\ record # None
      BY <2>1, <3>1, AdmittedIsNew DEF AuthorityInv, LogOK
    <3>3. t \in CycleStage /\ record.stages[t] = "COMPLETED" /\ record.operation = o
      BY <3>1, <3>2 DEF Continues, Completed
    <3>4. PICK k \in DOMAIN log : log[k] = <<o, t>>
      BY <3>2, <3>3 DEF AuthorityInv, StagesWereEntered, Stage
    <3>. QED
      BY <2>2, <2>4, <3>4
  <2>. QED
    BY <2>2, <2>3, <2>4
<1>3. log' = log \/ \E p \in Process, o \in Operation, w \in Owner, sc \in Scope, s \in Stage :
                        Acquire(p, o, w, sc, s)
  BY DEF Next, ProcessStep, OperatorStep, Mutate, Complete, Abort, AbortsCompletion, WriteFails,
         Exit, Crash, Leaves, RecoverStale, AbortOpen, vars
<1>. QED
  BY <1>1, <1>2, <1>3

(* No stage of a cycle is entered behind another one of its operation      *)
(* without the recorded completion of every stage before it, whatever      *)
(* processes die, are recovered or fail to write.                          *)
THEOREM OrderCorrect == Spec => []CycleContinuesInOrder
<1>1. Init => CycleContinuesInOrder
  BY EmptySeq DEF Init, CycleContinuesInOrder
<1>. QED
  BY <1>1, AuthorityCorrect, OrderPreserved, PTL DEF Spec

-----------------------------------------------------------------------------
(* The refinement.                                                         *)

LEMMA AcquireEnters ==
    ASSUME AuthorityInv,
           NEW p \in Process, NEW o \in Operation, NEW w \in Owner, NEW sc \in Scope,
           NEW s \in Stage, Acquire(p, o, w, sc, s)
    PROVE  Serial!Enter(o, s)
<1>. DEFINE new == ActiveRecord(p, o, w, sc, s)
<1>1. Admits(o, w, sc, s) /\ record' = new /\ log' = Append(log, <<o, s>>)
  BY DEF Acquire
<1>2. /\ record' # None /\ record'.operation = o /\ record'.status = "ACTIVE"
      /\ record'.history = History(o)
  BY <1>1, ActiveRecordFields, NoneAssumption DEF AuthorityInv, TypeOK
<1>3. \A i \in DOMAIN log : log[i] # <<o, s>>
  BY <1>1, AdmittedIsNew
<1>4. record # None => /\ record.history[o] = "absent"
                       /\ Continues(o, w, sc, s) \/ Succeeds(o)
                       /\ record.history \in [Operation -> Tombstone]
                       /\ record.operation \in Operation
  BY <1>1, RecordFields DEF Admits, AuthorityInv, TypeOK
<1>5. Current \in {None, o} /\ o \notin Spent
  BY <1>4 DEF Current, Spent, Continues, Succeeds
<1>6. Current' = o
  BY <1>2 DEF Current
<1>7. Spent' = {h \in Operation : History(o)[h] # "absent"}
  BY <1>2 DEF Spent
<1>8. Spent' = Spent
  <2>1. CASE record = None
    BY <1>7, <2>1 DEF History, Spent
  <2>2. CASE record # None /\ Continues(o, w, sc, s)
    BY <1>7, <2>2 DEF History, Spent, Continues
  <2>3. CASE record # None /\ Succeeds(o)
    BY <1>4, <1>7, <2>3 DEF History, Spent, Succeeds
  <2>. QED
    BY <1>4, <2>1, <2>2, <2>3
<1>. QED
  BY <1>1, <1>3, <1>5, <1>6, <1>8 DEF Serial!Enter

(* Closing the active stage ends the operation, or leaves a cycle open.    *)
LEMMA CloseEnds ==
    ASSUME AuthorityInv, record # None, record.status = "ACTIVE",
           NEW a \in {"COMPLETED", "ABORTED"}, NEW b \in {"OPEN", "COMPLETED", "ABORTED"},
           record' = Closed(a, b), log' = log
    PROVE  Serial!End \/ UNCHANGED Serial!vars
<1>1. record \in Record /\ record.active \in Stage
  BY DEF AuthorityInv, TypeOK, RecordOK
<1>2. /\ record' # None
      /\ record'.operation = record.operation /\ record'.status = b
      /\ record'.history = record.history
  BY <1>1, ClosedRecord, NoneAssumption
<1>3. record.operation \in Operation /\ record.operation # None /\ Current = record.operation
  BY <1>1, RecordFields, NoneAssumption DEF Current
<1>4. CASE b = "OPEN"
  BY <1>2, <1>3, <1>4 DEF Current, Spent, Serial!vars
<1>5. CASE b # "OPEN"
  <2>1. Current' = None
    BY <1>2, <1>5 DEF Current
  <2>2. Spent' = Spent \cup {record.operation}
    BY <1>2, <1>3, <1>5 DEF Spent
  <2>. QED
    BY <1>3, <2>1, <2>2 DEF Serial!End
<1>. QED
  BY <1>4, <1>5

LEMMA StepRefines == AuthorityInv /\ [Next]_vars => [Serial!Next]_Serial!vars
<1>. SUFFICES ASSUME AuthorityInv, [Next]_vars PROVE [Serial!Next]_Serial!vars
  OBVIOUS
<1>1. CASE UNCHANGED <<record, log>>
  BY <1>1 DEF Serial!vars, Current, Spent
<1>2. ASSUME NEW p \in Process, NEW o \in Operation, NEW w \in Owner, NEW sc \in Scope,
             NEW s \in Stage, Acquire(p, o, w, sc, s)
      PROVE  Serial!Next
  BY <1>2, AcquireEnters DEF Serial!Next
<1>3. ASSUME NEW p \in Process, Complete(p) \/ Abort(p) \/ AbortsCompletion(p)
      PROVE  Serial!End \/ UNCHANGED Serial!vars
  <2>1. /\ record # None /\ record.status = "ACTIVE" /\ log' = log
    BY <1>3, LeavesPreserves, NoneAssumption DEF Complete, Abort, AbortsCompletion
  <2>. QED
    BY <1>3, <2>1, CloseEnds DEF Complete, Abort, AbortsCompletion
<1>4. ASSUME NEW o \in Operation, RecoverStale(o)
      PROVE  Serial!End \/ UNCHANGED Serial!vars
  BY <1>4, CloseEnds DEF RecoverStale
<1>5. ASSUME NEW o \in Operation, AbortOpen(o)
      PROVE  Serial!End
  <2>1. /\ record # None /\ record \in Record /\ record.operation = o /\ record.status = "OPEN"
        /\ record' = [record EXCEPT !.status = "ABORTED"] /\ log' = log
    BY <1>5 DEF AbortOpen, AuthorityInv, TypeOK
  <2>2. /\ record' # None /\ record'.operation = o /\ record'.status = "ABORTED"
        /\ record'.history = record.history
    BY <2>1, NoneAssumption DEF Record, RecordStatus
  <2>3. Current = o /\ Current' = None /\ o # None
    BY <2>1, <2>2, NoneAssumption DEF Current
  <2>4. Spent' = Spent \cup {o}
    BY <2>1, <2>2 DEF Spent
  <2>. QED
    BY <2>1, <2>3, <2>4 DEF Serial!End
<1>6. \/ UNCHANGED <<record, log>>
      \/ \E p \in Process : \/ Complete(p) \/ Abort(p) \/ AbortsCompletion(p)
                            \/ \E o \in Operation, w \in Owner, sc \in Scope, s \in Stage :
                                   Acquire(p, o, w, sc, s)
      \/ \E o \in Operation : RecoverStale(o) \/ AbortOpen(o)
  BY DEF Next, ProcessStep, OperatorStep, Mutate, WriteFails, Exit, Crash, Leaves, vars
<1>. QED
  BY <1>1, <1>2, <1>3, <1>4, <1>5, <1>6 DEF Serial!Next

(* The flock and the durable record implement SerialOperations: operations *)
(* run one after the other, none runs again after its end, and none enters *)
(* one of its stages twice.                                                *)
THEOREM SerialCorrect == Spec => RunsOperationsSerially
<1>1. Init => Serial!Init
  BY DEF Init, Serial!Init, Current, Spent
<1>. QED
  BY <1>1, AuthorityCorrect, StepRefines, PTL DEF Spec, RunsOperationsSerially, Serial!Spec

=============================================================================
