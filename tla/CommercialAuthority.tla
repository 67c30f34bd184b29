-------------------------- MODULE CommercialAuthority --------------------------
(***************************************************************************)
(* The authority every mutation of the commercial plane runs under         *)
(* (scripts/ops/confenge_commercial_mutex.py): a kernel flock that at most *)
(* one process holds, next to a durable JSON record of the operation, its  *)
(* stages and the operations before it.  The record is written with the    *)
(* lock held and replaced atomically, so reading it, deciding and writing  *)
(* it is one step; a crash between two of those changes nothing but the    *)
(* lock.  A process that is refused leaves no trace (exit 75).             *)
(*                                                                         *)
(* A process is a pid together with its start ticks: _owner_is_live()      *)
(* never takes a later process for the one the record names.               *)
(***************************************************************************)
EXTENDS Naturals, Sequences, FiniteSets

CONSTANTS
    Operation,  \* operation ids
    Owner,      \* operation_owner_id values
    Process,    \* processes that run a stage
    None        \* null in the record; no process

CycleStage == {"refresh", "reconcile", "contact", "feed"}

Stage == CycleStage \cup {"probe"}

\* The stages that CYCLE_STAGES lists before a stage.
Earlier(s) ==
    CASE s = "reconcile" -> {"refresh"}
      [] s = "contact" -> {"refresh", "reconcile"}
      [] s = "feed" -> {"refresh", "reconcile", "contact"}
      [] OTHER -> {}

Scope == {"stage", "cycle"}

RecordStatus == {"ACTIVE", "OPEN", "COMPLETED", "ABORTED"}

StageStatus == {"absent", "ACTIVE", "COMPLETED", "ABORTED"}

Tombstone == {"absent", "COMPLETED", "ABORTED"}

Record ==
    [operation : Operation, reserver : Owner, scope : Scope, status : RecordStatus,
     active : Stage \cup {None}, owner : Process \cup {None},
     stages : [Stage -> StageStatus], history : [Operation -> Tombstone]]

ASSUME NoneAssumption == None \notin Operation \cup Process \cup Stage \cup Record

VARIABLES
    record,  \* authority.json
    lock,    \* the process that holds the flock on authority.lock
    pc,      \* where each process is
    log      \* the protected bodies that were entered, <<operation, stage>>

vars == <<record, lock, pc, log>>

Init ==
    /\ record = None
    /\ lock = None
    /\ pc = [p \in Process |-> "out"]
    /\ log = <<>>

-----------------------------------------------------------------------------
(* acquire_stage().                                                        *)

Completed(stages) == {s \in CycleStage : stages[s] = "COMPLETED"}

\* Mutant: the next stage only has to be one that is not completed yet.
ContinuesInAnyOrder(o, w, sc, s) ==
    /\ record.status = "OPEN"
    /\ record.operation = o /\ record.reserver = w /\ sc = "cycle"
    /\ record.stages[s] # "COMPLETED"

(* An OPEN cycle only goes on under its own id, scope and owner, with the  *)
(* stage after the completed ones; when those are not a prefix of          *)
(* CYCLE_STAGES no stage is accepted any more.                             *)
Continues(o, w, sc, s) ==
    /\ record.status = "OPEN"
    /\ record.operation = o /\ record.reserver = w /\ sc = "cycle"
    /\ Earlier(s) = Completed(record.stages)

Succeeds(o) == record.status \in {"COMPLETED", "ABORTED"} /\ record.operation # o

\* Mutant: an ACTIVE record that a crash left unlocked is taken over.
AdmitsStale(o, w, sc, s) ==
    /\ sc = "cycle" => s \in CycleStage
    /\ record # None => /\ record.history[o] = "absent"
                        /\ record.status = "ACTIVE" \/ Continues(o, w, sc, s) \/ Succeeds(o)

Admits(o, w, sc, s) ==
    /\ sc = "cycle" => s \in CycleStage
    /\ record # None => /\ record.history[o] = "absent"
                        /\ Continues(o, w, sc, s) \/ Succeeds(o)

\* Mutant: only the operation before this one is remembered.
LastOperationOnly(o) ==
    [h \in Operation |-> IF record # None /\ record.operation = h /\ h # o
                         THEN record.status ELSE "absent"]

History(o) ==
    IF record = None THEN [h \in Operation |-> "absent"]
    ELSE IF record.operation = o THEN record.history
    ELSE [record.history EXCEPT ![record.operation] = record.status]

StagesWith(s) ==
    IF record # None /\ record.status = "OPEN"
    THEN [record.stages EXCEPT ![s] = "ACTIVE"]
    ELSE [t \in Stage |-> IF t = s THEN "ACTIVE" ELSE "absent"]

ActiveRecord(p, o, w, sc, s) ==
    [operation |-> o, reserver |-> w, scope |-> sc, status |-> "ACTIVE",
     active |-> s, owner |-> p, stages |-> StagesWith(s), history |-> History(o)]

Acquire(p, o, w, sc, s) ==
    /\ pc[p] = "out"
    /\ lock = None
    /\ Admits(o, w, sc, s)
    /\ record' = ActiveRecord(p, o, w, sc, s)
    /\ lock' = p
    /\ pc' = [pc EXCEPT ![p] = "running"]
    /\ log' = Append(log, <<o, s>>)

-----------------------------------------------------------------------------
(* The stage that holds the claim, and the end of its with block.          *)

\* The protected body succeeded; complete() has not been called yet.
Mutate(p) ==
    /\ pc[p] = "running"
    /\ pc' = [pc EXCEPT ![p] = "mutated"]
    /\ UNCHANGED <<record, lock, log>>

\* The record with its active stage closed, and with it perhaps the operation.
Closed(stageStatus, status) ==
    [record EXCEPT !.status = status,
                   !.active = None,
                   !.owner = None,
                   !.stages = [@ EXCEPT ![record.active] = stageStatus]]

LastStage == record.scope = "stage" \/ record.active = "feed"

Leaves(p) ==
    /\ lock' = None
    /\ pc' = [pc EXCEPT ![p] = "leaving"]
    /\ UNCHANGED log

\* complete(), then __exit__() gives the lock back.
Complete(p) ==
    /\ pc[p] = "mutated"
    /\ record' = Closed("COMPLETED", IF LastStage THEN "COMPLETED" ELSE "OPEN")
    /\ Leaves(p)

(* __exit__() without complete(): the body raised or reported an error,    *)
(* which it may do after its last effect.                                  *)
Abort(p) ==
    /\ pc[p] \in {"running", "mutated"}
    /\ record' = Closed("ABORTED", "ABORTED")
    /\ Leaves(p)

(* _atomic_json() raises in complete(), where the claim's own copy of the  *)
(* record has its stage closed already, and abort() writes that copy as    *)
(* ABORTED: the stage stays COMPLETED, and a stage named "None", which     *)
(* nothing asks for, is closed next to it.                                 *)
AbortsCompletion(p) ==
    /\ pc[p] = "mutated"
    /\ record' = Closed("COMPLETED", "ABORTED")
    /\ Leaves(p)

\* _atomic_json() raises in the last of complete() and abort(): the record stays.
WriteFails(p) ==
    /\ pc[p] \in {"running", "mutated"}
    /\ UNCHANGED record
    /\ Leaves(p)

Exit(p) ==
    /\ pc[p] = "leaving"
    /\ pc' = [pc EXCEPT ![p] = "out"]
    /\ UNCHANGED <<record, lock, log>>

\* The process dies; the kernel drops its lock.
Crash(p) ==
    /\ pc[p] # "out"
    /\ pc' = [pc EXCEPT ![p] = "out"]
    /\ lock' = IF lock = p THEN None ELSE lock
    /\ UNCHANGED <<record, log>>

-----------------------------------------------------------------------------
(* The operator's commands, which take the lock like any other process.    *)

OwnerIsLive == pc[record.owner] # "out"

\* recover_stale_authority()
RecoverStale(o) ==
    /\ lock = None
    /\ record # None
    /\ record.operation = o
    /\ record.status = "ACTIVE"
    /\ ~OwnerIsLive
    /\ record' = Closed("ABORTED", "ABORTED")
    /\ UNCHANGED <<lock, pc, log>>

\* abort_open_authority()
AbortOpen(o) ==
    /\ lock = None
    /\ record # None
    /\ record.operation = o
    /\ record.status = "OPEN"
    /\ record' = [record EXCEPT !.status = "ABORTED"]
    /\ UNCHANGED <<lock, pc, log>>

ProcessStep(p) ==
    \/ \E o \in Operation, w \in Owner, sc \in Scope, s \in Stage : Acquire(p, o, w, sc, s)
    \/ Mutate(p) \/ Complete(p) \/ Abort(p) \/ AbortsCompletion(p) \/ WriteFails(p)
    \/ Exit(p) \/ Crash(p)

OperatorStep == \E o \in Operation : RecoverStale(o) \/ AbortOpen(o)

Next == (\E p \in Process : ProcessStep(p)) \/ OperatorStep

Spec == Init /\ [][Next]_vars

-----------------------------------------------------------------------------
(* Properties.                                                             *)

TypeOK ==
    /\ record \in Record \cup {None}
    /\ lock \in Process \cup {None}
    /\ pc \in [Process -> {"out", "running", "mutated", "leaving"}]
    /\ log \in Seq(Operation \X Stage)

(* The record as an abstract operation: it is under way while it is ACTIVE *)
(* or OPEN, and it is spent once it is terminal or only in the history.    *)
Current ==
    IF record # None /\ record.status \in {"ACTIVE", "OPEN"} THEN record.operation ELSE None

Spent ==
    IF record = None THEN {}
    ELSE {o \in Operation : \/ record.history[o] # "absent"
                            \/ o = record.operation /\ record.status \in {"COMPLETED", "ABORTED"}}

Serial == INSTANCE SerialOperations WITH current <- Current, spent <- Spent

(* "An aborted operation cannot be reused", "a retry was deduplicated      *)
(* before reaching its mutation", and no second operation enters between   *)
(* two stages of a reserved cycle: the record and the lock implement       *)
(* SerialOperations through every crash, recovery and failed write.        *)
RunsOperationsSerially == Serial!Spec

(* A cycle goes on in the order of CYCLE_STAGES: a stage is entered after  *)
(* another one of its operation only directly behind the stage before it,  *)
(* whose effects are recorded as complete.                                 *)
CycleContinuesInOrder ==
    \A i, j \in DOMAIN log :
        i < j /\ log[i][1] = log[j][1] =>
            \A s \in Earlier(log[j][2]) : \E k \in DOMAIN log : k < j /\ log[k] = <<log[j][1], s>>

=============================================================================
