------------------------ MODULE CommercialCycleProofs ------------------------
(* Theorems about CommercialCycle, for any number of operations, owners,   *)
(* processes and cohorts.                                                  *)
EXTENDS CommercialCycle, CommercialAuthorityProofs

-----------------------------------------------------------------------------
(* The cycle is a client of the authority.                                 *)

(* Whatever run_cycle() does is a step of the authority or leaves it alone. *)
LEMMA CycleStepIsStep == [CycleNext]_cycleVars => [Next]_vars
<1>. SUFFICES ASSUME [CycleNext]_cycleVars PROVE [Next]_vars
  OBVIOUS
<1>1. ASSUME NEW p \in Process, ContactStep(p) PROVE [Next]_vars
  <2>1. CASE Return(p)
    BY <2>1 DEF Return, Next, ProcessStep
  <2>2. CASE ~Return(p)
    BY <1>1, <2>2 DEF ContactStep, Begin, EnqueueCohort, RecordRunning, SeeSettled, Publish,
                      Export, Promote, Fail
  <2>. QED
    BY <2>1, <2>2
<1>2. ASSUME NEW p \in Process, AuthorityStep(p) PROVE [Next]_vars
  BY <1>2 DEF AuthorityStep, Next, ProcessStep
<1>3. CASE OperatorStep
  BY <1>3 DEF Next
<1>4. ASSUME NEW c \in Cohort, Settle(c) PROVE [Next]_vars
  BY <1>4 DEF Settle
<1>5. CASE UNCHANGED cycleVars
  BY <1>5 DEF cycleVars
<1>. QED
  BY <1>1, <1>2, <1>3, <1>4, <1>5 DEF CycleNext

(* Composed with the contact cycle, the authority is still the authority   *)
(* alone: its theorems carry over.                                         *)
THEOREM CycleImplementsAuthority == CycleSpec => Spec
<1>1. CycleInit => Init
  BY DEF CycleInit
<1>. QED
  BY <1>1, CycleStepIsStep, PTL DEF CycleSpec, Spec

-----------------------------------------------------------------------------
(* The inductive invariant.                                                *)

\* run_cycle() only runs inside the claim of a contact stage.
RunsUnderTheClaim == \A p \in Process : run[p] # None => Running(p)

(* A RUNNING state file belongs to an operation whose contact stage was    *)
(* entered, and a stage is entered once: no run ever finds a file of its   *)
(* own operation.                                                          *)
StateIsOfAnEnteredStage ==
    state.status = "RUNNING" => \E i \in DOMAIN log : log[i] = <<state.operation, "contact">>

NothingToResume == \A p \in Process : Running(p) /\ run[p] = None => ~Resumes

\* The effects build on each other.
EffectsInOrder ==
    /\ settled \subseteq enqueued
    /\ approved \subseteq settled
    /\ \A e \in exported : e[1] \in approved

\* What a run has behind it in each of its phases.
PhaseOK ==
    \A p \in Process : run[p] # None =>
        /\ run[p].phase \in {"publish", "export", "promote"} => run[p].cohort \in settled
        /\ run[p].phase \in {"export", "promote"} => run[p].cohort \in approved
        /\ run[p].phase = "promote" => <<run[p].cohort, run[p].prior>> \in exported
        /\ run[p].phase \notin {"finish", "failed"} => run[p].prior = current

\* Between the return of run_cycle() and complete() the state file says so.
ReturnedIsWritten ==
    \A p \in Process :
        pc[p] = "mutated" /\ record.active = "contact" => state.status = "COMPLETED"

CycleInv ==
    /\ AuthorityInv /\ CycleTypeOK
    /\ RunsUnderTheClaim /\ StateIsOfAnEnteredStage /\ NothingToResume
    /\ EffectsInOrder /\ PhaseOK /\ CurrentIsComplete
    /\ ReturnedIsWritten /\ CompletedStageReturned

(* The process in run_cycle() is alone in the plane.                       *)
LEMMA RunningFacts ==
    ASSUME CycleInv, NEW p \in Process, Running(p)
    PROVE  /\ record # None /\ record \in Record /\ record.status = "ACTIVE"
           /\ record.stages["contact"] = "ACTIVE"
           /\ record.operation \in Operation
           /\ \E i \in DOMAIN log : log[i] = <<record.operation, "contact">>
           /\ \A q \in Process : q # p => pc[q] \notin {"running", "mutated"} /\ run[q] = None
<1>1. lock = p /\ lock # None
  BY NoneAssumption DEF CycleInv, AuthorityInv, LockOK, Running
<1>2. /\ record # None /\ record \in Record /\ record.status = "ACTIVE"
      /\ record.stages["contact"] = "ACTIVE"
  BY <1>1 DEF CycleInv, AuthorityInv, TypeOK, LockOK, RecordOK, Running
<1>3. \E i \in DOMAIN log : log[i] = <<record.operation, "contact">>
  BY <1>2 DEF CycleInv, AuthorityInv, StagesWereEntered, Stage, CycleStage
<1>4. \A q \in Process : q # p => pc[q] \notin {"running", "mutated"}
  BY <1>1 DEF CycleInv, AuthorityInv, LockOK
<1>5. \A q \in Process : q # p => run[q] = None
  BY <1>4 DEF CycleInv, RunsUnderTheClaim, Running
<1>. QED
  BY <1>2, <1>3, <1>4, <1>5, RecordFields

(* A run in one of its phases.                                             *)
LEMMA AtFacts ==
    ASSUME CycleInv, NEW p \in Process, NEW phase, At(p, phase)
    PROVE  /\ Running(p) /\ run[p] # None /\ run[p] \in Run /\ run[p].phase = phase
           /\ run[p].cohort \in Cohort /\ run[p].prior \in Cohort \cup {NoCohort}
BY DEF At, CycleInv, CycleTypeOK, Run

-----------------------------------------------------------------------------
(* run_cycle(), from effect to effect.                                     *)

(* A step inside the claim changes nothing for the authority.              *)
LEMMA InsideStep ==
    ASSUME CycleInv, NEW p \in Process, Running(p), UNCHANGED vars,
           NEW r \in Run, run' = [run EXCEPT ![p] = r]
    PROVE  /\ AuthorityInv' /\ RunsUnderTheClaim' /\ NothingToResume' /\ ReturnedIsWritten'
           /\ CompletedStageReturned'
           /\ run' \in [Process -> Run \cup {None}]
           /\ run'[p] = r /\ \A q \in Process : run'[q] # None => q = p
<1>1. /\ \A q \in Process : q # p => pc[q] \notin {"running", "mutated"} /\ run[q] = None
      /\ record.stages["contact"] = "ACTIVE"
  BY RunningFacts
<1>2. run' \in [Process -> Run \cup {None}] /\ run'[p] = r /\ r # None
  BY NoRunAssumption DEF CycleInv, CycleTypeOK
<1>3. \A q \in Process : q # p => run'[q] = run[q]
  BY DEF CycleInv, CycleTypeOK
<1>4. AuthorityInv'
  BY NextPreserves DEF CycleInv
<1>5. \A q \in Process : Running(q)' <=> Running(q)
  BY DEF vars, Running
<1>6. RunsUnderTheClaim' /\ NothingToResume'
  BY <1>1, <1>2, <1>3, <1>5 DEF RunsUnderTheClaim, NothingToResume, Running
<1>7. ReturnedIsWritten' /\ CompletedStageReturned'
  BY <1>1 DEF vars, ReturnedIsWritten, CompletedStageReturned, Running
<1>. QED
  BY <1>1, <1>2, <1>3, <1>4, <1>6, <1>7

LEMMA BeginPreserves ==
    ASSUME CycleInv, NEW p \in Process, Begin(p)
    PROVE  CycleInv'
<1>1. Running(p) /\ run[p] = None /\ ~Resumes /\ UNCHANGED <<vars, files>>
  BY DEF Begin, CycleInv, NothingToResume
<1>2. PICK c \in Cohort :
          /\ Fresh(c)
          /\ run' = [run EXCEPT ![p] = [cohort |-> c, prior |-> current, phase |-> FirstPhase(c)]]
  BY <1>1 DEF Begin
<1>3. ~Projected(c)
  BY <1>2 DEF Fresh, Projected, CycleInv, EffectsInOrder
<1>4. FirstPhase(c) = "enqueue"
  BY <1>1, <1>3 DEF FirstPhase
<1>. DEFINE r == [cohort |-> c, prior |-> current, phase |-> "enqueue"]
<1>5. r \in Run /\ run' = [run EXCEPT ![p] = r]
  BY <1>2, <1>4 DEF CycleInv, CycleTypeOK, Run, Phase
<1>. HIDE DEF r
<1>6. /\ AuthorityInv' /\ RunsUnderTheClaim' /\ NothingToResume' /\ ReturnedIsWritten'
      /\ CompletedStageReturned' /\ run' \in [Process -> Run \cup {None}]
      /\ run'[p] = r /\ \A q \in Process : run'[q] # None => q = p
  BY <1>1, <1>5, InsideStep
<1>7. PhaseOK'
  BY <1>1, <1>6 DEF PhaseOK, files, r
<1>8. CycleTypeOK'
  BY <1>1, <1>6 DEF CycleInv, CycleTypeOK, files, AuthorityInv
<1>9. StateIsOfAnEnteredStage' /\ EffectsInOrder' /\ CurrentIsComplete'
  BY <1>1 DEF CycleInv, StateIsOfAnEnteredStage, EffectsInOrder, CurrentIsComplete, Projected,
              files, vars
<1>. QED
  BY <1>6, <1>7, <1>8, <1>9 DEF CycleInv

(* A run that goes on to its next phase.                                   *)
LEMMA NextPhase ==
    ASSUME CycleInv, NEW p \in Process, NEW a, At(p, a), NEW b \in Phase, GoesTo(p, b),
           UNCHANGED vars
    PROVE  /\ AuthorityInv' /\ RunsUnderTheClaim' /\ NothingToResume' /\ ReturnedIsWritten'
           /\ CompletedStageReturned' /\ run' \in [Process -> Run \cup {None}]
           /\ \A q \in Process : run'[q] # None => q = p
           /\ run'[p].phase = b
           /\ run'[p].cohort = run[p].cohort /\ run'[p].prior = run[p].prior
<1>. DEFINE r == [run[p] EXCEPT !.phase = b]
<1>1. /\ r \in Run /\ r.phase = b /\ r.cohort = run[p].cohort /\ r.prior = run[p].prior
  BY AtFacts DEF Run
<1>2. Running(p) /\ run' = [run EXCEPT ![p] = r]
  BY AtFacts DEF GoesTo
<1>. HIDE DEF r
<1>. QED
  BY <1>1, <1>2, InsideStep

LEMMA PhasePreserves ==
    ASSUME CycleInv, NEW p \in Process,
           \/ EnqueueCohort(p) \/ RecordRunning(p) \/ SeeSettled(p) \/ Publish(p)
           \/ Export(p) \/ Promote(p)
    PROVE  CycleInv'
<1>. DEFINE c == run[p].cohort
<1>1. PICK a \in Phase, b \in Phase : At(p, a) /\ GoesTo(p, b) /\ UNCHANGED vars
  BY DEF EnqueueCohort, RecordRunning, SeeSettled, Publish, Export, Promote, Phase
<1>2. /\ Running(p) /\ run[p] # None /\ run[p] \in Run /\ c \in Cohort
      /\ run[p].prior \in Cohort \cup {NoCohort}
  BY <1>1, AtFacts
<1>3. /\ AuthorityInv' /\ RunsUnderTheClaim' /\ NothingToResume' /\ ReturnedIsWritten'
      /\ CompletedStageReturned' /\ run' \in [Process -> Run \cup {None}]
      /\ \A q \in Process : run'[q] # None => q = p
      /\ run'[p].cohort = c /\ run'[p].prior = run[p].prior
  BY <1>1, NextPhase
<1>4. /\ record.operation \in Operation
      /\ \E i \in DOMAIN log : log[i] = <<record.operation, "contact">>
  BY <1>2, RunningFacts
<1>5. ASSUME CycleTypeOK', StateIsOfAnEnteredStage', EffectsInOrder', PhaseOK', CurrentIsComplete'
      PROVE  CycleInv'
  BY <1>3, <1>5 DEF CycleInv
<1>6. CASE EnqueueCohort(p)
  <2>1. run'[p].phase = "record" /\ UNCHANGED <<vars, state, settled, approved, exported, current>>
        /\ run[p].phase = "enqueue" /\ enqueued' = enqueued \cup {c}
    BY <1>6, NextPhase DEF EnqueueCohort, At, Phase
  <2>. QED
    BY <1>2, <1>3, <1>5, <2>1
       DEF CycleInv, CycleTypeOK, TypeOK, AuthorityInv, StateIsOfAnEnteredStage, EffectsInOrder,
           PhaseOK, CurrentIsComplete, Projected, vars
<1>7. CASE RecordRunning(p)
  <2>1. /\ run'[p].phase = "wait" /\ run[p].phase = "record"
        /\ state' = [status |-> "RUNNING", cohort |-> c, operation |-> record.operation]
        /\ UNCHANGED <<vars, enqueued, settled, approved, exported, current>>
    BY <1>7, NextPhase DEF RecordRunning, At, Phase
  <2>2. state' \in State
    BY <1>2, <1>4, <2>1 DEF State
  <2>3. StateIsOfAnEnteredStage'
    BY <1>4, <2>1 DEF StateIsOfAnEnteredStage, vars
  <2>. QED
    BY <1>2, <1>3, <1>5, <2>1, <2>2, <2>3
       DEF CycleInv, CycleTypeOK, AuthorityInv, EffectsInOrder, PhaseOK, CurrentIsComplete, Projected
<1>8. CASE SeeSettled(p)
  <2>1. /\ run'[p].phase = "publish" /\ run[p].phase = "wait" /\ c \in settled
        /\ UNCHANGED <<vars, files>>
    BY <1>8, NextPhase DEF SeeSettled, At, Phase
  <2>. QED
    BY <1>2, <1>3, <1>5, <2>1
       DEF CycleInv, CycleTypeOK, AuthorityInv, StateIsOfAnEnteredStage, EffectsInOrder,
           PhaseOK, CurrentIsComplete, Projected, vars, files
<1>9. CASE Publish(p)
  <2>1. /\ run'[p].phase = "export" /\ run[p].phase = "publish"
        /\ approved' = approved \cup {c}
        /\ UNCHANGED <<vars, state, enqueued, settled, exported, current>>
    BY <1>9, NextPhase DEF Publish, At, Phase
  <2>2. c \in settled
    BY <1>2, <2>1 DEF CycleInv, PhaseOK
  <2>. QED
    BY <1>2, <1>3, <1>5, <2>1, <2>2
       DEF CycleInv, CycleTypeOK, AuthorityInv, StateIsOfAnEnteredStage, EffectsInOrder,
           PhaseOK, CurrentIsComplete, Projected, vars
<1>10. CASE Export(p)
  <2>1. /\ run'[p].phase = "promote" /\ run[p].phase = "export"
        /\ exported' = exported \cup {<<c, run[p].prior>>}
        /\ UNCHANGED <<vars, state, enqueued, settled, approved, current>>
    BY <1>10, NextPhase DEF Export, At, Phase
  <2>2. c \in settled /\ c \in approved
    BY <1>2, <2>1 DEF CycleInv, PhaseOK
  <2>. QED
    BY <1>2, <1>3, <1>5, <2>1, <2>2
       DEF CycleInv, CycleTypeOK, AuthorityInv, StateIsOfAnEnteredStage, EffectsInOrder,
           PhaseOK, CurrentIsComplete, Projected, vars
<1>11. CASE Promote(p)
  <2>1. /\ run'[p].phase = "finish" /\ run[p].phase = "promote"
        /\ current' = c
        /\ UNCHANGED <<vars, state, enqueued, settled, approved, exported>>
    BY <1>11, NextPhase DEF Promote, At, Phase
  <2>2. c \in settled /\ c \in approved /\ <<c, run[p].prior>> \in exported
    BY <1>2, <2>1 DEF CycleInv, PhaseOK
  <2>3. PhaseOK'
    BY <1>3, <2>1 DEF PhaseOK
  <2>4. CurrentIsComplete'
    BY <2>1, <2>2 DEF CurrentIsComplete, Projected
  <2>. QED
    BY <1>2, <1>3, <1>5, <2>1, <2>3, <2>4
       DEF CycleInv, CycleTypeOK, AuthorityInv, StateIsOfAnEnteredStage, EffectsInOrder, vars
<1>. QED
  BY <1>6, <1>7, <1>8, <1>9, <1>10, <1>11

-----------------------------------------------------------------------------
(* The ends of run_cycle(), and what lies outside of it.                   *)

(* A step after which the process is not in run_cycle() any more.          *)
LEMMA RunEnds ==
    ASSUME CycleInv, NEW p \in Process, run' = [run EXCEPT ![p] = None]
    PROVE  /\ run' \in [Process -> Run \cup {None}] /\ run'[p] = None
           /\ \A q \in Process : q # p => run'[q] = run[q]
BY DEF CycleInv, CycleTypeOK

LEMMA ReturnPreserves ==
    ASSUME CycleInv, NEW p \in Process, Return(p)
    PROVE  CycleInv'
<1>1. /\ Running(p) /\ run' = [run EXCEPT ![p] = None]
      /\ state' = [status |-> "COMPLETED", cohort |-> NoCohort, operation |-> None]
      /\ pc' = [pc EXCEPT ![p] = "mutated"] /\ UNCHANGED <<record, lock, log>>
      /\ UNCHANGED <<enqueued, settled, approved, exported, current>>
  BY AtFacts DEF Return, Mutate
<1>2. \A q \in Process : q # p => pc[q] \notin {"running", "mutated"} /\ run[q] = None
  BY <1>1, RunningFacts
<1>3. \A q \in Process : run'[q] = None
  BY <1>1, <1>2, RunEnds
<1>4. AuthorityInv'
  <2>1. [CycleNext]_cycleVars
    BY DEF CycleNext, ContactStep
  <2>. QED
    BY <2>1, CycleStepIsStep, NextPreserves DEF CycleInv
<1>5. \A q \in Process : pc'[q] # "running"
  BY <1>1, <1>2 DEF CycleInv, AuthorityInv, TypeOK
<1>6. RunsUnderTheClaim' /\ NothingToResume' /\ PhaseOK'
  BY <1>3, <1>5 DEF RunsUnderTheClaim, NothingToResume, PhaseOK, Running
<1>7. CycleTypeOK'
  <2>1. state' \in State
    BY <1>1 DEF State
  <2>2. run' \in [Process -> Run \cup {None}]
    BY <1>1, RunEnds
  <2>. QED
    BY <1>1, <1>4, <2>1, <2>2 DEF CycleInv, CycleTypeOK, AuthorityInv
<1>8. StateIsOfAnEnteredStage' /\ ReturnedIsWritten' /\ CompletedStageReturned'
  BY <1>1 DEF StateIsOfAnEnteredStage, ReturnedIsWritten, CompletedStageReturned
<1>9. EffectsInOrder' /\ CurrentIsComplete'
  BY <1>1 DEF CycleInv, EffectsInOrder, CurrentIsComplete, Projected
<1>. QED
  BY <1>4, <1>6, <1>7, <1>8, <1>9 DEF CycleInv

(* A failure is written down; the claim is still held.                     *)
LEMMA FailPreserves ==
    ASSUME CycleInv, NEW p \in Process, Fail(p)
    PROVE  CycleInv'
<1>1. /\ Running(p) /\ run[p] # None /\ WritesFailure(p) /\ GoesTo(p, "failed")
      /\ UNCHANGED <<vars, enqueued, settled, approved, exported, current>>
  BY DEF Fail
<1>2. At(p, run[p].phase) /\ "failed" \in Phase
  BY <1>1 DEF At, Phase
<1>3. /\ AuthorityInv' /\ RunsUnderTheClaim' /\ NothingToResume' /\ ReturnedIsWritten'
      /\ CompletedStageReturned' /\ run' \in [Process -> Run \cup {None}]
      /\ \A q \in Process : run'[q] # None => q = p
      /\ run'[p].phase = "failed"
  BY <1>1, <1>2, NextPhase
<1>4. run[p].cohort \in Cohort /\ record.operation \in Operation
  BY <1>1, <1>2, AtFacts, RunningFacts
<1>5. CycleTypeOK'
  <2>1. state' \in State
    BY <1>1, <1>4 DEF WritesFailure, State, CycleInv, CycleTypeOK
  <2>. QED
    BY <1>1, <1>3, <2>1 DEF CycleInv, CycleTypeOK, AuthorityInv
<1>6. StateIsOfAnEnteredStage'
  BY <1>1 DEF WritesFailure, StateIsOfAnEnteredStage, CycleInv, vars
<1>7. EffectsInOrder' /\ CurrentIsComplete' /\ PhaseOK'
  BY <1>1, <1>3 DEF CycleInv, EffectsInOrder, CurrentIsComplete, Projected, PhaseOK
<1>. QED
  BY <1>3, <1>5, <1>6, <1>7 DEF CycleInv

(* The files do not depend on the authority, but for what they say of it.  *)
LEMMA OutsidePreserves ==
    ASSUME CycleInv, AuthorityInv', UNCHANGED files,
           run' \in [Process -> Run \cup {None}],
           \A q \in Process : run'[q] # None => run'[q] = run[q],
           \A i \in DOMAIN log : i \in DOMAIN log' /\ log'[i] = log[i],
           RunsUnderTheClaim', NothingToResume', ReturnedIsWritten', CompletedStageReturned'
    PROVE  CycleInv'
<1>1. CycleTypeOK'
  BY DEF CycleInv, CycleTypeOK, AuthorityInv, files
<1>2. StateIsOfAnEnteredStage'
  BY DEF CycleInv, StateIsOfAnEnteredStage, files
<1>3. EffectsInOrder' /\ CurrentIsComplete'
  BY DEF CycleInv, EffectsInOrder, CurrentIsComplete, Projected, files
<1>4. PhaseOK'
  BY DEF CycleInv, PhaseOK, files
<1>. QED
  BY <1>1, <1>2, <1>3, <1>4 DEF CycleInv

(* A stage is claimed: nobody is in run_cycle(), and a contact stage finds *)
(* no state file of its own operation.                                     *)
LEMMA ClaimPreserves ==
    ASSUME CycleInv, AuthorityInv', UNCHANGED files,
           NEW p \in Process, NEW o \in Operation, NEW w \in Owner, NEW sc \in Scope,
           NEW s \in Stage, Acquire(p, o, w, sc, s), run' = [run EXCEPT ![p] = None]
    PROVE  CycleInv'
<1>1. /\ Admits(o, w, sc, s) /\ record' = ActiveRecord(p, o, w, sc, s) /\ lock = None
      /\ pc' = [pc EXCEPT ![p] = "running"] /\ log' = Append(log, <<o, s>>)
      /\ log \in Seq(Operation \X Stage)
  BY DEF Acquire, CycleInv, AuthorityInv, TypeOK
<1>2. /\ record' # None /\ record'.operation = o /\ record'.active = s
      /\ record'.stages = StagesWith(s)
  BY <1>1, ActiveRecordFields, NoneAssumption DEF CycleInv, AuthorityInv, TypeOK
<1>3. \A q \in Process : pc[q] \notin {"running", "mutated"} /\ run[q] = None
  BY <1>1, NoneAssumption DEF CycleInv, AuthorityInv, LockOK, RunsUnderTheClaim, Running
<1>4. run' \in [Process -> Run \cup {None}] /\ \A q \in Process : run'[q] = None
  BY <1>3, RunEnds
<1>5. \A i \in DOMAIN log : i \in DOMAIN log' /\ log'[i] = log[i]
  BY <1>1, AppendProperties, LenProperties
<1>6. RunsUnderTheClaim'
  BY <1>4 DEF RunsUnderTheClaim
<1>7. NothingToResume'
  <2>. SUFFICES ASSUME NEW q \in Process, Running(q)', Resumes' PROVE FALSE
    BY DEF NothingToResume
  <2>1. s = "contact" /\ state.status = "RUNNING" /\ state.operation = o
    BY <1>2 DEF Running, Resumes, files
  <2>2. PICK i \in DOMAIN log : log[i] = <<o, s>>
    BY <2>1 DEF CycleInv, StateIsOfAnEnteredStage
  <2>. QED
    BY <1>1, <2>2, AdmittedIsNew DEF CycleInv
<1>8. ReturnedIsWritten'
  BY <1>1, <1>3 DEF ReturnedIsWritten, CycleInv, AuthorityInv, TypeOK
<1>9. CompletedStageReturned'
  <2>. SUFFICES ASSUME StagesWith(s)["contact"] = "COMPLETED" PROVE state.status = "COMPLETED"
    BY <1>2 DEF CompletedStageReturned, files
  <2>1. "contact" \in Stage
    BY DEF Stage, CycleStage
  <2>2. record # None /\ record.status = "OPEN"
    BY <2>1 DEF StagesWith
  <2>3. record.stages["contact"] = "COMPLETED"
    BY <2>1, <2>2, RecordFields DEF StagesWith, CycleInv, AuthorityInv, TypeOK
  <2>. QED
    BY <2>2, <2>3 DEF CycleInv, CompletedStageReturned
<1>. QED
  BY <1>4, <1>5, <1>6, <1>7, <1>8, <1>9, OutsidePreserves

LEMMA AuthorityStepPreserves ==
    ASSUME CycleInv, NEW p \in Process, AuthorityStep(p)
    PROVE  CycleInv'
<1>1. run' = [run EXCEPT ![p] = None] /\ UNCHANGED files
  BY DEF AuthorityStep
<1>2. /\ run' \in [Process -> Run \cup {None}] /\ run'[p] = None
      /\ \A q \in Process : q # p => run'[q] = run[q]
  BY <1>1, RunEnds
<1>3. AuthorityInv'
  <2>1. [CycleNext]_cycleVars
    BY DEF CycleNext
  <2>. QED
    BY <2>1, CycleStepIsStep, NextPreserves DEF CycleInv
<1>4. /\ pc \in [Process -> {"out", "running", "mutated", "leaving"}]
      /\ \A q \in Process : lock = q <=> pc[q] \in {"running", "mutated"}
  BY DEF CycleInv, AuthorityInv, TypeOK, LockOK
<1>5. ASSUME NEW o \in Operation, NEW w \in Owner, NEW sc \in Scope, NEW s \in Stage,
             Acquire(p, o, w, sc, s)
      PROVE  CycleInv'
  BY <1>1, <1>3, <1>5, ClaimPreserves
<1>6. CASE ~Running(p) /\ Mutate(p)
  <2>1. /\ pc[p] = "running" /\ record.active # "contact"
        /\ pc' = [pc EXCEPT ![p] = "mutated"] /\ UNCHANGED <<record, lock, log>>
    BY <1>6 DEF Mutate, Running
  <2>2. \A q \in Process : ~Running(q) /\ ~Running(q)' /\ run[q] = None /\ run'[q] = None
    BY <1>2, <2>1 DEF CycleInv, RunsUnderTheClaim, Running
  <2>3. /\ RunsUnderTheClaim' /\ NothingToResume' /\ ReturnedIsWritten'
        /\ CompletedStageReturned'
    BY <1>1, <2>1, <2>2 DEF CycleInv, RunsUnderTheClaim, NothingToResume, ReturnedIsWritten,
                            CompletedStageReturned, files
  <2>. QED
    BY <1>1, <1>2, <1>3, <2>1, <2>2, <2>3, OutsidePreserves
<1>7. CASE \/ ~Running(p) /\ (Complete(p) \/ AbortsCompletion(p))
           \/ Abort(p) \/ WriteFails(p)
  <2>1. /\ pc[p] \in {"running", "mutated"} /\ Leaves(p) /\ log' = log
        /\ \A q \in Process : pc'[q] \notin {"running", "mutated"}
        /\ record \in Record /\ record.active \in Stage
    BY <1>7, LeavesPreserves DEF CycleInv, Complete, AbortsCompletion, Abort, WriteFails
  <2>2. \A q \in Process : run'[q] = None
    BY <1>2, <1>4, <2>1 DEF CycleInv, RunsUnderTheClaim, Running
  <2>3. RunsUnderTheClaim' /\ NothingToResume' /\ ReturnedIsWritten'
    BY <2>1, <2>2 DEF RunsUnderTheClaim, NothingToResume, ReturnedIsWritten, Running
  <2>4. CompletedStageReturned'
    <3>1. CASE WriteFails(p)
      BY <1>1, <3>1 DEF WriteFails, CycleInv, CompletedStageReturned, files
    <3>2. ASSUME NEW a \in {"COMPLETED", "ABORTED"}, NEW b \in {"OPEN", "COMPLETED", "ABORTED"},
                 record' = Closed(a, b),
                 a = "COMPLETED" => pc[p] = "mutated"
          PROVE  CompletedStageReturned'
      <4>. SUFFICES ASSUME Closed(a, b).stages["contact"] = "COMPLETED"
                    PROVE  state.status = "COMPLETED"
        BY <1>1, <3>2 DEF CompletedStageReturned, files
      <4>1. [record.stages EXCEPT ![record.active] = a]["contact"] = "COMPLETED"
        BY <2>1, <3>2, ClosedRecord
      <4>2. \/ record.active = "contact" /\ a = "COMPLETED"
            \/ record.stages["contact"] = "COMPLETED"
        BY <2>1, <4>1, RecordFields DEF Stage, CycleStage
      <4>. QED
        BY <2>1, <3>2, <4>2, NoneAssumption DEF CycleInv, ReturnedIsWritten, CompletedStageReturned
    <3>3. CASE Complete(p) \/ AbortsCompletion(p) \/ Abort(p)
      BY <3>2, <3>3 DEF Complete, AbortsCompletion, Abort
    <3>. QED
      BY <1>7, <3>1, <3>3
  <2>. QED
    BY <1>1, <1>2, <1>3, <2>1, <2>2, <2>3, <2>4, OutsidePreserves
<1>8. CASE Exit(p) \/ Crash(p)
  <2>1. pc' = [pc EXCEPT ![p] = "out"] /\ UNCHANGED <<record, log>>
    BY <1>8 DEF Exit, Crash
  <2>2. \A q \in Process : /\ q = p => ~Running(q)' /\ pc'[q] # "mutated"
                           /\ q # p => (Running(q)' <=> Running(q)) /\ pc'[q] = pc[q]
    BY <1>4, <2>1 DEF Running
  <2>3. RunsUnderTheClaim' /\ NothingToResume'
    BY <1>1, <1>2, <2>1, <2>2 DEF CycleInv, RunsUnderTheClaim, NothingToResume, Resumes, files
  <2>4. ReturnedIsWritten' /\ CompletedStageReturned'
    BY <1>1, <2>1, <2>2 DEF CycleInv, ReturnedIsWritten, CompletedStageReturned, files
  <2>. QED
    BY <1>1, <1>2, <1>3, <2>1, <2>3, <2>4, OutsidePreserves
<1>. QED
  BY <1>5, <1>6, <1>7, <1>8 DEF AuthorityStep

LEMMA OperatorStepPreserves ==
    ASSUME CycleInv, OperatorStep, UNCHANGED <<files, run>>
    PROVE  CycleInv'
<1>1. AuthorityInv'
  BY NextPreserves DEF CycleInv, Next
<1>2. PICK o \in Operation : RecoverStale(o) \/ AbortOpen(o)
  BY DEF OperatorStep
<1>3. lock = None /\ UNCHANGED <<pc, log>> /\ record # None /\ record \in Record
  BY <1>2 DEF RecoverStale, AbortOpen, CycleInv, AuthorityInv, TypeOK
<1>4. \A q \in Process : pc[q] \notin {"running", "mutated"} /\ run[q] = None
  BY <1>3, NoneAssumption DEF CycleInv, AuthorityInv, LockOK, RunsUnderTheClaim, Running
<1>5. RunsUnderTheClaim' /\ NothingToResume' /\ ReturnedIsWritten'
  BY <1>3, <1>4 DEF RunsUnderTheClaim, NothingToResume, ReturnedIsWritten, Running
<1>6. record'.stages["contact"] = "COMPLETED" => record.stages["contact"] = "COMPLETED"
  <2>1. CASE RecoverStale(o)
    <3>1. record.active \in Stage /\ record' = Closed("ABORTED", "ABORTED")
      BY <2>1 DEF RecoverStale, CycleInv, AuthorityInv, RecordOK
    <3>2. record'.stages = [record.stages EXCEPT ![record.active] = "ABORTED"]
      BY <1>3, <3>1, ClosedRecord
    <3>. QED
      BY <1>3, <3>2, RecordFields DEF Stage, CycleStage
  <2>2. CASE AbortOpen(o)
    BY <1>3, <2>2 DEF AbortOpen, Record
  <2>. QED
    BY <1>2, <2>1, <2>2
<1>7. CompletedStageReturned'
  BY <1>3, <1>6 DEF CycleInv, CompletedStageReturned, files
<1>8. run' \in [Process -> Run \cup {None}]
  BY DEF CycleInv, CycleTypeOK
<1>. QED
  BY <1>1, <1>3, <1>5, <1>7, <1>8, OutsidePreserves

LEMMA SettlePreserves ==
    ASSUME CycleInv, NEW c \in Cohort, Settle(c)
    PROVE  CycleInv'
<1>1. /\ c \in enqueued /\ settled' = settled \cup {c}
      /\ UNCHANGED <<vars, run, state, enqueued, approved, exported, current>>
  BY DEF Settle
<1>2. AuthorityInv'
  BY <1>1, NextPreserves DEF CycleInv
<1>3. CycleTypeOK'
  BY <1>1, <1>2 DEF CycleInv, CycleTypeOK, AuthorityInv
<1>4. /\ RunsUnderTheClaim' /\ StateIsOfAnEnteredStage' /\ NothingToResume'
      /\ ReturnedIsWritten' /\ CompletedStageReturned'
  BY <1>1 DEF CycleInv, RunsUnderTheClaim, StateIsOfAnEnteredStage, NothingToResume, Resumes,
              ReturnedIsWritten, CompletedStageReturned, Running, vars
<1>5. EffectsInOrder' /\ PhaseOK' /\ CurrentIsComplete'
  BY <1>1 DEF CycleInv, EffectsInOrder, PhaseOK, CurrentIsComplete, Projected
<1>. QED
  BY <1>2, <1>3, <1>4, <1>5 DEF CycleInv

-----------------------------------------------------------------------------
(* The theorems.                                                           *)

LEMMA CycleInitEstablishes == CycleInit => CycleInv
<1>. SUFFICES ASSUME CycleInit PROVE CycleInv
  OBVIOUS
<1>1. AuthorityInv
  BY InitEstablishes DEF CycleInit
<1>2. CycleTypeOK
  BY <1>1 DEF CycleInit, CycleTypeOK, AuthorityInv, State
<1>3. /\ RunsUnderTheClaim /\ StateIsOfAnEnteredStage /\ NothingToResume /\ EffectsInOrder
      /\ PhaseOK /\ CurrentIsComplete
  BY DEF CycleInit, RunsUnderTheClaim, StateIsOfAnEnteredStage, NothingToResume, Resumes,
         EffectsInOrder, PhaseOK, CurrentIsComplete
<1>4. ReturnedIsWritten /\ CompletedStageReturned
  BY DEF CycleInit, Init, ReturnedIsWritten, CompletedStageReturned
<1>. QED
  BY <1>1, <1>2, <1>3, <1>4 DEF CycleInv

LEMMA CycleNextPreserves == CycleInv /\ [CycleNext]_cycleVars => CycleInv'
<1>. SUFFICES ASSUME CycleInv, [CycleNext]_cycleVars PROVE CycleInv'
  OBVIOUS
<1>1. ASSUME NEW p \in Process, ContactStep(p) PROVE CycleInv'
  BY <1>1, BeginPreserves, PhasePreserves, ReturnPreserves, FailPreserves DEF ContactStep
<1>2. ASSUME NEW p \in Process, AuthorityStep(p) PROVE CycleInv'
  BY <1>2, AuthorityStepPreserves
<1>3. CASE OperatorStep /\ UNCHANGED <<files, run>>
  BY <1>3, OperatorStepPreserves
<1>4. ASSUME NEW c \in Cohort, Settle(c) PROVE CycleInv'
  BY <1>4, SettlePreserves
<1>5. CASE UNCHANGED cycleVars
  <2>1. UNCHANGED vars /\ UNCHANGED files /\ run' = run
    BY <1>5 DEF cycleVars
  <2>2. AuthorityInv'
    BY <2>1, NextPreserves DEF CycleInv
  <2>3. /\ RunsUnderTheClaim' /\ NothingToResume' /\ ReturnedIsWritten'
        /\ CompletedStageReturned' /\ log' = log
    BY <2>1 DEF CycleInv, RunsUnderTheClaim, NothingToResume, Resumes, ReturnedIsWritten,
                CompletedStageReturned, Running, vars, files
  <2>4. run' \in [Process -> Run \cup {None}]
    BY <2>1 DEF CycleInv, CycleTypeOK
  <2>. QED
    BY <2>1, <2>2, <2>3, <2>4, OutsidePreserves
<1>. QED
  BY <1>1, <1>2, <1>3, <1>4, <1>5 DEF CycleNext

(* The strengthening of the theorems below holds for every instance.       *)
THEOREM CycleCorrect == CycleSpec => []CycleInv
BY CycleInitEstablishes, CycleNextPreserves, PTL DEF CycleSpec

(* The files of the cycle and the local state of its runs keep their types. *)
THEOREM CycleTypeCorrect == CycleSpec => []CycleTypeOK
<1>1. CycleInv => CycleTypeOK
  BY DEF CycleInv
<1>. QED
  BY <1>1, CycleCorrect, PTL

(* The published link never names a cohort that is not settled, approved   *)
(* and exported, wherever run_cycle() is killed.                           *)
THEOREM CurrentCorrect == CycleSpec => []CurrentIsComplete
<1>1. CycleInv => CurrentIsComplete
  BY DEF CycleInv
<1>. QED
  BY <1>1, CycleCorrect, PTL

(* A contact stage that the authority counts as complete left its state    *)
(* file COMPLETED.                                                         *)
THEOREM ReturnCorrect == CycleSpec => []CompletedStageReturned
<1>1. CycleInv => CompletedStageReturned
  BY DEF CycleInv
<1>. QED
  BY <1>1, CycleCorrect, PTL

(* The link only turns to a projection that was merged with the one it     *)
(* replaces: the claim keeps every other promotion out in between.         *)
THEOREM PromotionCorrect == CycleSpec => PromotesOnItsPrior
<1>1. CycleInv /\ [CycleNext]_cycleVars => [current' # current => <<current', current>> \in exported]_cycleVars
  <2>. SUFFICES ASSUME CycleInv, [CycleNext]_cycleVars, current' # current
                PROVE  <<current', current>> \in exported
    OBVIOUS
  <2>1. PICK p \in Process : Promote(p)
    BY DEF CycleNext, ContactStep, Begin, EnqueueCohort, RecordRunning, SeeSettled, Publish, Export,
           Return, Fail, AuthorityStep, Settle, files, cycleVars
  <2>2. run[p] # None /\ run[p].phase = "promote" /\ current' = run[p].cohort
    BY <2>1 DEF Promote, At
  <2>. QED
    BY <2>2 DEF CycleInv, PhaseOK
<1>. QED
  BY <1>1, CycleCorrect, PTL DEF CycleSpec, PromotesOnItsPrior

(* Composed with the contact cycle, the authority still runs operations    *)
(* serially.                                                               *)
THEOREM CycleSerial == CycleSpec => RunsOperationsSerially
BY CycleImplementsAuthority, SerialCorrect

(* And it still continues cycles in their order.                           *)
THEOREM CycleInOrder == CycleSpec => []CycleContinuesInOrder
BY CycleImplementsAuthority, OrderCorrect

=============================================================================
