---------------------------- MODULE CommercialCycle ----------------------------
(***************************************************************************)
(* The contact cycle (scripts/ops/confenge_contact_cycle.py) as the body   *)
(* of the stage "contact" of CommercialAuthority.  run_cycle() creates or  *)
(* resumes a cohort of the contact batch queue, waits until every job of   *)
(* it is terminal, publishes the snapshot, exports the projection on top   *)
(* of the one it found at its start and turns the link                     *)
(* contact-discovery/current to it; a state file says how far it came.     *)
(* The process may die between any two of those effects.                   *)
(*                                                                         *)
(* A cohort is a number, in the order of the timestamps in their names.    *)
(***************************************************************************)
EXTENDS CommercialAuthority

CONSTANT MaxCohort  \* bound: cohorts that are created

ASSUME MaxCohortAssumption == MaxCohort \in Nat \ {0}

Cohort == 1 .. MaxCohort

NoCohort == 0  \* no cohort; no link yet

State == [status : {"none", "RUNNING", "FAILED", "COMPLETED"},
          cohort : Cohort \cup {NoCohort},
          operation : Operation \cup {None}]

Phase == {"enqueue", "record", "wait", "publish", "export", "promote", "finish", "failed"}

Run == [cohort : Cohort, prior : Cohort \cup {NoCohort}, phase : Phase]

ASSUME NoRunAssumption == None \notin Run

VARIABLES
    state,     \* cycle-state.json
    enqueued,  \* cohorts whose jobs are in the batch queue
    settled,   \* cohorts all jobs of which are terminal
    approved,  \* cohorts with an approved snapshot
    exported,  \* projection directories, <<cohort, the projection it builds on>>
    current,   \* the cohort the link points to
    run        \* the local state of run_cycle() in each process

files == <<state, enqueued, settled, approved, exported, current>>

cycleVars == <<vars, files, run>>

CycleInit ==
    /\ Init
    /\ state = [status |-> "none", cohort |-> NoCohort, operation |-> None]
    /\ enqueued = {} /\ settled = {} /\ approved = {} /\ exported = {}
    /\ current = NoCohort
    /\ run = [p \in Process |-> None]

-----------------------------------------------------------------------------
(* run_cycle(), from effect to effect.                                     *)

Running(p) == pc[p] = "running" /\ record.active = "contact"

At(p, phase) == Running(p) /\ run[p] # None /\ run[p].phase = phase

GoesTo(p, phase) == run' = [run EXCEPT ![p].phase = phase]

Projected(c) == \E e \in exported : e[1] = c

Resumes == state.status = "RUNNING" /\ state.operation = record.operation

\* The name of a new cohort is the time of its run.
Fresh(c) ==
    /\ c \notin enqueued
    /\ \A p \in Process : run[p] # None => run[p].cohort # c
    /\ \A d \in Cohort : d < c => d \in enqueued

(* A resumed cohort continues behind what is already there: its projection *)
(* or its jobs.                                                            *)
FirstPhase(c) ==
    IF Projected(c) THEN "promote"
    ELSE IF Resumes /\ c \in enqueued THEN "record"
    ELSE "enqueue"

Begin(p) ==
    /\ Running(p)
    /\ run[p] = None
    /\ \E c \in Cohort :
          /\ IF Resumes THEN c = state.cohort ELSE Fresh(c)
          /\ run' = [run EXCEPT ![p] = [cohort |-> c, prior |-> current, phase |-> FirstPhase(c)]]
    /\ UNCHANGED <<vars, files>>

\* batch enqueue; jobs it already inserted are found again.
EnqueueCohort(p) ==
    /\ At(p, "enqueue")
    /\ enqueued' = enqueued \cup {run[p].cohort}
    /\ GoesTo(p, "record")
    /\ UNCHANGED <<vars, state, settled, approved, exported, current>>

RecordRunning(p) ==
    /\ At(p, "record")
    /\ state' = [status |-> "RUNNING", cohort |-> run[p].cohort, operation |-> record.operation]
    /\ GoesTo(p, "wait")
    /\ UNCHANGED <<vars, enqueued, settled, approved, exported, current>>

\* batch progress counts no active job; until then the loop polls.
SeeSettled(p) ==
    /\ At(p, "wait")
    /\ run[p].cohort \in settled
    /\ GoesTo(p, "publish")
    /\ UNCHANGED <<vars, files>>

\* Mutant: the answer of batch publish is not looked at.
PublishUnchecked(p) ==
    /\ At(p, "publish")
    /\ \/ approved' = approved \cup {run[p].cohort}
       \/ UNCHANGED approved
    /\ GoesTo(p, "export")
    /\ UNCHANGED <<vars, state, enqueued, settled, exported, current>>

(* batch publish approves the snapshot; a rejected one makes run_cycle()   *)
(* raise, which is Fail.                                                   *)
Publish(p) ==
    /\ At(p, "publish")
    /\ approved' = approved \cup {run[p].cohort}
    /\ GoesTo(p, "export")
    /\ UNCHANGED <<vars, state, enqueued, settled, exported, current>>

\* Mutant: the projection is exported without --prior-contacts.
ExportAlone(p) ==
    /\ At(p, "export")
    /\ exported' = exported \cup {<<run[p].cohort, NoCohort>>}
    /\ GoesTo(p, "promote")
    /\ UNCHANGED <<vars, state, enqueued, settled, approved, current>>

\* batch export-contacts into a staging directory, and its rename.
Export(p) ==
    /\ At(p, "export")
    /\ exported' = exported \cup {<<run[p].cohort, run[p].prior>>}
    /\ GoesTo(p, "promote")
    /\ UNCHANGED <<vars, state, enqueued, settled, approved, current>>

\* _promote_projection()
Promote(p) ==
    /\ At(p, "promote")
    /\ current' = run[p].cohort
    /\ GoesTo(p, "finish")
    /\ UNCHANGED <<vars, state, enqueued, settled, approved, exported>>

\* The state file, and run_cycle() returns to main().
Return(p) ==
    /\ At(p, "finish")
    /\ state' = [status |-> "COMPLETED", cohort |-> NoCohort, operation |-> None]
    /\ run' = [run EXCEPT ![p] = None]
    /\ Mutate(p)
    /\ UNCHANGED <<enqueued, settled, approved, exported, current>>

\* The except clause; an error while it writes the state file leaves the old one.
WritesFailure(p) ==
    \/ state' = [status |-> "FAILED", cohort |-> run[p].cohort, operation |-> record.operation]
    \/ UNCHANGED state

\* Mutant: main() completes the claim although run_cycle() raised.
FailUnnoticed(p) ==
    /\ Running(p)
    /\ run[p] # None
    /\ WritesFailure(p)
    /\ run' = [run EXCEPT ![p] = None]
    /\ Mutate(p)
    /\ UNCHANGED <<enqueued, settled, approved, exported, current>>

(* Any effect may raise, a snapshot is rejected, the wait times out: the   *)
(* failure is written down, and the exception goes on to the authority.    *)
Fail(p) ==
    /\ Running(p)
    /\ run[p] # None
    /\ run[p].phase # "failed"
    /\ WritesFailure(p)
    /\ GoesTo(p, "failed")
    /\ UNCHANGED <<vars, enqueued, settled, approved, exported, current>>

ContactStep(p) ==
    \/ Begin(p) \/ EnqueueCohort(p) \/ RecordRunning(p) \/ SeeSettled(p) \/ Publish(p)
    \/ Export(p) \/ Promote(p) \/ Return(p) \/ Fail(p)

\* run_cycle() raised: behind its except clause, or before it entered its try.
Raised(p) == run[p] # None => run[p].phase = "failed"

\* What a process does outside run_cycle(), and its death anywhere.
AuthorityStep(p) ==
    /\ \/ \E o \in Operation, w \in Owner, sc \in Scope, s \in Stage : Acquire(p, o, w, sc, s)
       \/ ~Running(p) /\ (Mutate(p) \/ Complete(p) \/ AbortsCompletion(p))
       \/ (Running(p) => Raised(p)) /\ (Abort(p) \/ WriteFails(p))
       \/ Exit(p)
       \/ Crash(p)
    /\ run' = [run EXCEPT ![p] = None]
    /\ UNCHANGED files

(* The workers of the batch queue end the last job of a cohort.  An        *)
(* operator may reopen jobs of it, which is not modelled.                  *)
Settle(c) ==
    /\ c \in enqueued
    /\ settled' = settled \cup {c}
    /\ UNCHANGED <<vars, run, state, enqueued, approved, exported, current>>

CycleNext ==
    \/ \E p \in Process : ContactStep(p) \/ AuthorityStep(p)
    \/ OperatorStep /\ UNCHANGED <<files, run>>
    \/ \E c \in Cohort : Settle(c)

CycleSpec == CycleInit /\ [][CycleNext]_cycleVars

-----------------------------------------------------------------------------
(* Properties.                                                             *)

CycleTypeOK ==
    /\ TypeOK
    /\ state \in State
    /\ enqueued \subseteq Cohort /\ settled \subseteq Cohort /\ approved \subseteq Cohort
    /\ exported \subseteq Cohort \X (Cohort \cup {NoCohort})
    /\ current \in Cohort \cup {NoCohort}
    /\ run \in [Process -> Run \cup {None}]

(* "A failed or partial run never replaces the last complete projection":  *)
(* the link names a cohort whose jobs all settled, whose snapshot was      *)
(* approved and whose directory is complete, through every crash.          *)
CurrentIsComplete ==
    current # NoCohort => current \in settled \cap approved /\ Projected(current)

(* No contact is lost between two cycles: the link only turns to a         *)
(* projection that was merged with the one it replaces, so it never goes   *)
(* back either.                                                            *)
PromotesOnItsPrior == [][current' # current => <<current', current>> \in exported]_cycleVars

(* The two files agree: when the authority says that the contact stage of  *)
(* its operation is complete, the cycle's own state file does so too.      *)
CompletedStageReturned ==
    record # None /\ record.stages["contact"] = "COMPLETED" => state.status = "COMPLETED"

=============================================================================
