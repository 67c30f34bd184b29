--------------------------- MODULE PipelineRecovery ---------------------------
(***************************************************************************)
(* ResiliencePipeline, deployed, on a host whose interruptions come to an  *)
(* end: up to some moment requests fail or are denied, stores raise and    *)
(* processes are killed between any two writes; from then on none of that  *)
(* happens, and the circuit breaker is closed again.                       *)
(* Nobody promises a scope another attempt: the scope of a timer has the   *)
(* hour of its observation in it, and a worker tries a job as often as its *)
(* retry budget says.  What is asked is that an attempt which does come    *)
(* succeeds on top of whatever the broken ones left in the stores.         *)
(***************************************************************************)
EXTENDS ResiliencePipeline

VARIABLE calm  \* the interruptions are over

recoveryVars == <<vars, calm>>

RecoveryInit == Init /\ calm = FALSE

Calms == ~calm /\ calm' = TRUE /\ UNCHANGED vars

Interrupts(p) == ~calm /\ Breaks(p)

RecoveryNext ==
    \/ Calms
    \/ /\ \/ \E p \in Process :
                Works(p) \/ Interrupts(p) \/ \E r \in Run : BeginFresh(p, r)
          \/ \E r \in Run : Forget(r)
       /\ UNCHANGED calm

(* A process that lives goes on with its run.  No attempt has to begin,    *)
(* and the interruptions do not have to end.                               *)
RecoveryFairness == \A p \in Process : WF_recoveryVars(Works(p) /\ UNCHANGED calm)

RecoverySpec == RecoveryInit /\ [][RecoveryNext]_recoveryVars /\ RecoveryFairness

-----------------------------------------------------------------------------
(* Properties.                                                             *)

\* A process is about to look at the first page of a scope.
Attempts(s) ==
    \E p \in Process : pc[p] = "page" /\ fetched[p] = NoFetch /\ ScopeAt(p) = s

(* Interruptions delay a scope and leave nothing behind that prevents it:  *)
(* every attempt that begins after they ended confirms its scope, whatever *)
(* pages and failed checkpoints it finds, and whatever an attempt that was *)
(* under way at that moment still writes.                                  *)
AttemptConfirms == \A s \in Scope : (calm /\ Attempts(s)) ~> (watermark[s] # None)

=============================================================================
