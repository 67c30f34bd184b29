------------------------ MODULE PipelineRecoveryProofs ------------------------
(* Theorems about PipelineRecovery, for any number of scopes, runs and     *)
(* processes.                                                              *)
EXTENDS PipelineRecovery, ResiliencePipelineProofs

(* Whether the interruptions are over only takes steps away.               *)
LEMMA RecoveryStepIsDeployed == [RecoveryNext]_recoveryVars => [DeployedNext]_vars
BY DEF RecoveryNext, recoveryVars, Calms, Interrupts, DeployedNext

(* The pipeline that comes to rest is the deployed pipeline: what holds of *)
(* every behaviour of the one holds of the other.                          *)
THEOREM RecoveryIsDeployed == RecoverySpec => DeployedSpec
<1>1. RecoveryInit => Init
  BY DEF RecoveryInit
<1>. QED
  BY <1>1, RecoveryStepIsDeployed, PTL DEF RecoverySpec, DeployedSpec

(* The watermark that an attempt ends with when the interruptions are over *)
(* (AttemptConfirms) is no empty promise: if a window is crawled for one   *)
(* target, its pages are in the database, and evidence, ledger and         *)
(* run-level checkpoint agree with it.                                     *)
THEOREM ConfirmedIsCovered ==
    OneTargetPerWindow =>
        (RecoverySpec => [](/\ WatermarkCoversItsScope /\ CompletedIsStored
                            /\ EvidenceBeforeWatermark /\ LedgerFollowsTheStores))
BY RecoveryIsDeployed, DeployedCorrect, CoverCorrect, CompletedCorrect, PTL

=============================================================================
