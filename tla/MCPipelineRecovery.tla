------------------------- MODULE MCPipelineRecovery -------------------------
(* The instances of MCResiliencePipeline for PipelineRecovery.             *)
EXTENDS MCResiliencePipeline, PipelineRecovery

=============================================================================
