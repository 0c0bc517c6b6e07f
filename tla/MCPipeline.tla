------------------------------ MODULE MCPipeline ------------------------------
(* Model checking Pipeline: every value is given in the configurations.     *)
EXTENDS PipelineProperties
=============================================================================
