--------------------------- MODULE MCPipelineMatrix ---------------------------
(* TLC instances of PipelineMatrix.                                         *)
EXTENDS PipelineMatrix

\* The library's defaults, and an encoder with both levers asked for.
TwoSettings ==
    {Off, [pixel_clean |-> TRUE, noise_clean_mode |-> 2, strength |-> 100, iso |-> 0]}
=============================================================================
