------------------------- MODULE MCGenerationStream -------------------------
(* Instances of GenerationStream for TLC.                                   *)
EXTENDS GenerationStream, TLC
=============================================================================
