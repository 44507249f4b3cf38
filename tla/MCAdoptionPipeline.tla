------------------------- MODULE MCAdoptionPipeline -------------------------
(* Instances of AdoptionPipeline for TLC.                                   *)
EXTENDS AdoptionPipeline, TLC

CONSTANTS h1, h2, j1, j2

\* Short prompts are cut like sliceable ones: not at all.
LongPrompts == {"sliceable", "unsliceable"}
=============================================================================
