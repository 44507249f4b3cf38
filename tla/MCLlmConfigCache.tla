-------------------------- MODULE MCLlmConfigCache --------------------------
(* Instances of LlmConfigCache for TLC.                                     *)
EXTENDS LlmConfigCache, TLC

CONSTANTS c1, c2, generation, embedding

\* An embedding request calls get_llm_config once, a generation request twice.
OneTask == {embedding}
OnceEach == embedding :> 1
GenerationOnly == {generation}
TwicePerGeneration == generation :> 2

CallerSymmetry == Permutations(Callers)
=============================================================================
