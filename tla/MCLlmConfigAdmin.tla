--------------------------- MODULE MCLlmConfigAdmin ---------------------------
(* Instances of LlmConfigAdmin for TLC.                                      *)
EXTENDS LlmConfigAdmin, TLC

CONSTANTS a1, a2, generation, embedding

Symmetry == Permutations(Admins) \cup Permutations(TaskTypes)
===============================================================================
