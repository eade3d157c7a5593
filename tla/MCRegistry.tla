----------------------------- MODULE MCRegistry -----------------------------
(* An instance of Registry for TLC.  The calls are alike until they start and *)
(* so are the ids, and only safety is checked: both may be permuted.          *)
EXTENDS Registry, TLC

CONSTANTS m1, m2, c1, c2, c3

RegistryAlike == Permutations(Callers) \cup Permutations(Ids)
=============================================================================
