--------------------------- MODULE MCPreProcessor ---------------------------
(***************************************************************************)
(* Small instances of PreProcessor for TLC.                                *)
(***************************************************************************)
EXTENDS PreProcessor, TLC

CONSTANTS f1, f2, m1, m2, m3, c1, c2, u1

Symmetry == Permutations(Messages) \cup Permutations(Containers)
=============================================================================
