--------------------------- MODULE MCUserManagement ---------------------------
(***************************************************************************)
(* Two users, two containers.                                              *)
(***************************************************************************)
EXTENDS UserManagement, TLC

CONSTANTS u1, u2, c1, c2, a1, a2

Symmetry == Permutations(Users) \cup Permutations(Containers) \cup Permutations(Accounts)
=============================================================================
