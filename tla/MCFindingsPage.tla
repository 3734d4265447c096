--------------------------- MODULE MCFindingsPage ---------------------------
(***************************************************************************)
(* Three findings on pages of one, and a filter that two of them match.    *)
(***************************************************************************)
EXTENDS FindingsPage

CONSTANTS f1, f2, f3, everything, some

MCMatches == [filter \in Filters |-> IF filter = everything THEN <<f1, f2, f3>> ELSE <<f3, f2>>]
=============================================================================
