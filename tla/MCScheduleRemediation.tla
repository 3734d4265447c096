------------------------ MODULE MCScheduleRemediation ------------------------
(***************************************************************************)
(* Small instances of ScheduleRemediation for TLC.                         *)
(***************************************************************************)
EXTENDS ScheduleRemediation, TLC

CONSTANTS e1, e2, e3, p1, w1, w2

\* All executions remediate in one pair; slots of different pairs have nothing in common.
OnePair == [e \in Executions |-> p1]

\* With every execution in one pair, executions and environments are interchangeable.
Symmetry == Permutations(Executions) \cup Permutations(Workers)
=============================================================================
