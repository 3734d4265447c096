-------------------------- MODULE MCSynchronization --------------------------
(***************************************************************************)
(* Findings of two accounts in the second of two chunks.  One              *)
(* configuration accepts only the finding of a2, the other none of both.   *)
(***************************************************************************)
EXTENDS Synchronization, TLC

CONSTANTS f1, f2, a1, a2, u1, u2, t1

MCAccountOf == [f \in Findings |-> IF f = f1 THEN a1 ELSE a2]
MCTagsOf == [f \in Findings |-> IF f = f1 THEN {} ELSE {t1}]
MCChunkOf == [f \in Findings |-> 2]
MCUnitsOf == a1 :> {u1} @@ a2 :> {u2}

OnlySecond == [DefaultConfig EXCEPT !.unit = [mode |-> "Include", list |-> {u2}]]
NotTagged == [DefaultConfig EXCEPT !.account = [mode |-> "Exclude", list |-> {a1}],
                                   !.tag = [mode |-> "Exclude", list |-> {t1}]]
MCConfigs == {OnlySecond, NotTagged}
NoFilters == {DefaultConfig}
=============================================================================
