---------------------------- MODULE MCSearchPages ----------------------------
(***************************************************************************)
(* Four findings, of which one is in another account, one has another      *)
(* status than the others and one has no severity.                         *)
(***************************************************************************)
EXTENDS SearchPages, TLC

CONSTANTS f1, f2, f3, f4

MCFields == {"accountId", "severity", "remediationStatus", "resourceTypeNormalized"}
MCRequestedFields == {"accountId", "severity", "remediationStatus", "resourceType"}
MCTypeNames == 2 :> 1
MCIndexPriority == <<"severity", "accountId">>
MCHistoryPriority == <<"accountId">>
MCFindingOf == [f \in Findings |-> IF f = f4 THEN f4 ELSE f1]
MCStructured == [findings |-> {"all", "accountId"}, history |-> {"all", "accountId"}]
MCContains == {<<0, 0>>, <<1, 0>>, <<1, 1>>}
MCAttributes ==
  [f \in Findings |->
    [field \in MCFields |-> IF \/ field = "accountId" /\ f = f2
                               \/ field = "remediationStatus" /\ f = f3 THEN 0
                            ELSE IF field = "severity" /\ f = f4 THEN Absent ELSE 1]]
MCInitial ==
  {f1 :> 1 @@ f2 :> 2 @@ f3 :> 3 @@ f4 :> 4, f1 :> 4 @@ f2 :> 1 @@ f3 :> 2 @@ f4 :> 0}

By(field, comparison, value) ==
  [field |-> field, comparison |-> comparison, value |-> value, copy |-> 0]
Again(f) == [f EXCEPT !.copy = 1]
Admin == [groups |-> {"AdminGroup"}, accounts |-> {}]
OperatorOf(accounts) == [groups |-> {"AccountOperatorGroup"}, accounts |-> accounts]
All(strings, composites) ==
  [table |-> "findings", body |-> [strings |-> strings, composites |-> composites],
   user |-> Admin, sortField |-> "time", asked |-> {}]
OneAccount == By("accountId", "EQUALS", 1)
OtherAccount == By("accountId", "EQUALS", 0)
OneStatus == By("remediationStatus", "NOT_EQUALS", 0)

\* Among them: an operator of both accounts, which are alternatives, and a filter without a
\* value; a resource type in another spelling, from an operator who names no account; an
\* operator who names one that is not his; a severity that one finding does not have; an
\* account given twice, which no index answers.
MCSearches ==
  {[All({By("severity", "EQUALS", 9)}, {}) EXCEPT !.user = OperatorOf({0, 1})],
   [All({}, {{By("resourceType", "EQUALS", 2)}, {OneStatus}}) EXCEPT !.user = OperatorOf({1})],
   [All({}, {{OtherAccount}}) EXCEPT !.user = OperatorOf({1})],
   All({By("accountId", "NOT_CONTAINS", 1), By("accountId", "GREATER_THAN_OR_EQUAL", 1),
        By("severity", "NOT_EQUALS", 0)}, {}),
   All({OneAccount}, {{Again(OneAccount)}}),
   [All({}, {{OneAccount}}) EXCEPT !.sortField = "severityNormalized"],
   [All({By("remediationStatus", "CONTAINS", 1), By("severity", "EQUALS", 1)}, {{OneAccount}})
      EXCEPT !.asked = {f1, f2, f4}],
   [All({By("severity", "EQUALS", 1)}, {{OneAccount}}) EXCEPT !.table = "history"],
   [All({}, {{OneAccount}}) EXCEPT !.table = "history", !.asked = {f1}]}

BySeverity == {All({By("severity", "EQUALS", 1)}, {})}
=============================================================================
