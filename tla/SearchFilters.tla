---------------------------- MODULE SearchFilters ----------------------------
(***************************************************************************)
(* How a search becomes a query: the filters of a request grouped by       *)
(* field, the index that answers one of them, the expression DynamoDB      *)
(* evaluates for the others, and the same filters evaluated in memory when *)
(* the rows are read one by one.                                           *)
(*                                                                         *)
(* Filters on one field are alternatives and different fields are          *)
(* combined: processCompositeFilters drops the operators of a request.     *)
(***************************************************************************)
EXTENDS Integers, FiniteSets, Sequences

CONSTANTS
  Fields,         \* attributes a filter may name
  Values,         \* their values, numbers in the order of the strings
  Contains,       \* pairs of values, the first of which contains the second
  IndexPriority,  \* fields with an index of their own, the most selective first
  HistoryPriority,\* the same for the history
  AllRows,        \* the index over all rows
  Absent          \* an attribute that a row does not have

Comparisons == {"EQUALS", "NOT_EQUALS", "CONTAINS", "NOT_CONTAINS",
                "GREATER_THAN_OR_EQUAL", "LESS_THAN_OR_EQUAL"}

\* A filter; the same one given again is another copy.
SearchFilter == [field: Fields, comparison: Comparisons, value: Values, copy: Nat]

\* Rows of the table: any attribute may be missing.
AttributeMaps == [Fields -> Values \cup {Absent}]

ASSUME FilterFieldsAssumption ==
  /\ Values \subseteq Nat
  /\ Contains \subseteq Values \X Values
  /\ {IndexPriority, HistoryPriority} \subseteq Seq(Fields)
  /\ AllRows \notin Fields
  /\ Absent \notin Values

\* analyzeFilters
AnalyzeFilters(filters) ==
  [field \in {f.field : f \in filters} |-> {f \in filters : f.field = field}]

\* One condition of a FilterExpression, as DynamoDB evaluates it: an attribute that is
\* missing is different from every value and contains none.
Condition(f, value) ==
  \/ f.comparison = "EQUALS" /\ value = f.value
  \/ f.comparison = "NOT_EQUALS" /\ value # f.value
  \/ f.comparison = "CONTAINS" /\ <<value, f.value>> \in Contains
  \/ f.comparison = "NOT_CONTAINS" /\ <<value, f.value>> \notin Contains
  \/ f.comparison = "GREATER_THAN_OR_EQUAL" /\ value # Absent /\ value >= f.value
  \/ f.comparison = "LESS_THAN_OR_EQUAL" /\ value # Absent /\ value <= f.value

\* buildFilterExpression, evaluated for a row.
BuildFilterExpression(groups, row) ==
  \A field \in DOMAIN groups : \E f \in groups[field] : Condition(f, row[field])

\* matchesSingleFilter: the comparisons it does not know match nothing, and nothing
\* matches an attribute that is missing.
MatchesSingleFilter(f, value) ==
  /\ value # Absent
  /\ f.comparison \notin {"GREATER_THAN_OR_EQUAL", "LESS_THAN_OR_EQUAL"}
  /\ Condition(f, value)

\* Mutant of MatchesCriteria: one matching field is enough.
MatchesCriteriaAny(filters, row) ==
  filters = {} \/ \E f \in filters : MatchesSingleFilter(f, row[f.field])

\* matchesCriteria
MatchesCriteria(filters, row) ==
  LET groups == AnalyzeFilters(filters)
  IN  \A field \in DOMAIN groups : \E f \in groups[field] : MatchesSingleFilter(f, row[field])

\* Mutant of Indexable: any EQUALS filter of a field will do.
IndexableAny(groups, field) ==
  field \in DOMAIN groups /\ \E f \in groups[field] : f.comparison = "EQUALS"

\* The field has exactly one filter, given once, and that is EQUALS.
Indexable(groups, field) ==
  /\ field \in DOMAIN groups
  /\ \E f \in groups[field] : groups[field] = {f} /\ f.comparison = "EQUALS"

\* selectOptimalIndex: the first index that one filter determines.
SelectOptimalIndex(groups, priority) ==
  LET usable == {i \in DOMAIN priority : Indexable(groups, priority[i])}
  IN  IF usable = {} THEN AllRows
      ELSE priority[CHOOSE i \in usable : \A j \in usable : i <= j]

\* removeMatchingFilters: the filter the index answers is left out.
RemoveMatchingFilters(groups, field, value) ==
  LET rest == {f \in groups[field] : f.comparison # "EQUALS" \/ f.value # value}
  IN  [other \in {g \in DOMAIN groups : g # field \/ rest # {}} |->
         IF other = field THEN rest ELSE groups[other]]

\* The query of an index: its partition and what is left to filter.
QueryOf(groups, index) ==
  IF index = AllRows THEN [index |-> AllRows, value |-> 0, groups |-> groups]
  ELSE LET value == (CHOOSE f \in groups[index] : f.comparison = "EQUALS").value
       IN  [index |-> index, value |-> value, groups |-> RemoveMatchingFilters(groups, index, value)]

\* buildOptimizedQuery of findings: all rows are read by severity, or when no filter
\* determines an index.
BuildOptimizedQuery(filters, sortField) ==
  LET groups == AnalyzeFilters(filters)
  IN  QueryOf(groups, IF sortField = "severityNormalized" THEN AllRows
                      ELSE SelectOptimalIndex(groups, IndexPriority))

\* buildOptimizedQuery of the history, which is always in the order of time.
BuildHistoryQuery(filters) ==
  LET groups == AnalyzeFilters(filters)
  IN  QueryOf(groups, SelectOptimalIndex(groups, HistoryPriority))

\* The row is in the partition of the index the query reads.
InPartition(query, row) == query.index = AllRows \/ row[query.index] = query.value

\* What the user asked for: for every field some filter holds.
Asked(filters, row) ==
  \A f \in filters : \E g \in filters : g.field = f.field /\ Condition(g, row[f.field])
=============================================================================
