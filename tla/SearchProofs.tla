---------------------------- MODULE SearchProofs ----------------------------
(***************************************************************************)
(* Proofs about searches, for every request, set of filters, row, page     *)
(* size and limit: the index that answers a filter and the expression that *)
(* evaluates the others together select exactly the rows asked for,        *)
(* whichever index is chosen; and the pages that follow one another miss   *)
(* no row that stays where it is, and have none twice, however the table   *)
(* changes.                                                                *)
(***************************************************************************)
EXTENDS SearchPages, FiniteSetTheorems, SequenceTheorems, WellFoundedInduction, TLAPS

\* Groups of filters, evaluated one by one, are the filters as they were asked for.
LEMMA GroupsExact ==
  ASSUME NEW given \in SUBSET SearchFilter, NEW row
  PROVE  BuildFilterExpression(AnalyzeFilters(given), row) <=> Asked(given, row)
<1> DEFINE groups == AnalyzeFilters(given)
<1>1. DOMAIN groups = {f.field : f \in given}
  BY DEF AnalyzeFilters
<1>2. \A field \in DOMAIN groups : groups[field] = {f \in given : f.field = field}
  BY DEF AnalyzeFilters
<1>3. ASSUME BuildFilterExpression(groups, row), NEW f \in given
      PROVE  \E g \in given : g.field = f.field /\ Condition(g, row[f.field])
  <2>1. f.field \in DOMAIN groups
    BY <1>1
  <2>2. PICK g \in groups[f.field] : Condition(g, row[f.field])
    BY <1>3, <2>1 DEF BuildFilterExpression
  <2>3. g \in given /\ g.field = f.field
    BY <1>2, <2>1
  <2> QED  BY <2>2, <2>3
<1>4. ASSUME Asked(given, row), NEW field \in DOMAIN groups
      PROVE  \E g \in groups[field] : Condition(g, row[field])
  <2>1. PICK f \in given : f.field = field
    BY <1>1
  <2>2. PICK g \in given : g.field = f.field /\ Condition(g, row[f.field])
    BY <1>4 DEF Asked
  <2>3. g \in groups[field]
    BY <1>2, <2>1, <2>2
  <2> QED  BY <2>1, <2>2, <2>3
<1> HIDE DEF groups
<1>5. BuildFilterExpression(groups, row) => Asked(given, row)
  BY <1>3 DEF Asked
<1>6. Asked(given, row) => BuildFilterExpression(groups, row)
  BY <1>4 DEF BuildFilterExpression
<1> QED  BY <1>5, <1>6 DEF groups

\* A set of natural numbers with an element has a least one.
LEMMA LeastElement ==
  ASSUME NEW S \in SUBSET Nat, S # {}
  PROVE  \E i \in S : \A j \in S : i <= j
<1> DEFINE less == OpToRel(<, Nat)
<1>1. IsWellFoundedOn(less, Nat)
  BY NatLessThanWellFounded
<1>2. less = {p \in Nat \X Nat : p[1] < p[2]}
  BY DEF OpToRel
<1> HIDE DEF less
<1>3. PICK i \in S : \A j \in S : <<j, i>> \notin less
  BY <1>1, WFMin
<1>4. \A j \in S : ~ j < i
  BY <1>2, <1>3
<1> QED  BY <1>4

\* The chosen index is that of all rows, or of a field with one filter, an EQUALS one.
LEMMA ChosenIndex ==
  ASSUME NEW groups, NEW priority \in Seq(Fields)
  PROVE  LET index == SelectOptimalIndex(groups, priority)
         IN  index = AllRows \/ (index \in Fields /\ Indexable(groups, index))
<1> DEFINE usable == {i \in DOMAIN priority : Indexable(groups, priority[i])}
<1>1. CASE usable = {}
  BY <1>1 DEF SelectOptimalIndex
<1>2. CASE usable # {}
  <2>1. usable \in SUBSET Nat
    OBVIOUS
  <2>2. PICK i \in usable : \A j \in usable : i <= j
    BY <1>2, <2>1, LeastElement
  <2> DEFINE least == CHOOSE k \in usable : \A j \in usable : k <= j
  <2>3. least \in usable
    BY <2>2
  <2>4. SelectOptimalIndex(groups, priority) = priority[least]
    BY <1>2 DEF SelectOptimalIndex
  <2>5. priority[least] \in Fields /\ Indexable(groups, priority[least])
    BY <2>3
  <2> QED  BY <2>4, <2>5
<1> QED  BY <1>1, <1>2

\* What is left of the filters when the index of a field answers its only one.
LEMMA RestOfFilters ==
  ASSUME NEW groups, NEW index, Indexable(groups, index),
         NEW value, \A f \in groups[index] : f.value = value
  PROVE  RemoveMatchingFilters(groups, index, value)
           = [other \in DOMAIN groups \ {index} |-> groups[other]]
<1> DEFINE rest == {f \in groups[index] : f.comparison # "EQUALS" \/ f.value # value}
<1>1. PICK f \in groups[index] : groups[index] = {f} /\ f.comparison = "EQUALS"
  BY DEF Indexable
<1>2. rest = {}
  BY <1>1
<1>3. {g \in DOMAIN groups : g # index \/ rest # {}} = DOMAIN groups \ {index}
  BY <1>2
<1>4. RemoveMatchingFilters(groups, index, value)
        = [other \in {g \in DOMAIN groups : g # index \/ rest # {}} |->
             IF other = index THEN rest ELSE groups[other]]
  BY DEF RemoveMatchingFilters
<1> HIDE DEF rest
<1> QED  BY <1>3, <1>4

\* The partition of an index and the filters left select what all filters do.
LEMMA QueryExact ==
  ASSUME NEW given \in SUBSET SearchFilter, NEW row \in AttributeMaps, NEW index,
         index = AllRows \/ (index \in Fields /\ Indexable(AnalyzeFilters(given), index))
  PROVE  LET plan == QueryOf(AnalyzeFilters(given), index)
         IN  InPartition(plan, row) /\ BuildFilterExpression(plan.groups, row)
               <=> BuildFilterExpression(AnalyzeFilters(given), row)
<1> DEFINE groups == AnalyzeFilters(given)
           plan == QueryOf(groups, index)
<1>1. CASE index = AllRows
  BY <1>1 DEF QueryOf, InPartition
<1>2. CASE index # AllRows
  <2> DEFINE value == (CHOOSE f \in groups[index] : f.comparison = "EQUALS").value
             others == [other \in DOMAIN groups \ {index} |-> groups[other]]
  <2>1. index \in DOMAIN groups
    BY <1>2 DEF Indexable
  <2>2. PICK f \in groups[index] : groups[index] = {f} /\ f.comparison = "EQUALS"
    BY <1>2 DEF Indexable
  <2>3. (CHOOSE g \in groups[index] : g.comparison = "EQUALS") = f
    BY <2>2
  <2>4. value = f.value
    BY <2>3
  <2> HIDE DEF groups
  <2>5. RemoveMatchingFilters(groups, index, value) = others
    <3>1. Indexable(groups, index)
      BY <1>2 DEF groups
    <3>2. \A g \in groups[index] : g.value = value
      BY <2>2, <2>4
    <3> HIDE DEF value
    <3> QED  BY <3>1, <3>2, RestOfFilters
  <2>6. plan = [index |-> index, value |-> value, groups |-> others]
    BY <1>2, <2>5 DEF QueryOf
  <2>7. InPartition(plan, row) <=> row[index] = f.value
    BY <1>2, <2>4, <2>6 DEF InPartition
  <2>8. (\E g \in groups[index] : Condition(g, row[index])) <=> row[index] = f.value
    <3>1. Condition(f, row[index]) <=> row[index] = f.value
      BY <2>2 DEF Condition
    <3> QED  BY <2>2, <3>1
  <2>9. BuildFilterExpression(groups, row)
          <=> /\ \E g \in groups[index] : Condition(g, row[index])
              /\ BuildFilterExpression(others, row)
    BY <2>1 DEF BuildFilterExpression
  <2> QED  BY <2>6, <2>7, <2>8, <2>9 DEF groups
<1> QED  BY <1>1, <1>2

\* Searches of findings: whatever index buildOptimizedQuery takes, the rows of its
\* partition that pass what is left of the filters are those that were asked for.
THEOREM FindingsPlanExact ==
  ASSUME NEW given \in SUBSET SearchFilter, NEW row \in AttributeMaps,
         NEW sortField
  PROVE  LET plan == BuildOptimizedQuery(given, sortField)
         IN  InPartition(plan, row) /\ BuildFilterExpression(plan.groups, row)
               <=> Asked(given, row)
<1> DEFINE groups == AnalyzeFilters(given)
           index == IF sortField = "severityNormalized" THEN AllRows
                    ELSE SelectOptimalIndex(groups, IndexPriority)
<1>1. IndexPriority \in Seq(Fields)
  BY FilterFieldsAssumption
<1>2. index = AllRows \/ (index \in Fields /\ Indexable(groups, index))
  BY <1>1, ChosenIndex
<1>3. BuildOptimizedQuery(given, sortField) = QueryOf(groups, index)
  BY DEF BuildOptimizedQuery
<1> HIDE DEF index
<1> QED  BY <1>2, <1>3, QueryExact, GroupsExact

\* And searches of the history, over its own indexes.
THEOREM HistoryPlanExact ==
  ASSUME NEW given \in SUBSET SearchFilter, NEW row \in AttributeMaps
  PROVE  LET plan == BuildHistoryQuery(given)
         IN  InPartition(plan, row) /\ BuildFilterExpression(plan.groups, row)
               <=> Asked(given, row)
<1> DEFINE groups == AnalyzeFilters(given)
           index == SelectOptimalIndex(groups, HistoryPriority)
<1>1. HistoryPriority \in Seq(Fields)
  BY FilterFieldsAssumption
<1>2. index = AllRows \/ (index \in Fields /\ Indexable(groups, index))
  BY <1>1, ChosenIndex
<1>3. BuildHistoryQuery(given) = QueryOf(groups, index)
  BY DEF BuildHistoryQuery
<1> HIDE DEF index
<1> QED  BY <1>2, <1>3, QueryExact, GroupsExact


-----------------------------------------------------------------------------
(***************************************************************************)
(* Pages.                                                                  *)
(***************************************************************************)

\* The filters a request becomes, and the query of its pages.
FiltersOf(s) == ConvertToSearchCriteria(ApplyAccountFiltering(s.user, s.body))
QueryOfSearch(s) ==
  IF s.table = "findings" THEN BuildOptimizedQuery(FiltersOf(s), s.sortField)
  ELSE BuildHistoryQuery(FiltersOf(s))

\* matchesSingleFilter answers as DynamoDB does: a comparison it knows, which is not the
\* absence of a value that the row does not have.
InMemory(f, value) ==
  /\ f.comparison \notin {"GREATER_THAN_OR_EQUAL", "LESS_THAN_OR_EQUAL"}
  /\ f.comparison \in {"NOT_EQUALS", "NOT_CONTAINS"} => value # Absent

\* What the searches must not ask for: pages of an index without a known key structure, and
\* by the ids of findings what matchesSingleFilter answers in another way than DynamoDB.
Answerable ==
  \A s \in Searches :
    /\ s.asked = {} => QueryOfSearch(s).index \in Structured[s.table]
    /\ s.asked # {} => \A f \in FiltersOf(s), g \in Findings :
         InMemory(f, Attributes[g][f.field])

IdOf(f) == IF search.table = "findings" THEN f ELSE FindingOf[f]

\* A place comes before another in the order of the query, and a row is not after a place.
Sooner(p, q) == IF forward THEN p < q ELSE p > q
Behind(f, p) == p # 0 /\ ~Sooner(p, place[f])

Has(s, f) == \E i \in DOMAIN s : s[i] = f
HasItem(items, f) == \E i \in DOMAIN items : items[i].finding = f

\* Different rows have different places, and those that are steady have one.
Placed ==
  /\ \A f, g \in Findings : place[f] = place[g] => f = g \/ place[f] = 0
  /\ \A f \in steady : place[f] # 0

\* The reader knows what it was asked for.
Asks ==
  /\ forward \in BOOLEAN /\ known \in BOOLEAN
  /\ pc = "idle" => result = <<>> /\ steady = {} /\ token = 0
  /\ pc \in {"loop", "query", "direct"} => filters = FiltersOf(search)
  /\ pc \in {"loop", "query"} => search.asked = {}
  /\ pc = "direct" => search.asked # {} /\ todo \subseteq search.asked
  /\ pc = "query" => query = QueryOfSearch(search)

\* The rows found for a page are in order, after the token and up to the start key.
Ordering ==
  /\ found \in Seq([finding: Findings, place: 1 .. Places])
  /\ pc = "query" =>
       /\ \A i, j \in DOMAIN found : i < j => Sooner(found[i].place, found[j].place)
       /\ \A i \in DOMAIN found :
            /\ start # 0 /\ ~Sooner(start, found[i].place)
            /\ token = 0 \/ Sooner(token, found[i].place)
            /\ found[i].finding \in steady => found[i].place = place[found[i].finding]
       /\ token # 0 => start # 0 /\ ~Sooner(start, token)

\* Of the findings that have not changed, what is collected is what was asked for of those
\* passed so far.
Collected ==
  \A f \in steady :
    /\ \A i, j \in DOMAIN result : result[i] = f /\ result[j] = f => i = j
    /\ Has(result, f) => Wanted(f)
    /\ pc \in {"loop", "query"} => (Has(result, f) <=> Wanted(f) /\ Behind(f, token))
    /\ pc = "query" =>
         (HasItem(found, f) <=> Wanted(f) /\ Behind(f, start) /\ ~Behind(f, token))
    /\ pc = "direct" => (Has(result, f) => IdOf(f) \notin todo)
    /\ pc = "direct" /\ Answerable =>
         (Wanted(f) => Has(result, f) \/ f \in unread \/ IdOf(f) \in todo)
    /\ pc = "complete" /\ Answerable => (Wanted(f) => Has(result, f) \/ f \in unread)

IInv == TypeOK /\ Placed /\ Asks /\ Ordering /\ Collected

-----------------------------------------------------------------------------
(***************************************************************************)
(* Requests.                                                               *)
(***************************************************************************)

\* Composite filters become one set with the others.
LEMMA Flattened ==
  ASSUME NEW body
  PROVE  ConvertToSearchCriteria(body) =
           ProcessStringFilters(body.strings \cup UNION body.composites)
BY DEF ConvertToSearchCriteria, ProcessStringFilters

\* A filter that is kept has a field and a value of rows.
LEMMA Converted ==
  ASSUME NEW f \in StringFilter, IsValidStringFilter(f)
  PROVE  /\ ConvertStringFilter(f) \in SearchFilter
         /\ ConvertStringFilter(f).field = "accountId" <=> f.field = "accountId"
<1>1. /\ f.field \in Fields \cup {"resourceType"} /\ f.comparison \in Comparisons
      /\ f.copy \in Nat
      /\ f.value \in Values \cup DOMAIN TypeNames
      /\ f.value \in DOMAIN TypeNames => f.field = "resourceType"
      /\ f = [field |-> f.field, comparison |-> f.comparison, value |-> f.value, copy |-> f.copy]
  BY RequestsAssumption DEF StringFilter, IsValidStringFilter
<1>2. CASE f.field = "resourceType"
  <2>1. PICK value : value = IF f.value \in DOMAIN TypeNames THEN TypeNames[f.value] ELSE f.value
    OBVIOUS
  <2>2. value \in Values
    BY <1>1, <2>1, RequestsAssumption
  <2>3. ConvertStringFilter(f) =
          [field |-> "resourceTypeNormalized", comparison |-> f.comparison, value |-> value, copy |-> f.copy]
    BY <1>1, <1>2, <2>1 DEF ConvertStringFilter
  <2>4. QED
    BY <1>1, <1>2, <2>2, <2>3, RequestsAssumption DEF SearchFilter
<1>3. CASE f.field # "resourceType"
  BY <1>1, <1>3 DEF ConvertStringFilter, SearchFilter
<1>4. QED
  BY <1>2, <1>3

\* What a request becomes is filters, which ask for the rows that it names: of the
\* accounts that are his, if he names none.
LEMMA RequestExact ==
  ASSUME NEW s \in Searches, NEW row
  PROVE  /\ FiltersOf(s) \subseteq SearchFilter
         /\ Asked(FiltersOf(s), row) <=> Requested(s.user, s.body, row)
<1>1. PICK sent : sent = s.body.strings \cup UNION s.body.composites
  OBVIOUS
<1>2. PICK accounts : accounts = AuthorizedAccounts(s.user)
  OBVIOUS
<1>3. PICK own : own = ProcessStringFilters(sent)
  OBVIOUS
<1>4. s.body \in Bodies /\ s.user \in RequestingUser
  BY PagesAssumption
<1>5. sent \subseteq StringFilter /\ accounts \subseteq Values
  BY <1>1, <1>2, <1>4 DEF Bodies, RequestingUser, AuthorizedAccounts
<1>6. own = {ConvertStringFilter(f) : f \in {g \in sent : IsValidStringFilter(g)}}
  BY <1>3 DEF ProcessStringFilters
<1>7. own \subseteq SearchFilter
  BY <1>5, <1>6, Converted
<1>8. NamesAccount(sent) <=> \E f \in own : f.field = "accountId"
  BY <1>5, <1>6, Converted DEF NamesAccount
<1>9. Requested(s.user, s.body, row) <=>
        /\ Asked(own, row)
        /\ accounts = {} \/ NamesAccount(sent) \/ row["accountId"] \in accounts
  BY <1>1, <1>2, <1>3, <1>8 DEF Requested
<1>10. CASE accounts = {} \/ NamesAccount(sent)
  <2>1. FiltersOf(s) = own
    BY <1>1, <1>2, <1>3, <1>10, Flattened DEF FiltersOf, ApplyAccountFiltering
  <2>2. QED
    BY <1>7, <1>9, <1>10, <2>1
<1>11. CASE accounts # {} /\ ~NamesAccount(sent)
  <2>1. PICK composite :
          composite = {[field |-> "accountId", comparison |-> "EQUALS", value |-> a, copy |-> 0] : a \in accounts}
    OBVIOUS
  <2>2. PICK body : body = [s.body EXCEPT !.composites = s.body.composites \cup {composite}]
    OBVIOUS
  <2>3. FiltersOf(s) = ConvertToSearchCriteria(body)
    BY <1>1, <1>2, <1>11, <2>1, <2>2 DEF FiltersOf, ApplyAccountFiltering
  <2>4. body.strings \cup UNION body.composites = sent \cup composite
    BY <1>1, <1>4, <2>2 DEF Bodies
  <2>5. FiltersOf(s) = ProcessStringFilters(sent \cup composite)
    BY <2>3, <2>4, Flattened
  <2>6. ProcessStringFilters(sent \cup composite) = own \cup ProcessStringFilters(composite)
    BY <1>3 DEF ProcessStringFilters
  <2>7. \A f \in composite : IsValidStringFilter(f) /\ ConvertStringFilter(f) = f
    BY <1>5, <2>1, RequestsAssumption DEF IsValidStringFilter, ConvertStringFilter
  <2>8. ProcessStringFilters(composite) = composite
    BY <2>7 DEF ProcessStringFilters
  <2>9. composite \subseteq SearchFilter
    BY <1>5, <2>1, RequestsAssumption DEF SearchFilter, Comparisons
  <2>10. (\E g \in composite : Condition(g, row["accountId"])) <=> row["accountId"] \in accounts
    <3>1. \A g \in composite : Condition(g, row["accountId"]) <=> row["accountId"] = g.value
      BY <2>1 DEF Condition
    <3>2. \A g \in composite : g.value \in accounts
      BY <2>1
    <3>3. ASSUME NEW a \in accounts
          PROVE  \E g \in composite : g.value = a
      <4>1. PICK g : g = [field |-> "accountId", comparison |-> "EQUALS", value |-> a, copy |-> 0]
        OBVIOUS
      <4>2. g \in composite /\ g.value = a
        BY <2>1, <4>1
      <4>3. QED
        BY <4>2
    <3>4. QED
      BY <3>1, <3>2, <3>3
  <2>11. \A f \in composite : f.field = "accountId"
    BY <2>1
  <2>12. composite # {}
    BY <1>11, <2>1
  <2>13. \A f \in own : f.field # "accountId"
    BY <1>8, <1>11
  <2>14. Asked(own \cup composite, row) <=> Asked(own, row) /\ row["accountId"] \in accounts
    BY <2>10, <2>11, <2>12, <2>13 DEF Asked
  <2>15. QED
    BY <1>7, <1>9, <1>11, <2>5, <2>6, <2>8, <2>9, <2>14
<1>12. QED
  BY <1>10, <1>11

\* The query of a search, with what is left to filter, selects exactly the rows the request
\* asks for; of the user's own accounts, if an account operator names none.  (Which accounts
\* a request may name is not decided here but by MaySend.)
LEMMA SearchExact ==
  ASSUME NEW s \in Searches, NEW row \in AttributeMaps
  PROVE  /\ InPartition(QueryOfSearch(s), row)
         /\ BuildFilterExpression(QueryOfSearch(s).groups, row)
         <=> Requested(s.user, s.body, row)
BY RequestExact, FindingsPlanExact, HistoryPlanExact DEF QueryOfSearch

\* Rows that are read one by one match only if they are wanted, and do if their filters can
\* be evaluated in memory.
LEMMA MatchExact ==
  ASSUME NEW s \in Searches, NEW row \in AttributeMaps
  PROVE  /\ MatchesCriteria(FiltersOf(s), row) => Requested(s.user, s.body, row)
         /\ (\A f \in FiltersOf(s) : InMemory(f, row[f.field]))
              => (Requested(s.user, s.body, row) => MatchesCriteria(FiltersOf(s), row))
<1>1. PICK given : given = FiltersOf(s)
  OBVIOUS
<1>2. PICK groups : groups = AnalyzeFilters(given)
  OBVIOUS
<1>3. given \in SUBSET SearchFilter /\ (Asked(given, row) <=> Requested(s.user, s.body, row))
  BY <1>1, RequestExact
<1>4. DOMAIN groups = {f.field : f \in given}
      /\ \A field \in DOMAIN groups : groups[field] = {f \in given : f.field = field}
  BY <1>2 DEF AnalyzeFilters
<1>5. BuildFilterExpression(groups, row) <=> Asked(given, row)
  BY <1>2, <1>3, GroupsExact
<1>6. MatchesCriteria(given, row) <=>
        \A field \in DOMAIN groups : \E f \in groups[field] : MatchesSingleFilter(f, row[field])
  BY <1>2 DEF MatchesCriteria
<1>7. MatchesCriteria(given, row) => BuildFilterExpression(groups, row)
  BY <1>6 DEF MatchesSingleFilter, BuildFilterExpression
<1>8. (\A f \in given : InMemory(f, row[f.field]))
        => (BuildFilterExpression(groups, row) => MatchesCriteria(given, row))
  <2>1. ASSUME NEW f \in given, InMemory(f, row[f.field]), Condition(f, row[f.field])
        PROVE  MatchesSingleFilter(f, row[f.field])
    <3>1. f.value \in Values /\ Absent \notin Values /\ Contains \subseteq Values \X Values
      BY <1>3, FilterFieldsAssumption DEF SearchFilter
    <3>2. row[f.field] # Absent
      BY <2>1, <3>1 DEF InMemory, Condition
    <3>3. QED
      BY <2>1, <3>2 DEF InMemory, MatchesSingleFilter
  <2>2. QED
    BY <1>4, <1>6, <2>1 DEF BuildFilterExpression
<1>9. QED
  BY <1>1, <1>3, <1>5, <1>7, <1>8

-----------------------------------------------------------------------------
(***************************************************************************)
(* The order of an index.                                                  *)
(***************************************************************************)

\* Rows of an index: findings with a place each.
Rows(S) ==
  /\ S \subseteq Findings /\ forward \in BOOLEAN
  /\ place \in [Findings -> 0 .. Places]
  /\ \A f, g \in S : place[f] = place[g] => f = g

LEMMA RankFacts ==
  ASSUME NEW S, Rows(S)
  PROVE  /\ Cardinality(S) \in Nat
         /\ \A f \in S : Rank(S, f) \in 0 .. Cardinality(S) - 1
         /\ \A f, g \in S : Before(f, g) <=> Rank(S, f) < Rank(S, g)
         /\ \A i \in 1 .. Cardinality(S) : \E f \in S : Rank(S, f) = i - 1
<1>1. IsFiniteSet(S) /\ Cardinality(S) \in Nat
  BY PagesAssumption, FS_Subset, FS_CardinalityType DEF Rows
<1>2. \A f \in S : place[f] \in Nat
  BY PagesAssumption DEF Rows
<1>3. /\ \A f, g \in S : Before(f, g) => ~Before(g, f)
      /\ \A f, g \in S : Before(f, g) \/ Before(g, f) \/ f = g
      /\ \A f, g, h \in S : Before(f, g) /\ Before(g, h) => Before(f, h)
      /\ \A f \in S : ~Before(f, f)
  BY <1>2 DEF Before, Rows
<1>4. ASSUME NEW f \in S
      PROVE  Rank(S, f) \in 0 .. Cardinality(S) - 1
  <2>1. PICK earlier \in SUBSET S : earlier = {g \in S : Before(g, f)}
    OBVIOUS
  <2>2. IsFiniteSet(earlier) /\ Cardinality(earlier) \in Nat
        /\ Cardinality(earlier) <= Cardinality(S) /\ earlier # S
        /\ (Cardinality(S) = Cardinality(earlier) => S = earlier)
    BY <1>1, <1>3, <2>1, FS_Subset, FS_CardinalityType
  <2>3. Rank(S, f) = Cardinality(earlier)
    BY <2>1 DEF Rank
  <2>4. QED
    BY <1>1, <2>1, <2>2, <2>3
<1>5. ASSUME NEW f \in S, NEW g \in S, Before(f, g)
      PROVE  Rank(S, f) < Rank(S, g)
  <2>1. PICK ofF \in SUBSET S : ofF = {h \in S : Before(h, f)}
    OBVIOUS
  <2>2. PICK ofG \in SUBSET S : ofG = {h \in S : Before(h, g)}
    OBVIOUS
  <2>3. ofF \in SUBSET ofG /\ ofF # ofG
    BY <1>3, <1>5, <2>1, <2>2
  <2>4. IsFiniteSet(ofG) /\ IsFiniteSet(ofF) /\ Cardinality(ofF) \in Nat /\ Cardinality(ofG) \in Nat
    BY <1>1, FS_Subset, FS_CardinalityType
  <2>5. Cardinality(ofF) <= Cardinality(ofG) /\ (Cardinality(ofG) = Cardinality(ofF) => ofG = ofF)
    BY <2>3, <2>4, FS_Subset
  <2>6. Rank(S, f) = Cardinality(ofF) /\ Rank(S, g) = Cardinality(ofG)
    BY <2>1, <2>2 DEF Rank
  <2>7. QED
    BY <2>3, <2>4, <2>5, <2>6
<1>6. \A f, g \in S : Before(f, g) <=> Rank(S, f) < Rank(S, g)
  <2>1. \A f, g \in S : Rank(S, f) \in Int /\ Rank(S, g) \in Int
    BY <1>1, <1>4
  <2>2. QED
    BY <1>3, <1>5, <2>1
<1>7. \A i \in 1 .. Cardinality(S) : \E f \in S : Rank(S, f) = i - 1
  <2>1. PICK T : T = 0 .. Cardinality(S) - 1
    OBVIOUS
  <2>2. PICK rank : rank = [f \in S |-> Rank(S, f)]
    OBVIOUS
  <2>3. IsFiniteSet(T) /\ Cardinality(T) = Cardinality(S)
    BY <1>1, <2>1, FS_Interval
  <2>4. rank \in [S -> T]
    BY <1>4, <2>1, <2>2
  <2>5. \A f, g \in S : rank[f] = rank[g] => f = g
    <3>1. \A f, g \in S : Rank(S, f) \in Int /\ Rank(S, g) \in Int
      BY <1>1, <1>4
    <3>2. QED
      BY <1>3, <1>5, <2>2, <3>1
  <2>6. rank \in Injection(S, T)
    BY <2>4, <2>5 DEF Injection, IsInjective
  <2>7. rank \in Surjection(S, T)
    BY <1>1, <2>3, <2>6, FS_Injection, FS_Surjection
  <2>8. \A t \in T : \E f \in S : rank[f] = t
    BY <2>7 DEF Surjection
  <2>9. QED
    BY <1>1, <2>1, <2>2, <2>8
<1>8. QED
  BY <1>1, <1>4, <1>6, <1>7

\* The rows in order: all of them, once.
LEMMA OrderedFacts ==
  ASSUME NEW S, Rows(S)
  PROVE  /\ Ordered(S) \in Seq(S) /\ Len(Ordered(S)) = Cardinality(S)
         /\ \A f \in S : Has(Ordered(S), f)
         /\ \A i, j \in DOMAIN Ordered(S) : i < j => Before(Ordered(S)[i], Ordered(S)[j])
         /\ \A i \in 1 .. Cardinality(S) : Nth(S, i) \in S /\ Rank(S, Nth(S, i)) = i - 1
<1>1. Cardinality(S) \in Nat
  BY RankFacts
<1>2. \A i \in 1 .. Cardinality(S) : Nth(S, i) \in S /\ Rank(S, Nth(S, i)) = i - 1
  BY RankFacts DEF Nth
<1>3. PICK s : s = Ordered(S)
  OBVIOUS
<1>4. s = [i \in 1 .. Cardinality(S) |-> Nth(S, i)]
  BY <1>3 DEF Ordered
<1>5. s \in Seq(S) /\ Len(s) = Cardinality(S) /\ DOMAIN s = 1 .. Cardinality(S)
  BY <1>1, <1>2, <1>4
<1>6. ASSUME NEW f \in S
      PROVE  \E i \in DOMAIN s : s[i] = f
  <2>1. Rank(S, f) \in 0 .. Cardinality(S) - 1
    BY RankFacts
  <2>2. PICK i \in 1 .. Cardinality(S) : i = Rank(S, f) + 1
    BY <1>1, <2>1
  <2>3. s[i] \in S /\ Rank(S, s[i]) = Rank(S, f)
    BY <1>2, <1>4, <2>1, <2>2
  <2>4. ~Before(s[i], f) /\ ~Before(f, s[i])
    BY <2>1, <2>3, RankFacts
  <2>5. place[f] \in Nat /\ place[s[i]] \in Nat
    BY <2>3, PagesAssumption DEF Rows
  <2>6. s[i] = f
    BY <2>3, <2>4, <2>5 DEF Before, Rows
  <2>7. QED
    BY <1>5, <2>6
<1>7. ASSUME NEW i \in DOMAIN s, NEW j \in DOMAIN s, i < j
      PROVE  Before(s[i], s[j])
  <2>1. s[i] \in S /\ s[j] \in S /\ Rank(S, s[i]) = i - 1 /\ Rank(S, s[j]) = j - 1
    BY <1>2, <1>4, <1>5
  <2>2. QED
    BY <1>5, <1>7, <2>1, RankFacts
<1>8. QED
  BY <1>2, <1>3, <1>5, <1>6, <1>7 DEF Has

-----------------------------------------------------------------------------
(***************************************************************************)
(* The answer to a query.                                                  *)
(***************************************************************************)

\* A steady row is wanted if and only if the query of the search selects it.
LEMMA Selected ==
  ASSUME TypeOK, Asks, pc = "query", NEW f \in Findings
  PROVE  Wanted(f) <=> InPartition(query, RowOf(f)) /\ Passes(f)
<1>1. RowOf(f) \in AttributeMaps
  BY PagesAssumption DEF TypeOK, RowOf, AttributeMaps
<1>2. search \in Searches /\ query = QueryOfSearch(search) /\ search.asked = {}
  BY DEF TypeOK, Asks
<1>3. QED
  BY <1>1, <1>2, SearchExact DEF Wanted, Passes

\* What an answer has of the rows, with what had been found before: up to its key, or to the
\* end, in order, all that is wanted of what has not changed.
Reads(answer) ==
  /\ answer.key \in 0 .. Places
  /\ answer.items \in Seq([finding: Findings, place: 1 .. Places])
  /\ \A i, j \in DOMAIN answer.items :
       i < j => Sooner(answer.items[i].place, answer.items[j].place)
  /\ \A i \in DOMAIN answer.items :
       /\ answer.key = 0 \/ ~Sooner(answer.key, answer.items[i].place)
       /\ token = 0 \/ Sooner(token, answer.items[i].place)
       /\ answer.items[i].finding \in steady =>
            answer.items[i].place = place[answer.items[i].finding]
  /\ answer.key # 0 /\ token # 0 => ~Sooner(answer.key, token)
  /\ \A f \in steady :
       HasItem(answer.items, f) <=>
         Wanted(f) /\ (answer.key = 0 \/ Behind(f, answer.key)) /\ ~Behind(f, token)

\* The places before and after one in the order of the query.
LEMMA SoonerFacts ==
  ASSUME forward \in BOOLEAN
  PROVE  /\ \A p, q, r \in Nat : Sooner(p, q) /\ Sooner(q, r) => Sooner(p, r)
         /\ \A p, q \in Nat : Sooner(p, q) => ~Sooner(q, p)
         /\ \A p, q \in Nat : Sooner(p, q) \/ Sooner(q, p) \/ p = q
         /\ \A p \in Nat : ~Sooner(p, p)
BY DEF Sooner

\* The rows up to the n-th are those that are not after its place.
LEMMA UpTo ==
  ASSUME NEW S, Rows(S), NEW n \in 1 .. Cardinality(S), NEW f \in S
  PROVE  Rank(S, f) < n <=> ~Sooner(place[Nth(S, n)], place[f])
<1>1. Nth(S, n) \in S /\ Rank(S, Nth(S, n)) = n - 1
  BY OrderedFacts
<1>2. Rank(S, f) \in 0 .. Cardinality(S) - 1 /\ Cardinality(S) \in Nat
  BY RankFacts
<1>3. Before(Nth(S, n), f) <=> n - 1 < Rank(S, f)
  BY <1>1, RankFacts
<1>4. Before(Nth(S, n), f) <=> Sooner(place[Nth(S, n)], place[f])
  BY DEF Before, Sooner
<1>5. QED
  BY <1>2, <1>3, <1>4

\* One sequence after another.
LEMMA Joined ==
  ASSUME NEW R, NEW s \in Seq(R), NEW t \in Seq(R)
  PROVE  /\ s \o t \in Seq(R) /\ Len(s) \in Nat /\ Len(t) \in Nat
         /\ DOMAIN s = 1 .. Len(s) /\ DOMAIN t = 1 .. Len(t)
         /\ DOMAIN (s \o t) = 1 .. Len(s) + Len(t) /\ Len(s \o t) = Len(s) + Len(t)
         /\ \A i \in DOMAIN s : (s \o t)[i] = s[i]
         /\ \A i \in DOMAIN t : (s \o t)[Len(s) + i] = t[i]
         /\ \A i \in DOMAIN (s \o t) :
              i \in DOMAIN s \/ (i > Len(s) /\ i - Len(s) \in DOMAIN t /\ (s \o t)[i] = t[i - Len(s)])
<1>1. /\ Len(s) \in Nat /\ Len(t) \in Nat /\ DOMAIN s = 1 .. Len(s) /\ DOMAIN t = 1 .. Len(t)
  BY LenProperties
<1>2. /\ s \o t \in Seq(R) /\ Len(s \o t) = Len(s) + Len(t)
      /\ \A i \in 1 .. Len(s) + Len(t) : (s \o t)[i] = IF i <= Len(s) THEN s[i] ELSE t[i - Len(s)]
  BY ConcatProperties
<1>3. DOMAIN (s \o t) = 1 .. Len(s) + Len(t)
  BY <1>1, <1>2, LenProperties
<1>4. QED
  BY <1>1, <1>2, <1>3

\* Findings with their places, in order.
Lists(added, S) ==
  /\ added \in Seq([finding: Findings, place: 1 .. Places])
  /\ \A i \in DOMAIN added : added[i].finding \in S /\ added[i].place = place[added[i].finding]
  /\ \A f \in S : HasItem(added, f)
  /\ \A i, j \in DOMAIN added : i < j => Sooner(added[i].place, added[j].place)

LEMMA PlacedFacts ==
  ASSUME NEW S, Rows(S), \A f \in S : place[f] # 0
  PROVE  Lists(WithPlaces(Ordered(S)), S)
<1>1. PICK s : s = Ordered(S)
  OBVIOUS
<1>2. /\ s \in Seq(S) /\ Len(s) = Cardinality(S)
      /\ \A f \in S : \E i \in DOMAIN s : s[i] = f
      /\ \A i, j \in DOMAIN s : i < j => Before(s[i], s[j])
  BY <1>1, OrderedFacts DEF Has
<1>3. DOMAIN s = 1 .. Len(s) /\ Len(s) \in Nat /\ \A i \in DOMAIN s : s[i] \in S
  BY <1>2, LenProperties, ElementOfSeq
<1>4. PICK added : added = [i \in DOMAIN s |-> [finding |-> s[i], place |-> place[s[i]]]]
  OBVIOUS
<1>5. \A i \in DOMAIN s : added[i].finding = s[i] /\ added[i].place = place[s[i]]
  BY <1>4
<1>6. \A i \in DOMAIN s : s[i] \in Findings /\ place[s[i]] \in 1 .. Places
  BY <1>3, PagesAssumption DEF Rows
<1>7. \A i \in DOMAIN s : added[i] \in [finding: Findings, place: 1 .. Places]
  BY <1>4, <1>6
<1>8. DOMAIN added = 1 .. Len(s) /\ added \in Seq([finding: Findings, place: 1 .. Places])
  <2>1. PICK R : R = [finding: Findings, place: 1 .. Places]
    OBVIOUS
  <2>2. \A i \in 1 .. Len(s) : added[i] \in R
    BY <1>3, <1>7, <2>1
  <2>3. added = [i \in 1 .. Len(s) |-> added[i]]
    BY <1>3, <1>4
  <2>4. added \in Seq(R) /\ DOMAIN added = 1 .. Len(s)
    BY <1>3, <2>2, <2>3
  <2>5. QED
    BY <2>1, <2>4
<1>9. \A i, j \in DOMAIN s : i < j => Sooner(place[s[i]], place[s[j]])
  BY <1>2 DEF Before, Sooner
<1>10. Lists(added, S)
  <2>1. \A i \in DOMAIN added : added[i].finding \in S /\ added[i].place = place[added[i].finding]
    BY <1>3, <1>5, <1>8
  <2>2. \A f \in S : HasItem(added, f)
    BY <1>2, <1>3, <1>5, <1>8 DEF HasItem
  <2>3. \A i, j \in DOMAIN added : i < j => Sooner(added[i].place, added[j].place)
    BY <1>3, <1>5, <1>8, <1>9
  <2>4. QED
    BY <1>8, <2>1, <2>2, <2>3, Zenon DEF Lists
<1>11. WithPlaces(Ordered(S)) = added
  BY <1>1, <1>4 DEF WithPlaces
<1>12. QED
  BY <1>10, <1>11

LEMMA AnswerReads ==
  ASSUME IInv, pc = "query", NEW answer \in Answers
  PROVE  Reads(answer)
<1>1. /\ forward \in BOOLEAN /\ place \in [Findings -> 0 .. Places] /\ Places \in Nat
      /\ token \in 0 .. Places /\ start \in 0 .. Places /\ steady \subseteq Findings
      /\ \A f \in Findings : place[f] \in Nat
  BY PagesAssumption DEF IInv, TypeOK, Asks
<1>2. PICK rest : rest = Rest
  OBVIOUS
<1>3. /\ rest \subseteq Findings
      /\ \A f \in Findings :
           f \in rest <=> place[f] # 0 /\ InPartition(query, RowOf(f)) /\ After(place[f])
  BY <1>2 DEF Rest
<1>4. Rows(rest)
  BY <1>1, <1>3 DEF Rows, IInv, Placed
<1>5. PICK n \in 0 .. 2 * PageSize :
        n <= Cardinality(rest) /\ (n = 0 => rest = {}) /\ answer = AnswerAfter(n)
  BY <1>2 DEF Answers
<1>6. PICK new : new = {f \in rest : Rank(rest, f) < n /\ Passes(f)}
  OBVIOUS
<1>7. PICK key : key = answer.key
  OBVIOUS
<1>8. PICK added : added = WithPlaces(Ordered(new))
  OBVIOUS
<1>9. /\ key = IF n = 0 \/ (n = Cardinality(rest) /\ n < 2 * PageSize) THEN 0
               ELSE place[Nth(rest, n)]
      /\ answer.items = found \o added
  BY <1>2, <1>5, <1>6, <1>7, <1>8 DEF AnswerAfter
<1>10. Cardinality(rest) \in Nat /\ n \in Nat
  BY <1>4, RankFacts
<1>11. /\ key \in 0 .. Places
       /\ \A f \in rest : Rank(rest, f) < n <=> key = 0 \/ ~Sooner(key, place[f])
       /\ key # 0 => start = 0 \/ Sooner(start, key)
  <2>1. \A f \in rest : Rank(rest, f) \in 0 .. Cardinality(rest) - 1
    BY <1>4, RankFacts
  <2>2. CASE n = 0 \/ (n = Cardinality(rest) /\ n < 2 * PageSize)
    <3>1. key = 0
      BY <1>9, <2>2
    <3>2. \A f \in rest : Rank(rest, f) < n
      BY <1>5, <1>10, <2>1, <2>2
    <3>3. QED
      BY <1>1, <3>1, <3>2
  <2>3. CASE ~(n = 0 \/ (n = Cardinality(rest) /\ n < 2 * PageSize))
    <3>1. key = place[Nth(rest, n)] /\ n \in 1 .. Cardinality(rest)
      BY <1>5, <1>9, <1>10, <2>3
    <3>2. Nth(rest, n) \in rest
      BY <1>4, <3>1, OrderedFacts
    <3>3. key \in 0 .. Places /\ key # 0 /\ After(key)
      BY <1>1, <1>3, <3>1, <3>2
    <3>4. \A f \in rest : Rank(rest, f) < n <=> ~Sooner(key, place[f])
      BY <1>4, <3>1, UpTo
    <3>5. start = 0 \/ Sooner(start, key)
      BY <1>1, <3>3 DEF After, Sooner
    <3>6. QED
      BY <3>3, <3>4, <3>5
  <2>4. QED
    BY <2>2, <2>3
<1>12. /\ new \subseteq rest /\ new \subseteq Findings /\ Rows(new)
       /\ \A f \in new : place[f] # 0
       /\ \A f \in Findings :
            f \in new <=> /\ place[f] # 0 /\ InPartition(query, RowOf(f)) /\ Passes(f)
                         /\ After(place[f]) /\ (key = 0 \/ ~Sooner(key, place[f]))
  BY <1>3, <1>4, <1>6, <1>11 DEF Rows
<1>13. PICK R : R = [finding: Findings, place: 1 .. Places]
  OBVIOUS
<1>14. /\ added \in Seq(R)
       /\ \A i \in DOMAIN added : added[i].finding \in new /\ added[i].place = place[added[i].finding]
       /\ \A f \in new : \E i \in DOMAIN added : added[i].finding = f
       /\ \A i, j \in DOMAIN added : i < j => Sooner(added[i].place, added[j].place)
  <2>1. Lists(added, new)
    BY <1>8, <1>12, PlacedFacts
  <2>2. QED
    BY <1>13, <2>1 DEF Lists, HasItem
<1>15. /\ found \in Seq(R)
       /\ \A i, j \in DOMAIN found : i < j => Sooner(found[i].place, found[j].place)
       /\ \A i \in DOMAIN found :
            /\ start # 0 /\ ~Sooner(start, found[i].place)
            /\ token = 0 \/ Sooner(token, found[i].place)
            /\ found[i].finding \in steady => found[i].place = place[found[i].finding]
       /\ token # 0 => start # 0 /\ ~Sooner(start, token)
  BY <1>13 DEF IInv, Ordering
<1>16. PICK items : items = found \o added
  OBVIOUS
<1>17. /\ items \in Seq(R) /\ Len(found) \in Nat /\ Len(added) \in Nat
       /\ DOMAIN found = 1 .. Len(found) /\ DOMAIN added = 1 .. Len(added)
       /\ DOMAIN items = 1 .. Len(found) + Len(added)
       /\ \A i \in DOMAIN found : items[i] = found[i]
       /\ \A i \in DOMAIN added : items[Len(found) + i] = added[i]
       /\ \A i \in DOMAIN items :
            i \in DOMAIN found \/ (i > Len(found) /\ i - Len(found) \in DOMAIN added
                                    /\ items[i] = added[i - Len(found)])
  BY <1>14, <1>15, <1>16, Joined
<1>18. /\ \A i \in DOMAIN found : found[i].place \in Nat
       /\ \A i \in DOMAIN added : added[i].place \in Nat
  <2>1. \A i \in DOMAIN found : found[i] \in R
    BY <1>15, <1>17, ElementOfSeq
  <2>2. QED
    BY <1>1, <1>12, <1>13, <1>14, <2>1
<1>19. \A p \in Nat : start = 0 \/ Sooner(start, p) <=> After(p)
  BY DEF After, Sooner
<1>20. \A i \in DOMAIN added : /\ start = 0 \/ Sooner(start, added[i].place)
                               /\ key = 0 \/ ~Sooner(key, added[i].place)
  BY <1>12, <1>14, <1>18, <1>19
<1>21. /\ \A p, q, x \in Nat : Sooner(p, q) /\ Sooner(q, x) => Sooner(p, x)
       /\ \A p, q \in Nat : Sooner(p, q) => ~Sooner(q, p)
       /\ \A p, q \in Nat : Sooner(p, q) \/ Sooner(q, p) \/ p = q
       /\ \A p \in Nat : ~Sooner(p, p)
  BY <1>1, SoonerFacts
<1>22. key \in Nat /\ start \in Nat /\ token \in Nat
  BY <1>1, <1>11
<1>23. ASSUME NEW i \in DOMAIN found, NEW j \in DOMAIN added
       PROVE  Sooner(found[i].place, added[j].place)
  BY <1>15, <1>18, <1>20, <1>21, <1>22
<1>24. ASSUME NEW i \in DOMAIN items, NEW j \in DOMAIN items, i < j
       PROVE  Sooner(items[i].place, items[j].place)
  <2>1. CASE j \in DOMAIN found
    <3>1. i \in DOMAIN found
      BY <1>17, <1>24, <2>1
    <3>2. QED
      BY <1>15, <1>17, <1>24, <2>1, <3>1
  <2>2. CASE j \notin DOMAIN found /\ i \in DOMAIN found
    <3>1. j - Len(found) \in DOMAIN added /\ items[j] = added[j - Len(found)]
      BY <1>17, <2>2
    <3>2. QED
      BY <1>17, <1>23, <2>2, <3>1
  <2>3. CASE i \notin DOMAIN found /\ j \notin DOMAIN found
    <3>1. /\ j - Len(found) \in DOMAIN added /\ items[j] = added[j - Len(found)]
          /\ i - Len(found) \in DOMAIN added /\ items[i] = added[i - Len(found)]
      BY <1>17, <2>3
    <3>2. i - Len(found) < j - Len(found)
      BY <1>17, <1>24
    <3>3. QED
      BY <1>14, <3>1, <3>2
  <2>4. QED
    BY <2>1, <2>2, <2>3
<1>25. key # 0 /\ token # 0 => ~Sooner(key, token)
  BY <1>11, <1>15, <1>21, <1>22
<1>26. ASSUME NEW i \in DOMAIN items
       PROVE  /\ key = 0 \/ ~Sooner(key, items[i].place)
              /\ token = 0 \/ Sooner(token, items[i].place)
              /\ items[i].finding \in steady => items[i].place = place[items[i].finding]
  <2>1. CASE i \in DOMAIN found
    <3>1. key = 0 \/ ~Sooner(key, found[i].place)
      BY <1>11, <1>15, <1>18, <1>21, <1>22, <2>1
    <3>2. QED
      BY <1>15, <1>17, <2>1, <3>1
  <2>2. CASE i \notin DOMAIN found
    <3>1. PICK j \in DOMAIN added : items[i] = added[j]
      BY <1>17, <2>2
    <3>2. token = 0 \/ Sooner(token, added[j].place)
      BY <1>15, <1>18, <1>20, <1>21, <1>22
    <3>3. QED
      BY <1>14, <1>20, <3>1, <3>2
  <2>3. QED
    BY <2>1, <2>2
<1>27. ASSUME NEW f \in steady
       PROVE  HasItem(items, f) <=> Wanted(f) /\ (key = 0 \/ Behind(f, key)) /\ ~Behind(f, token)
  <2>1. /\ f \in Findings /\ place[f] # 0 /\ place[f] \in Nat
        /\ Wanted(f) <=> InPartition(query, RowOf(f)) /\ Passes(f)
    BY <1>1, Selected DEF IInv, Placed
  <2>2. HasItem(found, f) <=> Wanted(f) /\ Behind(f, start) /\ ~Behind(f, token)
    BY DEF IInv, Collected
  <2>3. HasItem(items, f) <=> HasItem(found, f) \/ f \in new
    <3>1. HasItem(found, f) => HasItem(items, f)
      BY <1>17 DEF HasItem
    <3>2. f \in new => HasItem(items, f)
      <4>1. SUFFICES ASSUME f \in new PROVE HasItem(items, f)
        OBVIOUS
      <4>2. PICK i \in DOMAIN added : added[i].finding = f
        BY <1>14, <4>1
      <4>3. Len(found) + i \in DOMAIN items /\ items[Len(found) + i].finding = f
        BY <1>17, <4>2
      <4>4. QED
        BY <4>3 DEF HasItem
    <3>3. HasItem(items, f) => HasItem(found, f) \/ f \in new
      BY <1>14, <1>17 DEF HasItem
    <3>4. QED
      BY <3>1, <3>2, <3>3
  <2>4. f \in new <=> Wanted(f) /\ ~Behind(f, start) /\ (key = 0 \/ Behind(f, key))
    BY <1>12, <1>19, <2>1 DEF Behind
  <2>5. Behind(f, start) => key = 0 \/ Behind(f, key)
    BY <1>11, <1>21, <1>22, <2>1 DEF Behind
  <2>6. Behind(f, token) => Behind(f, start)
    BY <1>15, <1>21, <1>22, <2>1 DEF Behind
  <2>7. QED
    BY <2>2, <2>3, <2>4, <2>5, <2>6
<1>28. answer.items = items
  BY <1>9, <1>16
<1>29. QED
  BY <1>7, <1>11, <1>13, <1>17, <1>24, <1>25, <1>26, <1>27, <1>28 DEF Reads

\* What a page has, and the token that follows it: of what has not changed, all that is wanted
\* from one token to the next.
Gives(page, following) ==
  /\ page \in Seq([finding: Findings, place: 1 .. Places])
  /\ following \in 0 .. Places
  /\ following # 0 /\ token # 0 => ~Sooner(following, token)
  /\ \A f \in steady :
       /\ \A i, j \in DOMAIN page : page[i].finding = f /\ page[j].finding = f => i = j
       /\ HasItem(page, f) => Wanted(f) /\ ~Behind(f, token)
       /\ following # 0 => (HasItem(page, f) <=>
                              Wanted(f) /\ Behind(f, following) /\ ~Behind(f, token))
       /\ Answerable /\ following = 0 => (HasItem(page, f) <=> Wanted(f) /\ ~Behind(f, token))

LEMMA PageGives ==
  ASSUME IInv, pc = "query", NEW answer, Reads(answer),
         NEW page, page = SubSeq(answer.items, 1,
                                 IF Len(answer.items) < PageSize THEN Len(answer.items) ELSE PageSize),
         NEW following,
         following = DetermineNextTokenKey(answer.items, answer.key, known \/ answer.key # 0)
  PROVE  Gives(page, following)
<1>1. /\ forward \in BOOLEAN /\ place \in [Findings -> 0 .. Places] /\ Places \in Nat
      /\ token \in 0 .. Places /\ steady \subseteq Findings /\ PageSize \in Nat \ {0}
      /\ \A f \in steady : place[f] \in Nat /\ place[f] # 0
  BY PagesAssumption DEF IInv, TypeOK, Asks, Placed
<1>2. PICK R : R = [finding: Findings, place: 1 .. Places]
  OBVIOUS
<1>3. PICK items : items = answer.items
  OBVIOUS
<1>4. PICK key : key = answer.key
  OBVIOUS
<1>5. /\ key \in 0 .. Places /\ items \in Seq(R)
      /\ \A i, j \in DOMAIN items : i < j => Sooner(items[i].place, items[j].place)
      /\ \A i \in DOMAIN items :
           /\ key = 0 \/ ~Sooner(key, items[i].place)
           /\ token = 0 \/ Sooner(token, items[i].place)
           /\ items[i].finding \in steady => items[i].place = place[items[i].finding]
      /\ key # 0 /\ token # 0 => ~Sooner(key, token)
      /\ \A f \in steady :
           HasItem(items, f) <=> Wanted(f) /\ (key = 0 \/ Behind(f, key)) /\ ~Behind(f, token)
  BY <1>2, <1>3, <1>4 DEF Reads
<1>6. /\ Len(items) \in Nat /\ DOMAIN items = 1 .. Len(items)
      /\ \A i \in DOMAIN items : items[i] \in R
  BY <1>5, LenProperties, ElementOfSeq
<1>7. \A i \in DOMAIN items : items[i].place \in 1 .. Places
  BY <1>2, <1>6
<1>8. /\ \A p, q, x \in Nat : Sooner(p, q) /\ Sooner(q, x) => Sooner(p, x)
      /\ \A p, q \in Nat : Sooner(p, q) => ~Sooner(q, p)
      /\ \A p, q \in Nat : Sooner(p, q) \/ Sooner(q, p) \/ p = q
      /\ \A p \in Nat : ~Sooner(p, p)
  BY <1>1, SoonerFacts
<1>9. ASSUME NEW f \in steady, NEW i \in DOMAIN items, NEW j \in DOMAIN items,
             items[i].finding = f, items[j].finding = f
      PROVE  i = j
  <2>1. items[i].place = place[f] /\ items[j].place = place[f] /\ place[f] \in Nat
    BY <1>1, <1>5, <1>9
  <2>2. ~Sooner(place[f], place[f])
    BY <1>8, <2>1
  <2>3. ~(i < j) /\ ~(j < i)
    BY <1>5, <2>1, <2>2
  <2>4. QED
    BY <1>6, <2>3
<1>10. CASE Len(items) <= PageSize
  <2>1. page = items
    <3>1. page = SubSeq(items, 1, Len(items))
      BY <1>1, <1>3, <1>6, <1>10
    <3>2. SubSeq(items, 1, Len(items)) = [i \in 1 .. Len(items) |-> items[i]]
      BY <1>5, <1>6, SubSeqProperties
    <3>3. items = [i \in 1 .. Len(items) |-> items[i]]
      BY <1>5, LenProperties
    <3>4. QED
      BY <3>1, <3>2, <3>3
  <2>2. following = key
    BY <1>1, <1>3, <1>4, <1>6, <1>10 DEF DetermineNextTokenKey
  <2>3. page \in Seq([finding: Findings, place: 1 .. Places])
    BY <1>2, <1>5, <2>1
  <2>4. \A f \in steady :
          /\ HasItem(page, f) => Wanted(f) /\ ~Behind(f, token)
          /\ following # 0 => (HasItem(page, f) <=>
                                 Wanted(f) /\ Behind(f, following) /\ ~Behind(f, token))
          /\ Answerable /\ following = 0 => (HasItem(page, f) <=> Wanted(f) /\ ~Behind(f, token))
    BY <1>5, <2>1, <2>2
  <2>5. QED
    BY <1>5, <1>9, <2>1, <2>2, <2>3, <2>4 DEF Gives
<1>11. CASE Len(items) > PageSize
  <2>1. /\ page = SubSeq(items, 1, PageSize) /\ page \in Seq(R) /\ Len(page) = PageSize
        /\ DOMAIN page = 1 .. PageSize /\ \A i \in 1 .. PageSize : page[i] = items[i]
        /\ 1 .. PageSize \subseteq DOMAIN items
    <3>1. page = SubSeq(items, 1, PageSize)
      BY <1>1, <1>3, <1>6, <1>11
    <3>2. PageSize \in 1 .. Len(items) /\ 1 .. PageSize \subseteq 1 .. Len(items)
      BY <1>1, <1>6, <1>11
    <3>3. SubSeq(items, 1, PageSize) = [i \in 1 .. PageSize |-> items[i]]
      BY <1>1, <1>5, <1>6, <3>2, SubSeqProperties
    <3>4. \A i \in 1 .. PageSize : items[i] \in R
      BY <1>6, <3>2
    <3>5. [i \in 1 .. PageSize |-> items[i]] \in Seq(R)
      BY <1>1, <3>4
    <3>6. Len([i \in 1 .. PageSize |-> items[i]]) = PageSize
      BY <1>1
    <3>7. QED
      BY <1>6, <3>1, <3>2, <3>3, <3>5, <3>6
  <2>2. PICK last : last = items[PageSize].place
    OBVIOUS
  <2>3. PageSize \in DOMAIN items /\ last \in 1 .. Places
    BY <1>1, <1>7, <2>1, <2>2
  <2>4. following \in {0, last}
        /\ (query.index \in Structured[search.table] => following = last)
    <3>1. following = CreateNextTokenFromLastItem(page, known \/ key # 0)
      BY <1>1, <1>3, <1>4, <1>6, <1>11, <2>1 DEF DetermineNextTokenKey
    <3>2. page[Len(page)].place = last
      BY <1>1, <2>1, <2>2
    <3>3. QED
      BY <3>1, <3>2 DEF CreateNextTokenFromLastItem
  <2>5. Answerable => following = last
    BY <2>4 DEF Answerable, IInv, Asks, TypeOK
  <2>6. token # 0 => ~Sooner(last, token)
    BY <1>1, <1>5, <1>8, <2>2, <2>3
  <2>7. ASSUME NEW f \in steady
        PROVE  HasItem(page, f) <=> Wanted(f) /\ Behind(f, last) /\ ~Behind(f, token)
    <3>1. ASSUME NEW i \in 1 .. PageSize, items[i].finding = f
          PROVE  Wanted(f) /\ Behind(f, last) /\ ~Behind(f, token)
      <4>1. i \in DOMAIN items /\ items[i].place = place[f] /\ HasItem(items, f)
        BY <1>5, <2>1, <3>1 DEF HasItem
      <4>2. i = PageSize \/ Sooner(place[f], last)
        BY <1>1, <1>5, <2>2, <2>3, <4>1
      <4>3. ~Sooner(last, place[f])
        BY <1>1, <1>8, <2>2, <2>3, <4>1, <4>2
      <4>4. QED
        BY <1>5, <2>3, <4>1, <4>3 DEF Behind
    <3>2. ASSUME Wanted(f), Behind(f, last), ~Behind(f, token)
          PROVE  \E i \in 1 .. PageSize : items[i].finding = f
      <4>1. key = 0 \/ Behind(f, key)
        <5>1. key = 0 \/ ~Sooner(key, last)
          BY <1>5, <2>2, <2>3
        <5>2. ~Sooner(last, place[f])
          BY <3>2 DEF Behind
        <5>3. key \in Nat /\ last \in Nat /\ place[f] \in Nat
          BY <1>1, <1>5, <2>3
        <5>4. key = 0 \/ ~Sooner(key, place[f])
          BY <1>8, <5>1, <5>2, <5>3
        <5>5. QED
          BY <5>4 DEF Behind
      <4>2. PICK i \in DOMAIN items : items[i].finding = f
        BY <1>5, <3>2, <4>1 DEF HasItem
      <4>3. items[i].place = place[f]
        BY <1>5, <4>2
      <4>4. ~Sooner(last, place[f])
        BY <3>2 DEF Behind
      <4>5. ~(PageSize < i)
        BY <1>5, <2>2, <2>3, <4>3, <4>4
      <4>6. QED
        BY <1>1, <1>6, <4>2, <4>5
    <3>3. QED
      BY <2>1, <3>1, <3>2 DEF HasItem
  <2>8. ASSUME NEW f \in steady
        PROVE  HasItem(page, f) => Wanted(f) /\ ~Behind(f, token)
    BY <2>7
  <2>9. ASSUME NEW f \in steady, NEW i \in DOMAIN page, NEW j \in DOMAIN page,
               page[i].finding = f, page[j].finding = f
        PROVE  i = j
    BY <1>9, <2>1, <2>9
  <2>10. page \in Seq([finding: Findings, place: 1 .. Places])
    BY <1>2, <2>1
  <2>11. following \in 0 .. Places
    BY <1>1, <2>3, <2>4
  <2>12. last # 0
    BY <2>3
  <2>13. QED
    BY <2>4, <2>5, <2>6, <2>7, <2>9, <2>10, <2>11, <2>12 DEF Gives
<1>12. QED
  BY <1>1, <1>6, <1>10, <1>11

-----------------------------------------------------------------------------
(***************************************************************************)
(* The steps.                                                              *)
(***************************************************************************)

LEMMA Initially == Init => IInv
<1> SUFFICES ASSUME Init PROVE IInv
  OBVIOUS
<1>1. status \in [Findings -> Values]
  <2>1. \A f \in Findings : Attributes[f][Mutable] \in Values
    BY PagesAssumption DEF AttributeMaps
  <2>2. QED
    BY <2>1 DEF Init
<1>2. <<>> \in Seq(Findings) /\ <<>> \in Seq([finding: Findings, place: 1 .. Places])
  OBVIOUS
<1>3. MaxQueries \in Nat \ {0} /\ Places \in Nat
  BY PagesAssumption
<1>4. TypeOK
  BY <1>1, <1>2, <1>3, PagesAssumption DEF Init, TypeOK, States
<1>5. Placed
  BY PagesAssumption DEF Init, Placed
<1>6. Asks /\ Ordering /\ Collected
  BY <1>2 DEF Init, Asks, Ordering, Collected
<1>7. QED
  BY <1>4, <1>5, <1>6 DEF IInv

\* What is wanted and where it is does not change while the row does not.
LEMMA Same ==
  ASSUME UNCHANGED <<search, forward>>, NEW f, place'[f] = place[f], status'[f] = status[f]
  PROVE  /\ Wanted(f)' <=> Wanted(f)
         /\ \A p : Behind(f, p)' <=> Behind(f, p)
         /\ IdOf(f)' = IdOf(f)
<1>1. RowOf(f)' = RowOf(f)
  BY DEF RowOf
<1>2. Wanted(f)' <=> Wanted(f)
  BY <1>1 DEF Wanted
<1>3. \A p : Behind(f, p)' <=> Behind(f, p)
  BY DEF Behind, Sooner
<1>4. QED
  BY <1>2, <1>3 DEF IdOf

LEMMA SameOrder ==
  ASSUME UNCHANGED forward
  PROVE  \A p, q : Sooner(p, q)' <=> Sooner(p, q)
BY DEF Sooner

\* A change of the table takes its finding from the steady ones.
LEMMA TableStep ==
  ASSUME IInv, NEW f \in Findings,
         \/ \E to \in 0 .. Places : Move(f, to)
         \/ \E value \in Values : SetStatus(f, value)
  PROVE  IInv'
<1>1. /\ steady' = steady \ {f}
      /\ UNCHANGED <<faults, search, filters, forward, pc, token, pageVars, todo, result, unread>>
      /\ place' \in [Findings -> 0 .. Places] /\ status' \in [Findings -> Values]
      /\ \A g \in Findings \ {f} : place'[g] = place[g] /\ status'[g] = status[g]
      /\ \A g, h \in Findings : place'[g] = place'[h] => g = h \/ place'[g] = 0
  <2>1. CASE \E to \in 0 .. Places : Move(f, to)
    BY <2>1 DEF IInv, TypeOK, Placed, Move, Changing
  <2>2. CASE \E value \in Values : SetStatus(f, value)
    BY <2>2 DEF IInv, TypeOK, Placed, SetStatus, Changing
  <2>3. QED
    BY <2>1, <2>2
<1>2. steady \subseteq Findings
  BY DEF IInv, TypeOK
<1>3. \A g \in steady' : /\ g \in steady /\ place'[g] = place[g]
                         /\ Wanted(g)' <=> Wanted(g)
                         /\ \A p : Behind(g, p)' <=> Behind(g, p)
                         /\ IdOf(g)' = IdOf(g)
  BY <1>1, <1>2, Same
<1>4. \A p, q : Sooner(p, q)' <=> Sooner(p, q)
  BY <1>1, SameOrder
<1>5. TypeOK'
  BY <1>1 DEF IInv, TypeOK, pageVars
<1>6. Placed'
  BY <1>1, <1>3 DEF IInv, Placed
<1>7. Asks'
  BY <1>1 DEF IInv, Asks, pageVars
<1>8. Ordering'
  BY <1>1, <1>3, <1>4 DEF IInv, Ordering, pageVars
<1>9. Collected'
  <2>1. found' = found /\ start' = start
    BY <1>1 DEF pageVars
  <2>2. QED
    BY <1>1, <1>3, <2>1 DEF IInv, Collected
<1>10. QED
  BY <1>5, <1>6, <1>7, <1>8, <1>9 DEF IInv

\* A reader that begins has passed nothing.
LEMMA BeginStep ==
  ASSUME IInv, Begin
  PROVE  IInv'
<1>1. /\ pc = "idle" /\ pc' \in {"error", "loop", "direct"}
      /\ pc' = "loop" => search.asked = {}
      /\ pc' = "direct" => search.asked # {}
      /\ filters' = FiltersOf(search) /\ todo' = search.asked
      /\ steady' = {f \in Findings : place[f] # 0}
      /\ UNCHANGED <<place, status, search, forward, token, pageVars, result, unread>>
  BY DEF Begin, FiltersOf, tableVars
<1>2. result = <<>> /\ token = 0
  BY <1>1 DEF IInv, Asks
<1>3. FiltersOf(search) \subseteq SearchFilter /\ search.asked \subseteq Findings
  BY RequestExact, PagesAssumption DEF IInv, TypeOK
<1>4. TypeOK'
  BY <1>1, <1>3 DEF IInv, TypeOK, States, pageVars
<1>5. Placed'
  BY <1>1 DEF IInv, Placed
<1>6. Asks'
  BY <1>1 DEF IInv, Asks, pageVars
<1>7. Ordering'
  BY <1>1 DEF IInv, Ordering, pageVars
<1>8. \A f : ~Has(result', f) /\ ~Behind(f, token)'
  BY <1>1, <1>2 DEF Has, Behind
<1>9. \A f : Wanted(f)' => search.asked = {} \/ IdOf(f)' \in search.asked
  BY <1>1 DEF Wanted, IdOf
<1>10. Collected'
  <2>1. \A f \in steady', i, j \in DOMAIN result' : ~(result'[i] = f)
    BY <1>8 DEF Has
  <2>2. QED
    BY <1>1, <1>8, <1>9, <2>1 DEF Collected
<1>11. QED
  BY <1>4, <1>5, <1>6, <1>7, <1>10 DEF IInv

\* Nothing is claimed of a reader that stops early.
LEMMA StopStep ==
  ASSUME IInv, pc' \in {"partial", "error"},
         UNCHANGED <<tableVars, search, filters, forward, token, pageVars, todo, result, steady, unread>>
  PROVE  IInv'
<1>1. UNCHANGED <<place, status, search, filters, forward, token, query, start, found, queries,
                  known, todo, result, steady, unread>>
  BY DEF tableVars, pageVars
<1>2. TypeOK'
  BY <1>1 DEF IInv, TypeOK, States
<1>3. Placed' /\ Asks' /\ Ordering'
  BY <1>1 DEF IInv, Placed, Asks, Ordering
<1>4. \A f : Wanted(f)' <=> Wanted(f)
  BY <1>1, Same
<1>5. Collected'
  BY <1>1, <1>4 DEF IInv, Collected
<1>6. QED
  BY <1>2, <1>3, <1>5 DEF IInv

\* A page begins after its token.
LEMMA SearchStep ==
  ASSUME IInv, Search
  PROVE  IInv'
<1>1. /\ pc = "loop" /\ pc' = "query" /\ start' = token /\ found' = <<>>
      /\ queries' = 0 /\ known' = FALSE
      /\ query' = IF search.table = "findings"
                  THEN BuildOptimizedQuery(filters, search.sortField)
                  ELSE BuildHistoryQuery(filters)
      /\ UNCHANGED <<place, status, search, filters, forward, token, todo, result, steady, unread>>
  BY DEF Search, ParseNextToken, tableVars
<1>2. query' = QueryOfSearch(search)
  BY <1>1 DEF IInv, Asks, QueryOfSearch
<1>3. <<>> \in Seq([finding: Findings, place: 1 .. Places]) /\ MaxQueries \in Nat \ {0}
  BY PagesAssumption
<1>4. TypeOK'
  BY <1>1, <1>3 DEF IInv, TypeOK, States
<1>5. Placed' /\ Asks'
  BY <1>1, <1>2 DEF IInv, Placed, Asks
<1>6. ~Sooner(token, token)'
  BY <1>1 DEF IInv, TypeOK, Asks, Sooner
<1>7. Ordering'
  BY <1>1, <1>3, <1>6 DEF Ordering
<1>8. \A f : (Wanted(f)' <=> Wanted(f)) /\ \A p : Behind(f, p)' <=> Behind(f, p)
  BY <1>1, Same
<1>9. \A f : ~HasItem(found', f)
  BY <1>1 DEF HasItem
<1>10. Collected'
  <2>1. \A f : Behind(f, token)' <=> Behind(f, token)
    BY <1>1 DEF Behind, Sooner
  <2>2. \A f : Behind(f, start)' <=> Behind(f, token)'
    BY <1>1 DEF Behind, Sooner
  <2>3. QED
    BY <1>1, <1>8, <1>9, <2>1, <2>2 DEF IInv, Collected
<1>11. QED
  BY <1>4, <1>5, <1>7, <1>10 DEF IInv

\* An answer that the page asks on after moves the start key.
LEMMA ContinueStep ==
  ASSUME IInv, pc = "query", NEW answer, Reads(answer), Answer(answer),
         AnotherQuery(answer.items, answer.key, queries + 1)
  PROVE  IInv'
<1>1. /\ answer.key # 0 /\ queries + 1 < MaxQueries
      /\ start' = answer.key /\ found' = answer.items /\ queries' = queries + 1
      /\ known' = (known \/ answer.key # 0)
      /\ UNCHANGED <<place, status, search, filters, forward, pc, token, query, todo, result,
                     steady, unread>>
  BY DEF Answer, AnotherQuery, tableVars
<1>2. TypeOK'
  <2>1. start' \in 0 .. Places
    BY <1>1 DEF Reads
  <2>2. queries' \in 0 .. MaxQueries - 1
    BY <1>1, PagesAssumption DEF IInv, TypeOK
  <2>3. QED
    BY <1>1, <2>1, <2>2 DEF IInv, TypeOK
<1>3. Placed' /\ Asks'
  BY <1>1 DEF IInv, Placed, Asks
<1>4. \A p, q : Sooner(p, q)' <=> Sooner(p, q)
  BY <1>1, SameOrder
<1>5. \A f : (Wanted(f)' <=> Wanted(f)) /\ \A p : Behind(f, p)' <=> Behind(f, p)
  BY <1>1, Same
<1>6. Ordering'
  <2>1. found' \in Seq([finding: Findings, place: 1 .. Places])
    BY <1>1 DEF Reads
  <2>2. QED
    BY <1>1, <1>4, <2>1 DEF Reads, Ordering
<1>7. Collected'
  <2>1. \A f : (Behind(f, token)' <=> Behind(f, token)) /\ (Behind(f, start)' <=> Behind(f, answer.key))
    BY <1>1 DEF Behind, Sooner
  <2>2. \A f \in steady : HasItem(found', f) <=> Wanted(f) /\ Behind(f, answer.key) /\ ~Behind(f, token)
    BY <1>1 DEF Reads
  <2>3. QED
    BY <1>1, <1>5, <2>1, <2>2 DEF IInv, Collected
<1>8. QED
  BY <1>2, <1>3, <1>6, <1>7 DEF IInv

\* A page that ends is collected, and its token is where the next one begins.
LEMMA PageStep ==
  ASSUME IInv, pc = "query", NEW answer, Reads(answer), Answer(answer),
         ~AnotherQuery(answer.items, answer.key, queries + 1)
  PROVE  IInv'
<1>1. PICK page : page = SubSeq(answer.items, 1,
                                IF Len(answer.items) < PageSize THEN Len(answer.items) ELSE PageSize)
  OBVIOUS
<1>2. PICK following :
        following = DetermineNextTokenKey(answer.items, answer.key, known \/ answer.key # 0)
  OBVIOUS
<1>3. PICK more : more = [i \in DOMAIN page |-> page[i].finding]
  OBVIOUS
<1>4. /\ token' = following /\ result' = result \o more
      /\ pc' = AfterPage(result', following)
      /\ start' = 0 /\ found' = <<>> /\ queries' = 0 /\ known' = FALSE
      /\ UNCHANGED <<place, status, search, filters, forward, query, todo, steady, unread>>
  BY <1>1, <1>2, <1>3 DEF Answer, tableVars
<1>5. Gives(page, following)
  BY <1>1, <1>2, PageGives
<1>6. PICK R : R = [finding: Findings, place: 1 .. Places]
  OBVIOUS
<1>7. /\ page \in Seq(R) /\ Len(page) \in Nat /\ DOMAIN page = 1 .. Len(page)
      /\ \A i \in DOMAIN page : page[i].finding \in Findings
  <2>1. page \in Seq(R)
    BY <1>5, <1>6 DEF Gives
  <2>2. \A i \in DOMAIN page : page[i] \in R
    BY <2>1, LenProperties, ElementOfSeq
  <2>3. QED
    BY <1>6, <2>1, <2>2, LenProperties
<1>8. more \in Seq(Findings) /\ DOMAIN more = DOMAIN page
      /\ \A i \in DOMAIN more : more[i] = page[i].finding
  BY <1>3, <1>7
<1>9. result \in Seq(Findings)
  BY DEF IInv, TypeOK
<1>10. PICK collected : collected = result \o more
  OBVIOUS
<1>11. /\ collected \in Seq(Findings) /\ Len(result) \in Nat /\ Len(more) \in Nat
       /\ DOMAIN result = 1 .. Len(result) /\ DOMAIN more = 1 .. Len(more)
       /\ DOMAIN collected = 1 .. Len(result) + Len(more)
       /\ \A i \in DOMAIN result : collected[i] = result[i]
       /\ \A i \in DOMAIN more : collected[Len(result) + i] = more[i]
       /\ \A i \in DOMAIN collected :
            i \in DOMAIN result \/ (i > Len(result) /\ i - Len(result) \in DOMAIN more
                                     /\ collected[i] = more[i - Len(result)])
  BY <1>8, <1>9, <1>10, Joined
<1>12. \A f : Has(collected, f) <=> Has(result, f) \/ HasItem(page, f)
  <2>1. ASSUME NEW f, Has(result, f) PROVE Has(collected, f)
    BY <1>11, <2>1 DEF Has
  <2>2. ASSUME NEW f, HasItem(page, f) PROVE Has(collected, f)
    <3>1. PICK i \in DOMAIN more : more[i] = f
      BY <1>8, <2>2 DEF HasItem
    <3>2. Len(result) + i \in DOMAIN collected
      BY <1>11
    <3>3. QED
      BY <1>11, <3>1, <3>2 DEF Has
  <2>3. ASSUME NEW f, Has(collected, f) PROVE Has(result, f) \/ HasItem(page, f)
    BY <1>8, <1>11, <2>3 DEF Has, HasItem
  <2>4. QED
    BY <2>1, <2>2, <2>3
<1>13. pc' \in {"loop", "partial", "complete"}
       /\ (pc' = "loop" => following # 0) /\ (pc' = "complete" => following = 0)
  BY <1>4 DEF AfterPage
<1>14. MaxQueries \in Nat \ {0} /\ Places \in Nat /\ token \in 0 .. Places
       /\ forward \in BOOLEAN /\ steady \subseteq Findings /\ place \in [Findings -> 0 .. Places]
       /\ search.asked = {}
  BY PagesAssumption DEF IInv, TypeOK, Asks
<1>15. following \in 0 .. Places
  BY <1>5 DEF Gives
<1>16. TypeOK'
  BY <1>4, <1>10, <1>11, <1>13, <1>14, <1>15 DEF IInv, TypeOK, States
<1>17. Placed'
  BY <1>4 DEF IInv, Placed
<1>18. Asks'
  BY <1>4, <1>13 DEF IInv, Asks
<1>19. Ordering'
  BY <1>4, <1>13 DEF Ordering
<1>20. \A f : (Wanted(f)' <=> Wanted(f)) /\ (Behind(f, token)' <=> Behind(f, following))
  <2>1. \A f : Wanted(f)' <=> Wanted(f)
    BY <1>4, Same
  <2>2. \A f : Behind(f, token)' <=> Behind(f, following)
    BY <1>4 DEF Behind, Sooner
  <2>3. QED
    BY <2>1, <2>2
<1>21. ASSUME NEW f \in steady
       PROVE  Has(result, f) <=> Wanted(f) /\ Behind(f, token)
  BY DEF IInv, Collected
<1>22. ASSUME NEW f \in steady, following # 0
       PROVE  Behind(f, token) => Behind(f, following)
  <2>1. place[f] \in Nat /\ token \in Nat /\ following \in Nat
    BY <1>14, <1>15
  <2>2. token # 0 => ~Sooner(following, token)
    BY <1>5, <1>22 DEF Gives
  <2>3. QED
    BY <1>14, <1>22, <2>1, <2>2, SoonerFacts DEF Behind
<1>23. ASSUME NEW f \in steady
       PROVE  /\ HasItem(page, f) => Wanted(f) /\ ~Behind(f, token)
              /\ following # 0 => (HasItem(page, f) <=>
                                     Wanted(f) /\ Behind(f, following) /\ ~Behind(f, token))
              /\ Answerable /\ following = 0 => (HasItem(page, f) <=> Wanted(f) /\ ~Behind(f, token))
  BY <1>5 DEF Gives
<1>24. ASSUME NEW f \in steady
       PROVE  \A i, j \in DOMAIN collected : collected[i] = f /\ collected[j] = f => i = j
  <2>1. \A i, j \in DOMAIN result : result[i] = f /\ result[j] = f => i = j
    BY DEF IInv, Collected
  <2>2. \A i, j \in DOMAIN more : more[i] = f /\ more[j] = f => i = j
    BY <1>5, <1>8 DEF Gives
  <2>3. ~(Has(result, f) /\ HasItem(page, f))
    BY <1>21, <1>23
  <2>4. \A i \in DOMAIN result, j \in DOMAIN more : ~(result[i] = f /\ more[j] = f)
    BY <1>8, <2>3 DEF Has, HasItem
  <2>5. QED
    BY <1>11, <2>1, <2>2, <2>4
<1>25. Collected'
  <2>1. \A f \in steady :
          /\ Has(collected, f) => Wanted(f)
          /\ following # 0 => (Has(collected, f) <=> Wanted(f) /\ Behind(f, following))
          /\ Answerable /\ following = 0 => (Wanted(f) => Has(collected, f))
    BY <1>12, <1>21, <1>22, <1>23
  <2>2. result' = collected /\ steady' = steady
    BY <1>4, <1>10
  <2>3. QED
    BY <1>13, <1>20, <1>24, <2>1, <2>2 DEF Collected
<1>26. QED
  BY <1>16, <1>17, <1>18, <1>19, <1>25 DEF IInv

LEMMA QueryStep ==
  ASSUME IInv, ExecuteQuery
  PROVE  IInv'
<1>1. PICK answer \in Answers : Answer(answer)
  BY DEF ExecuteQuery
<1>2. pc = "query" /\ Reads(answer)
  BY AnswerReads DEF ExecuteQuery
<1>3. QED
  BY <1>1, <1>2, ContinueStep, PageStep

\* What a read by the id of a finding adds: once each, what is wanted of that id, and all of
\* it if it is there and the read does not fail.
Adds(more, id, missed) ==
  /\ more \in Seq(Findings)
  /\ \A i, j \in DOMAIN more : more[i] = more[j] => i = j
  /\ \A f \in Findings : Has(more, f) => IdOf(f) = id /\ Wanted(f)
  /\ Answerable => \A f \in steady : Wanted(f) /\ IdOf(f) = id => Has(more, f) \/ f \in missed

LEMMA ReadStep ==
  ASSUME IInv, pc = "direct", NEW id \in todo, NEW more, Adds(more, id, unread'),
         todo' = todo \ {id}, result' = result \o more, unread' \in SUBSET Findings,
         unread \subseteq unread',
         UNCHANGED <<tableVars, search, filters, forward, pc, token, pageVars, steady>>
  PROVE  IInv'
<1>1. UNCHANGED <<place, status, search, filters, forward, pc, token, query, start, found, queries,
                  known, steady>>
  BY DEF tableVars, pageVars
<1>2. result \in Seq(Findings) /\ more \in Seq(Findings) /\ steady \subseteq Findings
  BY DEF IInv, TypeOK, Adds
<1>3. PICK collected : collected = result \o more
  OBVIOUS
<1>4. /\ collected \in Seq(Findings) /\ Len(result) \in Nat /\ Len(more) \in Nat
      /\ DOMAIN result = 1 .. Len(result) /\ DOMAIN more = 1 .. Len(more)
      /\ DOMAIN collected = 1 .. Len(result) + Len(more)
      /\ \A i \in DOMAIN result : collected[i] = result[i]
      /\ \A i \in DOMAIN more : collected[Len(result) + i] = more[i]
      /\ \A i \in DOMAIN collected :
           i \in DOMAIN result \/ (i > Len(result) /\ i - Len(result) \in DOMAIN more
                                    /\ collected[i] = more[i - Len(result)])
  BY <1>2, <1>3, Joined
<1>5. \A f : Has(collected, f) <=> Has(result, f) \/ Has(more, f)
  <2>1. ASSUME NEW f, Has(result, f) PROVE Has(collected, f)
    BY <1>4, <2>1 DEF Has
  <2>2. ASSUME NEW f, Has(more, f) PROVE Has(collected, f)
    <3>1. PICK i \in DOMAIN more : more[i] = f
      BY <2>2 DEF Has
    <3>2. Len(result) + i \in DOMAIN collected
      BY <1>4
    <3>3. QED
      BY <1>4, <3>1, <3>2 DEF Has
  <2>3. ASSUME NEW f, Has(collected, f) PROVE Has(result, f) \/ Has(more, f)
    BY <1>4, <2>3 DEF Has
  <2>4. QED
    BY <2>1, <2>2, <2>3
<1>6. ASSUME NEW f \in steady
      PROVE  /\ Has(more, f) => IdOf(f) = id /\ Wanted(f)
             /\ Has(result, f) => IdOf(f) \notin todo /\ Wanted(f)
             /\ \A i, j \in DOMAIN result : result[i] = f /\ result[j] = f => i = j
             /\ Answerable /\ Wanted(f) => Has(result, f) \/ f \in unread \/ IdOf(f) \in todo
             /\ Answerable /\ Wanted(f) /\ IdOf(f) = id => Has(more, f) \/ f \in unread'
  BY <1>2 DEF IInv, Collected, Adds
<1>7. ASSUME NEW f \in steady
      PROVE  \A i, j \in DOMAIN collected : collected[i] = f /\ collected[j] = f => i = j
  <2>1. ~(Has(result, f) /\ Has(more, f))
    BY <1>6
  <2>2. \A i \in DOMAIN result, j \in DOMAIN more : ~(result[i] = f /\ more[j] = f)
    BY <2>1 DEF Has
  <2>3. \A i, j \in DOMAIN more : more[i] = f /\ more[j] = f => i = j
    BY DEF Adds
  <2>4. QED
    BY <1>4, <1>6, <2>2, <2>3
<1>8. TypeOK'
  BY <1>1, <1>3, <1>4 DEF IInv, TypeOK
<1>9. Placed' /\ Asks' /\ Ordering'
  BY <1>1 DEF IInv, Placed, Asks, Ordering
<1>10. \A f : (Wanted(f)' <=> Wanted(f)) /\ IdOf(f)' = IdOf(f)
  BY <1>1, Same
<1>11. Collected'
  <2>1. \A f \in steady :
          /\ Has(collected, f) => Wanted(f) /\ IdOf(f) \notin todo \ {id}
          /\ Answerable /\ Wanted(f) =>
               Has(collected, f) \/ f \in unread' \/ IdOf(f) \in todo \ {id}
    BY <1>5, <1>6
  <2>2. result' = collected /\ steady' = steady /\ todo' = todo \ {id} /\ pc' = "direct"
    BY <1>1, <1>3
  <2>3. QED
    BY <1>7, <1>10, <2>1, <2>2 DEF Collected
<1>12. QED
  BY <1>8, <1>9, <1>11 DEF IInv

\* A row that is read matches if it is wanted, and only then.
LEMMA Matching ==
  ASSUME IInv, pc = "direct", NEW f \in Findings
  PROVE  /\ MatchesCriteria(filters, RowOf(f)) /\ IdOf(f) \in todo => Wanted(f)
         /\ Answerable => (Wanted(f) => MatchesCriteria(filters, RowOf(f)))
<1>1. RowOf(f) \in AttributeMaps
  BY PagesAssumption DEF IInv, TypeOK, RowOf, AttributeMaps
<1>2. search \in Searches /\ filters = FiltersOf(search) /\ search.asked # {}
      /\ todo \subseteq search.asked
  BY DEF IInv, TypeOK, Asks
<1>3. Answerable => \A g \in FiltersOf(search) : InMemory(g, RowOf(f)[g.field])
  <2>1. ASSUME Answerable, NEW g \in FiltersOf(search)
        PROVE  InMemory(g, RowOf(f)[g.field])
    <3>1. InMemory(g, Attributes[f][g.field])
      BY <1>2, <2>1 DEF Answerable
    <3>2. g.field \in Fields
      BY <1>2, RequestExact DEF SearchFilter
    <3>3. RowOf(f)[g.field] = Attributes[f][g.field] \/ RowOf(f)[g.field] \in Values
      BY <3>2, PagesAssumption DEF RowOf, IInv, TypeOK, AttributeMaps
    <3>4. QED
      BY <3>1, <3>3, FilterFieldsAssumption DEF InMemory
  <2>2. QED
    BY <2>1
<1>4. QED
  BY <1>1, <1>2, <1>3, MatchExact DEF Wanted, IdOf

LEMMA ReadOneStep ==
  ASSUME IInv, NEW f \in Findings, NEW ok \in BOOLEAN, ReadOne(f, ok)
  PROVE  IInv'
<1>1. PICK matches \in BOOLEAN :
        matches <=> ok /\ place[f] # 0 /\ MatchesCriteria(filters, RowOf(f))
  OBVIOUS
<1>2. PICK more : more = IF matches THEN <<f>> ELSE <<>>
  OBVIOUS
<1>3. /\ pc = "direct" /\ search.table = "findings" /\ f \in todo /\ todo' = todo \ {f}
      /\ UNCHANGED <<tableVars, search, filters, forward, pc, token, pageVars, steady>>
      /\ result' = IF matches THEN Append(result, f) ELSE result
      /\ unread' = IF ok THEN unread ELSE unread \cup {f}
  BY <1>1 DEF ReadOne
<1>4. result \in Seq(Findings) /\ unread \subseteq Findings /\ steady \subseteq Findings
  BY DEF IInv, TypeOK
<1>5. more \in Seq(Findings) /\ result' = result \o more
  <2>1. CASE matches
    BY <1>2, <1>3, <1>4, <2>1, AppendIsConcat
  <2>2. CASE ~matches
    BY <1>2, <1>3, <1>4, <2>2, ConcatEmptySeq
  <2>3. QED
    BY <2>1, <2>2
<1>6. /\ \A i, j \in DOMAIN more : more[i] = more[j] => i = j
      /\ \A g : Has(more, g) <=> matches /\ g = f
  BY <1>2 DEF Has
<1>7. \A g : IdOf(g) = g
  BY <1>3 DEF IdOf
<1>8. matches => Wanted(f)
  BY <1>1, <1>3, <1>7, Matching
<1>9. Answerable /\ f \in steady /\ Wanted(f) => matches \/ ~ok
  BY <1>1, <1>3, Matching DEF IInv, Placed
<1>10. Adds(more, f, unread')
  BY <1>3, <1>5, <1>6, <1>7, <1>8, <1>9 DEF Adds
<1>11. unread' \in SUBSET Findings /\ unread \subseteq unread'
  BY <1>3, <1>4
<1>12. QED
  BY <1>3, <1>5, <1>10, <1>11, ReadStep

LEMMA FetchStep ==
  ASSUME IInv, NEW id \in Findings, NEW ok \in BOOLEAN, FetchRemediations(id, ok)
  PROVE  IInv'
<1>1. PICK matching :
        matching = {f \in Findings : /\ FindingOf[f] = id /\ place[f] # 0
                                     /\ MatchesCriteria(filters, RowOf(f))}
  OBVIOUS
<1>2. PICK more : more = IF ok THEN Ordered(matching) ELSE <<>>
  OBVIOUS
<1>3. /\ pc = "direct" /\ search.table = "history" /\ id \in todo /\ todo' = todo \ {id}
      /\ UNCHANGED <<tableVars, search, filters, forward, pc, token, pageVars, steady>>
      /\ result' = IF ok THEN result \o Ordered(matching) ELSE result
      /\ unread' = IF ok THEN unread ELSE unread \cup {f \in Findings : FindingOf[f] = id}
  BY <1>1 DEF FetchRemediations
<1>4. result \in Seq(Findings) /\ unread \subseteq Findings /\ steady \subseteq Findings
      /\ forward \in BOOLEAN /\ place \in [Findings -> 0 .. Places] /\ Places \in Nat
  BY PagesAssumption DEF IInv, TypeOK, Asks
<1>5. Rows(matching)
  BY <1>1, <1>4 DEF Rows, IInv, Placed
<1>6. PICK s : s = Ordered(matching)
  OBVIOUS
<1>7. /\ s \in Seq(matching) /\ \A f \in matching : Has(s, f)
      /\ \A i, j \in DOMAIN s : i < j => Before(s[i], s[j])
  BY <1>5, <1>6, OrderedFacts
<1>8. /\ Len(s) \in Nat /\ DOMAIN s = 1 .. Len(s) /\ \A i \in DOMAIN s : s[i] \in matching
      /\ s \in Seq(Findings)
  <2>1. Len(s) \in Nat /\ DOMAIN s = 1 .. Len(s) /\ s \in [1 .. Len(s) -> matching]
    BY <1>7, LenProperties
  <2>2. matching \subseteq Findings
    BY <1>1
  <2>3. QED
    BY <2>1, <2>2
<1>9. \A i, j \in DOMAIN s : s[i] = s[j] => i = j
  <2>1. \A f \in matching : ~Before(f, f)
    BY <1>1, <1>4 DEF Before
  <2>2. QED
    BY <1>7, <1>8, <2>1
<1>10. \A f : Has(s, f) <=> f \in matching
  BY <1>7, <1>8 DEF Has
<1>11. \A f : IdOf(f) = FindingOf[f]
  BY <1>3 DEF IdOf
<1>12. \A f \in matching : IdOf(f) = id /\ Wanted(f)
  BY <1>1, <1>3, <1>11, Matching
<1>13. \A f \in steady : Answerable /\ Wanted(f) /\ IdOf(f) = id => f \in matching
  BY <1>1, <1>3, <1>4, <1>11, Matching DEF IInv, Placed
<1>14. Adds(more, id, unread')
  <2>1. CASE ok
    BY <1>2, <1>6, <1>8, <1>9, <1>10, <1>12, <1>13, <2>1 DEF Adds
  <2>2. CASE ~ok
    <3>1. more = <<>> /\ more \in Seq(Findings) /\ \A f : ~Has(more, f)
      BY <1>2, <2>2 DEF Has
    <3>2. \A f \in steady : IdOf(f) = id => f \in unread'
      BY <1>3, <1>4, <1>11, <2>2
    <3>3. \A i, j \in DOMAIN more : more[i] = more[j] => i = j
      BY <3>1
    <3>4. QED
      BY <3>1, <3>2, <3>3 DEF Adds
  <2>3. QED
    BY <2>1, <2>2
<1>15. result' = result \o more
  BY <1>2, <1>3, <1>4, ConcatEmptySeq
<1>16. unread' \in SUBSET Findings /\ unread \subseteq unread'
  BY <1>3, <1>4
<1>17. QED
  BY <1>3, <1>14, <1>15, <1>16, ReadStep

\* All ids are read.
LEMMA DirectEndsStep ==
  ASSUME IInv, DirectEnds
  PROVE  IInv'
<1>1. /\ pc = "direct" /\ todo = {} /\ pc' \in {"partial", "complete"}
      /\ UNCHANGED <<place, status, search, filters, forward, token, query, start, found, queries,
                     known, todo, result, steady, unread>>
  BY DEF DirectEnds, AfterPage, tableVars, pageVars
<1>2. TypeOK'
  BY <1>1 DEF IInv, TypeOK, States
<1>3. Placed' /\ Asks' /\ Ordering'
  BY <1>1 DEF IInv, Placed, Asks, Ordering
<1>4. \A f : Wanted(f)' <=> Wanted(f)
  BY <1>1, Same
<1>5. Collected'
  BY <1>1, <1>4 DEF IInv, Collected
<1>6. QED
  BY <1>2, <1>3, <1>5 DEF IInv

LEMMA Unchanged ==
  ASSUME IInv, UNCHANGED vars
  PROVE  IInv'
<1>1. UNCHANGED <<place, status, search, filters, forward, pc, token, query, start, found, queries,
                  known, todo, result, steady, unread>>
  BY DEF vars, tableVars, pageVars
<1>2. \A f : (Wanted(f)' <=> Wanted(f)) /\ (\A p : Behind(f, p)' <=> Behind(f, p)) /\ IdOf(f)' = IdOf(f)
  BY <1>1, Same
<1>3. \A f : (Behind(f, token)' <=> Behind(f, token)) /\ (Behind(f, start)' <=> Behind(f, start))
  BY <1>1 DEF Behind, Sooner
<1>4. \A p, q : Sooner(p, q)' <=> Sooner(p, q)
  BY <1>1, SameOrder
<1>5. TypeOK' /\ Placed' /\ Asks'
  BY <1>1 DEF IInv, TypeOK, Placed, Asks
<1>6. Ordering'
  BY <1>1, <1>4 DEF IInv, Ordering
<1>7. Collected'
  BY <1>1, <1>2, <1>3 DEF IInv, Collected
<1>8. QED
  BY <1>5, <1>6, <1>7 DEF IInv

LEMMA Invariance == Spec => []IInv
<1>1. Init => IInv
  BY Initially
<1>2. IInv /\ [Next]_vars => IInv'
  <2>1. SUFFICES ASSUME IInv, [Next]_vars PROVE IInv'
    OBVIOUS
  <2>2. CASE UNCHANGED vars
    BY <2>1, <2>2, Unchanged
  <2>3. ASSUME NEW f \in Findings, NEW to \in 0 .. Places, Move(f, to) PROVE IInv'
    BY <2>1, <2>3, TableStep
  <2>4. ASSUME NEW f \in Findings, NEW value \in Values, SetStatus(f, value) PROVE IInv'
    BY <2>1, <2>4, TableStep
  <2>5. CASE Begin
    BY <2>1, <2>5, BeginStep
  <2>6. CASE Search
    BY <2>1, <2>6, SearchStep
  <2>7. CASE ExecuteQuery
    BY <2>1, <2>7, QueryStep
  <2>8. ASSUME NEW f \in Findings, NEW ok \in BOOLEAN, ReadOne(f, ok) PROVE IInv'
    BY <2>1, <2>8, ReadOneStep
  <2>9. ASSUME NEW f \in Findings, NEW ok \in BOOLEAN, FetchRemediations(f, ok) PROVE IInv'
    BY <2>1, <2>9, FetchStep
  <2>10. CASE DirectEnds
    BY <2>1, <2>10, DirectEndsStep
  <2>11. CASE TimeLimit \/ BeginFails \/ QueryFails
    <3>1. /\ pc' \in {"partial", "error"}
          /\ UNCHANGED <<tableVars, search, filters, forward, token, pageVars, todo, result, steady, unread>>
      BY <2>11 DEF TimeLimit, BeginFails, QueryFails
    <3>2. QED
      BY <2>1, <3>1, StopStep
  <2>12. QED
    BY <2>1, <2>2, <2>3, <2>4, <2>5, <2>6, <2>7, <2>8, <2>9, <2>10, <2>11 DEF Next, Read
<1>3. QED
  BY <1>1, <1>2, PTL DEF Spec

-----------------------------------------------------------------------------
(***************************************************************************)
(* The theorems.                                                           *)
(***************************************************************************)

\* How often a finding is in a result that has it at most once.
LEMMA Counted ==
  ASSUME NEW f, \A i, j \in DOMAIN result : result[i] = f /\ result[j] = f => i = j
  PROVE  Copies(f) = IF Has(result, f) THEN 1 ELSE 0
<1>1. PICK at : at = {i \in DOMAIN result : result[i] = f}
  OBVIOUS
<1>2. CASE Has(result, f)
  <2>1. PICK i \in DOMAIN result : result[i] = f
    BY <1>2 DEF Has
  <2>2. at = {i}
    BY <1>1, <2>1
  <2>3. QED
    BY <1>1, <1>2, <2>2, FS_Singleton DEF Copies
<1>3. CASE ~Has(result, f)
  <2>1. at = {}
    BY <1>1, <1>3 DEF Has
  <2>2. QED
    BY <1>1, <1>3, <2>1, FS_EmptySet DEF Copies
<1>4. QED
  BY <1>2, <1>3

\* The variables of a search keep their types, whatever the table does meanwhile.
THEOREM TypeCorrect == Spec => []TypeOK
<1>1. IInv => TypeOK
  BY DEF IInv
<1>2. QED
  BY <1>1, Invariance, PTL

\* No page begins before the end of the one before: a finding that does not change while an
\* export runs is exported at most once, and only if it was asked for.
THEOREM PagesRepeatNothing == Spec => []NothingTwice
<1>1. IInv => NothingTwice
  <2>1. SUFFICES ASSUME IInv, NEW f \in steady
                 PROVE  Copies(f) <= IF Wanted(f) THEN 1 ELSE 0
    BY DEF NothingTwice
  <2>2. Copies(f) = IF Has(result, f) THEN 1 ELSE 0
    BY <2>1, Counted DEF IInv, Collected
  <2>3. Has(result, f) => Wanted(f)
    BY <2>1 DEF IInv, Collected
  <2>4. QED
    BY <2>2, <2>3
<1>2. QED
  BY <1>1, Invariance, PTL

\* And no page ends where the next does not begin: a complete export has every finding that
\* was asked for and did not change, if the searches are ones the code can answer.
THEOREM PagesLoseNothing ==
  ASSUME Answerable
  PROVE  Spec => []NothingLost
<1>1. IInv => NothingLost
  <2>1. SUFFICES ASSUME IInv, pc = "complete", NEW f \in steady, Wanted(f)
                 PROVE  Copies(f) > 0 \/ f \in unread
    BY DEF NothingLost
  <2>2. Copies(f) = IF Has(result, f) THEN 1 ELSE 0
    BY <2>1, Counted DEF IInv, Collected
  <2>3. Has(result, f) \/ f \in unread
    BY <2>1 DEF IInv, Collected
  <2>4. QED
    BY <2>2, <2>3
<1>2. QED
  BY <1>1, Invariance, PTL
=============================================================================
