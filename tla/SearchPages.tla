----------------------------- MODULE SearchPages -----------------------------
(***************************************************************************)
(* A search over a table that changes meanwhile, page by page: the queries *)
(* that fill a page, the token that follows it, and the loop of an       *)
(* export, which follows the tokens until there is none or a limit is      *)
(* reached.  A client of the search API that follows the tokens is the     *)
(* same loop without the limits.                                           *)
(*                                                                         *)
(* Every row has a place in the order of the index; DynamoDB answers from  *)
(* the rows after a place, whether or not there still is a row at it.      *)
(***************************************************************************)
EXTENDS SearchRequests

CONSTANTS
  Findings,     \* keys of the table: findings, or their executions in the history
  FindingOf,    \* execution -> the finding it is of
  Attributes,   \* finding -> its attributes
  Initial,      \* places of the rows before the first change
  Mutable,      \* the attribute that changes, remediationStatus
  Structured,   \* table -> indexes in GSI_KEY_STRUCTURES
  Searches,     \* requests and who sends them
  PageSize,     \* pageSize
  MaxQueries,   \* maxQueries of one page
  MaxRecords,   \* EXPORT_MAX_RECORDS
  Places,       \* bound on the places in the index, 1 .. Places
  MaxChanges,   \* bound on the changes to the table
  MaxFaults     \* bound on failing reads

Tables == {"findings", "history"}

ASSUME PagesAssumption ==
  /\ IsFiniteSet(Findings)
  /\ Attributes \in [Findings -> AttributeMaps]
  /\ Initial \subseteq [Findings -> 0 .. Places]
  /\ \A rows \in Initial, f, g \in Findings : rows[f] = rows[g] => f = g \/ rows[f] = 0
  /\ Mutable \in Fields /\ \A f \in Findings : Attributes[f][Mutable] # Absent
  /\ {PageSize, MaxQueries, MaxRecords} \subseteq Nat \ {0}
  /\ {Places, MaxChanges, MaxFaults} \subseteq Nat
  /\ FindingOf \in [Findings -> Findings]
  /\ DOMAIN Structured = Tables
  /\ \A s \in Searches :
       /\ s.table \in Tables /\ s.user \in RequestingUser /\ s.body \in Bodies
       /\ s.sortField \in {"time", "severityNormalized"} /\ s.asked \subseteq Findings

VARIABLES
  place,    \* finding -> its place in the index, 0 without a row
  status,   \* finding -> remediationStatus
  changes,  \* changes still to come
  faults,   \* faults still to come
  search,   \* the request
  filters,  \* searchCriteria.filters
  forward,  \* ScanIndexForward
  pc,       \* where the reader is
  token,    \* NextToken: a place, or 0
  query,    \* queryParams: the index and what is left to filter
  start,    \* currentExclusiveStartKey: a place, or 0
  found,    \* allFindings of this page: findings and their places
  queries,  \* totalQueriesExecuted
  known,    \* whether lastEvaluatedKeyStructure is set
  todo,     \* finding ids still to be read one by one
  result,   \* the findings collected
  steady,   \* findings whose row has not changed since the reader began
  unread    \* findings a read of which failed

tableVars == <<place, status, changes>>
pageVars == <<query, start, found, queries, known>>
vars == <<tableVars, faults, search, filters, forward, pc, token, pageVars, todo, result, steady, unread>>

States == {"idle", "loop", "query", "direct", "complete", "partial", "error"}
Ended == {"complete", "partial", "error"}

RowOf(f) == [Attributes[f] EXCEPT ![Mutable] = status[f]]

Init ==
  /\ place \in Initial
  /\ status = [f \in Findings |-> Attributes[f][Mutable]]
  /\ changes = MaxChanges
  /\ faults = MaxFaults
  /\ search \in Searches
  /\ filters = {}
  /\ forward \in BOOLEAN
  /\ pc = "idle"
  /\ query = BuildOptimizedQuery({}, "time")
  /\ token = 0 /\ start = 0 /\ found = <<>> /\ queries = 0 /\ known = FALSE
  /\ todo = {} /\ result = <<>>
  /\ steady = {} /\ unread = {}

-----------------------------------------------------------------------------
(***************************************************************************)
(* The table.                                                              *)
(***************************************************************************)

\* Changes before the reader begins are in Initial; those after it has ended do not
\* matter.
Changing(f) ==
  /\ changes > 0
  /\ pc \notin {"idle"} \cup Ended
  /\ changes' = changes - 1
  /\ steady' = steady \ {f}
  /\ UNCHANGED <<faults, search, filters, forward, pc, token, pageVars, todo, result, unread>>

\* A finding is written: its row gets a new place, as the key of the index contains
\* the time of the update.  Place 0: its row is deleted.
Move(f, to) ==
  /\ Changing(f)
  /\ to # place[f] /\ (to = 0 \/ \A g \in Findings : place[g] # to)
  /\ place' = [place EXCEPT ![f] = to]
  /\ UNCHANGED status

\* Its remediation status is written, which is in no key.
SetStatus(f, value) ==
  /\ Changing(f)
  /\ place[f] # 0 /\ status[f] # value
  /\ status' = [status EXCEPT ![f] = value]
  /\ UNCHANGED place

Fault == faults > 0 /\ faults' = faults - 1

-----------------------------------------------------------------------------
(***************************************************************************)
(* The reader.                                                             *)
(***************************************************************************)

\* exportFindings begins, if the user may send the request; findingId filters are answered by reads of the rows.
Begin ==
  /\ pc = "idle"
  /\ pc' = IF ~MaySend(search.user, search.body) THEN "error"
           ELSE IF search.asked = {} THEN "loop" ELSE "direct"
  /\ filters' = ConvertToSearchCriteria(ApplyAccountFiltering(search.user, search.body))
  /\ todo' = search.asked
  /\ steady' = {f \in Findings : place[f] # 0}
  /\ UNCHANGED <<tableVars, faults, search, forward, token, pageVars, result, unread>>

\* The time limit, tested before every page.
TimeLimit ==
  /\ pc = "loop"
  /\ pc' = "partial"
  /\ UNCHANGED <<tableVars, faults, search, filters, forward, token, pageVars, todo, result, steady, unread>>

\* Mutant of ParseNextToken: no token is recognised.
ParseNothing(key) == 0

\* parseNextToken: a key with the fields every index has.
ParseNextToken(key) == key

\* searchFindings: the next page from its token.
Search ==
  /\ pc = "loop"
  /\ pc' = "query"
  /\ query' = IF search.table = "findings"
              THEN BuildOptimizedQuery(filters, search.sortField)
              ELSE BuildHistoryQuery(filters)
  /\ start' = ParseNextToken(token)
  /\ found' = <<>> /\ queries' = 0 /\ known' = FALSE
  /\ UNCHANGED <<tableVars, faults, search, filters, forward, token, todo, result, steady, unread>>

\* The rows of the partition after the start key, in order.
After(p) == start = 0 \/ IF forward THEN p > start ELSE p < start
Rest == {f \in Findings : place[f] # 0 /\ InPartition(query, RowOf(f)) /\ After(place[f])}
Before(f, g) == IF forward THEN place[f] < place[g] ELSE place[f] > place[g]
Rank(S, f) == Cardinality({g \in S : Before(g, f)})
Nth(S, i) == CHOOSE f \in S : Rank(S, f) = i - 1
Ordered(S) == [i \in 1 .. Cardinality(S) |-> Nth(S, i)]
WithPlaces(s) == [i \in DOMAIN s |-> [finding |-> s[i], place |-> place[s[i]]]]

\* The FilterExpression is evaluated on what the limit has let through.
Passes(f) == BuildFilterExpression(query.groups, RowOf(f))

\* createNextTokenFromLastItem: without the fields of the key there is no token.
CreateNextTokenFromLastItem(page, structured) ==
  IF query.index \in Structured[search.table] \/ structured THEN page[Len(page)].place ELSE 0

\* determineNextTokenKey
DetermineNextTokenKey(items, key, structured) ==
  IF Len(items) > PageSize
  THEN CreateNextTokenFromLastItem(SubSeq(items, 1, PageSize), structured)
  ELSE key

\* fetchAllFindingsForExport, after a page.
AfterPage(collected, key) ==
  IF Len(collected) >= MaxRecords THEN "partial" ELSE IF key # 0 THEN "loop" ELSE "complete"

\* Mutant of AnotherQuery: one query too many.
AnotherQueryLate(items, key, executed) ==
  key # 0 /\ Len(items) < PageSize /\ executed <= MaxQueries

\* Whether the page asks on after a query: there are rows left, the page is not full and
\* the limit of queries is not reached.
AnotherQuery(items, key, executed) ==
  key # 0 /\ Len(items) < PageSize /\ executed < MaxQueries

\* The answer of DynamoDB that ends after n rows, of up to 2 * PageSize rows or 1 MB: its
\* LastEvaluatedKey, and allFindings with what passed.
AnswerAfter(n) ==
  LET rest == Rest
      passing == {f \in rest : Rank(rest, f) < n /\ Passes(f)}
  IN  [key |-> IF n = 0 \/ (n = Cardinality(rest) /\ n < 2 * PageSize) THEN 0
               ELSE place[Nth(rest, n)],
       items |-> found \o WithPlaces(Ordered(passing))]
Answers ==
  {AnswerAfter(n) : n \in {m \in 0 .. 2 * PageSize : m <= Cardinality(Rest) /\ (m = 0 => Rest = {})}}

\* What executePaginatedQuery does with an answer: another query, or the end of the page.
Answer(answer) ==
  LET items == answer.items
      key == answer.key
      structured == known \/ key # 0
      page == SubSeq(items, 1, IF Len(items) < PageSize THEN Len(items) ELSE PageSize)
      following == DetermineNextTokenKey(items, key, structured)
      collected == result \o [i \in DOMAIN page |-> page[i].finding]
  IN
  /\ IF AnotherQuery(items, key, queries + 1)
     THEN /\ start' = key /\ found' = items /\ queries' = queries + 1 /\ known' = structured
          /\ UNCHANGED <<pc, token, result>>
     ELSE /\ token' = following /\ result' = collected
          /\ pc' = AfterPage(collected, following)
          /\ start' = 0 /\ found' = <<>> /\ queries' = 0 /\ known' = FALSE
  /\ UNCHANGED <<tableVars, faults, search, filters, forward, query, todo, steady, unread>>

ExecuteQuery == pc = "query" /\ \E answer \in Answers : Answer(answer)

\* The email or the accounts of the user cannot be read: nothing is answered.
BeginFails ==
  /\ pc = "idle"
  /\ Fault
  /\ pc' = "error"
  /\ UNCHANGED <<tableVars, search, filters, forward, token, pageVars, todo, result, steady, unread>>

\* The query raises, and with it the export.
QueryFails ==
  /\ pc = "query"
  /\ Fault
  /\ pc' = "error"
  /\ UNCHANGED <<tableVars, search, filters, forward, token, pageVars, todo, result, steady, unread>>

\* fetchSingleFindingById: a failing read leaves the finding out.
ReadOne(f, ok) ==
  /\ pc = "direct" /\ search.table = "findings"
  /\ f \in todo
  /\ todo' = todo \ {f}
  /\ IF ok THEN UNCHANGED <<faults, unread>> ELSE Fault /\ unread' = unread \cup {f}
  /\ result' = IF ok /\ place[f] # 0 /\ MatchesCriteria(filters, RowOf(f))
               THEN Append(result, f) ELSE result
  /\ UNCHANGED <<tableVars, search, filters, forward, pc, token, pageVars, steady>>

\* fetchRemediationsByFindingId: all executions of a finding, in the order of time, which
\* fit one answer of DynamoDB; a failing query leaves them out.
FetchRemediations(id, ok) ==
  LET matching == {f \in Findings : /\ FindingOf[f] = id /\ place[f] # 0
                                    /\ MatchesCriteria(filters, RowOf(f))}
  IN
  /\ pc = "direct" /\ search.table = "history"
  /\ id \in todo
  /\ todo' = todo \ {id}
  /\ IF ok THEN UNCHANGED <<faults, unread>>
     ELSE Fault /\ unread' = unread \cup {f \in Findings : FindingOf[f] = id}
  /\ result' = IF ok THEN result \o Ordered(matching) ELSE result
  /\ UNCHANGED <<tableVars, search, filters, forward, pc, token, pageVars, steady>>

\* executeDirectTableQueries returns one page without a token.
DirectEnds ==
  /\ pc = "direct" /\ todo = {}
  /\ pc' = AfterPage(result, 0)
  /\ UNCHANGED <<tableVars, faults, search, filters, forward, token, pageVars, todo, result, steady, unread>>

-----------------------------------------------------------------------------
Read ==
  \/ Begin
  \/ Search
  \/ ExecuteQuery
  \/ \E f \in Findings, ok \in BOOLEAN : ReadOne(f, ok) \/ FetchRemediations(f, ok)
  \/ DirectEnds

Next ==
  \/ \E f \in Findings, to \in 0 .. Places : Move(f, to)
  \/ \E f \in Findings, value \in Values : SetStatus(f, value)
  \/ Read
  \/ TimeLimit
  \/ BeginFails
  \/ QueryFails

Spec == Init /\ [][Next]_vars

\* The Lambda function runs on; the table may change or not.
FairSpec == Spec /\ WF_vars(Read)

-----------------------------------------------------------------------------
Copies(f) == Cardinality({i \in DOMAIN result : result[i] = f})

TypeOK ==
  /\ place \in [Findings -> 0 .. Places]
  /\ status \in [Findings -> Values]
  /\ search \in Searches
  /\ filters \subseteq SearchFilter
  /\ pc \in States
  /\ {token, start} \subseteq 0 .. Places
  /\ queries \in 0 .. MaxQueries - 1
  /\ todo \subseteq Findings
  /\ result \in Seq(Findings)
  /\ steady \cup unread \subseteq Findings

\* The rows a user asks for: those his filters hold for, among the ids he names.
Wanted(f) ==
  /\ Requested(search.user, search.body, RowOf(f))
  /\ search.asked = {} \/ (IF search.table = "findings" THEN f ELSE FindingOf[f]) \in search.asked

\* A complete export has every finding that was there, matched and did not change
\* while it ran, unless its read failed (a failing read of findById is taken for a
\* missing row): no page ends where the next does not begin.  (Asked for by ids, rows are
\* judged in memory, which knows no order and not that a missing attribute is no value.)
NothingLost ==
  pc = "complete" => \A f \in steady : Wanted(f) => Copies(f) > 0 \/ f \in unread

\* And a finding that did not change is not read twice, nor one that does not match.
NothingTwice ==
  \A f \in steady : Copies(f) <= IF Wanted(f) THEN 1 ELSE 0

\* The export ends, although the rows it has passed may come back before it.
Ends == pc = "loop" ~> pc \in Ended
=============================================================================
