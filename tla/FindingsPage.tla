---------------------------- MODULE FindingsPage ----------------------------
(***************************************************************************)
(* The page of findings in the web UI.  Its component keeps the rows it    *)
(* has, the token of the next ones and the operation it is in; it asks     *)
(* through a hook of RTK Query, which follows one request at a time and    *)
(* keeps the answers of all in a store.  The effects of the component run  *)
(* whenever the answer the hook shows, its error or the operation changes. *)
(***************************************************************************)
EXTENDS Integers, Sequences, FiniteSets, Functions

CONSTANTS
  Findings,    \* ids
  Filters,     \* what filterTokens and the sorting may be
  Matches,     \* filter -> the findings that match it, in order
  PageSize,    \* findings of one answer
  MaxEvents,   \* bound on what the user does
  MaxFaults,   \* bound on failing calls
  None

Marks == {"open", "suppressed", "started"}
Requests == [filter: Filters, token: 0 .. Cardinality(Findings)]
Rows == Seq([id: Findings, mark: Marks])
Answers == [of: Requests, rows: Rows, next: 0 .. Cardinality(Findings)]
Actions == [id: Findings, mark: Marks, done: BOOLEAN]

ASSUME PageAssumption ==
  /\ IsFiniteSet(Findings)
  /\ None \notin Answers \cup Actions
  /\ Matches \in [Filters -> Seq(Findings)]
  /\ \A f \in Filters : IsInjective(Matches[f])
  /\ {PageSize, MaxEvents, MaxFaults} \subseteq Nat
  /\ PageSize > 0

VARIABLES
  page,    \* the state of the component
  hook,    \* the request the hook follows, and the answer it shows
  store,   \* request -> what the store of RTK Query has of it
  server,  \* finding -> its mark in the findings table
  action,  \* the action on a finding under way
  events,  \* events still to come
  faults,  \* faults still to come
  hurried, \* more rows were asked for before the first ones of a filter had come
  broken,  \* the filter was changed while more rows were loading
  raced,   \* findings that an answer taken before an action may show as they were
  failed   \* the search of the hook failed, and no other answer has come since

vars == <<page, hook, store, server, action, events, faults, hurried, broken, raced, failed>>

Operations == {"initial", "refresh", "filter", "loadMore"}
PageStates == [filter: Filters, rows: Rows, nextToken: 0 .. Cardinality(Findings),
               loadingMore: BOOLEAN, operation: Operations, modal: BOOLEAN]
Empty == [status |-> "none", data |-> None, coming |-> None, error |-> FALSE]
First(filter) == [filter |-> filter, token |-> 0]
Fresh(filter) == [filter |-> filter, rows |-> <<>>, nextToken |-> 0, loadingMore |-> FALSE,
                  operation |-> "filter", modal |-> FALSE]

\* The page has just been opened and has asked for the first rows.
Init ==
  /\ \E filter \in Filters :
       /\ page = Fresh(filter)
       /\ hook = [request |-> First(filter), data |-> None]
       /\ store = [r \in Requests |-> IF r = First(filter) THEN [Empty EXCEPT !.status = "pending"]
                                      ELSE Empty]
  /\ server = [f \in Findings |-> "open"]
  /\ action = None
  /\ events = MaxEvents
  /\ faults = MaxFaults
  /\ hurried = FALSE /\ broken = FALSE /\ raced = {} /\ failed = FALSE

-----------------------------------------------------------------------------
(***************************************************************************)
(* The effects.                                                            *)
(***************************************************************************)

Ids(rows) == {rows[i].id : i \in DOMAIN rows}

\* Mutant of Merge: rows that are there are appended again.
MergeAll(rows, more) == rows \o more

\* The k-th of a set of positions.
Nth(positions, k) == CHOOSE i \in positions : Cardinality({j \in positions : j < i}) = k - 1

\* Rows that are there already are not appended.
Merge(rows, more) ==
  LET new == {i \in DOMAIN more : more[i].id \notin Ids(rows)}
  IN  rows \o [k \in 1 .. Cardinality(new) |-> more[Nth(new, k)]]

Settled(operation) == IF operation \in {"refresh", "filter"} THEN "initial" ELSE operation

\* Mutant of ResultEffect: rows are always appended.
ResultEffectAppends(p, data) ==
  IF data = None THEN p
  ELSE [p EXCEPT !.rows = Merge(p.rows, data.rows),
                 !.loadingMore = p.operation # "loadMore" /\ @,
                 !.nextToken = data.next,
                 !.operation = Settled(@)]

\* The effect of searchResult.
ResultEffect(p, data) ==
  IF data = None THEN p
  ELSE [p EXCEPT !.rows = IF p.operation = "loadMore" THEN Merge(p.rows, data.rows) ELSE data.rows,
                 !.loadingMore = p.operation # "loadMore" /\ @,
                 !.nextToken = data.next,
                 !.operation = Settled(@)]

\* Mutant of ErrorEffect: the spinner stays.
ErrorEffectSpins(p, isError) ==
  IF ~isError THEN p
  ELSE [p EXCEPT !.rows = IF p.operation = "loadMore" THEN @ ELSE <<>>,
                 !.nextToken = IF p.operation = "loadMore" THEN @ ELSE 0,
                 !.operation = Settled(@)]

\* The effect of searchError.
ErrorEffect(p, isError) ==
  IF ~isError THEN p
  ELSE [p EXCEPT !.rows = IF p.operation = "loadMore" THEN @ ELSE <<>>,
                 !.nextToken = IF p.operation = "loadMore" THEN @ ELSE 0,
                 !.loadingMore = FALSE,
                 !.operation = Settled(@)]

\* The component renders p with this answer and error: the effects run whose
\* dependencies have changed, and both again when they change the operation.
Render(p, data, isError, newError) ==
  LET changed == p.operation # page.operation
      q == IF changed \/ data # hook.data THEN ResultEffect(p, data) ELSE p
      r == IF changed \/ newError THEN ErrorEffect(q, isError) ELSE q
  IN  IF r.operation # p.operation THEN ErrorEffect(ResultEffect(r, data), isError) ELSE r

\* The hook follows a request, which is sent unless it is pending, and shows the last
\* answer until there is a new one.
Search(p, request) ==
  LET entry == store[request]
      data == IF hook.data = None THEN entry.data ELSE hook.data
  IN
  /\ store' = [store EXCEPT ![request].status = "pending"]
  /\ hook' = [request |-> request, data |-> data]
  /\ page' = Render(p, data, entry.error, request # hook.request)
  /\ failed' = (failed \/ entry.error)

Pending == store[hook.request].status = "pending"

-----------------------------------------------------------------------------
(***************************************************************************)
(* What the user does.  A modal covers the page while it is open.          *)
(***************************************************************************)
Event ==
  /\ events > 0 /\ events' = events - 1
  /\ ~page.modal

\* What races no longer matters to a search of the first rows: what it is answered will be
\* taken from the table as it is, once no action and no other answer is on its way.
StillRaced ==
  IF action = None /\ \A r \in Requests : store[r].coming = None THEN {} ELSE raced

\* handleFilterChange, handleSortingChange and the effect of what they set.
ChangeFilter(filter) ==
  /\ Event
  /\ filter # page.filter
  /\ Search([page EXCEPT !.filter = filter, !.operation = "filter", !.rows = <<>>,
                         !.nextToken = 0],
            First(filter))
  /\ hurried' = FALSE
  /\ broken' = (broken \/ page.loadingMore) /\ raced' = StillRaced
  /\ UNCHANGED <<server, action, faults>>

\* handleRefresh
Refresh ==
  /\ Event
  /\ Search([page EXCEPT !.operation = "refresh", !.rows = <<>>, !.nextToken = 0,
                         !.loadingMore = FALSE],
            First(page.filter))
  /\ hurried' = FALSE /\ broken' = FALSE /\ raced' = StillRaced
  /\ UNCHANGED <<server, action, faults>>

\* loadMoreFindings, when the end of the table comes into sight.
LoadMore ==
  /\ Event
  /\ page.nextToken # 0
  /\ ~page.loadingMore
  /\ Search([page EXCEPT !.operation = "loadMore", !.loadingMore = TRUE],
            [filter |-> page.filter, token |-> page.nextToken])
  /\ hurried' = (hurried \/ (Pending /\ hook.request.token = 0))
  /\ UNCHANGED <<server, action, faults, broken, raced>>

\* The page is left and opened again; the filters are those saved by
\* findingsTablePreferences, and the answers kept are those of the last minute.
Reopen(kept) ==
  /\ Event
  /\ action = None
  /\ LET entries == IF kept THEN store ELSE [r \in Requests |-> Empty]
         first == First(page.filter)
         entry == entries[first]
         p == Fresh(page.filter)
         q == ResultEffect(p, entry.data)
         r == ErrorEffect(q, entry.error)
     IN
     /\ failed' = entry.error
     /\ store' = [entries EXCEPT ![first].status = "pending"]
     /\ hook' = [request |-> first, data |-> entry.data]
     /\ page' = IF r.operation # p.operation
                THEN ErrorEffect(ResultEffect(r, entry.data), entry.error) ELSE r
  /\ hurried' = FALSE /\ broken' = FALSE /\ raced' = StillRaced
  /\ UNCHANGED <<server, action, faults>>

\* handleSuppress and the others, and the confirmation: executeAction.
Act(f, mark) ==
  /\ Event
  /\ action = None
  /\ \E i \in DOMAIN page.rows :
       page.rows[i].id = f /\ page.rows[i].mark \notin {mark, "started"}
  /\ action' = [id |-> f, mark |-> mark, done |-> FALSE]
  /\ page' = [page EXCEPT !.modal = TRUE]
  /\ UNCHANGED <<hook, store, server, faults, hurried, broken, raced, failed>>

\* cancelConfirmation closes the modal; the action goes on.
Cancel ==
  /\ page.modal
  /\ page' = [page EXCEPT !.modal = FALSE]
  /\ UNCHANGED <<hook, store, server, action, events, faults, hurried, broken, raced, failed>>

-----------------------------------------------------------------------------
(***************************************************************************)
(* What the server does and answers.                                       *)
(***************************************************************************)

\* Mutant of Answer: there is a token after the last page too.
AnswerGoesOn(request) ==
  LET list == Matches[request.filter]
      last == request.token + PageSize
  IN  [of |-> request,
       rows |-> IF last > Len(list) THEN <<>>
                ELSE <<[id |-> list[last], mark |-> server[list[last]]]>>,
       next |-> last]

\* The page of findings that a request gets.
Answer(request) ==
  LET list == Matches[request.filter]
      last == IF request.token + PageSize < Len(list) THEN request.token + PageSize ELSE Len(list)
  IN  [of |-> request,
       rows |-> [i \in 1 .. (IF last > request.token THEN last - request.token ELSE 0) |->
                  [id |-> list[request.token + i], mark |-> server[list[request.token + i]]]],
       next |-> IF last < Len(list) THEN last ELSE 0]

Serve(request) ==
  /\ store[request].status = "pending"
  /\ store[request].coming = None
  /\ store' = [store EXCEPT ![request].coming = Answer(request)]
  /\ UNCHANGED <<page, hook, server, action, events, faults, hurried, broken, raced, failed>>

\* The answer comes to the store and, if the hook follows the request, to the page.  An
\* answer equal to the one there is kept as the same object: the page does not notice.
Deliver(request) ==
  LET answer == store[request].coming IN
  /\ answer # None
  /\ store' = [store EXCEPT ![request] = [Empty EXCEPT !.status = "done", !.data = answer]]
  /\ IF hook.request = request
     THEN /\ hook' = [hook EXCEPT !.data = answer]
          /\ page' = Render(page, answer, FALSE, TRUE)
          /\ failed' = (failed /\ answer = hook.data)
     ELSE UNCHANGED <<hook, page, failed>>
  /\ UNCHANGED <<server, action, events, faults, hurried, broken, raced>>

\* The call fails.
Fail(request) ==
  /\ store[request].status = "pending"
  /\ faults > 0 /\ faults' = faults - 1
  /\ store' = [store EXCEPT ![request].status = "failed", ![request].coming = None,
                            ![request].error = TRUE]
  /\ page' = IF hook.request = request THEN Render(page, hook.data, TRUE, TRUE) ELSE page
  /\ failed' = (failed \/ hook.request = request)
  /\ UNCHANGED <<hook, server, action, events, hurried, broken, raced>>

\* A minute after the hook has left a request the store forgets it.
Forget(request) ==
  /\ store[request].status \in {"done", "failed"}
  /\ request # hook.request
  /\ store' = [store EXCEPT ![request] = Empty]
  /\ UNCHANGED <<page, hook, server, action, events, faults, hurried, broken, raced, failed>>

\* The server executes the action; answers on their way do not show it.
Execute ==
  /\ action # None /\ ~action.done
  /\ server' = [server EXCEPT ![action.id] = action.mark]
  /\ action' = [action EXCEPT !.done = TRUE]
  /\ raced' = IF \E r \in Requests : store[r].coming # None THEN raced \cup {action.id} ELSE raced
  /\ UNCHANGED <<page, hook, store, events, faults, hurried, broken, failed>>

\* Mutant of Applied: the rows stay as they are.
AppliedNot(rows) == rows

\* The rows with the effect of the action.
Applied(rows) ==
  [i \in DOMAIN rows |-> IF rows[i].id = action.id THEN [rows[i] EXCEPT !.mark = action.mark]
                         ELSE rows[i]]

\* handleSuppressionAction, handleRemediationAction: the action has succeeded.
Executed ==
  /\ action # None /\ action.done
  /\ page' = [page EXCEPT !.rows = Applied(@), !.modal = FALSE]
  /\ action' = None
  /\ UNCHANGED <<hook, store, server, events, faults, hurried, broken, raced, failed>>

\* Its answer is an error, whether it was executed or not.
ExecuteFails ==
  /\ action # None
  /\ faults > 0 /\ faults' = faults - 1
  /\ page' = [page EXCEPT !.modal = FALSE]
  /\ raced' = raced \cup {action.id}
  /\ action' = None
  /\ UNCHANGED <<hook, store, server, events, hurried, broken, failed>>

-----------------------------------------------------------------------------
Next ==
  \/ \E filter \in Filters : ChangeFilter(filter)
  \/ Refresh
  \/ LoadMore
  \/ \E kept \in BOOLEAN : Reopen(kept)
  \/ \E f \in Findings, mark \in Marks : Act(f, mark)
  \/ Cancel
  \/ \E r \in Requests : Serve(r) \/ Deliver(r) \/ Fail(r) \/ Forget(r)
  \/ Execute \/ Executed \/ ExecuteFails

Spec == Init /\ [][Next]_vars

-----------------------------------------------------------------------------
TypeOK ==
  /\ page \in PageStates
  /\ hook \in [request: Requests, data: Answers \cup {None}]
  /\ store \in [Requests -> [status: {"none", "pending", "done", "failed"},
                           data: Answers \cup {None}, coming: Answers \cup {None}, error: BOOLEAN]]
  /\ server \in [Findings -> Marks]
  /\ action \in Actions \cup {None}
  /\ events \in 0 .. MaxEvents
  /\ faults \in 0 .. MaxFaults
  /\ raced \subseteq Findings
  /\ {hurried, broken, failed} \subseteq BOOLEAN

Quiet == ~Pending /\ ~failed

\* The rows of p are the first ones of its filter, each once, at least one if there is
\* one, and the token is that of the next.
Shown(p) ==
  LET n == Len(p.rows)
      list == Matches[p.filter]
  IN  /\ n <= Len(list) /\ (n = 0 => list = <<>>)
      /\ \A i \in 1 .. n : p.rows[i].id = list[i]
      /\ p.nextToken = IF n < Len(list) THEN n ELSE 0

\* When no request is under way and none has failed since an answer came, the rows are
\* the first ones of the filter that is set, each once, and the token is that of the next,
\* unless more rows were asked for before the first of a filter had come.
FirstRows == Quiet /\ ~hurried => Shown(page)

\* What the comments promise: a change of the filter replaces the rows.
RowsOfFilter ==
  Quiet => Ids(page.rows) \subseteq {Matches[page.filter][i] : i \in DOMAIN Matches[page.filter]}

\* The marks of the rows are those in the table once the actions on them are over, unless
\* an answer was on its way while one was executed, or its own answer was lost; and then a
\* refresh, another filter or opening the page anew after that puts them right.
MarksShown ==
  Quiet /\ ~hurried => \A i \in DOMAIN page.rows :
    LET row == page.rows[i]
    IN  row.id \in raced \/ (action # None /\ action.id = row.id) \/ row.mark = server[row.id]

\* The spinner turns only while a request is under way, unless the filter was changed
\* while more rows were loading: then no more rows are loaded until the page is refreshed.
SpinnerStops == page.loadingMore /\ ~broken => Pending
=============================================================================
