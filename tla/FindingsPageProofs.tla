------------------------- MODULE FindingsPageProofs -------------------------
(***************************************************************************)
(* Proofs about FindingsPage: for any lists of findings, page size, number *)
(* of events and failing calls, the page shows the first findings of its   *)
(* filter with the marks they have, and its spinner stops.                 *)
(***************************************************************************)
EXTENDS FindingsPage, FiniteSetTheorems, SequenceTheorems, TLAPS

-----------------------------------------------------------------------------
(***************************************************************************)
(* The inductive invariant.                                                *)
(***************************************************************************)

\* What may be answered to r, apart from the marks: what follows its token.
IsAnswer(r, a) ==
  LET n == Len(a.rows)
      list == Matches[r.filter]
  IN  /\ a.of = r
      /\ \A i \in 1 .. n : r.token + i <= Len(list) /\ a.rows[i].id = list[r.token + i]
      /\ n = 0 => r.token >= Len(list)
      /\ a.next = IF r.token + n < Len(list) THEN r.token + n ELSE 0

\* What the store has is an answer to the request, and comes only to one that waits.
Keeps(r, entry) ==
  /\ entry.data # None => IsAnswer(r, entry.data)
  /\ entry.coming # None => IsAnswer(r, entry.coming) /\ entry.status = "pending"
  /\ entry.status = "done" => entry.data # None

Stored == \A r \in Requests : Keeps(r, store[r])

\* How the state of the component goes with the request that the hook follows and the
\* answer it shows.
Followed ==
  /\ page.filter = hook.request.filter
  /\ page.operation = "loadMore" <=> hook.request.token > 0
  /\ page.operation \in {"filter", "refresh"} => hook.data = None
  /\ hook.data # None => IsAnswer(hook.data.of, hook.data)
  /\ page.nextToken # 0 => hook.data # None /\ page.nextToken = hook.data.next

\* How far the request is.
Asked ==
  LET status == store[hook.request].status IN
  /\ status # "none"
  /\ status = "failed" => failed
  /\ status = "done" => hook.data = store[hook.request].data
  /\ hook.request.token > 0 /\ status # "done" =>
       hook.data # None /\ hook.data.of.token < hook.request.token

Current(row) == row.id \in raced \/ row.mark = server[row.id]
Good(row) == Current(row) \/ (action # None /\ action.id = row.id)

AllGood == \A i \in DOMAIN page.rows : Good(page.rows[i])

Emptied(p) == p.rows = <<>> /\ p.nextToken = 0

\* The hook shows an answer to the request it follows.
Answered == hook.data # None /\ hook.data.of = hook.request

\* What is on the page when the first rows of the filter have been asked for and are there,
\* if only from an earlier request.
FirstPage ==
  \/ failed /\ Emptied(page)
  \/ /\ Answered
     /\ Shown(page)
     /\ Len(page.rows) = Len(hook.data.rows)
     /\ \A i \in DOMAIN page.rows :
          Good(page.rows[i]) \/ (Pending /\ page.rows[i] = hook.data.rows[i])

\* What is on it when more rows have been asked for.
MorePages ==
  /\ Shown(page)
  /\ AllGood
  /\ store[hook.request].status # "done" => page.nextToken = hook.request.token

OnPage ==
  ~hurried =>
    /\ hook.request.token = 0 /\ (~Pending \/ Answered) => FirstPage
    /\ hook.request.token > 0 => MorePages

\* The marks of an answer on its way are those of the table or raced.
Coming ==
  /\ \A r \in Requests : store[r].coming # None =>
       \A i \in DOMAIN store[r].coming.rows : Current(store[r].coming.rows[i])
  /\ action # None /\ action.done => server[action.id] = action.mark

Spinner == page.loadingMore => broken \/ (Pending /\ page.operation = "loadMore")

IInv == TypeOK /\ Stored /\ Followed /\ Asked /\ OnPage /\ Coming /\ Spinner
-----------------------------------------------------------------------------
(***************************************************************************)
(* Lists, merges and answers.                                              *)
(***************************************************************************)

LEMMA IntervalFacts ==
  \A n \in Nat : IsFiniteSet(1 .. n) /\ Cardinality(1 .. n) = n
BY FS_Interval

LEMMA ListFacts ==
  /\ Cardinality(Findings) \in Nat
  /\ \A filter \in Filters :
       /\ Matches[filter] \in Seq(Findings)
       /\ Len(Matches[filter]) \in 0 .. Cardinality(Findings)
       /\ \A i, j \in 1 .. Len(Matches[filter]) :
            Matches[filter][i] = Matches[filter][j] => i = j
<1>1. Cardinality(Findings) \in Nat
  BY PageAssumption, FS_CardinalityType
<1>2. ASSUME NEW filter \in Filters
      PROVE  /\ Matches[filter] \in Seq(Findings)
             /\ Len(Matches[filter]) \in 0 .. Cardinality(Findings)
             /\ \A i, j \in 1 .. Len(Matches[filter]) :
                  Matches[filter][i] = Matches[filter][j] => i = j
  <2>1. PICK list \in Seq(Findings) : list = Matches[filter]
    BY PageAssumption
  <2>2. list \in [1 .. Len(list) -> Findings] /\ Len(list) \in Nat
    BY <2>1
  <2>3. \A i, j \in 1 .. Len(list) : list[i] = list[j] => i = j
    BY PageAssumption, <2>1, <2>2 DEF IsInjective
  <2>4. list \in Injection(1 .. Len(list), Findings)
    BY <2>2, <2>3 DEF Injection, IsInjective
  <2>5. PICK S : S = 1 .. Len(list)
    OBVIOUS
  <2>6. IsFiniteSet(S) /\ Cardinality(S) = Len(list)
    BY <2>2, <2>5, IntervalFacts
  <2>8. Cardinality(S) <= Cardinality(Findings)
    BY PageAssumption, <2>4, <2>5, <2>6, FS_Injection
  <2>7. QED
    BY <1>1, <2>1, <2>2, <2>3, <2>6, <2>8
<1>3. QED
  BY <1>1, <1>2

\* Positions have a first, a second, and so on up to the last.
LEMMA NthFacts ==
  ASSUME NEW n \in Nat, NEW S \in SUBSET (1 .. n)
  PROVE  /\ Cardinality(S) \in 0 .. n
         /\ \A k \in 1 .. Cardinality(S) : Nth(S, k) \in S
<1>1. IsFiniteSet(S) /\ Cardinality(S) \in Nat /\ Cardinality(S) <= n /\ \A i \in S : i \in Int
  <2>1. PICK T : T = 1 .. n
    OBVIOUS
  <2>2. IsFiniteSet(T) /\ Cardinality(T) = n /\ S \in SUBSET T
    BY <2>1, IntervalFacts
  <2>3. IsFiniteSet(S) /\ Cardinality(S) <= n
    BY <2>2, FS_Subset
  <2>4. QED
    BY <2>3, FS_CardinalityType
<1>2. ASSUME NEW i \in S
      PROVE  Cardinality({j \in S : j < i}) \in 0 .. Cardinality(S) - 1
  <2>1. PICK before \in SUBSET S : before = {j \in S : j < i}
    OBVIOUS
  <2>2. i \notin before
    BY <2>1
  <2>3. Cardinality(before) \in Nat /\ Cardinality(before) <= Cardinality(S)
        /\ (Cardinality(S) = Cardinality(before) => S = before)
    BY <1>1, FS_Subset, FS_CardinalityType
  <2>4. QED
    BY <1>1, <2>1, <2>2, <2>3
<1>3. ASSUME NEW i \in S, NEW k \in S, i < k
      PROVE  Cardinality({j \in S : j < i}) < Cardinality({j \in S : j < k})
  <2>1. PICK first \in SUBSET S : first = {j \in S : j < i}
    OBVIOUS
  <2>2. PICK second \in SUBSET S : second = {j \in S : j < k}
    OBVIOUS
  <2>3. first \in SUBSET second /\ first # second
    <3>1. \A j \in S : j < i => j < k
      BY <1>1, <1>3
    <3>2. i \in second /\ i \notin first
      BY <1>1, <1>3, <2>1, <2>2
    <3>3. QED
      BY <2>1, <2>2, <3>1, <3>2
  <2>4. IsFiniteSet(second) /\ IsFiniteSet(first)
        /\ Cardinality(first) \in Nat /\ Cardinality(second) \in Nat
    BY <1>1, FS_Subset, FS_CardinalityType
  <2>5. Cardinality(first) <= Cardinality(second)
        /\ (Cardinality(second) = Cardinality(first) => second = first)
    BY <2>3, <2>4, FS_Subset
  <2>6. QED
    BY <2>1, <2>2, <2>3, <2>4, <2>5
<1>4. PICK T : T = 0 .. Cardinality(S) - 1
  OBVIOUS
<1>5. PICK rank : rank = [i \in S |-> Cardinality({j \in S : j < i})]
  OBVIOUS
<1>6. rank \in [S -> T]
  BY <1>2, <1>4, <1>5
<1>7. \A i, k \in S : rank[i] = rank[k] => i = k
  <2>1. \A i, k \in S : i < k => rank[i] < rank[k]
    BY <1>3, <1>5
  <2>2. \A i \in S : rank[i] \in Int
    BY <1>1, <1>4, <1>6
  <2>3. QED
    BY <2>1, <2>2
<1>8. rank \in Injection(S, T)
  BY <1>6, <1>7 DEF Injection, IsInjective
<1>9. IsFiniteSet(T) /\ Cardinality(T) = Cardinality(S)
  BY <1>1, <1>4, FS_Interval
<1>10. rank \in Surjection(S, T)
  BY <1>1, <1>8, <1>9, FS_Injection, FS_Surjection
<1>11. \A k \in 1 .. Cardinality(S) : \E i \in S : Cardinality({j \in S : j < i}) = k - 1
  <2>1. \A t \in T : \E i \in S : rank[i] = t
    BY <1>10 DEF Surjection
  <2>2. \A k \in 1 .. Cardinality(S) : k - 1 \in T
    BY <1>1, <1>4
  <2>3. \A i \in S : rank[i] = Cardinality({j \in S : j < i})
    BY <1>5
  <2>4. QED
    BY <2>1, <2>2, <2>3
<1>12. QED
  BY <1>1, <1>11 DEF Nth

LEMMA MergeFacts ==
  ASSUME NEW R, NEW rows \in Seq(R), NEW more \in Seq(R)
  PROVE  /\ Merge(rows, more) \in Seq(R)
         /\ (\A i \in 1 .. Len(more) : more[i].id \in Ids(rows)) => Merge(rows, more) = rows
         /\ (\A i \in 1 .. Len(more) : more[i].id \notin Ids(rows)) =>
              Merge(rows, more) = rows \o more
<1>1. PICK new : new = {i \in DOMAIN more : more[i].id \notin Ids(rows)}
  OBVIOUS
<1>2. PICK added : added = [k \in 1 .. Cardinality(new) |-> more[Nth(new, k)]]
  OBVIOUS
<1>3. Merge(rows, more) = rows \o added
  BY <1>1, <1>2 DEF Merge
<1>4. Len(more) \in Nat /\ DOMAIN more = 1 .. Len(more) /\ new \in SUBSET (1 .. Len(more))
  BY <1>1
<1>5. Cardinality(new) \in 0 .. Len(more) /\ \A k \in 1 .. Cardinality(new) : Nth(new, k) \in new
  <2>1. PICK n \in Nat : n = Len(more)
    BY <1>4
  <2>2. PICK S \in SUBSET (1 .. n) : S = new
    BY <1>4, <2>1
  <2>3. Cardinality(S) \in 0 .. n /\ \A k \in 1 .. Cardinality(S) : Nth(S, k) \in S
    BY NthFacts
  <2>4. \A k \in 1 .. Cardinality(new) : Nth(new, k) \in new
    BY <2>2, <2>3, Zenon
  <2>5. QED
    BY <2>1, <2>2, <2>3, <2>4
<1>6. \A k \in 1 .. Cardinality(new) : more[Nth(new, k)] \in R
  <2>1. \A i \in new : more[i] \in R
    BY <1>4
  <2>2. QED
    BY <1>5, <2>1, Zenon
<1>7. added \in Seq(R) /\ Len(added) = Cardinality(new)
  BY <1>2, <1>4, <1>5, <1>6
<1>8. ASSUME \A i \in 1 .. Len(more) : more[i].id \in Ids(rows)
      PROVE  Merge(rows, more) = rows
  <2>1. new = {}
    BY <1>1, <1>8
  <2>2. Cardinality(new) = 0
    BY <2>1, FS_EmptySet
  <2>3. added = <<>>
    BY <1>7, <2>2
  <2>4. QED
    BY <1>3, <2>3
<1>9. ASSUME \A i \in 1 .. Len(more) : more[i].id \notin Ids(rows)
      PROVE  Merge(rows, more) = rows \o more
  <2>1. new = 1 .. Len(more)
    BY <1>1, <1>9
  <2>2. Cardinality(new) = Len(more)
    BY <1>4, <2>1, IntervalFacts
  <2>3. ASSUME NEW k \in 1 .. Len(more)
        PROVE  Nth(new, k) = k
    <3>1. \A i \in new : {j \in new : j < i} = 1 .. (i - 1)
      BY <1>4, <2>1
    <3>2. \A n \in Nat : Cardinality(1 .. n) = n
      BY IntervalFacts
    <3>3. \A i \in new : i - 1 \in Nat
      BY <1>4, <2>1
    <3>4. \A i \in new : Cardinality({j \in new : j < i}) = i - 1
      BY <3>1, <3>2, <3>3
    <3>5. \A i \in new : i \in Int
      BY <1>4, <2>1
    <3>6. QED
      BY <1>4, <2>1, <3>4, <3>5 DEF Nth
  <2>4. added = more
    BY <1>2, <1>4, <1>7, <2>2, <2>3
  <2>5. QED
    BY <1>3, <2>4
<1>10. QED
  BY <1>3, <1>7, <1>8, <1>9

LEMMA MergeDisjoint ==
  ASSUME NEW R, NEW rows \in Seq(R), NEW more \in Seq(R),
         \A i \in 1 .. Len(more) : more[i].id \notin Ids(rows)
  PROVE  Merge(rows, more) = rows \o more
BY MergeFacts

\* What the server answers to a request is an answer to it, with the marks of the table.
LEMMA AnswerFacts ==
  ASSUME TypeOK, NEW r \in Requests
  PROVE  /\ Answer(r) \in Answers
         /\ IsAnswer(r, Answer(r))
         /\ \A i \in DOMAIN Answer(r).rows :
              Answer(r).rows[i].mark = server[Answer(r).rows[i].id]
<1>1. PICK list \in Seq(Findings) : list = Matches[r.filter]
  BY ListFacts DEF Requests
<1>2. PICK N \in Nat : N = Cardinality(Findings)
  BY ListFacts
<1>3. Len(list) \in 0 .. N /\ r.token \in 0 .. N
  BY <1>1, <1>2, ListFacts DEF Requests
<1>4. PICK last : last = IF r.token + PageSize < Len(list) THEN r.token + PageSize ELSE Len(list)
  OBVIOUS
<1>5. PICK n : n = IF last > r.token THEN last - r.token ELSE 0
  OBVIOUS
<1>6. PageSize \in Nat /\ PageSize > 0
  BY PageAssumption
<1>7. /\ last \in 0 .. N /\ last <= Len(list) /\ n \in Nat
      /\ \A i \in 1 .. n : r.token + i \in 1 .. Len(list)
      /\ n = 0 => r.token >= Len(list)
      /\ (IF last < Len(list) THEN last ELSE 0) = IF r.token + n < Len(list) THEN r.token + n ELSE 0
  BY <1>2, <1>3, <1>4, <1>5, <1>6
<1>8. PICK rows : rows = [i \in 1 .. n |-> [id |-> list[r.token + i],
                                            mark |-> server[list[r.token + i]]]]
  OBVIOUS
<1>9. Answer(r) = [of |-> r, rows |-> rows, next |-> IF last < Len(list) THEN last ELSE 0]
  BY <1>1, <1>4, <1>5, <1>8 DEF Answer
<1>10. \A i \in 1 .. n : list[r.token + i] \in Findings /\ server[list[r.token + i]] \in Marks
  BY <1>1, <1>7 DEF TypeOK
<1>11. PICK R : R = [id: Findings, mark: Marks]
  OBVIOUS
<1>12. \A i \in 1 .. n : rows[i] \in R
  BY <1>8, <1>10, <1>11
<1>13. rows \in Seq(R) /\ Len(rows) = n /\ DOMAIN rows = 1 .. n
  BY <1>7, <1>8, <1>12
<1>14. Answer(r) \in Answers
  BY <1>2, <1>7, <1>9, <1>11, <1>13 DEF Answers, Rows
<1>15. IsAnswer(r, Answer(r))
  BY <1>1, <1>3, <1>7, <1>8, <1>9, <1>13 DEF IsAnswer
<1>16. QED
  BY <1>8, <1>9, <1>13, <1>14, <1>15
-----------------------------------------------------------------------------
(***************************************************************************)
(* The effects, field by field, and what a rendering comes to.             *)
(***************************************************************************)

\* r is p after the effect of an answer.
HasResult(p, data, r) ==
  /\ r \in PageStates
  /\ r.filter = p.filter /\ r.modal = p.modal
  /\ r.operation = Settled(p.operation)
  /\ r.loadingMore <=> p.operation # "loadMore" /\ p.loadingMore
  /\ r.nextToken = data.next
  /\ p.operation = "loadMore" => r.rows = Merge(p.rows, data.rows)
  /\ p.operation # "loadMore" => r.rows = data.rows

\* r is p after the effect of an error.
HasError(p, r) ==
  /\ r \in PageStates
  /\ r.filter = p.filter /\ r.modal = p.modal
  /\ r.operation = Settled(p.operation)
  /\ ~r.loadingMore
  /\ p.operation = "loadMore" => r.rows = p.rows /\ r.nextToken = p.nextToken
  /\ p.operation # "loadMore" => r.rows = <<>> /\ r.nextToken = 0

LEMMA ResultFacts ==
  ASSUME NEW p \in PageStates, NEW data \in Answers \cup {None}
  PROVE  /\ data = None => ResultEffect(p, data) = p
         /\ data # None => HasResult(p, data, ResultEffect(p, data))
<1>1. ASSUME data # None
      PROVE  HasResult(p, data, ResultEffect(p, data))
  <2>1. PICK r : r = ResultEffect(p, data)
    OBVIOUS
  <2>2. data \in Answers
    BY <1>1
  <2>3. PICK R : R = [id: Findings, mark: Marks]
    OBVIOUS
  <2>4. p.rows \in Seq(R) /\ data.rows \in Seq(R)
    BY <2>2, <2>3 DEF PageStates, Answers, Rows
  <2>5. Merge(p.rows, data.rows) \in Seq(R)
    BY <2>4, MergeFacts
  <2>6. PICK rows \in Seq(R) :
          rows = IF p.operation = "loadMore" THEN Merge(p.rows, data.rows) ELSE data.rows
    BY <2>4, <2>5
  <2>7. r = [p EXCEPT !.rows = rows, !.loadingMore = p.operation # "loadMore" /\ @,
                      !.nextToken = data.next, !.operation = Settled(@)]
    BY <1>1, <2>1, <2>6 DEF ResultEffect
  <2>8. data.next \in 0 .. Cardinality(Findings) /\ rows \in Rows
    BY <2>2, <2>3, <2>6 DEF Answers, Rows
  <2>9. Settled(p.operation) \in Operations
    BY DEF Settled, Operations, PageStates
  <2>10. r \in PageStates
    BY <2>7, <2>8, <2>9 DEF PageStates
  <2>11. /\ r.filter = p.filter /\ r.modal = p.modal /\ r.operation = Settled(p.operation)
         /\ r.loadingMore = (p.operation # "loadMore" /\ p.loadingMore)
         /\ r.nextToken = data.next /\ r.rows = rows
    BY <2>7 DEF PageStates
  <2>12. QED
    BY <2>1, <2>6, <2>10, <2>11 DEF HasResult
<1>2. QED
  BY <1>1 DEF ResultEffect

LEMMA ErrorFacts ==
  ASSUME NEW p \in PageStates
  PROVE  ErrorEffect(p, FALSE) = p /\ HasError(p, ErrorEffect(p, TRUE))
<1>1. PICK r : r = ErrorEffect(p, TRUE)
  OBVIOUS
<1>2. PICK rows : rows = IF p.operation = "loadMore" THEN p.rows ELSE <<>>
  OBVIOUS
<1>3. PICK next : next = IF p.operation = "loadMore" THEN p.nextToken ELSE 0
  OBVIOUS
<1>4. r = [p EXCEPT !.rows = rows, !.nextToken = next, !.loadingMore = FALSE,
                    !.operation = Settled(@)]
  BY <1>1, <1>2, <1>3 DEF ErrorEffect, PageStates
<1>5. rows \in Rows
  BY <1>2 DEF PageStates, Rows
<1>6. next \in 0 .. Cardinality(Findings)
  BY <1>3, ListFacts DEF PageStates
<1>7. Settled(p.operation) \in Operations
  BY DEF Settled, Operations, PageStates
<1>8. r \in PageStates
  BY <1>4, <1>5, <1>6, <1>7 DEF PageStates
<1>9. /\ r.filter = p.filter /\ r.modal = p.modal /\ r.operation = Settled(p.operation)
      /\ ~r.loadingMore /\ r.nextToken = next /\ r.rows = rows
  BY <1>4 DEF PageStates
<1>10. HasError(p, r)
  BY <1>2, <1>3, <1>8, <1>9 DEF HasError
<1>11. QED
  BY <1>1, <1>10 DEF ErrorEffect
Showing(r, data) == r.rows = data.rows /\ r.nextToken = data.next

\* r is what p comes to after the first rows have been asked for and the effects have run,
\* that of the error if erring: the error blanks the page, an answer is shown, and without
\* either it stays as it is.
FirstRendered(p, data, isError, erring, r) ==
  /\ r \in PageStates
  /\ r.filter = p.filter /\ r.modal = p.modal
  /\ r.loadingMore => p.loadingMore
  /\ r.operation \in {"initial", p.operation}
  /\ data = None /\ Emptied(p) => Emptied(r)
  /\ isError /\ erring => Emptied(r)
  /\ data # None => /\ r.operation = "initial"
                    /\ isError => Emptied(r)
                    /\ ~isError => Showing(r, data)

LEMMA TwoPasses ==
  ASSUME NEW p \in PageStates, NEW data \in Answers \cup {None}, NEW isError \in BOOLEAN,
         NEW running \in BOOLEAN, NEW erring \in BOOLEAN, NEW q, NEW s, NEW r,
         p.operation \in {"refresh", "filter"},
         data # None => running,
         q = IF running THEN ResultEffect(p, data) ELSE p,
         s = IF erring THEN ErrorEffect(q, isError) ELSE q,
         r = IF s.operation # p.operation THEN ErrorEffect(ResultEffect(s, data), isError) ELSE s
  PROVE  FirstRendered(p, data, isError, erring, r)
<1>1. /\ data = None => q = p
      /\ data # None => HasResult(p, data, q)
  BY ResultFacts
<1>2. q \in PageStates
  BY <1>1 DEF HasResult
<1>3. /\ isError /\ erring => HasError(q, s)
      /\ ~(isError /\ erring) => s = q
  BY <1>2, ErrorFacts
<1>4. s \in PageStates
  BY <1>2, <1>3 DEF HasError
<1>5. PICK t : t = ResultEffect(s, data)
  OBVIOUS
<1>6. /\ data = None => t = s
      /\ data # None => HasResult(s, data, t)
  BY <1>4, <1>5, ResultFacts
<1>7. t \in PageStates
  BY <1>4, <1>6 DEF HasResult
<1>8. /\ s.operation = p.operation => r = s
      /\ s.operation # p.operation /\ isError => HasError(t, r)
      /\ s.operation # p.operation /\ ~isError => r = t
  BY <1>5, <1>7, ErrorFacts
<1>9. /\ r \in PageStates
      /\ r.filter = p.filter /\ r.modal = p.modal
      /\ r.loadingMore => p.loadingMore
      /\ r.operation \in {"initial", p.operation}
  BY <1>1, <1>3, <1>4, <1>6, <1>7, <1>8 DEF HasResult, HasError, Settled
<1>10. CASE data = None
  <2>1. /\ Emptied(p) => Emptied(r)
        /\ isError /\ erring => Emptied(r)
    BY <1>1, <1>3, <1>6, <1>8, <1>10 DEF HasError, Settled, Emptied
  <2>2. QED
    BY <1>9, <1>10, <2>1 DEF FirstRendered
<1>11. CASE data # None
  <2>1. q.operation = "initial"
    BY <1>1, <1>11 DEF HasResult, Settled
  <2>2. s.operation = "initial"
    BY <1>3, <2>1 DEF HasError, Settled
  <2>3. t.operation = "initial" /\ t.rows = data.rows /\ t.nextToken = data.next
    BY <1>6, <1>11, <2>2 DEF HasResult, Settled
  <2>4. /\ r.operation = "initial"
        /\ isError => Emptied(r)
        /\ ~isError => Showing(r, data)
    BY <1>8, <2>2, <2>3 DEF HasError, Settled, Emptied, Showing
  <2>5. QED
    BY <1>9, <1>11, <2>4 DEF FirstRendered
<1>12. QED
  BY <1>10, <1>11

LEMMA RenderFirst ==
  ASSUME NEW p \in PageStates, NEW data \in Answers \cup {None},
         NEW isError \in BOOLEAN, NEW newError \in BOOLEAN,
         p.operation \in {"refresh", "filter"},
         data # None => p.operation # page.operation \/ data # hook.data
  PROVE  FirstRendered(p, data, isError, p.operation # page.operation \/ newError,
                       Render(p, data, isError, newError))
<1>1. PICK running \in BOOLEAN : running = (p.operation # page.operation \/ data # hook.data)
  OBVIOUS
<1>2. PICK erring \in BOOLEAN : erring = (p.operation # page.operation \/ newError)
  OBVIOUS
<1>3. PICK q : q = IF running THEN ResultEffect(p, data) ELSE p
  OBVIOUS
<1>4. PICK s : s = IF erring THEN ErrorEffect(q, isError) ELSE q
  OBVIOUS
<1>5. PICK r : r = IF s.operation # p.operation
                   THEN ErrorEffect(ResultEffect(s, data), isError) ELSE s
  OBVIOUS
<1>6. Render(p, data, isError, newError) = r
  BY <1>1, <1>2, <1>3, <1>4, <1>5 DEF Render
<1>7. data # None => running
  BY <1>1
<1>8. FirstRendered(p, data, isError, erring, r)
  BY <1>3, <1>4, <1>5, <1>7, TwoPasses
<1>9. QED
  BY <1>2, <1>6, <1>8

\* r is what rendering p comes to in any other operation, which stays; ran and erred say
\* whether the effects did something.
SameRendered(p, data, ran, erred, r) ==
  /\ r \in PageStates
  /\ r.filter = p.filter /\ r.modal = p.modal /\ r.operation = p.operation
  /\ r.loadingMore => p.loadingMore /\ ~erred
  /\ p.operation = "loadMore" =>
       /\ ran => /\ ~r.loadingMore
                 /\ r.rows = Merge(p.rows, data.rows) /\ r.nextToken = data.next
       /\ ~ran => r.rows = p.rows /\ r.nextToken = p.nextToken
  /\ p.operation = "initial" =>
       /\ erred => Emptied(r)
       /\ ~erred /\ ran => Showing(r, data)
       /\ ~erred /\ ~ran => r.rows = p.rows /\ r.nextToken = p.nextToken

LEMMA RenderSame ==
  ASSUME NEW p \in PageStates, NEW data \in Answers \cup {None},
         NEW isError \in BOOLEAN, NEW newError \in BOOLEAN,
         p.operation \in {"initial", "loadMore"}
  PROVE  SameRendered(p, data,
                      data # None /\ (p.operation # page.operation \/ data # hook.data),
                      isError /\ (p.operation # page.operation \/ newError),
                      Render(p, data, isError, newError))
<1>1. PICK q : q = IF p.operation # page.operation \/ data # hook.data
                   THEN ResultEffect(p, data) ELSE p
  OBVIOUS
<1>2. PICK s : s = IF p.operation # page.operation \/ newError THEN ErrorEffect(q, isError) ELSE q
  OBVIOUS
<1>3. PICK ran \in BOOLEAN :
        ran = (data # None /\ (p.operation # page.operation \/ data # hook.data))
  OBVIOUS
<1>4. PICK erred \in BOOLEAN : erred = (isError /\ (p.operation # page.operation \/ newError))
  OBVIOUS
<1>5. (ran => HasResult(p, data, q)) /\ (~ran => q = p)
  BY <1>1, <1>3, ResultFacts
<1>6. q \in PageStates
  BY <1>5 DEF HasResult
<1>7. (erred => HasError(q, s)) /\ (~erred => s = q)
  BY <1>2, <1>4, <1>6, ErrorFacts
<1>8. q.operation = p.operation /\ s.operation = p.operation
  BY <1>5, <1>7 DEF HasResult, HasError, Settled
<1>9. Render(p, data, isError, newError) = s
  BY <1>1, <1>2, <1>8 DEF Render
<1>10. s \in PageStates
  BY <1>6, <1>7 DEF HasError
<1>11. SameRendered(p, data, ran, erred, s)
  BY <1>5, <1>7, <1>8, <1>10 DEF HasResult, HasError, SameRendered, Emptied, Showing
<1>12. QED
  BY <1>3, <1>4, <1>9, <1>11
LEMMA RenderType ==
  ASSUME NEW p \in PageStates, NEW data \in Answers \cup {None},
         NEW isError \in BOOLEAN, NEW newError \in BOOLEAN
  PROVE  Render(p, data, isError, newError) \in PageStates
<1>1. \A q \in PageStates : ResultEffect(q, data) \in PageStates
  BY ResultFacts DEF HasResult
<1>2. \A q \in PageStates : ErrorEffect(q, isError) \in PageStates
  BY ErrorFacts DEF HasError
<1>3. QED
  BY <1>1, <1>2 DEF Render

-----------------------------------------------------------------------------
(***************************************************************************)
(* The types.                                                              *)
(***************************************************************************)

Statuses == {"none", "pending", "done", "failed"}
Entries == [status: Statuses, data: Answers \cup {None}, coming: Answers \cup {None}, error: BOOLEAN]
Hooks == [request: Requests, data: Answers \cup {None}]
Others ==
  /\ server \in [Findings -> Marks]
  /\ action \in Actions \cup {None}
  /\ events \in 0 .. MaxEvents
  /\ faults \in 0 .. MaxFaults
  /\ raced \subseteq Findings
  /\ {hurried, broken, failed} \subseteq BOOLEAN

LEMMA TypeParts ==
  TypeOK <=> /\ page \in PageStates
             /\ hook \in Hooks
             /\ store \in [Requests -> Entries]
             /\ Others
BY DEF TypeOK, Entries, Statuses, Hooks, Others

LEMMA RequestTypes ==
  /\ \A filter \in Filters : First(filter) \in Requests /\ Fresh(filter) \in PageStates
  /\ Empty \in Entries
  /\ <<>> \in Rows /\ 0 \in 0 .. Cardinality(Findings)
<1>1. <<>> \in Rows
  BY DEF Rows
<1>2. 0 \in 0 .. Cardinality(Findings)
  BY ListFacts
<1>3. QED
  BY <1>1, <1>2 DEF First, Fresh, Requests, PageStates, Operations, Empty, Entries, Statuses

\* What the hook comes to follow and to show.
LEMMA SearchTypes ==
  ASSUME TypeOK, NEW p \in PageStates, NEW request \in Requests, Search(p, request)
  PROVE  page' \in PageStates /\ hook' \in Hooks /\ store' \in [Requests -> Entries]
         /\ failed' \in BOOLEAN
<1>1. hook \in Hooks /\ store \in [Requests -> Entries] /\ failed \in BOOLEAN
  BY TypeParts DEF Others
<1>2. store[request] \in Entries
  BY <1>1
<1>3. PICK entry \in Entries : entry = store[request]
  BY <1>2
<1>4. PICK data \in Answers \cup {None} : data = IF hook.data = None THEN entry.data ELSE hook.data
  BY <1>1 DEF Hooks, Entries
<1>5. page' = Render(p, data, entry.error, request # hook.request)
  BY <1>3, <1>4 DEF Search
<1>6. entry.error \in BOOLEAN /\ (request # hook.request) \in BOOLEAN
  BY DEF Entries
<1>7. page' \in PageStates
  BY <1>5, <1>6, RenderType
<1>8. hook' = [request |-> request, data |-> data]
  BY <1>3, <1>4 DEF Search
<1>9. hook' \in Hooks
  BY <1>8 DEF Hooks
<1>10. [entry EXCEPT !.status = "pending"] \in Entries
  BY DEF Entries, Statuses
<1>11. store' = [store EXCEPT ![request] = [entry EXCEPT !.status = "pending"]]
  BY <1>1, <1>3 DEF Search, Entries
<1>12. store' \in [Requests -> Entries]
  BY <1>1, <1>10, <1>11
<1>13. failed' \in BOOLEAN
  BY <1>1, <1>3, <1>6 DEF Search
<1>14. QED
  BY <1>7, <1>9, <1>12, <1>13

LEMMA AppliedTypes ==
  ASSUME NEW rows \in Rows, action \in Actions
  PROVE  /\ Applied(rows) \in Rows
         /\ Len(Applied(rows)) = Len(rows) /\ DOMAIN Applied(rows) = DOMAIN rows
         /\ \A i \in DOMAIN rows :
              /\ Applied(rows)[i].id = rows[i].id
              /\ Applied(rows)[i].mark = IF rows[i].id = action.id THEN action.mark ELSE rows[i].mark
<1>1. PICK R : R = [id: Findings, mark: Marks]
  OBVIOUS
<1>2. rows \in Seq(R)
  BY <1>1 DEF Rows
<1>3. PICK new : new = Applied(rows)
  OBVIOUS
<1>4. new = [i \in 1 .. Len(rows) |-> IF rows[i].id = action.id
                                      THEN [rows[i] EXCEPT !.mark = action.mark] ELSE rows[i]]
  BY <1>2, <1>3 DEF Applied
<1>5. \A row \in R : [row EXCEPT !.mark = action.mark] \in R
                     /\ [row EXCEPT !.mark = action.mark].id = row.id
                     /\ [row EXCEPT !.mark = action.mark].mark = action.mark
  BY <1>1 DEF Actions
<1>6. Len(rows) \in Nat /\ DOMAIN rows = 1 .. Len(rows) /\ \A i \in 1 .. Len(rows) : rows[i] \in R
  BY <1>2
<1>7. ASSUME NEW i \in 1 .. Len(rows)
      PROVE  /\ new[i] \in R
             /\ new[i].id = rows[i].id
             /\ new[i].mark = IF rows[i].id = action.id THEN action.mark ELSE rows[i].mark
  BY <1>4, <1>5, <1>6
<1>8. new \in Seq(R) /\ Len(new) = Len(rows) /\ DOMAIN new = 1 .. Len(rows)
  BY <1>4, <1>6, <1>7
<1>9. QED
  BY <1>1, <1>3, <1>6, <1>7, <1>8 DEF Rows
LEMMA TypeInit == Init => TypeOK
<1> SUFFICES ASSUME Init PROVE TypeOK
  OBVIOUS
<1>1. PICK filter \in Filters :
        /\ page = Fresh(filter)
        /\ hook = [request |-> First(filter), data |-> None]
        /\ store = [r \in Requests |-> IF r = First(filter) THEN [Empty EXCEPT !.status = "pending"]
                                       ELSE Empty]
  BY DEF Init
<1>2. page \in PageStates /\ hook \in Hooks
  BY <1>1, RequestTypes DEF Hooks
<1>3. [Empty EXCEPT !.status = "pending"] \in Entries /\ Empty \in Entries
  BY RequestTypes DEF Entries, Statuses
<1>4. store \in [Requests -> Entries]
  BY <1>1, <1>3
<1>5. Others
  <2>1. MaxEvents \in Nat /\ MaxFaults \in Nat
    BY PageAssumption
  <2>2. /\ server \in [Findings -> Marks] /\ action \in Actions \cup {None}
        /\ events \in 0 .. MaxEvents /\ faults \in 0 .. MaxFaults /\ raced \subseteq Findings
    BY <2>1 DEF Init, Marks
  <2>3. {hurried, broken, failed} \subseteq BOOLEAN
    BY DEF Init
  <2>4. QED
    BY <2>2, <2>3 DEF Others
<1>6. QED
  BY <1>2, <1>4, <1>5, TypeParts

LEMMA TypeStep ==
  ASSUME TypeOK, [Next]_vars
  PROVE  TypeOK'
<1>1. page \in PageStates /\ hook \in Hooks /\ store \in [Requests -> Entries] /\ Others
  BY TypeParts
<1>2. SUFFICES page' \in PageStates /\ hook' \in Hooks /\ store' \in [Requests -> Entries] /\ Others'
  BY DEF TypeOK, Entries, Statuses, Hooks, Others
<1>3. Event => events' \in 0 .. MaxEvents
  BY <1>1, PageAssumption DEF Event, Others
<1>4. ASSUME NEW filter \in Filters, ChangeFilter(filter)
      PROVE  page' \in PageStates /\ hook' \in Hooks /\ store' \in [Requests -> Entries] /\ Others'
  <2>1. PICK p : p = [page EXCEPT !.filter = filter, !.operation = "filter", !.rows = <<>>,
                                  !.nextToken = 0]
    OBVIOUS
  <2>2. p \in PageStates
    BY <1>1, <2>1, RequestTypes DEF PageStates, Operations
  <2>3. Search(p, First(filter))
    BY <1>4, <2>1 DEF ChangeFilter
  <2>4. /\ page' \in PageStates /\ hook' \in Hooks /\ store' \in [Requests -> Entries]
        /\ failed' \in BOOLEAN
    BY <2>2, <2>3, RequestTypes, SearchTypes
  <2>5. QED
    BY <1>1, <1>3, <1>4, <2>4 DEF ChangeFilter, StillRaced, Others, PageStates
<1>5. ASSUME Refresh
      PROVE  page' \in PageStates /\ hook' \in Hooks /\ store' \in [Requests -> Entries] /\ Others'
  <2>1. PICK p : p = [page EXCEPT !.operation = "refresh", !.rows = <<>>, !.nextToken = 0,
                                  !.loadingMore = FALSE]
    OBVIOUS
  <2>2. p \in PageStates /\ page.filter \in Filters
    BY <1>1, <2>1, RequestTypes DEF PageStates, Operations
  <2>3. Search(p, First(page.filter))
    BY <1>5, <2>1 DEF Refresh
  <2>4. /\ page' \in PageStates /\ hook' \in Hooks /\ store' \in [Requests -> Entries]
        /\ failed' \in BOOLEAN
    BY <2>2, <2>3, RequestTypes, SearchTypes
  <2>5. QED
    BY <1>1, <1>3, <1>5, <2>4 DEF Refresh, StillRaced, Others
<1>6. ASSUME LoadMore
      PROVE  page' \in PageStates /\ hook' \in Hooks /\ store' \in [Requests -> Entries] /\ Others'
  <2>1. PICK p : p = [page EXCEPT !.operation = "loadMore", !.loadingMore = TRUE]
    OBVIOUS
  <2>2. PICK request : request = [filter |-> page.filter, token |-> page.nextToken]
    OBVIOUS
  <2>3. p \in PageStates /\ request \in Requests
    BY <1>1, <2>1, <2>2 DEF PageStates, Operations, Requests
  <2>4. Search(p, request)
    BY <1>6, <2>1, <2>2 DEF LoadMore
  <2>5. /\ page' \in PageStates /\ hook' \in Hooks /\ store' \in [Requests -> Entries]
        /\ failed' \in BOOLEAN
    BY <2>3, <2>4, SearchTypes
  <2>6. hurried' \in BOOLEAN
    BY <1>1, <1>6 DEF LoadMore, Pending, Others
  <2>7. QED
    BY <1>1, <1>3, <1>6, <2>5, <2>6 DEF LoadMore, Others
<1>7. ASSUME NEW kept \in BOOLEAN, Reopen(kept)
      PROVE  page' \in PageStates /\ hook' \in Hooks /\ store' \in [Requests -> Entries] /\ Others'
  <2>1. PICK entries : entries = IF kept THEN store ELSE [r \in Requests |-> Empty]
    OBVIOUS
  <2>2. PICK first : first = First(page.filter)
    OBVIOUS
  <2>3. first \in Requests /\ Fresh(page.filter) \in PageStates
    BY <1>1, <2>2, RequestTypes DEF PageStates
  <2>4. entries \in [Requests -> Entries]
    BY <1>1, <2>1, RequestTypes
  <2>5. PICK entry \in Entries : entry = entries[first]
    BY <2>3, <2>4
  <2>6. /\ failed' = entry.error
        /\ store' = [entries EXCEPT ![first].status = "pending"]
        /\ hook' = [request |-> first, data |-> entry.data]
        /\ LET p == Fresh(page.filter)
               q == ResultEffect(p, entry.data)
               r == ErrorEffect(q, entry.error)
           IN  page' = IF r.operation # p.operation
                       THEN ErrorEffect(ResultEffect(r, entry.data), entry.error) ELSE r
    BY <1>7, <2>1, <2>2, <2>5 DEF Reopen
  <2>7. entry.data \in Answers \cup {None} /\ entry.error \in BOOLEAN
    BY DEF Entries
  <2>8. \A q \in PageStates : ResultEffect(q, entry.data) \in PageStates
    BY <2>7, ResultFacts DEF HasResult
  <2>9. \A q \in PageStates : ErrorEffect(q, entry.error) \in PageStates
    BY <2>7, ErrorFacts DEF HasError
  <2>10. page' \in PageStates
    BY <2>3, <2>6, <2>8, <2>9
  <2>11. [entry EXCEPT !.status = "pending"] \in Entries
    BY DEF Entries, Statuses
  <2>12. store' = [entries EXCEPT ![first] = [entry EXCEPT !.status = "pending"]]
    BY <2>4, <2>5, <2>6 DEF Entries
  <2>13. store' \in [Requests -> Entries]
    BY <2>4, <2>11, <2>12
  <2>14. hook' \in Hooks
    BY <2>3, <2>6, <2>7 DEF Hooks
  <2>15. QED
    BY <1>1, <1>3, <1>7, <2>6, <2>7, <2>10, <2>13, <2>14 DEF Reopen, StillRaced, Others
<1>8. ASSUME NEW f \in Findings, NEW mark \in Marks, Act(f, mark)
      PROVE  page' \in PageStates /\ hook' \in Hooks /\ store' \in [Requests -> Entries] /\ Others'
  BY <1>1, <1>3, <1>8 DEF Act, Others, PageStates, Actions
<1>9. ASSUME Cancel
      PROVE  page' \in PageStates /\ hook' \in Hooks /\ store' \in [Requests -> Entries] /\ Others'
  BY <1>1, <1>9 DEF Cancel, Others, PageStates
<1>10. ASSUME NEW r \in Requests, Serve(r)
       PROVE  page' \in PageStates /\ hook' \in Hooks /\ store' \in [Requests -> Entries] /\ Others'
  <2>1. Answer(r) \in Answers
    BY AnswerFacts
  <2>2. store' = [store EXCEPT ![r] = [store[r] EXCEPT !.coming = Answer(r)]]
    BY <1>1, <1>10 DEF Serve
  <2>3. [store[r] EXCEPT !.coming = Answer(r)] \in Entries
    BY <1>1, <2>1 DEF Entries
  <2>4. QED
    BY <1>1, <1>10, <2>2, <2>3 DEF Serve, Others
<1>11. ASSUME NEW r \in Requests, Deliver(r)
       PROVE  page' \in PageStates /\ hook' \in Hooks /\ store' \in [Requests -> Entries] /\ Others'
  <2>1. PICK answer \in Answers : answer = store[r].coming
    BY <1>1, <1>11 DEF Deliver, Entries
  <2>2. [Empty EXCEPT !.status = "done", !.data = answer] \in Entries
    BY RequestTypes DEF Entries, Statuses
  <2>3. store' \in [Requests -> Entries]
    BY <1>1, <1>11, <2>1, <2>2 DEF Deliver
  <2>4. Render(page, answer, FALSE, TRUE) \in PageStates
    BY <1>1, RenderType
  <2>5. [hook EXCEPT !.data = answer] \in Hooks
    BY <1>1 DEF Hooks
  <2>6. page' \in PageStates /\ hook' \in Hooks /\ failed' \in BOOLEAN
    BY <1>1, <1>11, <2>1, <2>4, <2>5 DEF Deliver, Others
  <2>7. QED
    BY <1>1, <1>11, <2>3, <2>6 DEF Deliver, Others
<1>12. ASSUME NEW r \in Requests, Fail(r)
       PROVE  page' \in PageStates /\ hook' \in Hooks /\ store' \in [Requests -> Entries] /\ Others'
  <2>1. [store[r] EXCEPT !.status = "failed", !.coming = None, !.error = TRUE] \in Entries
    BY <1>1 DEF Entries, Statuses
  <2>2. store' = [store EXCEPT ![r] = [store[r] EXCEPT !.status = "failed", !.coming = None,
                                                       !.error = TRUE]]
    BY <1>1, <1>12 DEF Fail, Entries
  <2>3. Render(page, hook.data, TRUE, TRUE) \in PageStates
    BY <1>1, RenderType DEF Hooks
  <2>4. page' \in PageStates
    BY <1>1, <1>12, <2>3 DEF Fail
  <2>5. faults' \in 0 .. MaxFaults /\ failed' \in BOOLEAN
    BY <1>1, <1>12, PageAssumption DEF Fail, Others
  <2>6. QED
    BY <1>1, <1>12, <2>1, <2>2, <2>4, <2>5 DEF Fail, Others
<1>13. ASSUME NEW r \in Requests, Forget(r)
       PROVE  page' \in PageStates /\ hook' \in Hooks /\ store' \in [Requests -> Entries] /\ Others'
  BY <1>1, <1>13, RequestTypes DEF Forget, Others
<1>14. ASSUME Execute
       PROVE  page' \in PageStates /\ hook' \in Hooks /\ store' \in [Requests -> Entries] /\ Others'
  <2>1. action \in Actions
    BY <1>1, <1>14 DEF Execute, Others
  <2>2. action' \in Actions /\ server' \in [Findings -> Marks] /\ raced' \subseteq Findings
    BY <1>1, <1>14, <2>1 DEF Execute, Others, Actions
  <2>3. QED
    BY <1>1, <1>14, <2>2 DEF Execute, Others
<1>15. ASSUME Executed
       PROVE  page' \in PageStates /\ hook' \in Hooks /\ store' \in [Requests -> Entries] /\ Others'
  <2>1. action \in Actions
    BY <1>1, <1>15 DEF Executed, Others
  <2>2. Applied(page.rows) \in Rows
    BY <1>1, <2>1, AppliedTypes DEF PageStates
  <2>3. page' \in PageStates
    BY <1>1, <1>15, <2>2 DEF Executed, PageStates
  <2>4. QED
    BY <1>1, <1>15, <2>3 DEF Executed, Others
<1>16. ASSUME ExecuteFails
       PROVE  page' \in PageStates /\ hook' \in Hooks /\ store' \in [Requests -> Entries] /\ Others'
  <2>1. action.id \in Findings
    BY <1>1, <1>16 DEF ExecuteFails, Others, Actions
  <2>2. faults' \in 0 .. MaxFaults
    BY <1>1, <1>16, PageAssumption DEF ExecuteFails, Others
  <2>3. QED
    BY <1>1, <1>16, <2>1, <2>2 DEF ExecuteFails, Others, PageStates
<1>17. ASSUME UNCHANGED vars
       PROVE  page' \in PageStates /\ hook' \in Hooks /\ store' \in [Requests -> Entries] /\ Others'
  BY <1>1, <1>17 DEF vars, Others
<1>18. QED
  BY <1>4, <1>5, <1>6, <1>7, <1>8, <1>9, <1>10, <1>11, <1>12, <1>13, <1>14, <1>15, <1>16, <1>17
     DEF Next

\* The page, the hook, the store of answers and the rest keep their types.
THEOREM TypeCorrect == Spec => []TypeOK
<1>1. TypeOK /\ [Next]_vars => TypeOK'
  BY TypeStep
<1>2. QED
  BY TypeInit, <1>1, PTL DEF Spec
-----------------------------------------------------------------------------
(***************************************************************************)
(* The store of answers.                                                   *)
(***************************************************************************)

\* What a search does, with the answer that the hook comes to show.
Searched(p, request, data) ==
  /\ data \in Answers \cup {None}
  /\ data = IF hook.data = None THEN store[request].data ELSE hook.data
  /\ hook' = [request |-> request, data |-> data]
  /\ store' = [store EXCEPT ![request] = [store[request] EXCEPT !.status = "pending"]]
  /\ page' = Render(p, data, store[request].error, request # hook.request)
  /\ failed' = (failed \/ store[request].error)

LEMMA SearchFacts ==
  ASSUME TypeOK, NEW p, NEW request \in Requests, Search(p, request)
  PROVE  \E data : Searched(p, request, data)
<1>1. hook \in Hooks /\ store \in [Requests -> Entries]
  BY TypeParts
<1>2. PICK data : data = IF hook.data = None THEN store[request].data ELSE hook.data
  OBVIOUS
<1>3. data \in Answers \cup {None}
  BY <1>1, <1>2 DEF Hooks, Entries
<1>4. store' = [store EXCEPT ![request] = [store[request] EXCEPT !.status = "pending"]]
  BY <1>1 DEF Search, Entries
<1>5. Searched(p, request, data)
  BY <1>2, <1>3, <1>4 DEF Search, Searched
<1>6. QED
  BY <1>5

\* How the entry of a request may change, and what is on its way to it.
EntryChange(r, old, new) ==
  \/ new = old
  \/ new = [old EXCEPT !.status = "pending"]
  \/ new = Empty
  \/ new = [Empty EXCEPT !.status = "pending"]
  \/ old.status = "pending" /\ new = [old EXCEPT !.coming = Answer(r)] /\ UNCHANGED <<server, raced>>
  \/ old.coming # None /\ new = [Empty EXCEPT !.status = "done", !.data = old.coming]
  \/ new = [old EXCEPT !.status = "failed", !.coming = None, !.error = TRUE]

LEMMA EntryStep ==
  ASSUME TypeOK, [Next]_vars, NEW r \in Requests
  PROVE  EntryChange(r, store[r], store'[r])
<1>1. page \in PageStates /\ hook \in Hooks /\ store \in [Requests -> Entries]
  BY TypeParts
<1>2. ASSUME NEW p, NEW request \in Requests, Search(p, request)
      PROVE  EntryChange(r, store[r], store'[r])
  <2>1. store' = [store EXCEPT ![request] = [store[request] EXCEPT !.status = "pending"]]
    BY <1>2, SearchFacts DEF Searched
  <2>2. QED
    BY <1>1, <2>1 DEF EntryChange
<1>3. ASSUME NEW filter \in Filters, ChangeFilter(filter)
      PROVE  EntryChange(r, store[r], store'[r])
  BY <1>2, <1>3, RequestTypes DEF ChangeFilter
<1>4. ASSUME Refresh
      PROVE  EntryChange(r, store[r], store'[r])
  BY <1>1, <1>2, <1>4, RequestTypes DEF Refresh, PageStates
<1>5. ASSUME LoadMore
      PROVE  EntryChange(r, store[r], store'[r])
  <2>1. [filter |-> page.filter, token |-> page.nextToken] \in Requests
    BY <1>1 DEF PageStates, Requests
  <2>2. QED
    BY <1>2, <1>5, <2>1 DEF LoadMore
<1>6. ASSUME NEW kept \in BOOLEAN, Reopen(kept)
      PROVE  EntryChange(r, store[r], store'[r])
  <2>1. PICK entries : entries = IF kept THEN store ELSE [q \in Requests |-> Empty]
    OBVIOUS
  <2>2. First(page.filter) \in Requests
    BY <1>1, RequestTypes DEF PageStates
  <2>3. store' = [entries EXCEPT ![First(page.filter)].status = "pending"]
    BY <1>6, <2>1 DEF Reopen
  <2>4. entries \in [Requests -> Entries]
    BY <1>1, <2>1, RequestTypes
  <2>5. store'[r] = entries[r] \/ store'[r] = [entries[r] EXCEPT !.status = "pending"]
    BY <2>2, <2>3, <2>4 DEF Entries
  <2>6. QED
    BY <2>1, <2>5 DEF EntryChange
<1>7. ASSUME NEW q \in Requests, Serve(q)
      PROVE  EntryChange(r, store[r], store'[r])
  <2>1. store' = [store EXCEPT ![q] = [store[q] EXCEPT !.coming = Answer(q)]]
    BY <1>1, <1>7 DEF Serve
  <2>2. store'[r] = store[r] \/ (r = q /\ store'[r] = [store[q] EXCEPT !.coming = Answer(q)])
    BY <1>1, <2>1
  <2>3. store[q].status = "pending" /\ UNCHANGED <<server, raced>>
    BY <1>7 DEF Serve
  <2>4. QED
    BY <2>2, <2>3 DEF EntryChange
<1>8. ASSUME NEW q \in Requests, Deliver(q)
      PROVE  EntryChange(r, store[r], store'[r])
  BY <1>1, <1>8 DEF Deliver, EntryChange
<1>9. ASSUME NEW q \in Requests, Fail(q)
      PROVE  EntryChange(r, store[r], store'[r])
  <2>1. store' = [store EXCEPT ![q] = [store[q] EXCEPT !.status = "failed", !.coming = None,
                                                       !.error = TRUE]]
    BY <1>1, <1>9 DEF Fail, Entries
  <2>2. QED
    BY <1>1, <2>1 DEF EntryChange
<1>10. ASSUME NEW q \in Requests, Forget(q)
       PROVE  EntryChange(r, store[r], store'[r])
  BY <1>1, <1>10 DEF Forget, EntryChange
<1>11. ASSUME UNCHANGED store
       PROVE  EntryChange(r, store[r], store'[r])
  BY <1>11 DEF EntryChange
<1>12. QED
  BY <1>3, <1>4, <1>5, <1>6, <1>7, <1>8, <1>9, <1>10, <1>11
     DEF Next, vars, Act, Cancel, Execute, Executed, ExecuteFails

LEMMA StoredStep ==
  ASSUME TypeOK, Stored, [Next]_vars
  PROVE  Stored'
<1> SUFFICES ASSUME NEW r \in Requests PROVE Keeps(r, store'[r])
  BY DEF Stored
<1>1. PICK old \in Entries : old = store[r]
  BY TypeParts
<1>2. PICK new : new = store'[r]
  OBVIOUS
<1>3. EntryChange(r, old, new) /\ Keeps(r, old)
  BY <1>1, <1>2, EntryStep DEF Stored
<1>4. IsAnswer(r, Answer(r))
  BY AnswerFacts
<1>5. CASE new = Empty \/ new = [Empty EXCEPT !.status = "pending"]
  BY <1>2, <1>5 DEF Keeps, Empty
<1>6. CASE new = old
  BY <1>2, <1>3, <1>6
<1>7. CASE new = [old EXCEPT !.status = "pending"]
  BY <1>2, <1>3, <1>7 DEF Keeps, Entries
<1>8. CASE old.status = "pending" /\ new = [old EXCEPT !.coming = Answer(r)]
  BY <1>2, <1>3, <1>4, <1>8 DEF Keeps, Entries
<1>9. CASE old.coming # None /\ new = [Empty EXCEPT !.status = "done", !.data = old.coming]
  BY <1>2, <1>3, <1>9 DEF Keeps, Empty
<1>10. CASE new = [old EXCEPT !.status = "failed", !.coming = None, !.error = TRUE]
  BY <1>2, <1>3, <1>10 DEF Keeps, Entries
<1>11. QED
  BY <1>3, <1>5, <1>6, <1>7, <1>8, <1>9, <1>10 DEF EntryChange
-----------------------------------------------------------------------------
(***************************************************************************)
(* What answers make of the rows.                                          *)
(***************************************************************************)

\* A token of an answer is beyond the one asked with.
LEMMA TokensGrow ==
  ASSUME NEW r \in Requests, NEW a \in Answers, IsAnswer(r, a), a.next # 0
  PROVE  a.next > r.token
<1>1. Len(a.rows) \in Nat /\ r.token \in Nat /\ Len(Matches[r.filter]) \in Nat
  BY ListFacts DEF Answers, Rows, Requests
<1>2. QED
  BY <1>1 DEF IsAnswer

\* An answer to the first request is the first rows.
LEMMA FirstShown ==
  ASSUME NEW p \in PageStates, NEW data \in Answers, Showing(p, data),
         IsAnswer(First(p.filter), data)
  PROVE  Shown(p)
<1>1. PICK list \in Seq(Findings) : list = Matches[p.filter]
  BY ListFacts DEF PageStates
<1>2. PICK n \in Nat : n = Len(p.rows)
  BY DEF PageStates, Rows
<1>3. /\ \A i \in 1 .. n : i <= Len(list) /\ p.rows[i].id = list[i]
      /\ n = 0 => 0 >= Len(list)
      /\ p.nextToken = IF n < Len(list) THEN n ELSE 0
  BY <1>1, <1>2 DEF IsAnswer, First, Showing
<1>4. Len(list) \in Nat /\ (Len(list) = 0 => list = <<>>)
  BY <1>1
<1>5. n <= Len(list) /\ (n = 0 => list = <<>>)
  BY <1>3, <1>4
<1>6. QED
  BY <1>1, <1>2, <1>3, <1>5 DEF Shown

\* Merging the answer that is shown again changes nothing.
LEMMA MergeSame ==
  ASSUME NEW p \in PageStates, NEW data \in Answers, Shown(p),
         IsAnswer(First(p.filter), data), Len(p.rows) = Len(data.rows)
  PROVE  Merge(p.rows, data.rows) = p.rows
<1>1. PICK R : R = [id: Findings, mark: Marks]
  OBVIOUS
<1>2. PICK rows \in Seq(R) : rows = p.rows
  BY <1>1 DEF PageStates, Rows
<1>3. PICK more \in Seq(R) : more = data.rows
  BY <1>1 DEF Answers, Rows
<1>4. Len(more) = Len(rows) /\ Len(rows) \in Nat /\ DOMAIN rows = 1 .. Len(rows)
  BY <1>2, <1>3
<1>5. \A i \in 1 .. Len(rows) : rows[i].id = Matches[p.filter][i]
  BY <1>2 DEF Shown
<1>6. \A i \in 1 .. Len(more) : more[i].id = Matches[p.filter][i]
  BY <1>3, <1>4 DEF IsAnswer, First
<1>7. \A i \in 1 .. Len(more) : more[i].id \in Ids(rows)
  BY <1>4, <1>5, <1>6 DEF Ids
<1>8. QED
  BY <1>2, <1>3, <1>7, MergeFacts

\* The answer to the request for more rows is appended, and they are still the first ones.
LEMMA MergeMore ==
  ASSUME NEW p \in PageStates, NEW q \in PageStates, NEW r \in Requests, NEW data \in Answers,
         Shown(p), p.nextToken = r.token, r.token > 0, r.filter = p.filter, q.filter = p.filter,
         IsAnswer(r, data), q.rows = Merge(p.rows, data.rows), q.nextToken = data.next
  PROVE  /\ Shown(q)
         /\ Len(q.rows) = Len(p.rows) + Len(data.rows)
         /\ \A i \in 1 .. Len(p.rows) : q.rows[i] = p.rows[i]
         /\ \A i \in 1 .. Len(data.rows) : q.rows[Len(p.rows) + i] = data.rows[i]
<1>1. PICK R : R = [id: Findings, mark: Marks]
  OBVIOUS
<1>2. PICK rows \in Seq(R) : rows = p.rows
  BY <1>1 DEF PageStates, Rows
<1>3. PICK more \in Seq(R) : more = data.rows
  BY <1>1 DEF Answers, Rows
<1>4. PICK list \in Seq(Findings) : list = Matches[p.filter]
  BY ListFacts DEF PageStates
<1>5. PICK n \in Nat : n = Len(rows)
  BY <1>2
<1>6. PICK m \in Nat : m = Len(more)
  BY <1>3
<1>7. PICK len \in Nat : len = Len(list)
  BY <1>4
<1>8. /\ n <= len
      /\ \A i \in 1 .. n : rows[i].id = list[i]
      /\ p.nextToken = IF n < len THEN n ELSE 0
  BY <1>2, <1>4, <1>5, <1>7 DEF Shown
<1>9. n = r.token /\ n > 0
  BY <1>8 DEF Requests
<1>10. /\ \A i \in 1 .. m : n + i <= len /\ more[i].id = list[n + i]
       /\ m = 0 => n >= len
       /\ data.next = IF n + m < len THEN n + m ELSE 0
  BY <1>3, <1>4, <1>6, <1>7, <1>9 DEF IsAnswer
<1>11. \A i, j \in 1 .. len : list[i] = list[j] => i = j
  BY <1>4, <1>7, ListFacts DEF PageStates
<1>12. \A i \in 1 .. m : more[i].id \notin Ids(rows)
  <2>1. SUFFICES ASSUME NEW i \in 1 .. m, NEW j \in 1 .. n, rows[j].id = more[i].id
                 PROVE  FALSE
    BY <1>5 DEF Ids
  <2>2. PICK k \in Nat : k = n + i
    OBVIOUS
  <2>3. k \in 1 .. len /\ j \in 1 .. len /\ list[j] = list[k]
    BY <1>8, <1>10, <2>1, <2>2
  <2>4. j = k
    BY <1>11, <2>3
  <2>5. QED
    BY <2>2, <2>4
<1>13. Merge(rows, more) = rows \o more
  <2>1. \A i \in 1 .. Len(more) : more[i].id \notin Ids(rows)
    BY <1>6, <1>12
  <2>2. QED
    BY <2>1, MergeDisjoint
<1>14. PICK new \in Seq(R) : new = rows \o more
  BY ConcatProperties
<1>15. q.rows = new
  BY <1>2, <1>3, <1>13, <1>14
<1>16. /\ Len(new) = n + m
       /\ \A i \in 1 .. n : new[i] = rows[i]
       /\ \A i \in 1 .. m : new[n + i] = more[i]
  BY <1>5, <1>6, <1>14
<1>17. ASSUME NEW i \in 1 .. (n + m)
       PROVE  new[i].id = list[i]
  <2>1. CASE i <= n
    BY <1>8, <1>16, <2>1
  <2>2. CASE i > n
    <3>1. i - n \in 1 .. m /\ n + (i - n) = i
      BY <2>2
    <3>2. QED
      BY <1>10, <1>16, <3>1
  <2>3. QED
    BY <2>1, <2>2
<1>18. n + m <= len
  <2>1. CASE m = 0
    BY <1>8, <2>1
  <2>2. CASE m # 0
    <3>1. m \in 1 .. m
      BY <2>2
    <3>2. QED
      BY <1>10, <3>1
  <2>3. QED
    BY <2>1, <2>2
<1>19. Shown(q)
  BY <1>4, <1>7, <1>9, <1>10, <1>15, <1>16, <1>17, <1>18 DEF Shown
<1>20. QED
  BY <1>2, <1>3, <1>5, <1>6, <1>15, <1>16, <1>19
-----------------------------------------------------------------------------
(***************************************************************************)
(* The first rows are asked for.                                           *)
(***************************************************************************)

\* The state after it: what the hook shows is on the page, unless there was an error.
FirstAsked(data, isError) ==
  /\ data \in Answers \cup {None}
  /\ data # None => IsAnswer(data.of, data)
  /\ hook' = [request |-> First(page'.filter), data |-> data]
  /\ page'.operation \in {"initial", "filter", "refresh"}
  /\ data = None => Emptied(page')
  /\ data # None => /\ page'.operation = "initial"
                    /\ isError => Emptied(page')
                    /\ ~isError => Showing(page', data)
  /\ store'[First(page'.filter)].status = "pending"
  /\ isError => failed'

LEMMA FirstKeeps ==
  ASSUME TypeOK', NEW data, NEW isError \in BOOLEAN, FirstAsked(data, isError)
  PROVE  Followed' /\ Asked' /\ OnPage'
<1>1. PICK pg \in PageStates : pg = page'
  BY DEF TypeOK
<1>2. PICK first : first = First(pg.filter)
  OBVIOUS
<1>3. /\ hook'.request = first /\ hook'.data = data
      /\ first.filter = pg.filter /\ first.token = 0
      /\ store'[first].status = "pending"
  BY <1>1, <1>2 DEF FirstAsked, First
<1>4. /\ pg.operation \in {"initial", "filter", "refresh"}
      /\ data = None => Emptied(pg)
      /\ data # None => /\ pg.operation = "initial"
                        /\ isError => Emptied(pg)
                        /\ ~isError => Showing(pg, data)
  BY <1>1 DEF FirstAsked
<1>5. data # None => data \in Answers /\ IsAnswer(data.of, data)
  BY DEF FirstAsked
<1>6. Followed'
  BY <1>1, <1>3, <1>4, <1>5 DEF Followed, Emptied, Showing
<1>7. Asked'
  BY <1>3 DEF Asked
<1>8. ASSUME Answered'
      PROVE  FirstPage'
  <2>1. data \in Answers /\ data.of = first /\ IsAnswer(first, data)
    BY <1>3, <1>5, <1>8 DEF Answered
  <2>2. CASE isError
    <3>1. failed' /\ Emptied(page')
      BY <1>1, <1>4, <2>1, <2>2, PageAssumption DEF FirstAsked
    <3>2. QED
      BY <3>1 DEF FirstPage
  <2>3. CASE ~isError
    <3>1. Showing(pg, data)
      BY <1>4, <2>1, <2>3, PageAssumption
    <3>2. Shown(pg)
      BY <1>2, <2>1, <3>1, FirstShown
    <3>3. Pending' /\ Shown(page)' /\ page'.rows = hook'.data.rows
      BY <1>1, <1>3, <3>1, <3>2 DEF Pending, Shown, Showing
    <3>4. QED
      BY <1>8, <3>3 DEF FirstPage
  <2>4. QED
    BY <2>2, <2>3
<1>9. OnPage'
  BY <1>3, <1>8 DEF OnPage, Pending
<1>10. QED
  BY <1>6, <1>7, <1>9

\* After a change of the filter or a refresh.
LEMMA SearchFirst ==
  ASSUME TypeOK, Stored, Followed, NEW p \in PageStates, Emptied(p),
         p.operation \in {"filter", "refresh"}, Search(p, First(p.filter))
  PROVE  /\ \E data : \E isError \in BOOLEAN : FirstAsked(data, isError)
         /\ page'.filter = p.filter
         /\ page'.loadingMore => p.loadingMore
<1>1. PICK first \in Requests : first = First(p.filter)
  BY RequestTypes DEF PageStates
<1>2. PICK data : Searched(p, first, data)
  BY <1>1, SearchFacts
<1>3. hook \in Hooks /\ store \in [Requests -> Entries]
  BY TypeParts
<1>4. PICK isError \in BOOLEAN : isError = store[first].error
  BY <1>3 DEF Entries
<1>5. PICK newError \in BOOLEAN : newError = (first # hook.request)
  OBVIOUS
<1>6. data \in Answers \cup {None} /\ data = IF hook.data = None THEN store[first].data ELSE hook.data
  BY <1>2 DEF Searched
<1>7. hook.data # None => p.operation # page.operation
  BY DEF Followed
<1>8. data # None => p.operation # page.operation \/ data # hook.data
  BY <1>6, <1>7
<1>9. page' = Render(p, data, isError, newError)
  BY <1>2, <1>4, <1>5 DEF Searched
<1>10. FirstRendered(p, data, isError, p.operation # page.operation \/ newError, page')
  BY <1>6, <1>8, <1>9, RenderFirst
<1>11. /\ page'.filter = p.filter
       /\ page'.loadingMore => p.loadingMore
       /\ page'.operation \in {"initial", "filter", "refresh"}
       /\ data = None => Emptied(page')
       /\ data # None => /\ page'.operation = "initial"
                         /\ isError => Emptied(page')
                         /\ ~isError => Showing(page', data)
  BY <1>10 DEF FirstRendered
<1>12. data # None => IsAnswer(data.of, data)
  <2>1. hook.data # None => IsAnswer(hook.data.of, hook.data)
    BY DEF Followed
  <2>2. store[first].data # None => IsAnswer(first, store[first].data)
    BY DEF Stored, Keeps
  <2>3. \A a : IsAnswer(first, a) => a.of = first
    BY DEF IsAnswer
  <2>4. QED
    BY <1>6, <2>1, <2>2, <2>3
<1>13. /\ hook' = [request |-> first, data |-> data]
       /\ store'[first].status = "pending"
       /\ isError => failed'
  BY <1>2, <1>3, <1>4 DEF Searched, Entries
<1>14. FirstAsked(data, isError)
  BY <1>1, <1>6, <1>11, <1>12, <1>13 DEF FirstAsked
<1>15. QED
  BY <1>11, <1>14

\* After the page has been opened again.
LEMMA ReopenFirst ==
  ASSUME TypeOK, Stored, NEW kept \in BOOLEAN, Reopen(kept)
  PROVE  /\ \E data : \E isError \in BOOLEAN : FirstAsked(data, isError)
         /\ ~page'.loadingMore
<1>1. PICK first \in Requests : first = First(page.filter)
  BY TypeParts, RequestTypes DEF PageStates
<1>2. store \in [Requests -> Entries]
  BY TypeParts
<1>3. PICK entries : entries = IF kept THEN store ELSE [r \in Requests |-> Empty]
  OBVIOUS
<1>4. entries \in [Requests -> Entries]
  BY <1>2, <1>3, RequestTypes
<1>5. PICK entry \in Entries : entry = entries[first]
  BY <1>4
<1>6. PICK p \in PageStates : p = Fresh(page.filter)
  BY TypeParts, RequestTypes DEF PageStates
<1>7. PICK data \in Answers \cup {None} : data = entry.data
  BY DEF Entries
<1>8. PICK isError \in BOOLEAN : isError = entry.error
  BY DEF Entries
<1>9. PICK q : q = ResultEffect(p, data)
  OBVIOUS
<1>10. PICK s : s = ErrorEffect(q, isError)
  OBVIOUS
<1>11. /\ failed' = isError
       /\ store' = [entries EXCEPT ![first].status = "pending"]
       /\ hook' = [request |-> first, data |-> data]
       /\ page' = IF s.operation # p.operation THEN ErrorEffect(ResultEffect(s, data), isError) ELSE s
  BY <1>1, <1>3, <1>5, <1>6, <1>7, <1>8, <1>9, <1>10 DEF Reopen
<1>12. p.operation = "filter" /\ Emptied(p) /\ ~p.loadingMore /\ p.filter = page.filter
  BY <1>6 DEF Fresh, Emptied
<1>13. FirstRendered(p, data, isError, TRUE, page')
  <2>1. PICK always \in BOOLEAN : always = TRUE
    OBVIOUS
  <2>2. PICK r : r = page'
    OBVIOUS
  <2>3. /\ q = IF always THEN ResultEffect(p, data) ELSE p
        /\ s = IF always THEN ErrorEffect(q, isError) ELSE q
        /\ r = IF s.operation # p.operation THEN ErrorEffect(ResultEffect(s, data), isError) ELSE s
        /\ p.operation \in {"refresh", "filter"}
        /\ data # None => always
    BY <1>9, <1>10, <1>11, <1>12, <2>1, <2>2
  <2>4. FirstRendered(p, data, isError, always, r)
    BY <2>3, TwoPasses
  <2>5. QED
    BY <2>1, <2>2, <2>4
<1>14. /\ page'.filter = page.filter /\ ~page'.loadingMore
       /\ page'.operation \in {"initial", "filter", "refresh"}
       /\ data = None => Emptied(page')
       /\ data # None => /\ page'.operation = "initial"
                         /\ isError => Emptied(page')
                         /\ ~isError => Showing(page', data)
  BY <1>12, <1>13 DEF FirstRendered
<1>15. data # None => IsAnswer(data.of, data)
  <2>1. data # None => IsAnswer(first, data)
    BY <1>1, <1>3, <1>5, <1>7 DEF Stored, Keeps, Empty
  <2>2. QED
    BY <2>1 DEF IsAnswer
<1>16. store'[first].status = "pending"
  BY <1>4, <1>11 DEF Entries
<1>17. FirstAsked(data, isError)
  BY <1>1, <1>11, <1>14, <1>15, <1>16 DEF FirstAsked
<1>18. QED
  BY <1>14, <1>17
-----------------------------------------------------------------------------
(***************************************************************************)
(* More rows are asked for, answered, or not.                              *)
(***************************************************************************)

LEMMA LoadMoreKeeps ==
  ASSUME IInv, TypeOK', LoadMore
  PROVE  Followed' /\ Asked' /\ OnPage' /\ Spinner'
<1>1. page \in PageStates /\ hook \in Hooks /\ store \in [Requests -> Entries]
  BY TypeParts DEF IInv
<1>2. PICK p \in PageStates : p = [page EXCEPT !.operation = "loadMore", !.loadingMore = TRUE]
  BY <1>1 DEF PageStates, Operations
<1>3. /\ p.filter = page.filter /\ p.rows = page.rows /\ p.nextToken = page.nextToken
      /\ p.operation = "loadMore"
  BY <1>1, <1>2 DEF PageStates
<1>4. PICK request \in Requests : request = [filter |-> page.filter, token |-> page.nextToken]
  BY <1>1 DEF PageStates, Requests
<1>5. Search(p, request) /\ page.nextToken # 0
  BY <1>2, <1>4 DEF LoadMore
<1>6. PICK answer \in Answers : answer = hook.data
  BY <1>1, <1>5 DEF IInv, Followed, Hooks
<1>7. answer # None /\ IsAnswer(answer.of, answer) /\ page.nextToken = answer.next
  BY <1>5, <1>6 DEF IInv, Followed
<1>8. Searched(p, request, answer)
  <2>1. TypeOK
    BY DEF IInv
  <2>2. PICK data : Searched(p, request, data)
    BY <1>5, <2>1, SearchFacts
  <2>3. data = answer
    BY <1>6, <1>7, <2>2 DEF Searched
  <2>4. QED
    BY <2>2, <2>3
<1>9. PICK isError \in BOOLEAN : isError = store[request].error
  BY <1>1 DEF Entries
<1>10. PICK newError \in BOOLEAN : newError = (request # hook.request)
  OBVIOUS
<1>11. PICK ran \in BOOLEAN : ran = (answer # None /\ (p.operation # page.operation \/ answer # hook.data))
  OBVIOUS
<1>12. PICK erred \in BOOLEAN : erred = (isError /\ (p.operation # page.operation \/ newError))
  OBVIOUS
<1>13. page' = Render(p, answer, isError, newError)
  BY <1>8, <1>9, <1>10 DEF Searched
<1>14. SameRendered(p, answer, ran, erred, page')
  <2>1. SameRendered(p, answer, answer # None /\ (p.operation # page.operation \/ answer # hook.data),
                     isError /\ (p.operation # page.operation \/ newError),
                     Render(p, answer, isError, newError))
    BY <1>3, RenderSame
  <2>2. QED
    BY <1>11, <1>12, <1>13, <2>1
<1>15. ran <=> page.operation # "loadMore"
  BY <1>3, <1>6, <1>7, <1>11
<1>16. /\ page'.filter = page.filter /\ page'.operation = "loadMore"
       /\ page'.nextToken = page.nextToken
       /\ page.operation # "loadMore" => page'.rows = Merge(page.rows, answer.rows)
       /\ page.operation = "loadMore" => page'.rows = page.rows
  BY <1>3, <1>7, <1>14, <1>15 DEF SameRendered
<1>17. /\ hook'.request = request /\ hook'.data = answer
       /\ store'[request].status = "pending"
  BY <1>1, <1>8 DEF Searched, Entries
<1>18. request.filter = page.filter /\ request.token = page.nextToken /\ request.token > 0
  BY <1>1, <1>4, <1>5, ListFacts DEF PageStates
<1>19. answer.of.token < request.token
  <2>1. answer.of \in Requests
    BY DEF Answers
  <2>2. QED
    BY <1>5, <1>7, <1>18, <2>1, TokensGrow DEF Requests
<1>20. Followed'
  BY <1>7, <1>16, <1>17, <1>18 DEF Followed
<1>21. Asked'
  BY <1>7, <1>17, <1>18, <1>19 DEF Asked
<1>22. Spinner'
  BY <1>16, <1>17 DEF Spinner, Pending
<1>23. ASSUME ~hurried'
       PROVE  MorePages'
  <2>1. ~hurried /\ (hook.request.token = 0 => ~Pending)
    BY <1>23 DEF LoadMore
  <2>2. Shown(page) /\ AllGood /\ page'.rows = page.rows
    <3>1. CASE hook.request.token = 0
      <4>1. FirstPage /\ ~Pending
        BY <2>1, <3>1 DEF IInv, OnPage
      <4>2. /\ Answered /\ Shown(page)
            /\ Len(page.rows) = Len(hook.data.rows)
            /\ AllGood
        BY <1>5, <4>1 DEF FirstPage, Emptied, AllGood
      <4>3. answer.of = First(page.filter)
        BY <1>1, <1>6, <3>1, <4>2 DEF Answered, First, IInv, Followed, Hooks, Requests
      <4>4. Merge(page.rows, answer.rows) = page.rows
        BY <1>1, <1>6, <1>7, <4>2, <4>3, MergeSame
      <4>5. page.operation # "loadMore"
        BY <3>1 DEF IInv, Followed
      <4>6. QED
        BY <1>16, <4>2, <4>4, <4>5
    <3>2. CASE hook.request.token > 0
      BY <1>16, <2>1, <3>2 DEF IInv, OnPage, MorePages, Followed
    <3>3. hook.request.token \in Nat
      BY <1>1, ListFacts DEF Hooks, Requests
    <3>4. QED
      BY <3>1, <3>2, <3>3
  <2>3. Shown(page)'
    BY <1>16, <2>2 DEF Shown
  <2>4. AllGood'
    BY <2>2 DEF AllGood, Good, Current, LoadMore
  <2>5. QED
    BY <1>16, <1>17, <1>18, <2>3, <2>4 DEF MorePages
<1>24. OnPage'
  BY <1>17, <1>18, <1>23 DEF OnPage
<1>25. QED
  BY <1>20, <1>21, <1>22, <1>24
LEMMA RowsDomain ==
  ASSUME NEW rows \in Rows
  PROVE  /\ Len(rows) \in Nat /\ DOMAIN rows = 1 .. Len(rows)
         /\ \A i \in DOMAIN rows : rows[i].id \in Findings
<1>1. PICK R : R = [id: Findings, mark: Marks]
  OBVIOUS
<1>2. rows \in Seq(R)
  BY <1>1 DEF Rows
<1>3. Len(rows) \in Nat /\ DOMAIN rows = 1 .. Len(rows) /\ \A i \in DOMAIN rows : rows[i] \in R
  BY <1>2
<1>4. \A row \in R : row.id \in Findings
  BY <1>1
<1>5. QED
  BY <1>3, <1>4

LEMMA ComingRows ==
  ASSUME IInv, NEW r \in Requests, store[r].coming # None
  PROVE  \A i \in 1 .. Len(store[r].coming.rows) : Current(store[r].coming.rows[i])
<1>1. store[r].coming \in Answers
  BY TypeParts DEF IInv, Entries
<1>2. DOMAIN store[r].coming.rows = 1 .. Len(store[r].coming.rows)
  BY <1>1 DEF Answers, Rows
<1>3. QED
  BY <1>2 DEF IInv, Coming

LEMMA DeliverKeeps ==
  ASSUME IInv, TypeOK', NEW r \in Requests, Deliver(r), hook.request = r
  PROVE  Followed' /\ Asked' /\ OnPage' /\ Spinner'
<1>1. page \in PageStates /\ hook \in Hooks /\ store \in [Requests -> Entries]
  BY TypeParts DEF IInv
<1>2. PICK answer \in Answers : answer = store[r].coming
  BY <1>1 DEF Deliver, Entries
<1>3. answer # None /\ IsAnswer(r, answer) /\ answer.of = r /\ store[r].status = "pending"
  BY <1>2 DEF Deliver, IInv, Stored, Keeps, IsAnswer
<1>4. /\ hook'.request = r /\ hook'.data = answer
      /\ store'[r].status = "done" /\ store'[r].data = answer
      /\ page' = Render(page, answer, FALSE, TRUE)
      /\ failed' = (failed /\ answer = hook.data)
      /\ UNCHANGED <<server, action, raced, hurried, broken>>
  BY <1>1, <1>2 DEF Deliver, Hooks, Empty
<1>5. \A i \in 1 .. Len(answer.rows) : Current(answer.rows[i])
  BY <1>2, <1>3, ComingRows
<1>6. \A row : (Good(row) <=> Good(row)') /\ (Current(row) => Good(row)')
  BY <1>4 DEF Good, Current
<1>7. page.filter = r.filter /\ r.token \in Nat
  BY <1>1, ListFacts DEF IInv, Followed, Requests
<1>8. Asked'
  BY <1>4 DEF Asked
<1>9. CASE r.token > 0
  <2>1. page.operation = "loadMore" /\ hook.data # None /\ hook.data.of.token < r.token
    BY <1>3, <1>9 DEF IInv, Followed, Asked
  <2>2. answer # hook.data
    BY <1>3, <1>7, <2>1
  <2>3. SameRendered(page, answer, answer # None /\ (page.operation # page.operation \/ answer # hook.data),
                     FALSE /\ (page.operation # page.operation \/ TRUE),
                     Render(page, answer, FALSE, TRUE))
    BY <1>1, <2>1, RenderSame
  <2>4. SameRendered(page, answer, TRUE, FALSE, page')
    BY <1>3, <1>4, <2>2, <2>3
  <2>5. /\ page' \in PageStates /\ page'.filter = page.filter /\ page'.operation = "loadMore"
        /\ ~page'.loadingMore
        /\ page'.rows = Merge(page.rows, answer.rows) /\ page'.nextToken = answer.next
    BY <2>1, <2>4 DEF SameRendered
  <2>6. Followed'
    BY <1>3, <1>4, <1>7, <1>9, <2>5 DEF Followed
  <2>7. Spinner'
    BY <2>5 DEF Spinner
  <2>8. ASSUME ~hurried'
        PROVE  MorePages'
    <3>1. MorePages /\ page.nextToken = r.token
      BY <1>3, <1>4, <1>9, <2>8 DEF IInv, OnPage, MorePages
    <3>2. PICK pg \in PageStates : pg = page'
      BY <2>5
    <3>3. /\ Shown(pg)
          /\ Len(pg.rows) = Len(page.rows) + Len(answer.rows)
          /\ \A i \in 1 .. Len(page.rows) : pg.rows[i] = page.rows[i]
          /\ \A i \in 1 .. Len(answer.rows) : pg.rows[Len(page.rows) + i] = answer.rows[i]
      BY <1>1, <1>3, <1>7, <1>9, <2>5, <3>1, <3>2, MergeMore DEF MorePages
    <3>4. PICK n \in Nat : n = Len(page.rows) /\ DOMAIN page.rows = 1 .. n
      BY <1>1 DEF PageStates, Rows
    <3>5. PICK m \in Nat : m = Len(answer.rows)
      BY DEF Answers, Rows
    <3>6. DOMAIN pg.rows = 1 .. (n + m)
      <4>1. DOMAIN pg.rows = 1 .. Len(pg.rows)
        BY RowsDomain DEF PageStates
      <4>2. QED
        BY <3>3, <3>4, <3>5, <4>1
    <3>7. ASSUME NEW i \in 1 .. (n + m)
          PROVE  Good(pg.rows[i])'
      <4>1. CASE i <= n
        <5>1. Good(page.rows[i]) /\ pg.rows[i] = page.rows[i]
          BY <3>1, <3>3, <3>4, <4>1 DEF MorePages, AllGood
        <5>2. QED
          BY <1>6, <5>1
      <4>2. CASE i > n
        <5>1. PICK j \in 1 .. m : i = n + j
          <6>1. i - n \in 1 .. m /\ i = n + (i - n)
            BY <4>2
          <6>2. QED
            BY <6>1
        <5>2. pg.rows[i] = answer.rows[j] /\ Current(answer.rows[j])
          BY <1>5, <3>3, <3>4, <3>5, <5>1
        <5>3. QED
          BY <1>6, <5>2
      <4>3. QED
        BY <4>1, <4>2
    <3>8. AllGood'
      BY <3>2, <3>6, <3>7 DEF AllGood
    <3>9. Shown(page)'
      BY <3>2, <3>3 DEF Shown
    <3>10. QED
      BY <1>4, <3>8, <3>9 DEF MorePages
  <2>9. OnPage'
    BY <1>4, <1>9, <2>8 DEF OnPage
  <2>10. QED
    BY <1>8, <2>6, <2>7, <2>9
<1>10. CASE r.token = 0
  <2>1. page.operation \in {"initial", "filter", "refresh"}
    BY <1>1, <1>10 DEF IInv, Followed, PageStates, Operations
  <2>2. /\ page' \in PageStates /\ page'.filter = page.filter
        /\ page'.operation = "initial"
        /\ page'.loadingMore => page.loadingMore
        /\ answer # hook.data => Showing(page', answer)
        /\ answer = hook.data => page'.rows = page.rows /\ page'.nextToken = page.nextToken
    <3>1. CASE page.operation = "initial"
      <4>1. SameRendered(page, answer, answer # None /\ (page.operation # page.operation \/ answer # hook.data),
                         FALSE /\ (page.operation # page.operation \/ TRUE),
                         Render(page, answer, FALSE, TRUE))
        BY <1>1, <3>1, RenderSame
      <4>2. SameRendered(page, answer, answer # hook.data, FALSE, page')
        BY <1>3, <1>4, <4>1
      <4>3. QED
        BY <3>1, <4>2 DEF SameRendered
    <3>2. CASE page.operation \in {"filter", "refresh"}
      <4>1. hook.data = None /\ answer # hook.data
        BY <1>3, <3>2 DEF IInv, Followed
      <4>2. FirstRendered(page, answer, FALSE, page.operation # page.operation \/ TRUE,
                          Render(page, answer, FALSE, TRUE))
        BY <1>1, <3>2, <4>1, RenderFirst
      <4>3. FirstRendered(page, answer, FALSE, TRUE, page')
        BY <1>4, <4>2
      <4>4. QED
        BY <1>3, <4>1, <4>3 DEF FirstRendered
    <3>3. QED
      BY <2>1, <3>1, <3>2
  <2>3. page'.nextToken # 0 => page'.nextToken = answer.next
    <3>1. page.nextToken # 0 => page.nextToken = hook.data.next
      BY DEF IInv, Followed
    <3>2. CASE answer = hook.data
      BY <2>2, <3>1, <3>2
    <3>3. CASE answer # hook.data
      BY <2>2, <3>3 DEF Showing
    <3>4. QED
      BY <3>2, <3>3
  <2>4. Followed'
    <3>1. page'.filter = r.filter /\ page'.operation = "initial"
      BY <1>7, <2>2
    <3>2. IsAnswer(answer.of, answer)
      BY <1>3
    <3>3. page'.operation = "loadMore" <=> hook'.request.token > 0
      <4>1. hook'.request.token = 0
        BY <1>4, <1>10
      <4>2. QED
        BY <3>1, <4>1
    <3>4. QED
      BY <1>3, <1>4, <2>3, <3>1, <3>2, <3>3 DEF Followed
  <2>5. Spinner'
    BY <1>4, <2>1, <2>2 DEF Spinner, IInv
  <2>6. ASSUME ~hurried'
        PROVE  FirstPage'
    <3>1. r = First(page.filter)
      BY <1>7, <1>10 DEF First, Requests
    <3>2. CASE answer # hook.data
      <4>1. PICK pg \in PageStates : pg = page'
        BY <2>2
      <4>2. Showing(pg, answer) /\ IsAnswer(First(pg.filter), answer)
        BY <1>3, <2>2, <3>1, <3>2, <4>1
      <4>3. Shown(pg)
        BY <4>2, FirstShown
      <4>4. DOMAIN pg.rows = 1 .. Len(answer.rows)
        BY <4>2, RowsDomain DEF Answers, Showing
      <4>5. \A i \in DOMAIN pg.rows : Good(pg.rows[i])'
        BY <1>5, <1>6, <4>2, <4>4 DEF Showing
      <4>6. Answered'
        BY <1>3, <1>4 DEF Answered
      <4>7. QED
        BY <1>4, <4>1, <4>2, <4>3, <4>5, <4>6 DEF FirstPage, Showing, Shown
    <3>3. CASE answer = hook.data
      <4>1. Answered
        BY <1>3, <3>3 DEF Answered
      <4>2. FirstPage
        BY <1>4, <1>10, <2>6, <4>1 DEF IInv, OnPage
      <4>3. CASE failed /\ Emptied(page)
        BY <1>4, <2>2, <3>3, <4>3 DEF FirstPage, Emptied
      <4>4. CASE /\ Shown(page)
                 /\ Len(page.rows) = Len(hook.data.rows)
                 /\ \A i \in DOMAIN page.rows :
                      Good(page.rows[i]) \/ (Pending /\ page.rows[i] = hook.data.rows[i])
        <5>1. PICK pg \in PageStates : pg = page
          BY <1>1
        <5>2. DOMAIN pg.rows = 1 .. Len(answer.rows)
          BY <3>3, <4>4, <5>1, RowsDomain DEF PageStates
        <5>3. \A i \in DOMAIN pg.rows : Good(pg.rows[i]) \/ Current(pg.rows[i])
          BY <1>5, <3>3, <4>4, <5>1, <5>2
        <5>4. \A i \in DOMAIN pg.rows : Good(pg.rows[i])'
          BY <1>6, <5>3
        <5>5. Shown(page)' /\ page'.rows = pg.rows
          BY <2>2, <3>3, <4>4, <5>1 DEF Shown
        <5>6. Answered'
          BY <1>3, <1>4 DEF Answered
        <5>7. QED
          BY <1>4, <3>3, <4>4, <5>1, <5>4, <5>5, <5>6 DEF FirstPage
      <4>5. QED
        BY <4>2, <4>3, <4>4 DEF FirstPage
    <3>4. QED
      BY <3>2, <3>3
  <2>7. OnPage'
    BY <1>4, <1>10, <2>6 DEF OnPage
  <2>8. QED
    BY <1>8, <2>4, <2>5, <2>7
<1>11. QED
  BY <1>7, <1>9, <1>10
LEMMA FailKeeps ==
  ASSUME IInv, TypeOK', NEW r \in Requests, Fail(r), hook.request = r
  PROVE  Followed' /\ Asked' /\ OnPage' /\ Spinner'
<1>1. page \in PageStates /\ hook \in Hooks /\ store \in [Requests -> Entries]
  BY TypeParts DEF IInv
<1>2. /\ hook' = hook /\ store[r].status = "pending" /\ store'[r].status = "failed"
      /\ page' = Render(page, hook.data, TRUE, TRUE)
      /\ failed'
      /\ UNCHANGED <<server, action, raced, hurried, broken>>
  BY <1>1 DEF Fail, Entries
<1>3. hook.data \in Answers \cup {None} /\ hook.request = r
  BY <1>1 DEF Hooks
<1>4. page.filter = r.filter /\ r.token \in Nat
  BY <1>1, <1>3, ListFacts DEF IInv, Followed, Requests
<1>5. Asked'
  BY <1>2, <1>3 DEF IInv, Asked
<1>6. CASE page.operation \in {"filter", "refresh"}
  <2>1. hook.data = None /\ r.token = 0
    BY <1>4, <1>6 DEF IInv, Followed
  <2>2. FirstRendered(page, hook.data, TRUE, page.operation # page.operation \/ TRUE,
                      Render(page, hook.data, TRUE, TRUE))
    BY <1>3, <1>1, <1>6, <2>1, RenderFirst
  <2>3. FirstRendered(page, hook.data, TRUE, TRUE, page')
    BY <1>2, <2>2
  <2>4. /\ page'.filter = page.filter /\ page'.operation \in {"initial", page.operation}
        /\ page'.loadingMore => page.loadingMore
        /\ Emptied(page')
    BY <2>3 DEF FirstRendered
  <2>5. Followed'
    <3>1. hook'.request = r /\ hook'.data = None /\ page'.filter = r.filter
      BY <1>2, <1>4, <2>1, <2>4
    <3>2. page'.operation # "loadMore" /\ page'.nextToken = 0
      BY <1>6, <2>4 DEF Emptied
    <3>3. QED
      BY <2>1, <3>1, <3>2 DEF Followed
  <2>6. Spinner'
    BY <1>2, <1>6, <2>4 DEF Spinner, IInv
  <2>7. OnPage'
    <3>1. FirstPage'
      BY <1>2, <2>4 DEF FirstPage, Emptied
    <3>2. QED
      BY <1>2, <2>1, <3>1 DEF OnPage
  <2>8. QED
    BY <1>5, <2>5, <2>6, <2>7
<1>7. CASE page.operation \in {"initial", "loadMore"}
  <2>1. SameRendered(page, hook.data,
                     hook.data # None /\ (page.operation # page.operation \/ hook.data # hook.data),
                     TRUE /\ (page.operation # page.operation \/ TRUE),
                     Render(page, hook.data, TRUE, TRUE))
    BY <1>1, <1>3, <1>7, RenderSame
  <2>2. SameRendered(page, hook.data, FALSE, TRUE, page')
    BY <1>2, <2>1
  <2>3. /\ page' \in PageStates /\ page'.filter = page.filter /\ page'.operation = page.operation
        /\ ~page'.loadingMore
        /\ page.operation = "loadMore" => page'.rows = page.rows /\ page'.nextToken = page.nextToken
        /\ page.operation = "initial" => Emptied(page')
    BY <2>2 DEF SameRendered
  <2>4. page'.nextToken # 0 => hook.data # None /\ page'.nextToken = hook.data.next
    BY <1>7, <2>3 DEF IInv, Followed, Emptied
  <2>5. Followed'
    BY <1>2, <2>3, <2>4 DEF Followed, IInv
  <2>6. Spinner'
    BY <2>3 DEF Spinner
  <2>7. CASE page.operation = "initial"
    <3>1. r.token = 0
      BY <1>4, <2>7 DEF IInv, Followed
    <3>2. FirstPage'
      BY <1>2, <2>3, <2>7 DEF FirstPage, Emptied
    <3>3. OnPage'
      BY <1>2, <3>1, <3>2 DEF OnPage
    <3>4. QED
      BY <1>5, <2>5, <2>6, <3>3
  <2>8. CASE page.operation = "loadMore"
    <3>1. r.token > 0
      BY <2>8 DEF IInv, Followed
    <3>2. ASSUME ~hurried
          PROVE  MorePages'
      <4>1. MorePages /\ page.nextToken = r.token
        BY <1>2, <3>1, <3>2 DEF IInv, OnPage, MorePages
      <4>2. Shown(page)' /\ AllGood'
        BY <1>2, <2>3, <2>8, <4>1 DEF MorePages, Shown, AllGood, Good, Current
      <4>3. QED
        BY <1>2, <2>3, <2>8, <4>1, <4>2 DEF MorePages
    <3>3. OnPage'
      BY <1>2, <3>1, <3>2 DEF OnPage
    <3>4. QED
      BY <1>5, <2>5, <2>6, <3>3
  <2>9. QED
    BY <1>7, <2>7, <2>8
<1>8. QED
  BY <1>1, <1>6, <1>7 DEF PageStates, Operations

-----------------------------------------------------------------------------
(***************************************************************************)
(* Everything else leaves the search and the hook alone.                   *)
(***************************************************************************)

\* What is left as it is, and that no mark gets wrong.
Framed ==
  /\ UNCHANGED <<hook, failed, hurried, broken>>
  /\ store'[hook.request].status = store[hook.request].status
  /\ store'[hook.request].data = store[hook.request].data
  /\ page'.filter = page.filter /\ page'.nextToken = page.nextToken
  /\ page'.operation = page.operation /\ page'.loadingMore = page.loadingMore
  /\ Len(page'.rows) = Len(page.rows) /\ DOMAIN page'.rows = DOMAIN page.rows
  /\ \A i \in DOMAIN page.rows :
       /\ page'.rows[i].id = page.rows[i].id
       /\ Good(page.rows[i]) => Good(page.rows[i])'
       /\ page'.rows[i] = page.rows[i] \/ Good(page.rows[i])'

LEMMA FrameKeeps ==
  ASSUME IInv, TypeOK', Framed
  PROVE  Followed' /\ Asked' /\ OnPage' /\ Spinner'
<1>1. page \in PageStates /\ page' \in PageStates
  BY TypeParts DEF IInv, TypeOK
<1>2. PICK n \in Nat : n = Len(page.rows) /\ DOMAIN page.rows = 1 .. n
  BY <1>1, RowsDomain DEF PageStates
<1>3. Asked' /\ Spinner'
  BY DEF IInv, Asked, Spinner, Framed, Pending
<1>4. page.nextToken = 0 /\ page.rows = <<>> => Emptied(page')
  <2>1. page.rows = <<>> => Len(page'.rows) = 0
    BY DEF Framed
  <2>2. Len(page'.rows) = 0 => page'.rows = <<>>
    BY <1>1 DEF PageStates, Rows
  <2>3. QED
    BY <2>1, <2>2 DEF Framed, Emptied
<1>5. Followed'
  BY DEF IInv, Followed, Framed
<1>6. Shown(page) => Shown(page)'
  BY <1>2 DEF Shown, Framed
<1>7. AllGood => AllGood'
  BY DEF AllGood, Framed
<1>8. FirstPage => FirstPage'
  BY <1>4, <1>6 DEF FirstPage, Framed, Emptied, Answered, Pending
<1>9. MorePages => MorePages'
  BY <1>6, <1>7 DEF MorePages, Framed
<1>10. OnPage'
  BY <1>8, <1>9 DEF IInv, OnPage, Framed, Answered, Pending
<1>11. QED
  BY <1>3, <1>5, <1>10
LEMMA FramedSteps ==
  ASSUME IInv
  PROVE  /\ \A r \in Requests : Serve(r) \/ Forget(r) => Framed
         /\ \A r \in Requests : hook.request # r /\ (Deliver(r) \/ Fail(r)) => Framed
         /\ \A f \in Findings, mark \in Marks : Act(f, mark) => Framed
         /\ Cancel \/ Execute \/ Executed \/ ExecuteFails \/ UNCHANGED vars => Framed
<1>1. /\ page \in PageStates /\ hook \in Hooks /\ store \in [Requests -> Entries]
      /\ action \in Actions \cup {None} /\ server \in [Findings -> Marks]
  BY TypeParts DEF IInv, Others
<1>2. hook.request \in Requests
  BY <1>1 DEF Hooks
<1>3. ASSUME NEW r \in Requests, Serve(r)
      PROVE  Framed
  <2>1. store' = [store EXCEPT ![r] = [store[r] EXCEPT !.coming = Answer(r)]]
    BY <1>1, <1>3 DEF Serve
  <2>2. /\ store'[hook.request].status = store[hook.request].status
        /\ store'[hook.request].data = store[hook.request].data
    BY <1>1, <1>2, <2>1 DEF Entries
  <2>3. QED
    BY <1>3, <2>2 DEF Serve, Framed, Good, Current
<1>4. ASSUME NEW r \in Requests, Forget(r)
      PROVE  Framed
  <2>1. store'[hook.request] = store[hook.request]
    BY <1>1, <1>2, <1>4 DEF Forget
  <2>2. QED
    BY <1>4, <2>1 DEF Forget, Framed, Good, Current
<1>5. ASSUME NEW r \in Requests, hook.request # r, Deliver(r)
      PROVE  Framed
  <2>1. store'[hook.request] = store[hook.request]
    BY <1>1, <1>2, <1>5 DEF Deliver
  <2>2. UNCHANGED <<page, hook, failed, hurried, broken, server, action, raced>>
    BY <1>5 DEF Deliver
  <2>3. QED
    BY <2>1, <2>2 DEF Framed, Good, Current
<1>6. ASSUME NEW r \in Requests, hook.request # r, Fail(r)
      PROVE  Framed
  <2>1. store'[hook.request] = store[hook.request]
    BY <1>1, <1>2, <1>6 DEF Fail
  <2>2. UNCHANGED <<page, hook, failed, hurried, broken, server, action, raced>>
    <3>1. failed \in BOOLEAN
      BY TypeParts DEF IInv, Others
    <3>2. QED
      BY <1>6, <3>1 DEF Fail
  <2>3. QED
    BY <2>1, <2>2 DEF Framed, Good, Current
<1>7. ASSUME NEW f \in Findings, NEW mark \in Marks, Act(f, mark)
      PROVE  Framed
  <2>1. /\ page'.filter = page.filter /\ page'.nextToken = page.nextToken
        /\ page'.operation = page.operation /\ page'.loadingMore = page.loadingMore
        /\ page'.rows = page.rows
    BY <1>1, <1>7 DEF Act, PageStates
  <2>2. \A row : Good(row) => Good(row)'
    BY <1>7 DEF Act, Good, Current
  <2>3. \A i \in DOMAIN page.rows : Good(page.rows[i]) => Good(page.rows[i])'
    BY <2>1, <2>2
  <2>4. QED
    BY <1>7, <2>1, <2>3 DEF Act, Framed
<1>8. ASSUME Cancel
      PROVE  Framed
  <2>1. /\ page'.filter = page.filter /\ page'.nextToken = page.nextToken
        /\ page'.operation = page.operation /\ page'.loadingMore = page.loadingMore
        /\ page'.rows = page.rows
    BY <1>1, <1>8 DEF Cancel, PageStates
  <2>2. QED
    BY <1>8, <2>1 DEF Cancel, Framed, Good, Current
<1>9. ASSUME Execute
      PROVE  Framed
  <2>1. action \in Actions
    BY <1>1, <1>9 DEF Execute
  <2>2. action' # None /\ action'.id = action.id
    BY <2>1, <1>9, PageAssumption DEF Execute, Actions
  <2>3. \A f \in Findings : f # action.id => server'[f] = server[f]
    BY <1>1, <1>9 DEF Execute
  <2>4. \A f : f \in raced => f \in raced'
    BY <1>9 DEF Execute
  <2>5. page' = page /\ \A i \in DOMAIN page.rows : page.rows[i].id \in Findings
    BY <1>1, <1>9, RowsDomain DEF Execute, PageStates
  <2>6. \A i \in DOMAIN page.rows : Good(page.rows[i]) => Good(page.rows[i])'
    BY <2>2, <2>3, <2>4, <2>5 DEF Good, Current
  <2>7. QED
    BY <1>9, <2>5, <2>6 DEF Execute, Framed
<1>10. ASSUME Executed
       PROVE  Framed
  <2>1. action \in Actions /\ server[action.id] = action.mark
    BY <1>1, <1>10 DEF Executed, IInv, Coming
  <2>2. /\ page'.filter = page.filter /\ page'.nextToken = page.nextToken
        /\ page'.operation = page.operation /\ page'.loadingMore = page.loadingMore
        /\ page'.rows = Applied(page.rows)
    BY <1>1, <1>10 DEF Executed, PageStates
  <2>3. PICK R : R = [id: Findings, mark: Marks]
    OBVIOUS
  <2>4. PICK new : new = Applied(page.rows)
    OBVIOUS
  <2>5. /\ Len(new) = Len(page.rows) /\ DOMAIN new = DOMAIN page.rows
        /\ \A i \in DOMAIN page.rows :
             /\ new[i].id = page.rows[i].id
             /\ new[i].mark = IF page.rows[i].id = action.id THEN action.mark ELSE page.rows[i].mark
    BY <1>1, <2>1, <2>4, AppliedTypes DEF PageStates
  <2>6. \A i \in DOMAIN page.rows : page.rows[i].id # action.id => new[i] = page.rows[i]
    BY <2>4 DEF Applied
  <2>7. ASSUME NEW i \in DOMAIN page.rows
        PROVE  /\ new[i].id = page.rows[i].id
               /\ Good(page.rows[i]) => Good(new[i])'
               /\ new[i] = page.rows[i] \/ Good(new[i])'
    <3>1. UNCHANGED <<server, raced>>
      BY <1>10 DEF Executed
    <3>2. CASE page.rows[i].id = action.id
      <4>1. new[i].id = action.id /\ new[i].mark = server[new[i].id]
        BY <2>1, <2>5, <3>2
      <4>2. Current(new[i])'
        BY <3>1, <4>1 DEF Current
      <4>3. QED
        BY <2>5, <4>2 DEF Good
    <3>3. CASE page.rows[i].id # action.id
      <4>1. new[i] = page.rows[i]
        BY <2>6, <3>3
      <4>2. Good(page.rows[i]) => Current(new[i])
        BY <3>3, <4>1 DEF Good
      <4>3. Current(new[i]) => Current(new[i])'
        BY <3>1 DEF Current
      <4>4. QED
        BY <4>1, <4>2, <4>3 DEF Good
    <3>4. QED
      BY <3>2, <3>3
  <2>8. UNCHANGED <<hook, store, failed, hurried, broken>>
    BY <1>10 DEF Executed
  <2>9. \A i \in DOMAIN page.rows : Good(page.rows[i])' <=> Good(new[i])'
    BY <2>2, <2>4
  <2>10. page'.rows = new
    BY <2>2, <2>4
  <2>11. QED
    BY <2>2, <2>5, <2>7, <2>8, <2>9, <2>10 DEF Framed
<1>11. ASSUME ExecuteFails
       PROVE  Framed
  <2>1. /\ page'.filter = page.filter /\ page'.nextToken = page.nextToken
        /\ page'.operation = page.operation /\ page'.loadingMore = page.loadingMore
        /\ page'.rows = page.rows
    BY <1>1, <1>11 DEF ExecuteFails, PageStates
  <2>2. \A row : Good(row) => Good(row)'
    BY <1>11 DEF ExecuteFails, Good, Current
  <2>3. \A i \in DOMAIN page.rows : Good(page.rows[i]) => Good(page.rows[i])'
    BY <2>1, <2>2
  <2>4. QED
    BY <1>11, <2>1, <2>3 DEF ExecuteFails, Framed
<1>12. ASSUME UNCHANGED vars
       PROVE  Framed
  BY <1>12 DEF vars, Framed, Good, Current
<1>13. QED
  BY <1>3, <1>4, <1>5, <1>6, <1>7, <1>8, <1>9, <1>10, <1>11, <1>12

-----------------------------------------------------------------------------
(***************************************************************************)
(* Marks on their way.                                                     *)
(***************************************************************************)

LEMMA ComingStep ==
  ASSUME IInv, [Next]_vars
  PROVE  Coming'
<1>1. /\ store \in [Requests -> Entries] /\ action \in Actions \cup {None}
      /\ server \in [Findings -> Marks]
  BY TypeParts DEF IInv, Others
<1>2. TypeOK /\ Coming
  BY DEF IInv
<1>3. ASSUME NEW r \in Requests, store'[r].coming # None
      PROVE  \/ store'[r].coming = store[r].coming
             \/ store'[r].coming = Answer(r) /\ UNCHANGED <<server, raced>>
  <2>1. PICK old \in Entries : old = store[r]
    BY <1>1
  <2>2. PICK new : new = store'[r]
    OBVIOUS
  <2>3. EntryChange(r, old, new)
    BY <1>2, <2>1, <2>2, EntryStep
  <2>4. \/ new.coming = old.coming \/ new.coming = None
        \/ new.coming = Answer(r) /\ UNCHANGED <<server, raced>>
    <3>1. /\ [old EXCEPT !.status = "pending"].coming = old.coming
          /\ [old EXCEPT !.coming = Answer(r)].coming = Answer(r)
          /\ [old EXCEPT !.status = "failed", !.coming = None, !.error = TRUE].coming = None
      BY DEF Entries
    <3>2. /\ Empty.coming = None
          /\ [Empty EXCEPT !.status = "pending"].coming = None
          /\ [Empty EXCEPT !.status = "done", !.data = old.coming].coming = None
      BY DEF Empty
    <3>3. QED
      BY <2>3, <3>1, <3>2 DEF EntryChange
  <2>5. QED
    BY <1>3, <2>1, <2>2, <2>4
<1>4. ASSUME UNCHANGED <<server, raced>>, NEW r \in Requests, store'[r].coming # None
      PROVE  \A i \in DOMAIN store'[r].coming.rows : Current(store[r].coming.rows[i])'
  <2>1. PICK rows : rows = store'[r].coming.rows
    OBVIOUS
  <2>2. \A i \in DOMAIN rows : Current(rows[i])
    <3>1. CASE store'[r].coming = store[r].coming
      BY <1>2, <1>4, <2>1, <3>1 DEF Coming
    <3>2. CASE store'[r].coming = Answer(r)
      <4>1. \A i \in DOMAIN Answer(r).rows :
              Answer(r).rows[i].mark = server[Answer(r).rows[i].id]
        BY <1>2, AnswerFacts
      <4>2. QED
        BY <2>1, <3>2, <4>1 DEF Current
    <3>3. QED
      BY <1>3, <1>4, <3>1, <3>2
  <2>3. \A i \in DOMAIN rows : Current(rows[i])'
    BY <1>4, <2>2 DEF Current
  <2>4. QED
    BY <2>1, <2>3
<1>5. ASSUME UNCHANGED <<server, raced, action>>
      PROVE  Coming'
  BY <1>2, <1>4, <1>5 DEF Coming
<1>6. ASSUME NEW f \in Findings, NEW mark \in Marks, Act(f, mark)
      PROVE  Coming'
  <2>1. UNCHANGED <<server, raced>> /\ ~action'.done
    BY <1>6 DEF Act
  <2>2. QED
    BY <1>4, <2>1 DEF Coming
<1>7. ASSUME Execute
      PROVE  Coming'
  <2>1. action \in Actions /\ store' = store
    BY <1>1, <1>7 DEF Execute
  <2>2. action'.id = action.id /\ action'.mark = action.mark
        /\ server' = [server EXCEPT ![action.id] = action.mark]
    BY <1>7, <2>1 DEF Execute, Actions
  <2>3. server'[action'.id] = action'.mark
    BY <1>1, <2>1, <2>2 DEF Actions
  <2>4. ASSUME NEW r \in Requests, store[r].coming # None
        PROVE  \A i \in DOMAIN store[r].coming.rows : Current(store[r].coming.rows[i])'
    <3>1. PICK rows \in Rows : rows = store[r].coming.rows
      BY <1>1, <2>4 DEF Entries, Answers
    <3>2. \A i \in DOMAIN rows : Current(rows[i])
      BY <1>2, <2>4, <3>1 DEF Coming
    <3>3. raced' = raced \cup {action.id}
      BY <1>7, <2>4 DEF Execute
    <3>4. \A i \in DOMAIN rows : rows[i].id \in Findings
      BY RowsDomain
    <3>5. \A i \in DOMAIN rows : Current(rows[i])'
      BY <1>1, <2>2, <3>2, <3>3, <3>4 DEF Current
    <3>6. QED
      BY <2>1, <3>1, <3>5
  <2>5. QED
    BY <2>1, <2>3, <2>4 DEF Coming
<1>8. ASSUME Executed
      PROVE  Coming'
  <2>1. UNCHANGED <<server, raced>> /\ action' = None
    BY <1>8 DEF Executed
  <2>2. QED
    BY <1>4, <2>1 DEF Coming
<1>9. ASSUME ExecuteFails
      PROVE  Coming'
  <2>1. UNCHANGED <<server, store>> /\ action' = None /\ raced' = raced \cup {action.id}
    BY <1>9 DEF ExecuteFails
  <2>2. ASSUME NEW r \in Requests, store[r].coming # None
        PROVE  \A i \in DOMAIN store[r].coming.rows : Current(store[r].coming.rows[i])'
    BY <1>2, <2>1, <2>2 DEF Coming, Current
  <2>3. QED
    BY <2>1, <2>2 DEF Coming
<1>10. ASSUME raced' = StillRaced, UNCHANGED <<server, action>>
       PROVE  Coming'
  <2>1. CASE raced' = raced
    BY <1>5, <1>10, <2>1
  <2>2. CASE raced' # raced
    <3>1. \A r \in Requests : store[r].coming = None
      BY <1>10, <2>2 DEF StillRaced
    <3>2. \A r \in Requests : store'[r].coming = None
      BY <1>3, <2>2, <3>1
    <3>3. QED
      BY <1>2, <1>10, <3>2 DEF Coming
  <2>3. QED
    BY <2>1, <2>2
<1>11. CASE \/ \E filter \in Filters : ChangeFilter(filter)
            \/ Refresh \/ \E kept \in BOOLEAN : Reopen(kept)
  BY <1>10, <1>11 DEF ChangeFilter, Refresh, Reopen
<1>12. QED
  BY <1>5, <1>6, <1>7, <1>8, <1>9, <1>11
     DEF Next, vars, LoadMore, Cancel, Serve, Deliver, Fail, Forget
-----------------------------------------------------------------------------
(***************************************************************************)
(* The invariant.                                                          *)
(***************************************************************************)

LEMMA Initially == Init => IInv
<1> SUFFICES ASSUME Init PROVE IInv
  OBVIOUS
<1>1. PICK filter \in Filters :
        /\ page = Fresh(filter)
        /\ hook = [request |-> First(filter), data |-> None]
        /\ store = [r \in Requests |-> IF r = First(filter) THEN [Empty EXCEPT !.status = "pending"]
                                       ELSE Empty]
  BY DEF Init
<1>2. TypeOK
  BY TypeInit
<1>3. PICK first \in Requests : first = First(filter)
  BY RequestTypes
<1>4. /\ hook.request = first /\ hook.data = None /\ first.token = 0 /\ first.filter = filter
      /\ page.filter = filter /\ page.operation = "filter" /\ page.nextToken = 0
      /\ ~page.loadingMore
  BY <1>1, <1>3 DEF First, Fresh
<1>5. /\ \A r \in Requests : /\ store[r].data = None /\ store[r].coming = None
                             /\ store[r].status \in {"none", "pending"}
      /\ store[first].status = "pending"
  BY <1>1, <1>3 DEF Empty
<1>6. Stored
  BY <1>5 DEF Stored, Keeps
<1>7. Followed
  BY <1>4 DEF Followed
<1>8. Asked
  BY <1>4, <1>5 DEF Asked
<1>9. OnPage
  BY <1>4, <1>5 DEF OnPage, Pending, Answered
<1>10. Coming
  BY <1>5 DEF Init, Coming
<1>11. Spinner
  BY <1>4 DEF Spinner
<1>12. QED
  BY <1>2, <1>6, <1>7, <1>8, <1>9, <1>10, <1>11 DEF IInv

LEMMA Inductive ==
  ASSUME IInv, [Next]_vars
  PROVE  IInv'
<1>1. TypeOK /\ Stored /\ Followed
  BY DEF IInv
<1>2. TypeOK'
  BY <1>1, TypeStep
<1>3. Stored'
  BY <1>1, StoredStep
<1>4. Coming'
  BY ComingStep
<1>5. page \in PageStates /\ hook \in Hooks
  BY <1>1, TypeParts
<1>6. ASSUME NEW filter \in Filters, ChangeFilter(filter)
      PROVE  Followed' /\ Asked' /\ OnPage' /\ Spinner'
  <2>1. PICK p \in PageStates :
          p = [page EXCEPT !.filter = filter, !.operation = "filter", !.rows = <<>>, !.nextToken = 0]
    BY <1>5, RequestTypes DEF PageStates, Operations
  <2>2. /\ p.filter = filter /\ p.operation = "filter" /\ Emptied(p)
        /\ p.loadingMore = page.loadingMore
    BY <1>5, <2>1 DEF PageStates, Emptied
  <2>3. Search(p, First(p.filter))
    BY <1>6, <2>1, <2>2 DEF ChangeFilter
  <2>4. /\ \E data : \E isError \in BOOLEAN : FirstAsked(data, isError)
        /\ page'.loadingMore => page.loadingMore
    BY <1>1, <2>2, <2>3, SearchFirst
  <2>5. Followed' /\ Asked' /\ OnPage'
    BY <1>2, <2>4, FirstKeeps
  <2>6. Spinner'
    BY <1>6, <2>4 DEF ChangeFilter, Spinner
  <2>7. QED
    BY <2>5, <2>6
<1>7. ASSUME Refresh
      PROVE  Followed' /\ Asked' /\ OnPage' /\ Spinner'
  <2>1. PICK p \in PageStates :
          p = [page EXCEPT !.operation = "refresh", !.rows = <<>>, !.nextToken = 0,
                           !.loadingMore = FALSE]
    BY <1>5, RequestTypes DEF PageStates, Operations
  <2>2. p.filter = page.filter /\ p.operation = "refresh" /\ Emptied(p) /\ ~p.loadingMore
    BY <1>5, <2>1 DEF PageStates, Emptied
  <2>3. Search(p, First(p.filter))
    BY <1>7, <2>1, <2>2 DEF Refresh
  <2>4. (\E data : \E isError \in BOOLEAN : FirstAsked(data, isError)) /\ ~page'.loadingMore
    BY <1>1, <2>2, <2>3, SearchFirst
  <2>5. Followed' /\ Asked' /\ OnPage'
    BY <1>2, <2>4, FirstKeeps
  <2>6. QED
    BY <2>4, <2>5 DEF Spinner
<1>8. ASSUME LoadMore
      PROVE  Followed' /\ Asked' /\ OnPage' /\ Spinner'
  BY <1>2, <1>8, LoadMoreKeeps
<1>9. ASSUME NEW kept \in BOOLEAN, Reopen(kept)
      PROVE  Followed' /\ Asked' /\ OnPage' /\ Spinner'
  <2>1. (\E data : \E isError \in BOOLEAN : FirstAsked(data, isError)) /\ ~page'.loadingMore
    BY <1>1, <1>9, ReopenFirst
  <2>2. Followed' /\ Asked' /\ OnPage'
    BY <1>2, <2>1, FirstKeeps
  <2>3. QED
    BY <2>1, <2>2 DEF Spinner
<1>10. ASSUME NEW r \in Requests, Serve(r) \/ Deliver(r) \/ Fail(r) \/ Forget(r)
       PROVE  Followed' /\ Asked' /\ OnPage' /\ Spinner'
  <2>1. CASE hook.request = r /\ Deliver(r)
    BY <1>2, <2>1, DeliverKeeps
  <2>2. CASE hook.request = r /\ Fail(r)
    BY <1>2, <2>2, FailKeeps
  <2>3. CASE hook.request # r \/ Serve(r) \/ Forget(r)
    <3>1. Framed
      BY <1>10, <2>3, FramedSteps
    <3>2. QED
      BY <1>2, <3>1, FrameKeeps
  <2>4. QED
    BY <1>10, <2>1, <2>2, <2>3
<1>11. ASSUME \/ \E f \in Findings, mark \in Marks : Act(f, mark)
              \/ Cancel \/ Execute \/ Executed \/ ExecuteFails \/ UNCHANGED vars
       PROVE  Followed' /\ Asked' /\ OnPage' /\ Spinner'
  <2>1. Framed
    BY <1>11, FramedSteps
  <2>2. QED
    BY <1>2, <2>1, FrameKeeps
<1>12. Followed' /\ Asked' /\ OnPage' /\ Spinner'
  BY <1>6, <1>7, <1>8, <1>9, <1>10, <1>11 DEF Next
<1>13. QED
  BY <1>2, <1>3, <1>4, <1>12 DEF IInv

LEMMA Invariant == Spec => []IInv
<1>1. IInv /\ [Next]_vars => IInv'
  BY Inductive
<1>2. QED
  BY Initially, <1>1, PTL DEF Spec

\* When the hook is quiet its request has been answered, and the answer is on the page.
LEMMA QuietFacts ==
  ASSUME IInv, Quiet, ~hurried
  PROVE  Shown(page) /\ AllGood
<1>1. hook.request.token \in Nat
  BY TypeParts, ListFacts DEF IInv, Hooks, Requests
<1>2. CASE hook.request.token = 0
  BY <1>2 DEF IInv, OnPage, Quiet, FirstPage, AllGood
<1>3. CASE hook.request.token > 0
  BY <1>3 DEF IInv, OnPage, MorePages
<1>4. QED
  BY <1>1, <1>2, <1>3

\* Whatever is asked, answered, lost or changed in between, a quiet page shows the first
\* rows of its filter, each once, and holds the token of the next.
THEOREM FirstRowsShown == Spec => []FirstRows
<1>1. IInv => FirstRows
  BY QuietFacts DEF FirstRows
<1>2. QED
  BY Invariant, <1>1, PTL

\* With the marks they have in the table, but for those that raced with an action.
THEOREM MarksAreShown == Spec => []MarksShown
<1>1. ASSUME IInv, Quiet, ~hurried, NEW i \in DOMAIN page.rows
      PROVE  \/ page.rows[i].id \in raced
             \/ action # None /\ action.id = page.rows[i].id
             \/ page.rows[i].mark = server[page.rows[i].id]
  BY <1>1, QuietFacts DEF AllGood, Good, Current
<1>2. IInv => MarksShown
  BY <1>1 DEF MarksShown
<1>3. QED
  BY Invariant, <1>2, PTL

\* The spinner turns only while a request is under way, unless the filter was changed while
\* more rows were loading.
THEOREM SpinnerEnds == Spec => []SpinnerStops
<1>1. IInv => SpinnerStops
  <2>1. SUFFICES ASSUME IInv, page.loadingMore, ~broken PROVE Pending
    BY DEF SpinnerStops
  <2>2. QED
    BY <2>1 DEF IInv, Spinner
<1>2. QED
  BY Invariant, <1>1, PTL
=============================================================================
