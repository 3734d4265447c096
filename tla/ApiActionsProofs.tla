--------------------------- MODULE ApiActionsProofs ---------------------------
(***************************************************************************)
(* Proofs about ApiActions, for any requests, findings, batches, attempts, *)
(* events and faults: its types, that an action answered with success was  *)
(* done to every finding that was read, that executions are in the         *)
(* history, and that no write undoes another that it did not overtake.     *)
(*                                                                         *)
(* The inductive invariant has a part for each phase of a request: what it *)
(* has read, what it has written, which executions it has started and      *)
(* recorded; and one for the rows it holds while others write theirs.      *)
(***************************************************************************)
EXTENDS ApiActions, FiniteSetTheorems, SequenceTheorems, TLAPS

\* The findings a request has read, and those of them before a position.
FoundBefore(r, i) == {got[r][j].finding : j \in {k \in DOMAIN got[r] : k < i}}
Found(r) == {got[r][j].finding : j \in DOMAIN got[r]}

\* The ids of a request before a position.
Asked(r, i) == {input[r].ids[j] : j \in {k \in DOMAIN input[r].ids : k < i}}

\* Reading has come as far as the position, and finds a finding once.
ReadOf(r) ==
  /\ \A i, j \in DOMAIN got[r] : got[r][i].finding = got[r][j].finding => i = j
  /\ pc[r] \in {"idle", "get"} =>
       /\ Found(r) \cup missed[r] = Asked(r, position[r])
       /\ Len(got[r]) < position[r]
       /\ position[r] = 1 \/ (pc[r] = "get" /\ position[r] > GetSize)
  /\ pc[r] \in {"start", "record", "put"} =>
       /\ Found(r) \cup missed[r] = Asked(r, Len(input[r].ids) + 1)
       /\ position[r] <= Len(got[r]) /\ Len(got[r]) <= Len(input[r].ids)

\* What has been written is what the position, or the batch, has passed.
WrittenOf(r) ==
  /\ written[r] \subseteq Found(r)
  /\ pc[r] \in {"idle", "get", "start"} => written[r] = {}
  /\ pc[r] = "record" => written[r] = FoundBefore(r, position[r])
  /\ pc[r] = "put" =>
       /\ written[r] \cap left[r] = {}
       /\ written[r] \cup left[r] = FoundBefore(r, position[r] + PutSize)
  /\ answer[r] # None => pc[r] = "answered"
  /\ answer[r] \in {200, 202} => Asked(r, Len(input[r].ids) + 1) = missed[r] \cup written[r]

\* Executions are started for the findings the position has passed, then recorded.
TrackedOf(r) ==
  /\ pc[r] \in {"idle", "get", "start", "put"} => ~failed[r]
  /\ \A f \in Findings :
       /\ history[<<r, f>>] # None => execution[<<r, f>>] # "none"
       /\ pc[r] \in {"idle", "get", "put"} => execution[<<r, f>>] = "none"
       /\ pc[r] = "start" => (execution[<<r, f>>] # "none" => f \in FoundBefore(r, position[r]))
       /\ pc[r] = "start" => (f \in FoundBefore(r, position[r]) => execution[<<r, f>>] # "none")
       /\ pc[r] = "record" /\ ~failed[r] =>
            /\ execution[<<r, f>>] # "none" <=> f \in Found(r)
            /\ f \in FoundBefore(r, position[r]) => history[<<r, f>>] # None
       /\ execution[<<r, f>>] # "none" /\ history[<<r, f>>] = None =>
            pc[r] \in {"start", "record"} \/ failed[r] \/ answer[r] \in {400, 504}

\* A row that is still to be written back is the row in the table, unless overtaken.
HeldOf(r) ==
  pc[r] \in Steps => \A i \in DOMAIN got[r] :
    got[r][i].finding \notin written[r] \cup overtaken => got[r][i].row = rows[got[r][i].finding]

Read == \A r \in Requests : ReadOf(r)
Written == \A r \in Requests : WrittenOf(r)
Tracked == \A r \in Requests : TrackedOf(r)
Held == \A r \in Requests : HeldOf(r)

IInv == TypeOK /\ Read /\ Written /\ Tracked /\ Held /\ NothingUndone

-----------------------------------------------------------------------------
(***************************************************************************)
(* Facts about the definitions.                                            *)
(***************************************************************************)

\* A missing row is not a row; one that exists is.
LEMMA RowFacts ==
  /\ NoRow \notin Row
  /\ NewRow \in Row
  /\ \A row \in Row \cup {NoRow} : Exists(row) <=> row \in Row
  /\ \A row \in Row : \A flag \in BOOLEAN : Suppressed(row, flag) \in Row
  /\ \A row \in Row, status \in Statuses : SetStatus(row, status) \in Row
  /\ \A row \in Row \cup {NoRow}, status \in Statuses : SetStatus(row, status) \in Row
<1>1. NoRow.status \notin Statuses
  BY DEF NoRow, Statuses, NotStarted, InProgress, Success, Failed
<1>2. NoRow \notin Row
  BY <1>1 DEF Row
<1>3. NewRow \in Row
  <2>1. 1 \in 0 .. MaxVersion
    BY TableAssumption, ApiAssumption
  <2>2. QED
    BY <2>1 DEF NewRow, Row, Statuses, NotStarted
<1>4. \A status \in Statuses : SetStatus(NoRow, status) \in Row
  <2>1. 0 \in 0 .. MaxVersion
    BY TableAssumption
  <2>2. QED
    BY <2>1 DEF SetStatus, NoRow, Row
<1>5. QED
  BY <1>2, <1>3, <1>4 DEF Row, Exists, Suppressed, SetStatus

\* The ids of a request are findings, and there is at least one.
LEMMA InputFacts ==
  ASSUME TypeOK, NEW r \in Requests
  PROVE  /\ input[r] \in Input
         /\ Len(input[r].ids) \in Nat \ {0}
         /\ DOMAIN input[r].ids = 1 .. Len(input[r].ids)
         /\ \A i \in DOMAIN input[r].ids : input[r].ids[i] \in Findings
         /\ position[r] \in 1 .. Len(input[r].ids)
         /\ got[r] \in Seq([finding: Findings, row: Row])
         /\ DOMAIN got[r] = 1 .. Len(got[r]) /\ Len(got[r]) \in Nat
         /\ \A i \in DOMAIN got[r] : got[r][i].finding \in Findings /\ got[r][i].row \in Row
<1>1. input[r] \in Inputs[r] /\ input[r] \in Input /\ input[r].ids \in Seq(Findings)
  BY DEF TypeOK, TablesOK, RequestsOK, Input
<1>2. input[r].ids # <<>>
  BY <1>1, ApiAssumption
<1>3. Len(input[r].ids) \in Nat \ {0} /\ DOMAIN input[r].ids = 1 .. Len(input[r].ids)
  BY <1>1, <1>2
<1>4. got[r] \in Seq([finding: Findings, row: Row]) /\ position[r] \in 1 .. Len(input[r].ids)
  BY DEF TypeOK, TablesOK, RequestsOK
<1>5. DOMAIN got[r] = 1 .. Len(got[r]) /\ Len(got[r]) \in Nat
  BY <1>4, LenProperties
<1>6. \A i \in DOMAIN got[r] : got[r][i] \in [finding: Findings, row: Row]
  BY <1>4, <1>5, ElementOfSeq
<1>7. \A i \in DOMAIN got[r] : got[r][i].finding \in Findings /\ got[r][i].row \in Row
  BY <1>6
<1>8. QED
  BY <1>1, <1>3, <1>4, <1>5, <1>7

\* What a step does not touch of a request stays as it was.
LEMMA SameRequest ==
  ASSUME NEW q \in Requests, ReadOf(q), WrittenOf(q),
         input' = input, pc'[q] = pc[q], position'[q] = position[q], got'[q] = got[q],
         left'[q] = left[q], missed'[q] = missed[q], written'[q] = written[q],
         answer'[q] = answer[q]
  PROVE  ReadOf(q)' /\ WrittenOf(q)'
BY DEF ReadOf, WrittenOf, Found, FoundBefore, Asked

LEMMA SameTracked ==
  ASSUME NEW q \in Requests, TrackedOf(q),
         pc'[q] = pc[q], position'[q] = position[q], got'[q] = got[q],
         failed'[q] = failed[q], answer'[q] = answer[q],
         \A f \in Findings : history'[<<q, f>>] = history[<<q, f>>],
         \A f \in Findings : execution'[<<q, f>>] = execution[<<q, f>>]
  PROVE  TrackedOf(q)'
BY DEF TrackedOf, Found, FoundBefore

\* No row is written, and nothing more is read.
LEMMA SameRows ==
  ASSUME Held, NothingUndone, UNCHANGED <<rows, ideal, overtaken, got, written>>,
         \A q \in Requests : pc'[q] \in Steps => pc[q] \in Steps \/ got[q] = <<>>
  PROVE  Held' /\ NothingUndone'
BY DEF Held, HeldOf, NothingUndone

\* Of some findings, those that other requests than r are about to write.
Awaited(r, W) == {f \in W : \E q \in Requests \ {r} : f \in Pending(q)}

\* Rows are written by a request, or by another writer, and the requests that were about
\* to write them are overtaken.
Writes(r, W) ==
  /\ W \subseteq Findings
  /\ \A f \in Findings \ W : rows'[f] = rows[f] /\ ideal'[f] = ideal[f]
  /\ overtaken' = overtaken \cup Awaited(r, W)
  /\ \A f \in W \ overtaken' : rows'[f] = ideal'[f]
  /\ got' = got
  /\ \A q \in Requests : pc'[q] \in Steps => pc[q] \in Steps
  /\ \A q \in Requests : written'[q] = IF q = r THEN written[q] \cup W ELSE written[q]

LEMMA WriteRows ==
  ASSUME TypeOK, Held, NothingUndone, NEW r, NEW W, Writes(r, W)
  PROVE  Held' /\ NothingUndone'
<1> USE DEF Writes
<1>1. NothingUndone'
  BY DEF NothingUndone
<1>2. ASSUME NEW q \in Requests, pc'[q] \in Steps, NEW i \in DOMAIN got[q],
             got[q][i].finding \notin written'[q] \cup overtaken'
      PROVE  got[q][i].row = rows'[got[q][i].finding]
  <2>1. pc[q] \in Steps /\ got[q][i].finding \notin written[q] \cup overtaken
    BY <1>2
  <2>2. got[q][i].finding \in Pending(q)
    BY <2>1 DEF Pending
  <2>3. got[q][i].finding \in Findings
    BY InputFacts
  <2>4. got[q][i].finding \notin W
    BY <1>2, <2>2, <2>3 DEF Awaited
  <2>5. QED
    BY <2>1, <2>3, <2>4 DEF Held, HeldOf
<1>3. QED
  BY <1>1, <1>2 DEF Held, HeldOf

\* A step that concerns one request leaves what holds of the others.
LEMMA OneRequest ==
  ASSUME IInv, NEW r \in Requests, input' = input,
         \A q \in Requests \ {r} :
           /\ pc'[q] = pc[q] /\ position'[q] = position[q] /\ got'[q] = got[q]
           /\ left'[q] = left[q] /\ missed'[q] = missed[q] /\ written'[q] = written[q]
           /\ answer'[q] = answer[q] /\ failed'[q] = failed[q],
         \A q \in Requests \ {r}, f \in Findings :
           history'[<<q, f>>] = history[<<q, f>>] /\ execution'[<<q, f>>] = execution[<<q, f>>],
         ReadOf(r)', WrittenOf(r)', TrackedOf(r)'
  PROVE  Read' /\ Written' /\ Tracked'
<1>1. ASSUME NEW q \in Requests, q # r
      PROVE  ReadOf(q)' /\ WrittenOf(q)' /\ TrackedOf(q)'
  <2>1. ReadOf(q) /\ WrittenOf(q) /\ TrackedOf(q)
    BY DEF IInv, Read, Written, Tracked
  <2>2. ReadOf(q)' /\ WrittenOf(q)'
    BY <1>1, <2>1, SameRequest
  <2>3. QED
    BY <1>1, <2>1, <2>2, SameTracked
<1>2. QED
  BY <1>1 DEF Read, Written, Tracked

\* A batch is the members of a sequence from a position on, up to its size.
LEMMA BatchFacts ==
  ASSUME NEW S, NEW s \in Seq(S), NEW from \in Nat \ {0}, from <= Len(s),
         NEW size \in Nat \ {0}
  PROVE  LET b == Batch(s, from, size) IN
         /\ b \in Seq(S) /\ Len(b) \in Nat /\ DOMAIN b = 1 .. Len(b)
         /\ Len(b) = IF from + size - 1 < Len(s) THEN size ELSE Len(s) - from + 1
         /\ \A i \in 1 .. Len(b) : b[i] = s[from + i - 1]
<1>1. PICK m : m = IF from + size - 1 < Len(s) THEN from + size - 1 ELSE Len(s)
  OBVIOUS
<1>2. Len(s) \in Nat /\ DOMAIN s = 1 .. Len(s)
  BY LenProperties
<1>3. /\ m \in Nat /\ from <= m /\ m <= Len(s)
      /\ m - from + 1 = IF from + size - 1 < Len(s) THEN size ELSE Len(s) - from + 1
  <2>1. CASE from + size - 1 < Len(s)
    <3>1. m = from + size - 1
      BY <1>1, <2>1
    <3>2. QED
      BY <1>2, <2>1, <3>1
  <2>2. CASE ~(from + size - 1 < Len(s))
    <3>1. m = Len(s)
      BY <1>1, <2>2
    <3>2. QED
      BY <1>2, <2>2, <3>1
  <2>3. QED
    BY <2>1, <2>2
<1>4. \A i \in from .. m : s[i] \in S
  BY <1>2, <1>3, ElementOfSeq
<1>5. PICK b : b = SubSeq(s, from, m)
  OBVIOUS
<1>6. b = Batch(s, from, size)
  BY <1>1, <1>5 DEF Batch
<1>7. b \in Seq(S) /\ Len(b) = m - from + 1 /\ \A i \in 1 .. m - from + 1 : b[i] = s[from + i - 1]
  BY <1>3, <1>4, <1>5, SubSeqProperties
<1>8. DOMAIN b = 1 .. Len(b) /\ Len(b) \in Nat
  BY <1>7, LenProperties
<1>9. Len(b) = IF from + size - 1 < Len(s) THEN size ELSE Len(s) - from + 1
  BY <1>3, <1>7
<1>10. QED
  BY <1>6, <1>7, <1>8, <1>9

KeySet(r) == {Keys(r)[i] : i \in DOMAIN Keys(r)}

\* The keys of a BatchGet are the ids from the position on.
LEMMA KeysFacts ==
  ASSUME TypeOK, NEW r \in Requests
  PROVE  /\ Len(Keys(r)) \in Nat /\ DOMAIN Keys(r) = 1 .. Len(Keys(r))
         /\ Len(Keys(r)) <= GetSize /\ Len(Keys(r)) <= Len(input[r].ids) - position[r] + 1
         /\ Asked(r, position[r] + GetSize) = Asked(r, position[r]) \cup KeySet(r)
         /\ \A i \in DOMAIN Keys(r) :
              \E j \in DOMAIN input[r].ids : j >= position[r] /\ Keys(r)[i] = input[r].ids[j]
<1>1. PICK s : s = input[r].ids
  OBVIOUS
<1>2. PICK n : n = position[r]
  OBVIOUS
<1>3. s \in Seq(Findings) /\ n \in Nat \ {0} /\ n <= Len(s) /\ DOMAIN s = 1 .. Len(s)
      /\ Len(s) \in Nat /\ GetSize \in Nat \ {0}
  BY <1>1, <1>2, InputFacts, ApiAssumption DEF Input
<1>4. PICK b : b = Keys(r)
  OBVIOUS
<1>5. b = Batch(s, n, GetSize)
  BY <1>1, <1>2, <1>4 DEF Keys
<1>6. /\ Len(b) \in Nat /\ DOMAIN b = 1 .. Len(b)
      /\ Len(b) = IF n + GetSize - 1 < Len(s) THEN GetSize ELSE Len(s) - n + 1
      /\ \A i \in 1 .. Len(b) : b[i] = s[n + i - 1]
  <2>1. /\ Batch(s, n, GetSize) \in Seq(Findings) /\ Len(Batch(s, n, GetSize)) \in Nat
        /\ DOMAIN Batch(s, n, GetSize) = 1 .. Len(Batch(s, n, GetSize))
        /\ Len(Batch(s, n, GetSize)) = IF n + GetSize - 1 < Len(s) THEN GetSize ELSE Len(s) - n + 1
        /\ \A i \in 1 .. Len(Batch(s, n, GetSize)) : Batch(s, n, GetSize)[i] = s[n + i - 1]
    BY <1>3, BatchFacts
  <2>2. QED
    BY <1>5, <2>1
<1>7. \A k \in DOMAIN s : n <= k /\ k < n + GetSize => k - n + 1 \in DOMAIN b /\ b[k - n + 1] = s[k]
  BY <1>3, <1>6
<1>8. \A i \in DOMAIN b : /\ n + i - 1 \in DOMAIN s /\ n + i - 1 >= n /\ n + i - 1 < n + GetSize
                          /\ b[i] = s[n + i - 1]
  BY <1>3, <1>6
<1>9. {s[j] : j \in {k \in DOMAIN s : k < n + GetSize}} =
        {s[j] : j \in {k \in DOMAIN s : k < n}} \cup {b[i] : i \in DOMAIN b}
  <2>1. ASSUME NEW j \in DOMAIN s, j < n + GetSize, ~(j < n)
        PROVE  \E i \in DOMAIN b : s[j] = b[i]
    BY <1>3, <1>7, <2>1
  <2>2. \A i \in DOMAIN b : \E j \in DOMAIN s : j < n + GetSize /\ b[i] = s[j]
    BY <1>8
  <2>3. \A j \in DOMAIN s : j < n => j < n + GetSize
    BY <1>3
  <2>4. QED
    BY <2>1, <2>2, <2>3
<1>10. Len(b) <= GetSize /\ Len(b) <= Len(s) - n + 1
  BY <1>3, <1>6
<1>11. \A i \in DOMAIN b : \E j \in DOMAIN s : j >= n /\ b[i] = s[j]
  BY <1>8
<1>12. /\ Asked(r, n + GetSize) = {s[j] : j \in {k \in DOMAIN s : k < n + GetSize}}
       /\ Asked(r, n) = {s[j] : j \in {k \in DOMAIN s : k < n}}
  BY <1>1 DEF Asked
<1>13. Asked(r, n + GetSize) = Asked(r, n) \cup KeySet(r)
  BY <1>4, <1>9, <1>12 DEF KeySet
<1>14. Len(b) \in Nat /\ DOMAIN b = 1 .. Len(b)
  BY <1>6
<1>15. QED
  BY <1>1, <1>2, <1>4, <1>10, <1>11, <1>13, <1>14, Zenon

\* The rows of a BatchWrite are those from the position on.
LEMMA ItemsFacts ==
  ASSUME NEW s \in Seq([finding: Findings, row: Row]),
         NEW from \in Nat \ {0}, from <= Len(s)
  PROVE  Items(s, from) = {s[j].finding : j \in {k \in DOMAIN s : from <= k /\ k < from + PutSize}}
<1>1. PICK b : b = Batch(s, from, PutSize)
  OBVIOUS
<1>2. PutSize \in Nat \ {0} /\ Len(s) \in Nat /\ DOMAIN s = 1 .. Len(s)
  BY ApiAssumption, LenProperties
<1>3. /\ Len(b) \in Nat /\ DOMAIN b = 1 .. Len(b)
      /\ Len(b) = IF from + PutSize - 1 < Len(s) THEN PutSize ELSE Len(s) - from + 1
      /\ \A i \in 1 .. Len(b) : b[i] = s[from + i - 1]
  <2>1. /\ Len(Batch(s, from, PutSize)) \in Nat
        /\ DOMAIN Batch(s, from, PutSize) = 1 .. Len(Batch(s, from, PutSize))
        /\ Len(Batch(s, from, PutSize)) =
             IF from + PutSize - 1 < Len(s) THEN PutSize ELSE Len(s) - from + 1
        /\ \A i \in 1 .. Len(Batch(s, from, PutSize)) : Batch(s, from, PutSize)[i] = s[from + i - 1]
    BY <1>2, BatchFacts
  <2>2. QED
    BY <1>1, <2>1
<1>4. \A k \in DOMAIN s : from <= k /\ k < from + PutSize =>
        k - from + 1 \in DOMAIN b /\ b[k - from + 1] = s[k]
  BY <1>2, <1>3
<1>5. \A i \in DOMAIN b : /\ from + i - 1 \in DOMAIN s /\ from <= from + i - 1
                          /\ from + i - 1 < from + PutSize /\ b[i] = s[from + i - 1]
  BY <1>2, <1>3
<1>6. {b[i].finding : i \in DOMAIN b} =
        {s[j].finding : j \in {k \in DOMAIN s : from <= k /\ k < from + PutSize}}
  <2>1. ASSUME NEW j \in DOMAIN s, from <= j, j < from + PutSize
        PROVE  \E i \in DOMAIN b : s[j].finding = b[i].finding
    BY <1>4, <2>1
  <2>2. \A i \in DOMAIN b : \E j \in DOMAIN s :
          from <= j /\ j < from + PutSize /\ b[i].finding = s[j].finding
    BY <1>5
  <2>3. QED
    BY <2>1, <2>2
<1>7. Items(s, from) = {b[i].finding : i \in DOMAIN b}
  BY <1>1 DEF Items
<1>8. QED
  BY <1>6, <1>7

\* One sequence after another.
LEMMA Concatenated ==
  ASSUME NEW S, NEW g \in Seq(S), NEW more \in Seq(S),
         NEW found, found = g \o more
  PROVE
         /\ found \in Seq(S) /\ Len(found) = Len(g) + Len(more) /\ DOMAIN found = 1 .. Len(found)
         /\ \A i \in DOMAIN g : i \in DOMAIN found /\ found[i] = g[i]
         /\ \A i \in DOMAIN found : i \notin DOMAIN g =>
              i - Len(g) \in DOMAIN more /\ found[i] = more[i - Len(g)]
         /\ \A k \in DOMAIN more : k + Len(g) \in DOMAIN found /\ found[k + Len(g)] = more[k]
<1>2. /\ found \in Seq(S) /\ Len(found) = Len(g) + Len(more)
      /\ \A i \in 1 .. Len(found) : found[i] = IF i <= Len(g) THEN g[i] ELSE more[i - Len(g)]
  BY ConcatProperties
<1>3. /\ Len(g) \in Nat /\ DOMAIN g = 1 .. Len(g) /\ Len(more) \in Nat
      /\ DOMAIN more = 1 .. Len(more) /\ DOMAIN found = 1 .. Len(found)
  BY <1>2, LenProperties
<1>4. \A i \in DOMAIN g : i \in DOMAIN found /\ found[i] = g[i]
  BY <1>2, <1>3
<1>5. \A i \in DOMAIN found : i \notin DOMAIN g =>
        i - Len(g) \in DOMAIN more /\ found[i] = more[i - Len(g)]
  BY <1>2, <1>3
<1>6. \A k \in DOMAIN more : k + Len(g) \in DOMAIN found /\ found[k + Len(g)] = more[k]
  BY <1>2, <1>3
<1>7. QED
  BY <1>2, <1>3, <1>4, <1>5, <1>6, Zenon

\* Findings, with their rows, are added to what has been read.
Extends(r, here, found) ==
  found = got[r] \o [i \in DOMAIN here |-> [finding |-> here[i], row |-> rows[here[i]]]]

\* found is what has been read and n findings more.
Added(r, n, here, found) ==
  /\ found \in Seq([finding: Findings, row: Row])
  /\ Len(found) = Len(got[r]) + n /\ DOMAIN found = 1 .. Len(found)
  /\ \A i \in DOMAIN got[r] : found[i] = got[r][i]
  /\ \A i \in DOMAIN found : i \notin DOMAIN got[r] =>
       /\ i - Len(got[r]) \in 1 .. n
       /\ found[i].finding = here[i - Len(got[r])]
       /\ found[i].row = rows[found[i].finding]
  /\ \A f : (\E i \in DOMAIN found : found[i].finding = f) <=>
            f \in Found(r) \/ \E i \in 1 .. n : here[i] = f

LEMMA Extended ==
  ASSUME TypeOK, NEW r \in Requests, NEW n \in Nat, NEW here \in [1 .. n -> Findings],
         \A i \in 1 .. n : Exists(rows[here[i]]), NEW found, Extends(r, here, found)
  PROVE  Added(r, n, here, found)
<1>13. PICK R : R = [finding: Findings, row: Row]
  OBVIOUS
<1>1. PICK g : g = got[r]
  OBVIOUS
<1>2. PICK more : more = [i \in 1 .. n |-> [finding |-> here[i], row |-> rows[here[i]]]]
  OBVIOUS
<1>3. g \in Seq(R) /\ DOMAIN g = 1 .. Len(g)
  BY <1>1, <1>13, InputFacts
<1>4. /\ \A i \in 1 .. n : more[i].finding = here[i] /\ more[i].row = rows[here[i]]
      /\ more \in Seq(R)
      /\ Len(more) = n /\ DOMAIN more = 1 .. n
  <2>1. \A i \in 1 .. n : here[i] \in Findings /\ rows[here[i]] \in Row
    BY RowFacts DEF TypeOK, TablesOK, RequestsOK
  <2>2. \A i \in 1 .. n : /\ more[i] \in [finding: Findings, row: Row]
                          /\ more[i].finding = here[i] /\ more[i].row = rows[here[i]]
    BY <1>2, <2>1
  <2>3. more \in [1 .. n -> R]
    BY <1>2, <1>13, <2>2
  <2>4. more \in Seq(R)
    BY <2>3, SeqDef
  <2>5. Len(more) = n /\ DOMAIN more = 1 .. n
    BY <2>3, <2>4, LenProperties
  <2>6. QED
    BY <2>2, <2>4, <2>5
<1>5. found = g \o more
  <2>1. DOMAIN here = 1 .. n
    OBVIOUS
  <2>2. QED
    BY <1>1, <1>2, <2>1 DEF Extends
<1>6. /\ found \in Seq(R)
      /\ Len(found) = Len(g) + Len(more) /\ DOMAIN found = 1 .. Len(found)
      /\ \A i \in DOMAIN g : i \in DOMAIN found /\ found[i] = g[i]
      /\ \A i \in DOMAIN found : i \notin DOMAIN g =>
           i - Len(g) \in DOMAIN more /\ found[i] = more[i - Len(g)]
      /\ \A k \in DOMAIN more : k + Len(g) \in DOMAIN found /\ found[k + Len(g)] = more[k]
  <2>1. g \in Seq(R) /\ more \in Seq(R)
    BY <1>3, <1>4
  <2>2. QED
    BY <1>5, <2>1, Concatenated
<1>7. \A f : (\E i \in DOMAIN found : found[i].finding = f) <=>
               (\E i \in DOMAIN g : g[i].finding = f) \/ \E i \in 1 .. n : here[i] = f
  <2>1. \A i \in DOMAIN found : (\E j \in DOMAIN g : found[i].finding = g[j].finding)
                                \/ (\E k \in 1 .. n : found[i].finding = here[k])
    BY <1>4, <1>6
  <2>2. \A k \in 1 .. n : \E i \in DOMAIN found : found[i].finding = here[k]
    <3>1. ASSUME NEW k \in 1 .. n PROVE \E i \in DOMAIN found : found[i].finding = here[k]
      <4>1. k \in DOMAIN more /\ more[k].finding = here[k]
        BY <1>4
      <4>2. k + Len(g) \in DOMAIN found /\ found[k + Len(g)] = more[k]
        BY <1>6, <4>1
      <4>3. QED
        BY <4>1, <4>2
    <3>2. QED
      BY <3>1
  <2>3. \A j \in DOMAIN g : \E i \in DOMAIN found : found[i].finding = g[j].finding
    BY <1>6
  <2>4. QED
    BY <2>1, <2>2, <2>3
<1>8. \A i \in DOMAIN found : i \notin DOMAIN g =>
        /\ i - Len(g) \in 1 .. n
        /\ found[i].finding = here[i - Len(g)] /\ found[i].row = rows[found[i].finding]
  BY <1>4, <1>6
<1>9. \A f : f \in Found(r) <=> \E i \in DOMAIN g : g[i].finding = f
  BY <1>1 DEF Found
<1>11. Len(found) = Len(g) + n
  BY <1>4, <1>6
<1>12. /\ found \in Seq([finding: Findings, row: Row])
       /\ Len(found) = Len(got[r]) + n /\ DOMAIN found = 1 .. Len(found)
       /\ \A i \in DOMAIN got[r] : found[i] = got[r][i]
  BY <1>1, <1>6, <1>11, <1>13
<1>14. \A f : (\E i \in DOMAIN found : found[i].finding = f) <=>
               f \in Found(r) \/ \E i \in 1 .. n : here[i] = f
  BY <1>7, <1>9
<1>15. QED
  BY <1>1, <1>8, <1>12, <1>14 DEF Added

-----------------------------------------------------------------------------
(***************************************************************************)
(* Reading.                                                                *)
(***************************************************************************)

LEMMA ReceiveStep ==
  ASSUME IInv, NEW r \in Requests, Receive(r)
  PROVE  IInv'
<1>1. /\ pc[r] = "idle" /\ pc' = [pc EXCEPT ![r] = "get"]
      /\ position' = [position EXCEPT ![r] = 1]
      /\ UNCHANGED <<rows, history, unnamed, ideal, overtaken, execution, input, got, left, attempts,
                     failed, answer, missed, written>>
  BY DEF Receive, Goto, tableVars
<1>2. TypeOK /\ Held /\ NothingUndone /\ ReadOf(r) /\ WrittenOf(r) /\ TrackedOf(r)
  BY DEF IInv, Read, Written, Tracked
<1>3. pc'[r] = "get" /\ position'[r] = 1 /\ position[r] = 1 /\ GetSize \in Nat \ {0}
  BY <1>1, <1>2, ApiAssumption DEF TypeOK, TablesOK, RequestsOK, ReadOf
<1>4. TypeOK'
  <2>1. pc' \in [Requests -> Steps \cup {"idle", "answered"}] /\ position' \in [Requests -> Nat]
        /\ \A q \in Requests : position'[q] \in 1 .. Len(input'[q].ids)
    BY <1>1, <1>2, InputFacts DEF TypeOK, TablesOK, RequestsOK, Steps
  <2>2. QED
    BY <1>1, <1>2, <2>1 DEF TypeOK, TablesOK, RequestsOK
<1>5. ReadOf(r)' /\ WrittenOf(r)' /\ TrackedOf(r)'
  <2>1. Len(got[r]) = 0 /\ got[r] \in Seq([finding: Findings, row: Row])
    BY <1>1, <1>2, <1>3, InputFacts DEF ReadOf
  <2>2. ReadOf(r)'
    BY <1>1, <1>2, <1>3 DEF ReadOf, Found, Asked
  <2>3. WrittenOf(r)'
    BY <1>1, <1>2, <1>3 DEF WrittenOf, Found, Asked
  <2>4. TrackedOf(r)'
    BY <1>1, <1>2, <1>3 DEF TrackedOf, Found, FoundBefore
  <2>5. QED
    BY <2>2, <2>3, <2>4
<1>6. Read' /\ Written' /\ Tracked'
  BY <1>1, <1>5, OneRequest
<1>7. Held' /\ NothingUndone'
  <2>1. got[r] = <<>>
    <3>1. Len(got[r]) = 0 /\ got[r] \in Seq([finding: Findings, row: Row])
      BY <1>1, <1>2, <1>3, InputFacts DEF ReadOf
    <3>2. QED
      BY <3>1, EmptySeq
  <2>2. \A q \in Requests : pc'[q] \in Steps => pc[q] \in Steps \/ got[q] = <<>>
    BY <1>1, <1>2, <2>1 DEF TypeOK, TablesOK, RequestsOK
  <2>3. QED
    BY <1>1, <1>2, <2>2, SameRows
<1>8. QED
  BY <1>4, <1>6, <1>7 DEF IInv

There(taken) == {f \in taken : Exists(rows[f])}

\* The step of a BatchGet.
LEMMA GetBatchActs ==
  ASSUME IInv, NEW r \in Requests, NEW taken, GetBatch(r, taken)
  PROVE  /\ pc[r] = "get" /\ ~Twice(Keys(r)) /\ taken \subseteq KeySet(r)
         /\ missed' = [missed EXCEPT ![r] = missed[r] \cup (KeySet(r) \ There(taken))]
         /\ \E here \in Bijection(1 .. Cardinality(There(taken)), There(taken)) : \E found :
              Extends(r, here, found) /\ got' = [got EXCEPT ![r] = found]
         /\ IF position[r] + GetSize > Len(input[r].ids) THEN AfterGet(r, got'[r])
            ELSE Goto(r, "get", position[r] + GetSize) /\ UNCHANGED <<answer, left>>
         /\ UNCHANGED <<tableVars, execution, input, attempts, failed, written>>
<1>1. \E here \in Bijection(1 .. Cardinality(There(taken)), There(taken)) : \E found :
        /\ Extends(r, here, found) /\ got' = [got EXCEPT ![r] = found]
        /\ IF position[r] + GetSize > Len(input[r].ids) THEN AfterGet(r, found)
           ELSE Goto(r, "get", position[r] + GetSize) /\ UNCHANGED <<answer, left>>
  BY Zenon DEF GetBatch, There, Extends
<1>2. \A found : got' = [got EXCEPT ![r] = found] => got'[r] = found
  BY DEF IInv, TypeOK, TablesOK, RequestsOK
<1>3. QED
  BY <1>1, <1>2 DEF GetBatch, There, KeySet

\* Whatever is found, the findings read once are those of the ids that have been passed.
LEMMA GetBatchReads ==
  ASSUME IInv, NEW r \in Requests, NEW taken \in SUBSET Findings, GetBatch(r, taken)
  PROVE  /\ got' = [got EXCEPT ![r] = got'[r]]
         /\ got'[r] \in Seq([finding: Findings, row: Row])
         /\ missed' = [missed EXCEPT ![r] = missed'[r]] /\ missed'[r] \subseteq Findings
         /\ \A i, j \in DOMAIN got'[r] : got'[r][i].finding = got'[r][j].finding => i = j
         /\ Found(r)' \cup missed'[r] = Asked(r, position[r] + GetSize)
         /\ Len(got'[r]) < position[r] + GetSize /\ Len(got'[r]) <= Len(input[r].ids)
         /\ \A i \in DOMAIN got'[r] :
              \/ i \in DOMAIN got[r] /\ got'[r][i] = got[r][i]
              \/ got'[r][i].row = rows[got'[r][i].finding]
<1>1. TypeOK /\ ReadOf(r) /\ WrittenOf(r) /\ pc[r] = "get"
  BY DEF IInv, Read, Written, GetBatch
<1>2. PICK here \in Bijection(1 .. Cardinality(There(taken)), There(taken)) :
        \E found : Extends(r, here, found) /\ got' = [got EXCEPT ![r] = found]
  BY GetBatchActs
<1>13. PICK found : Extends(r, here, found) /\ got' = [got EXCEPT ![r] = found]
  BY <1>2
<1>3. PICK l : l = Len(Keys(r))
  OBVIOUS
<1>4. /\ There(taken) \subseteq taken /\ taken \subseteq KeySet(r)
      /\ \A f \in There(taken) : Exists(rows[f])
  BY GetBatchActs DEF There
<1>7. PICK n : n = Cardinality(There(taken))
  OBVIOUS
<1>9. l \in Nat /\ DOMAIN Keys(r) = 1 .. l /\ l <= GetSize /\ l <= Len(input[r].ids) - position[r] + 1
      /\ Asked(r, position[r] + GetSize) = Asked(r, position[r]) \cup KeySet(r)
      /\ \A f \in KeySet(r) : \E j \in DOMAIN input[r].ids : j >= position[r] /\ f = input[r].ids[j]
  <2>1. /\ Len(Keys(r)) \in Nat /\ DOMAIN Keys(r) = 1 .. Len(Keys(r))
        /\ Len(Keys(r)) <= GetSize /\ Len(Keys(r)) <= Len(input[r].ids) - position[r] + 1
        /\ Asked(r, position[r] + GetSize) = Asked(r, position[r]) \cup KeySet(r)
        /\ \A i \in DOMAIN Keys(r) :
             \E j \in DOMAIN input[r].ids : j >= position[r] /\ Keys(r)[i] = input[r].ids[j]
    BY <1>1, KeysFacts
  <2>2. \A f \in KeySet(r) : \E j \in DOMAIN input[r].ids : j >= position[r] /\ f = input[r].ids[j]
    BY <2>1, Zenon DEF KeySet
  <2>3. QED
    BY <1>3, <2>1, <2>2
<1>10. IsFiniteSet(There(taken)) /\ n \in Nat /\ n <= l
  <2>1. Keys(r) \in [1 .. l -> KeySet(r)] /\ \A f \in KeySet(r) : \E i \in 1 .. l : Keys(r)[i] = f
    <3>1. \A i \in 1 .. l : Keys(r)[i] \in KeySet(r)
      BY <1>9 DEF KeySet
    <3>2. Keys(r) = [i \in DOMAIN Keys(r) |-> Keys(r)[i]]
      <4>1. Keys(r) \in Seq(Findings)
        BY <1>1, BatchFacts, InputFacts, ApiAssumption DEF Keys, Input
      <4>2. QED
        BY <4>1
    <3>3. QED
      BY <1>9, <3>1, <3>2 DEF KeySet
  <2>2. ExistsSurjection(1 .. l, KeySet(r))
    BY <2>1 DEF ExistsSurjection, Surjection
  <2>3. IsFiniteSet(KeySet(r)) /\ Cardinality(KeySet(r)) <= l
    BY <1>9, <2>2, FS_NatSurjection, FS_SurjCardinalityBound
  <2>4. There(taken) \subseteq KeySet(r)
    BY <1>4
  <2>5. QED
    BY <1>7, <1>9, <2>3, <2>4, FS_Subset, FS_CardinalityType
<1>11. /\ here \in [1 .. n -> There(taken)] /\ DOMAIN here = 1 .. n
       /\ \A i, j \in 1 .. n : here[i] = here[j] => i = j
       /\ \A f \in There(taken) : \E i \in 1 .. n : here[i] = f
  BY <1>2, <1>7 DEF Bijection, Injection, Surjection, IsInjective
<1>12. /\ here \in [1 .. n -> Findings] /\ (\A i \in 1 .. n : Exists(rows[here[i]]))
       /\ {here[i] : i \in 1 .. n} = There(taken)
  BY <1>4, <1>11
<1>14. got' = [got EXCEPT ![r] = found] /\ got'[r] = found
  BY <1>1, <1>13 DEF TypeOK, TablesOK, RequestsOK
<1>15. /\ found \in Seq([finding: Findings, row: Row])
       /\ Len(found) = Len(got[r]) + n /\ DOMAIN found = 1 .. Len(found)
       /\ \A i \in DOMAIN got[r] : found[i] = got[r][i]
       /\ \A i \in DOMAIN found : i \notin DOMAIN got[r] =>
            /\ i - Len(got[r]) \in 1 .. n
            /\ found[i].finding = here[i - Len(got[r])]
            /\ found[i].row = rows[found[i].finding]
       /\ \A f : (\E i \in DOMAIN found : found[i].finding = f) <=>
                 f \in Found(r) \/ \E i \in 1 .. n : here[i] = f
  <2>1. TypeOK /\ n \in Nat /\ Extends(r, here, found)
    BY <1>1, <1>10, <1>13
  <2>2. here \in [1 .. n -> Findings] /\ \A i \in 1 .. n : Exists(rows[here[i]])
    BY <1>12
  <2>3. Added(r, n, here, found)
    BY <2>1, <2>2, Extended
  <2>4. QED
    BY <2>3 DEF Added
<1>16. missed'[r] = missed[r] \cup (KeySet(r) \ There(taken)) /\ missed'[r] \subseteq Findings
       /\ missed' = [missed EXCEPT ![r] = missed'[r]]
  <2>1. \A f \in KeySet(r) : f \in Findings
    BY <1>1, <1>9, InputFacts
  <2>2. QED
    BY <1>1, <2>1, GetBatchActs DEF TypeOK, TablesOK, RequestsOK
<1>17. Found(r)' \cup missed'[r] = Asked(r, position[r] + GetSize)
  <2>1. Found(r)' = Found(r) \cup There(taken)
    <3>1. Found(r)' = {found[i].finding : i \in DOMAIN found}
      BY <1>14 DEF Found
    <3>2. QED
      BY <1>12, <1>15, <3>1
  <2>2. Found(r) \cup missed[r] = Asked(r, position[r])
    BY <1>1 DEF ReadOf
  <2>3. There(taken) \subseteq KeySet(r)
    BY <1>4
  <2>4. QED
    BY <1>9, <1>16, <2>1, <2>2, <2>3
<1>18. Len(found) < position[r] + GetSize /\ Len(found) <= Len(input[r].ids)
  <2>1. Len(got[r]) \in Nat /\ Len(got[r]) < position[r] /\ position[r] \in Nat
        /\ Len(input[r].ids) \in Nat /\ GetSize \in Nat
    BY <1>1, InputFacts, ApiAssumption DEF ReadOf
  <2>2. Len(found) = Len(got[r]) + n /\ n \in Nat /\ n <= l /\ l \in Nat
        /\ l <= GetSize /\ l <= Len(input[r].ids) - position[r] + 1
    BY <1>9, <1>10, <1>15
  <2>3. QED
    BY <2>1, <2>2
<1>19. \A f \in Found(r) : f \notin KeySet(r)
  <2>1. SUFFICES ASSUME NEW f \in Found(r), f \in KeySet(r) PROVE FALSE
    OBVIOUS
  <2>2. PICK j \in DOMAIN input[r].ids : j < position[r] /\ f = input[r].ids[j]
    BY <1>1, <2>1 DEF ReadOf, Asked
  <2>3. PICK k \in DOMAIN input[r].ids : k >= position[r] /\ f = input[r].ids[k]
    BY <1>9, <2>1
  <2>4. position[r] > GetSize /\ Len(input[r].ids) > GetSize
    BY <1>1, <2>2, InputFacts, ApiAssumption DEF ReadOf
  <2>5. input[r] \in Inputs[r]
    BY <1>1 DEF TypeOK, TablesOK, RequestsOK
  <2>6. j = k
    BY <2>2, <2>3, <2>4, <2>5, ApiAssumption
  <2>7. QED
    BY <1>1, <2>2, <2>3, <2>6, InputFacts
<1>20. \A i, j \in DOMAIN found : found[i].finding = found[j].finding => i = j
  <2>1. \A i \in DOMAIN got[r] : found[i].finding \in Found(r)
    BY <1>15 DEF Found
  <2>2. \A i \in DOMAIN found : i \notin DOMAIN got[r] => found[i].finding \in KeySet(r)
    <3>1. \A k \in 1 .. n : here[k] \in KeySet(r)
      BY <1>4, <1>11
    <3>2. QED
      BY <1>15, <3>1
  <2>3. ASSUME NEW i \in DOMAIN found, NEW j \in DOMAIN found, found[i].finding = found[j].finding
        PROVE  i = j
    <3>1. CASE i \in DOMAIN got[r] /\ j \in DOMAIN got[r]
      BY <1>1, <1>15, <2>3, <3>1 DEF ReadOf
    <3>2. CASE i \notin DOMAIN got[r] /\ j \notin DOMAIN got[r]
      <4>1. i - Len(got[r]) = j - Len(got[r])
        BY <1>11, <1>15, <2>3, <3>2
      <4>2. i \in Nat /\ j \in Nat /\ Len(got[r]) \in Nat
        BY <1>1, <1>15, InputFacts, LenProperties
      <4>3. QED
        BY <4>1, <4>2
    <3>3. QED
      BY <1>19, <2>1, <2>2, <2>3, <3>1, <3>2
  <2>4. QED
    BY <2>3
<1>21. \A i \in DOMAIN found : \/ i \in DOMAIN got[r] /\ found[i] = got[r][i]
                               \/ found[i].row = rows[found[i].finding]
  BY <1>15
<1>22. got' = [got EXCEPT ![r] = got'[r]] /\ found = got'[r]
  BY <1>14
<1>23. QED
  BY <1>15, <1>16, <1>17, <1>18, <1>20, <1>21, <1>22, Zenon

\* A step of the reading leaves the other requests and the tables alone.
LEMMA GetBatchStep ==
  ASSUME IInv, NEW r \in Requests, NEW taken \in SUBSET Findings, GetBatch(r, taken)
  PROVE  IInv'
<1>1. TypeOK /\ Held /\ NothingUndone /\ ReadOf(r) /\ WrittenOf(r) /\ TrackedOf(r)
  BY DEF IInv, Read, Written, Tracked
<1>2. PICK found : found = got'[r]
  OBVIOUS
<1>3. PICK after : after = position[r] + GetSize
  OBVIOUS
<1>4. /\ got' = [got EXCEPT ![r] = found] /\ got'[r] = found
      /\ found \in Seq([finding: Findings, row: Row])
      /\ missed' = [missed EXCEPT ![r] = missed'[r]] /\ missed'[r] \subseteq Findings
      /\ \A i, j \in DOMAIN found : found[i].finding = found[j].finding => i = j
      /\ Found(r)' \cup missed'[r] = Asked(r, after)
      /\ Len(found) < after /\ Len(found) <= Len(input[r].ids)
      /\ \A i \in DOMAIN found :
           (i \in DOMAIN got[r] /\ found[i] = got[r][i]) \/ found[i].row = rows[found[i].finding]
  BY <1>2, <1>3, GetBatchReads, Zenon
<1>5. /\ pc[r] = "get"
      /\ UNCHANGED <<rows, history, unnamed, ideal, overtaken, execution, input, attempts, failed,
                     written>>
      /\ IF after > Len(input[r].ids) THEN AfterGet(r, found)
         ELSE Goto(r, "get", after) /\ UNCHANGED <<answer, left>>
  BY <1>2, <1>3, GetBatchActs DEF tableVars
<1>6. \/ /\ after <= Len(input[r].ids) /\ pc' = [pc EXCEPT ![r] = "get"]
         /\ position' = [position EXCEPT ![r] = after] /\ UNCHANGED <<answer, left>>
      \/ /\ after > Len(input[r].ids) /\ found = <<>>
         /\ pc' = [pc EXCEPT ![r] = "answered"] /\ answer' = [answer EXCEPT ![r] = 400]
         /\ UNCHANGED <<position, left>>
      \/ /\ after > Len(input[r].ids) /\ found # <<>>
         /\ pc' = [pc EXCEPT ![r] = "start"] /\ position' = [position EXCEPT ![r] = 1]
         /\ UNCHANGED <<answer, left>>
      \/ /\ after > Len(input[r].ids) /\ found # <<>>
         /\ pc' = [pc EXCEPT ![r] = "put"] /\ position' = [position EXCEPT ![r] = 1]
         /\ left' = [left EXCEPT ![r] = Items(found, 1)] /\ UNCHANGED answer
  <2>1. CASE after > Len(input[r].ids)
    BY <1>5, <2>1 DEF AfterGet, Goto, Answer
  <2>2. CASE ~(after > Len(input[r].ids))
    <3>1. after <= Len(input[r].ids)
      BY <1>1, <1>3, <2>2, InputFacts, ApiAssumption
    <3>2. QED
      BY <1>5, <2>2, <3>1 DEF Goto
  <2>3. QED
    BY <2>1, <2>2
<1>7. /\ Len(input[r].ids) \in Nat \ {0} /\ after \in Nat /\ after > GetSize /\ GetSize \in Nat \ {0}
      /\ Len(found) \in Nat /\ DOMAIN found = 1 .. Len(found)
      /\ (found # <<>> => Len(found) >= 1) /\ (found = <<>> => Len(found) = 0)
      /\ DOMAIN input[r].ids = 1 .. Len(input[r].ids)
  BY <1>1, <1>3, <1>4, InputFacts, ApiAssumption, LenProperties, EmptySeq
<1>8. found # <<>> => /\ Items(found, 1) \subseteq Findings
                      /\ Items(found, 1) = {found[j].finding : j \in {k \in DOMAIN found : k < 1 + PutSize}}
  <2>1. SUFFICES ASSUME found # <<>>
                 PROVE  Items(found, 1) = {found[j].finding : j \in {k \in DOMAIN found : k < 1 + PutSize}}
    <3>1. \A j \in DOMAIN found : found[j].finding \in Findings
      <4>1. PICK R : R = [finding: Findings, row: Row]
        OBVIOUS
      <4>2. \A j \in DOMAIN found : found[j] \in R
        BY <1>4, <1>7, <4>1, ElementOfSeq
      <4>3. QED
        BY <4>1, <4>2
    <3>2. QED
      BY <3>1
  <2>2. Items(found, 1) = {found[j].finding : j \in {k \in DOMAIN found : 1 <= k /\ k < 1 + PutSize}}
    <3>1. 1 \in Nat \ {0} /\ 1 <= Len(found) /\ found \in Seq([finding: Findings, row: Row])
      BY <1>4, <1>7, <2>1
    <3>2. QED
      BY <3>1, ItemsFacts
  <2>3. QED
    BY <1>7, <2>2
<1>17. /\ pc' = [pc EXCEPT ![r] = pc'[r]] /\ pc'[r] \in {"get", "answered", "start", "put"}
       /\ position' = [position EXCEPT ![r] = position'[r]] /\ position'[r] \in {position[r], after, 1}
       /\ position'[r] = after => after <= Len(input[r].ids)
  <2>1. pc \in [Requests -> Steps \cup {"idle", "answered"}] /\ position \in [Requests -> Nat]
    BY <1>1 DEF TypeOK, TablesOK, RequestsOK
  <2>2. position[r] < after
    BY <1>1, <1>3, InputFacts, ApiAssumption
  <2>3. after > 1
    BY <1>7
  <2>4. QED
    BY <1>6, <1>7, <2>1, <2>2, <2>3
<1>18. answer' = [answer EXCEPT ![r] = answer'[r]] /\ answer'[r] \in {answer[r], 400}
  BY <1>1, <1>6 DEF TypeOK, TablesOK, RequestsOK
<1>19. left' = [left EXCEPT ![r] = left'[r]] /\ (left'[r] = left[r] \/ left'[r] \subseteq Findings)
  BY <1>1, <1>6, <1>8 DEF TypeOK, TablesOK, RequestsOK
<1>9. TypeOK'
  <2>1. pc' \in [Requests -> Steps \cup {"idle", "answered"}]
    <3>1. pc'[r] \in Steps \cup {"idle", "answered"}
      BY <1>17 DEF Steps
    <3>2. QED
      BY <1>1, <1>17, <3>1 DEF TypeOK, TablesOK, RequestsOK
  <2>7. answer' \in [Requests -> Codes \cup {None}]
    <3>1. answer \in [Requests -> Codes \cup {None}] /\ 400 \in Codes
      BY <1>1 DEF TypeOK, RequestsOK, Codes
    <3>2. QED
      BY <1>18, <3>1
  <2>2. position' \in [Requests -> Nat]
        /\ \A q \in Requests : position'[q] \in 1 .. Len(input'[q].ids)
    <3>1. position'[r] \in 1 .. Len(input[r].ids)
      BY <1>1, <1>7, <1>17, InputFacts
    <3>2. \A q \in Requests : Len(input[q].ids) \in Nat
      BY <1>1, InputFacts
    <3>3. QED
      <4>1. /\ position \in [Requests -> Nat] /\ input' = input
            /\ \A q \in Requests : position[q] \in 1 .. Len(input[q].ids)
        BY <1>1, <1>5 DEF TypeOK, RequestsOK
      <4>2. position' = [position EXCEPT ![r] = position'[r]]
        BY <1>17
      <4>3. \A q \in Requests : position'[q] = IF q = r THEN position'[r] ELSE position[q]
        BY <4>1, <4>2
      <4>4. position' \in [Requests -> Nat]
        BY <3>1, <3>2, <4>1, <4>2
      <4>5. QED
        BY <3>1, <4>1, <4>3, <4>4
  <2>3. got' \in [Requests -> Seq([finding: Findings, row: Row])]
    BY <1>1, <1>4 DEF TypeOK, TablesOK, RequestsOK
  <2>4. left' \in [Requests -> SUBSET Findings]
    BY <1>1, <1>19 DEF TypeOK, TablesOK, RequestsOK
  <2>5. missed' \in [Requests -> SUBSET Findings]
    BY <1>1, <1>4 DEF TypeOK, TablesOK, RequestsOK
  <2>6. QED
    BY <1>1, <1>5, <2>1, <2>2, <2>3, <2>4, <2>5, <2>7 DEF TypeOK, TablesOK, RequestsOK
<1>10. answer[r] = None /\ (answer'[r] = None \/ answer'[r] = 400)
  BY <1>1, <1>5, <1>6 DEF WrittenOf, TypeOK, TablesOK, RequestsOK
<1>11. ReadOf(r)'
  <2>1. pc'[r] = "get" => after = position'[r]
    BY <1>1, <1>6 DEF TypeOK, TablesOK, RequestsOK
  <2>2. pc'[r] \in {"start", "record", "put"} =>
          /\ Asked(r, after) = Asked(r, Len(input[r].ids) + 1)
          /\ position'[r] <= Len(found)
    BY <1>1, <1>6, <1>7 DEF TypeOK, TablesOK, RequestsOK, Asked
  <2>3. pc'[r] # "idle"
    BY <1>1, <1>6 DEF TypeOK, TablesOK, RequestsOK
  <2>4. \A i : Asked(r, i)' = Asked(r, i)
    BY <1>5 DEF Asked
  <2>5. QED
    BY <1>4, <1>5, <1>7, <2>1, <2>2, <2>3, <2>4 DEF ReadOf
<1>12. WrittenOf(r)'
  <2>1. written'[r] = {} /\ pc'[r] # "record"
    BY <1>1, <1>5, <1>6 DEF WrittenOf, TypeOK, TablesOK, RequestsOK
  <2>2. pc'[r] = "put" => left'[r] = FoundBefore(r, position[r] + PutSize)'
    BY <1>1, <1>4, <1>6, <1>8 DEF TypeOK, TablesOK, RequestsOK, FoundBefore
  <2>3. answer'[r] # None => pc'[r] = "answered"
    BY <1>1, <1>6, <1>10 DEF TypeOK, TablesOK, RequestsOK
  <2>4. answer'[r] \notin {200, 202}
    BY <1>10, <1>9, ApiAssumption DEF Codes, TypeOK, TablesOK, RequestsOK
  <2>5. QED
    BY <2>1, <2>2, <2>3, <2>4 DEF WrittenOf
<1>13. TrackedOf(r)'
  <2>1. ~failed'[r] /\ \A f \in Findings : execution'[<<r, f>>] = "none" /\ history'[<<r, f>>] = history[<<r, f>>]
    BY <1>1, <1>5 DEF TrackedOf
  <2>2. pc'[r] = "start" => \A f : f \notin FoundBefore(r, position[r])'
    BY <1>1, <1>4, <1>6, <1>7 DEF TypeOK, TablesOK, RequestsOK, FoundBefore
  <2>3. pc'[r] # "record"
    BY <1>1, <1>6 DEF TypeOK, TablesOK, RequestsOK
  <2>4. pc'[r] \in {"get", "answered", "start", "put"}
    BY <1>17
  <2>5. \A f \in Findings : history[<<r, f>>] = None
    BY <1>1, <1>5 DEF TrackedOf
  <2>6. \A f \in Findings : execution'[<<r, f>>] = "none" /\ history'[<<r, f>>] = None
    BY <2>1, <2>5
  <2>7. pc'[r] \in {"idle", "get", "start", "put"} => ~failed'[r]
    BY <2>1
  <2>8. QED
    BY <2>2, <2>3, <2>6, <2>7 DEF TrackedOf
<1>14. Read' /\ Written' /\ Tracked'
  <2>1. \A q \in Requests \ {r} :
           /\ pc'[q] = pc[q] /\ position'[q] = position[q] /\ got'[q] = got[q]
           /\ left'[q] = left[q] /\ missed'[q] = missed[q] /\ written'[q] = written[q]
           /\ answer'[q] = answer[q] /\ failed'[q] = failed[q]
    BY <1>1, <1>4, <1>5, <1>6 DEF TypeOK, TablesOK, RequestsOK
  <2>2. QED
    BY <1>5, <1>11, <1>12, <1>13, <2>1, OneRequest
<1>15. Held' /\ NothingUndone'
  <2>1. NothingUndone'
    BY <1>1, <1>5 DEF NothingUndone
  <2>2. ASSUME NEW q \in Requests, pc'[q] \in Steps, NEW i \in DOMAIN got'[q],
               got'[q][i].finding \notin written'[q] \cup overtaken'
        PROVE  got'[q][i].row = rows'[got'[q][i].finding]
    <3>1. CASE q = r
      BY <1>1, <1>4, <1>5, <2>2, <3>1 DEF Held, HeldOf, Steps
    <3>2. CASE q # r
      <4>1. pc[q] \in Steps /\ got'[q] = got[q]
        BY <1>1, <1>4, <1>6, <2>2, <3>2 DEF TypeOK, TablesOK, RequestsOK
      <4>2. QED
        BY <1>1, <1>5, <2>2, <4>1 DEF Held, HeldOf
    <3>3. QED
      BY <3>1, <3>2
  <2>3. QED
    BY <2>1, <2>2 DEF Held, HeldOf
<1>16. QED
  BY <1>9, <1>14, <1>15 DEF IInv

\* A request that stops keeps what it has done.
Stops(r, code) ==
  /\ pc' = [pc EXCEPT ![r] = "answered"] /\ answer' = [answer EXCEPT ![r] = code]
  /\ UNCHANGED <<rows, history, unnamed, ideal, overtaken, execution, input, position, got, left,
                 attempts, failed, missed, written>>

LEMMA StopStep ==
  ASSUME IInv, NEW r \in Requests, NEW code \in {400, 504}, Stops(r, code)
  PROVE  IInv'
<1>1. TypeOK /\ Held /\ NothingUndone /\ ReadOf(r) /\ WrittenOf(r) /\ TrackedOf(r)
  BY DEF IInv, Read, Written, Tracked
<1>2. TypeOK'
  <2>1. pc' \in [Requests -> Steps \cup {"idle", "answered"}] /\ answer' \in [Requests -> Codes \cup {None}]
    BY <1>1 DEF TypeOK, TablesOK, RequestsOK, Stops, Codes
  <2>2. UNCHANGED <<rows, history, unnamed, ideal, overtaken, execution, input, position, got, left,
                    attempts, failed, missed, written>>
    BY DEF Stops
  <2>3. TablesOK'
    BY <1>1, <2>2 DEF TypeOK, TablesOK
  <2>6. input' \in [Requests -> Input] /\ \A q \in Requests : input'[q] \in Inputs[q]
    BY <1>1, <2>2 DEF TypeOK, RequestsOK
  <2>7. position' \in [Requests -> Nat] /\ \A q \in Requests : position'[q] \in 1 .. Len(input'[q].ids)
    BY <1>1, <2>2 DEF TypeOK, RequestsOK
  <2>4. RequestsOK'
    BY <1>1, <2>1, <2>2, <2>6, <2>7 DEF TypeOK, RequestsOK
  <2>5. QED
    BY <2>3, <2>4 DEF TypeOK
<1>3. pc'[r] = "answered" /\ answer'[r] = code /\ answer'[r] \notin {200, 202} /\ got'[r] = got[r]
  BY <1>1 DEF TypeOK, TablesOK, RequestsOK, Stops
<1>4. ReadOf(r)'
  BY <1>1, <1>3 DEF ReadOf
<1>5. WrittenOf(r)'
  BY <1>1, <1>3 DEF WrittenOf, Found, Stops
<1>6. TrackedOf(r)'
  BY <1>1, <1>3 DEF TrackedOf, Stops
<1>7. Read' /\ Written' /\ Tracked'
  BY <1>1, <1>4, <1>5, <1>6, OneRequest DEF Stops, TypeOK, TablesOK, RequestsOK
<1>8. Held' /\ NothingUndone'
  <2>1. \A q \in Requests : pc'[q] \in Steps => pc[q] \in Steps
    BY <1>1 DEF Stops, TypeOK, TablesOK, RequestsOK, Steps
  <2>2. QED
    BY <1>1, <2>1, SameRows DEF Stops
<1>9. QED
  BY <1>2, <1>7, <1>8 DEF IInv

-----------------------------------------------------------------------------
(***************************************************************************)
(* Remediating.                                                            *)
(***************************************************************************)

\* The findings before a position are one more at the next, and all after the last.
LEMMA FoundFacts ==
  ASSUME TypeOK, NEW r \in Requests
  PROVE  /\ FoundBefore(r, 1) = {}
         /\ \A i \in DOMAIN got[r] :
              FoundBefore(r, i + 1) = FoundBefore(r, i) \cup {got[r][i].finding}
         /\ FoundBefore(r, Len(got[r]) + 1) = Found(r)
         /\ \A i : i > Len(got[r]) /\ i \in Nat => FoundBefore(r, i) = Found(r)
         /\ Found(r) \subseteq Findings
<1>1. DOMAIN got[r] = 1 .. Len(got[r]) /\ Len(got[r]) \in Nat
      /\ \A i \in DOMAIN got[r] : got[r][i].finding \in Findings
  BY InputFacts
<1>2. \A i \in DOMAIN got[r] : \A k \in DOMAIN got[r] : k < i + 1 <=> k < i \/ k = i
  BY <1>1
<1>3. \A i \in DOMAIN got[r] :
        FoundBefore(r, i + 1) = FoundBefore(r, i) \cup {got[r][i].finding}
  BY <1>2 DEF FoundBefore
<1>4. QED
  BY <1>1, <1>3 DEF FoundBefore, Found

\* A request at work on a finding has read it, and has neither answered nor written it.
LEMMA CurrentFacts ==
  ASSUME IInv, NEW r \in Requests, pc[r] \in {"start", "record"}
  PROVE  /\ position[r] \in DOMAIN got[r] /\ Current(r) = got[r][position[r]]
         /\ Current(r).finding \in Findings /\ Current(r).row \in Row
         /\ Current(r).finding \in Found(r)
         /\ Current(r).finding \notin FoundBefore(r, position[r])
         /\ Current(r).finding \notin written[r]
         /\ OfCurrent(r) = <<r, Current(r).finding>> /\ OfCurrent(r) \in Executions
         /\ answer[r] = None
<1>1. TypeOK /\ ReadOf(r) /\ WrittenOf(r)
  BY DEF IInv, Read, Written
<1>2. position[r] \in DOMAIN got[r]
  BY <1>1, InputFacts DEF ReadOf
<1>3. Current(r) = got[r][position[r]] /\ Current(r).finding \in Findings /\ Current(r).row \in Row
  BY <1>1, <1>2, InputFacts DEF Current
<1>4. Current(r).finding \in Found(r)
  BY <1>2, <1>3 DEF Found
<1>5. Current(r).finding \notin FoundBefore(r, position[r])
  <2>1. \A k \in DOMAIN got[r] : k < position[r] => k # position[r]
    BY <1>1, <1>2, InputFacts
  <2>2. QED
    BY <1>1, <1>2, <1>3, <2>1 DEF ReadOf, FoundBefore
<1>6. Current(r).finding \notin written[r] /\ answer[r] = None
  BY <1>1, <1>5 DEF WrittenOf
<1>7. OfCurrent(r) = <<r, Current(r).finding>> /\ OfCurrent(r) \in Executions
  BY <1>3 DEF OfCurrent, Executions
<1>8. QED
  BY <1>2, <1>3, <1>4, <1>5, <1>6, <1>7

\* A request goes on to the next finding, or to another state.
LEMMA NextFindingFacts ==
  ASSUME IInv, NEW r \in Requests, pc[r] = "start", NextFinding(r, "record")
  PROVE  \/ /\ position[r] < Len(got[r]) /\ pc' = [pc EXCEPT ![r] = "start"]
            /\ position' = [position EXCEPT ![r] = position[r] + 1]
         \/ /\ position[r] = Len(got[r]) /\ pc' = [pc EXCEPT ![r] = "record"]
            /\ position' = [position EXCEPT ![r] = 1]
<1>1. position[r] \in 1 .. Len(got[r]) /\ Len(got[r]) \in Nat
  BY CurrentFacts, InputFacts DEF IInv
<1>2. CASE position[r] < Len(got[r])
  BY <1>2 DEF NextFinding, Goto
<1>3. CASE ~(position[r] < Len(got[r]))
  BY <1>1, <1>3 DEF NextFinding, Goto
<1>4. QED
  BY <1>2, <1>3

LEMMA StartStep ==
  ASSUME IInv, NEW r \in Requests, Start(r)
  PROVE  IInv'
<1>1. TypeOK /\ Held /\ NothingUndone /\ ReadOf(r) /\ WrittenOf(r) /\ TrackedOf(r)
  BY DEF IInv, Read, Written, Tracked
<1>2. /\ pc[r] = "start" /\ NextFinding(r, "record")
      /\ execution' = [execution EXCEPT ![<<r, Current(r).finding>>] = "running"]
      /\ UNCHANGED <<rows, history, unnamed, ideal, overtaken, input, got, left, attempts, failed,
                     answer, missed, written>>
  BY DEF Start, OfCurrent, tableVars
<1>3. \/ /\ position[r] < Len(got[r]) /\ pc' = [pc EXCEPT ![r] = "start"]
         /\ position' = [position EXCEPT ![r] = position[r] + 1]
      \/ /\ position[r] = Len(got[r]) /\ pc' = [pc EXCEPT ![r] = "record"]
         /\ position' = [position EXCEPT ![r] = 1]
  BY <1>2, NextFindingFacts
<1>4. PICK f : f = Current(r).finding
  OBVIOUS
<1>5. /\ position[r] \in DOMAIN got[r] /\ f = got[r][position[r]].finding /\ f \in Findings
      /\ <<r, f>> \in Executions
  BY <1>2, <1>4, CurrentFacts
<1>6. /\ DOMAIN got[r] = 1 .. Len(got[r]) /\ Len(got[r]) \in Nat /\ Len(input[r].ids) \in Nat
      /\ Len(got[r]) <= Len(input[r].ids) /\ position[r] \in 1 .. Len(got[r])
  BY <1>1, <1>2, <1>5, InputFacts DEF ReadOf
<1>7. /\ \A g \in Findings : execution'[<<r, g>>] = IF g = f THEN "running" ELSE execution[<<r, g>>]
      /\ \A q \in Requests \ {r}, g \in Findings : execution'[<<q, g>>] = execution[<<q, g>>]
      /\ execution' \in [Executions -> {"none", "running", "ended"}]
  BY <1>1, <1>2, <1>4, <1>5 DEF TypeOK, TablesOK, Executions
<1>8. /\ pc'[r] \in {"start", "record"} /\ position'[r] \in 1 .. Len(got[r])
      /\ pc' \in [Requests -> Steps \cup {"idle", "answered"}]
      /\ position' = [position EXCEPT ![r] = position'[r]]
      /\ \A q \in Requests \ {r} : pc'[q] = pc[q] /\ position'[q] = position[q]
  <2>1. pc \in [Requests -> Steps \cup {"idle", "answered"}] /\ position \in [Requests -> Nat]
    BY <1>1 DEF TypeOK, RequestsOK
  <2>2. "start" \in Steps /\ "record" \in Steps
    BY DEF Steps
  <2>3. pc' = [pc EXCEPT ![r] = "start"] \/ pc' = [pc EXCEPT ![r] = "record"]
    BY <1>3
  <2>4. PICK n \in 1 .. Len(got[r]) : position' = [position EXCEPT ![r] = n]
    BY <1>3, <1>6
  <2>5. QED
    BY <2>1, <2>2, <2>3, <2>4
<1>9. TypeOK'
  <2>1. TablesOK'
    BY <1>1, <1>2, <1>7 DEF TypeOK, TablesOK
  <2>2. position' \in [Requests -> Nat] /\ \A q \in Requests : position'[q] \in 1 .. Len(input'[q].ids)
    <3>1. /\ position \in [Requests -> Nat] /\ input' = input
          /\ \A q \in Requests : position[q] \in 1 .. Len(input[q].ids)
      BY <1>1, <1>2 DEF TypeOK, RequestsOK
    <3>2. position'[r] \in 1 .. Len(input[r].ids) /\ position'[r] \in Nat
      BY <1>6, <1>8
    <3>3. QED
      BY <1>8, <3>1, <3>2
  <2>3. input' \in [Requests -> Input] /\ \A q \in Requests : input'[q] \in Inputs[q]
    BY <1>1, <1>2 DEF TypeOK, RequestsOK
  <2>4. RequestsOK'
    BY <1>1, <1>2, <1>8, <2>2, <2>3 DEF TypeOK, RequestsOK
  <2>5. QED
    BY <2>1, <2>4 DEF TypeOK
<1>10. ReadOf(r)'
  <2>1. Found(r)' = Found(r) /\ Asked(r, Len(input[r].ids) + 1)' = Asked(r, Len(input[r].ids) + 1)
    BY <1>2 DEF Found, Asked
  <2>2. position'[r] <= Len(got[r])
    BY <1>6, <1>8
  <2>3. QED
    BY <1>1, <1>2, <1>8, <2>1, <2>2 DEF ReadOf
<1>11. WrittenOf(r)'
  <2>1. pc'[r] = "record" => FoundBefore(r, position[r])' = {}
    <3>1. pc'[r] = "record" => position'[r] = 1
      BY <1>1, <1>3 DEF TypeOK, RequestsOK
    <3>2. FoundBefore(r, 1) = {}
      BY <1>1, FoundFacts
    <3>3. QED
      BY <1>2, <3>1, <3>2 DEF FoundBefore
  <2>2. written[r] = {} /\ answer[r] = None /\ None \notin {200, 202}
    BY <1>1, <1>2, CurrentFacts, ApiAssumption DEF WrittenOf, Codes
  <2>3. QED
    BY <1>2, <1>8, <2>1, <2>2 DEF WrittenOf
<1>12. TrackedOf(r)'
  <2>1. ~failed'[r]
    BY <1>1, <1>2 DEF TrackedOf
  <2>2. \A g \in Findings : execution'[<<r, g>>] # "none" <=> g \in FoundBefore(r, position[r]) \cup {f}
    BY <1>1, <1>2, <1>7 DEF TrackedOf
  <2>3. FoundBefore(r, position[r] + 1) = FoundBefore(r, position[r]) \cup {f}
    BY <1>1, <1>5, FoundFacts
  <2>4. pc'[r] = "start" => FoundBefore(r, position[r])' = FoundBefore(r, position[r] + 1)
    BY <1>1, <1>2, <1>3 DEF TypeOK, RequestsOK, FoundBefore
  <2>5. pc'[r] = "record" =>
          Found(r)' = FoundBefore(r, position[r] + 1) /\ FoundBefore(r, position[r])' = {}
    <3>1. pc'[r] = "record" => position[r] = Len(got[r]) /\ position'[r] = 1
      BY <1>1, <1>3 DEF TypeOK, RequestsOK
    <3>2. FoundBefore(r, 1) = {} /\ FoundBefore(r, Len(got[r]) + 1) = Found(r)
      BY <1>1, FoundFacts
    <3>3. QED
      BY <1>2, <3>1, <3>2 DEF FoundBefore, Found
  <2>6. \A g \in Findings : history'[<<r, g>>] # None => execution'[<<r, g>>] # "none"
    BY <1>1, <1>2, <1>7 DEF TrackedOf
  <2>7. QED
    BY <1>8, <2>1, <2>2, <2>3, <2>4, <2>5, <2>6 DEF TrackedOf
<1>13. Read' /\ Written' /\ Tracked'
  BY <1>2, <1>7, <1>8, <1>10, <1>11, <1>12, OneRequest
<1>14. Held' /\ NothingUndone'
  <2>1. \A q \in Requests : pc'[q] \in Steps => pc[q] \in Steps
    BY <1>2, <1>8 DEF Steps
  <2>2. QED
    BY <1>1, <1>2, <2>1, SameRows
<1>15. QED
  BY <1>9, <1>13, <1>14 DEF IInv

LEMMA StartFailsStep ==
  ASSUME IInv, NEW r \in Requests, NEW begun \in BOOLEAN, StartFails(r, begun)
  PROVE  IInv'
<1>1. TypeOK /\ Held /\ NothingUndone /\ ReadOf(r) /\ WrittenOf(r) /\ TrackedOf(r)
  BY DEF IInv, Read, Written, Tracked
<1>2. /\ pc[r] = "start" /\ failed' = [failed EXCEPT ![r] = TRUE]
      /\ pc' = [pc EXCEPT ![r] = "record"] /\ position' = [position EXCEPT ![r] = 1]
      /\ UNCHANGED <<rows, history, unnamed, ideal, overtaken, input, got, left, attempts, answer,
                     missed, written>>
  BY DEF StartFails, Goto, AfterStartFails, tableVars
<1>3. execution' = [execution EXCEPT ![<<r, Current(r).finding>>] = "running"] \/ execution' = execution
  BY DEF StartFails, OfCurrent
<1>4. PICK f : f = Current(r).finding
  OBVIOUS
<1>5. f \in Findings /\ <<r, f>> \in Executions /\ answer[r] = None
  BY <1>2, <1>4, CurrentFacts
<1>6. /\ \A g \in Findings : execution'[<<r, g>>] = "running" \/ execution'[<<r, g>>] = execution[<<r, g>>]
      /\ \A q \in Requests \ {r}, g \in Findings : execution'[<<q, g>>] = execution[<<q, g>>]
      /\ execution' \in [Executions -> {"none", "running", "ended"}]
  <2>1. execution \in [Executions -> {"none", "running", "ended"}]
    BY <1>1 DEF TypeOK, TablesOK
  <2>2. CASE execution' = [execution EXCEPT ![<<r, f>>] = "running"]
    BY <1>5, <2>1, <2>2 DEF Executions
  <2>3. CASE execution' = execution
    BY <2>1, <2>3
  <2>4. QED
    BY <1>3, <1>4, <2>2, <2>3
<1>7. /\ pc'[r] = "record" /\ position'[r] = 1 /\ failed'[r] = TRUE
      /\ \A q \in Requests \ {r} : /\ pc'[q] = pc[q] /\ position'[q] = position[q]
                                   /\ failed'[q] = failed[q]
  BY <1>1, <1>2 DEF TypeOK, RequestsOK
<1>8. TypeOK'
  <2>1. TablesOK'
    BY <1>1, <1>2, <1>6 DEF TypeOK, TablesOK
  <2>2. position' \in [Requests -> Nat] /\ \A q \in Requests : position'[q] \in 1 .. Len(input'[q].ids)
    <3>1. /\ position \in [Requests -> Nat] /\ input' = input
          /\ \A q \in Requests : position[q] \in 1 .. Len(input[q].ids)
      BY <1>1, <1>2 DEF TypeOK, RequestsOK
    <3>2. 1 \in 1 .. Len(input[r].ids)
      BY <1>1, InputFacts
    <3>3. QED
      BY <1>2, <1>7, <3>1, <3>2
  <2>3. input' \in [Requests -> Input] /\ \A q \in Requests : input'[q] \in Inputs[q]
    BY <1>1, <1>2 DEF TypeOK, RequestsOK
  <2>4. pc' \in [Requests -> Steps \cup {"idle", "answered"}] /\ failed' \in [Requests -> BOOLEAN]
    BY <1>1, <1>2 DEF TypeOK, RequestsOK, Steps
  <2>5. RequestsOK'
    BY <1>1, <1>2, <2>2, <2>3, <2>4 DEF TypeOK, RequestsOK
  <2>6. QED
    BY <2>1, <2>5 DEF TypeOK
<1>9. ReadOf(r)'
  <2>1. Found(r)' = Found(r) /\ Asked(r, Len(input[r].ids) + 1)' = Asked(r, Len(input[r].ids) + 1)
    BY <1>2 DEF Found, Asked
  <2>2. 1 <= Len(got[r])
    BY <1>1, <1>2, InputFacts DEF ReadOf
  <2>3. QED
    BY <1>1, <1>2, <1>7, <2>1, <2>2 DEF ReadOf
<1>10. WrittenOf(r)'
  <2>1. FoundBefore(r, position[r])' = {}
    <3>1. FoundBefore(r, 1) = {}
      BY <1>1, FoundFacts
    <3>2. QED
      BY <1>2, <1>7, <3>1 DEF FoundBefore
  <2>2. written[r] = {} /\ None \notin {200, 202}
    BY <1>1, <1>2, ApiAssumption DEF WrittenOf, Codes
  <2>3. QED
    BY <1>2, <1>5, <1>7, <2>1, <2>2 DEF WrittenOf
<1>11. TrackedOf(r)'
  <2>1. \A g \in Findings : history'[<<r, g>>] # None => execution'[<<r, g>>] # "none"
    BY <1>1, <1>2, <1>6 DEF TrackedOf
  <2>2. QED
    BY <1>7, <2>1 DEF TrackedOf
<1>12. Read' /\ Written' /\ Tracked'
  BY <1>2, <1>6, <1>7, <1>9, <1>10, <1>11, OneRequest
<1>13. Held' /\ NothingUndone'
  <2>1. \A q \in Requests : pc'[q] \in Steps => pc[q] \in Steps
    BY <1>2, <1>7 DEF Steps
  <2>2. QED
    BY <1>1, <1>2, <2>1, SameRows
<1>14. QED
  BY <1>8, <1>12, <1>13 DEF IInv

\* A finding's row is written with the history of its execution.
Recorded(r, f) ==
  /\ rows' \in [Findings -> Row \cup {NoRow}]
  /\ ideal' \in [Findings -> [version: Nat, status: Statuses \cup {NoRow.status},
                              suppressed: BOOLEAN]]
  /\ \A g \in Findings \ {f} : rows'[g] = rows[g] /\ ideal'[g] = ideal[g]
  /\ overtaken' = overtaken \cup Awaited(r, {f})
  /\ f \notin overtaken' => rows'[f] = ideal'[f]
  /\ written' = [written EXCEPT ![r] = written[r] \cup {f}]
  /\ unnamed' \subseteq unnamed \cup {f}
  /\ history' \in [Executions -> Statuses \cup {None}]
  /\ \A q \in Requests \ {r}, g \in Findings : history'[<<q, g>>] = history[<<q, g>>]
  /\ \A g \in Findings : history'[<<r, g>>] =
       IF failed[r] \/ g # f THEN history[<<r, g>>] ELSE InProgress

LEMMA TransactionFacts ==
  ASSUME IInv, NEW r \in Requests, pc[r] = "record", Transaction(r),
         NEW f, f = Current(r).finding
  PROVE  Recorded(r, f)
<1>1. TypeOK /\ HeldOf(r) /\ NothingUndone
  BY DEF IInv, Held
<1>2. PICK status \in Statuses : status = IF failed[r] THEN Failed ELSE InProgress
  BY DEF Statuses
<1>3. /\ rows' = [rows EXCEPT ![f] = SetStatus(Current(r).row, status)]
      /\ ideal' = [ideal EXCEPT ![f] = SetStatus(ideal[f], status)]
      /\ overtaken' = overtaken \cup (IF \E q \in Requests \ {r} : f \in Pending(q) THEN {f} ELSE {})
      /\ written' = [written EXCEPT ![r] = written[r] \cup {f}]
      /\ IF failed[r] THEN unnamed' = unnamed \cup {f} /\ UNCHANGED history
         ELSE history' = [history EXCEPT ![<<r, f>>] = InProgress] /\ UNCHANGED unnamed
  BY <1>2 DEF Transaction, Change
<1>4. /\ f \in Findings /\ Current(r).row \in Row /\ <<r, f>> \in Executions
      /\ position[r] \in DOMAIN got[r] /\ Current(r) = got[r][position[r]] /\ f \notin written[r]
  BY CurrentFacts
<1>5. SetStatus(Current(r).row, status) \in Row
  BY <1>4, RowFacts
<1>6. /\ rows' \in [Findings -> Row \cup {NoRow}]
      /\ rows'[f] = SetStatus(Current(r).row, status)
      /\ \A g \in Findings \ {f} : rows'[g] = rows[g]
  BY <1>1, <1>3, <1>4, <1>5 DEF TypeOK, TablesOK
<1>7. /\ ideal' \in [Findings -> [version: Nat, status: Statuses \cup {NoRow.status},
                                  suppressed: BOOLEAN]]
      /\ ideal'[f] = SetStatus(ideal[f], status)
      /\ \A g \in Findings \ {f} : ideal'[g] = ideal[g]
  BY <1>1, <1>3, <1>4 DEF TypeOK, TablesOK, SetStatus
<1>8. f \notin overtaken' => rows'[f] = ideal'[f]
  <2>1. SUFFICES ASSUME f \notin overtaken' PROVE rows'[f] = ideal'[f]
    OBVIOUS
  <2>2. f \notin overtaken
    BY <1>3, <2>1
  <2>3. Current(r).row = rows[f]
    BY <1>1, <1>4, <2>2 DEF HeldOf, Steps
  <2>4. rows[f] = ideal[f]
    BY <1>1, <1>4, <2>2 DEF NothingUndone
  <2>5. QED
    BY <1>6, <1>7, <2>3, <2>4
<1>9. overtaken' = overtaken \cup Awaited(r, {f})
  BY <1>3 DEF Awaited
<1>10. /\ history' \in [Executions -> Statuses \cup {None}] /\ unnamed' \subseteq unnamed \cup {f}
       /\ \A q \in Requests \ {r}, g \in Findings : history'[<<q, g>>] = history[<<q, g>>]
       /\ \A g \in Findings : history'[<<r, g>>] =
            IF failed[r] \/ g # f THEN history[<<r, g>>] ELSE InProgress
  <2>1. history \in [Executions -> Statuses \cup {None}] /\ InProgress \in Statuses
    BY <1>1 DEF TypeOK, TablesOK, Statuses
  <2>2. CASE failed[r]
    BY <1>3, <2>1, <2>2
  <2>3. CASE ~failed[r]
    BY <1>3, <1>4, <2>1, <2>3 DEF Executions
  <2>4. QED
    BY <2>2, <2>3
<1>11. QED
  BY <1>3, <1>6, <1>7, <1>8, <1>9, <1>10 DEF Recorded

LEMMA RecordStep ==
  ASSUME IInv, NEW r \in Requests, Record(r)
  PROVE  IInv'
<1>1. TypeOK /\ Held /\ NothingUndone /\ ReadOf(r) /\ WrittenOf(r) /\ TrackedOf(r)
  BY DEF IInv, Read, Written, Tracked
<1>2. /\ pc[r] = "record" /\ Transaction(r)
      /\ UNCHANGED <<execution, input, got, left, attempts, failed, missed>>
      /\ \/ /\ position[r] < Len(got[r]) /\ pc' = [pc EXCEPT ![r] = "record"]
            /\ position' = [position EXCEPT ![r] = position[r] + 1] /\ UNCHANGED answer
         \/ /\ ~(position[r] < Len(got[r])) /\ pc' = [pc EXCEPT ![r] = "answered"]
            /\ answer' = [answer EXCEPT ![r] = 202] /\ UNCHANGED position
  BY DEF Record, Goto, Answer
<1>3. PICK f : f = Current(r).finding
  OBVIOUS
<1>4. /\ position[r] \in DOMAIN got[r] /\ f = got[r][position[r]].finding /\ f \in Findings
      /\ f \in Found(r) /\ answer[r] = None
  BY <1>2, <1>3, CurrentFacts
<1>5. /\ rows' \in [Findings -> Row \cup {NoRow}]
      /\ ideal' \in [Findings -> [version: Nat, status: Statuses \cup {NoRow.status},
                                  suppressed: BOOLEAN]]
      /\ \A g \in Findings \ {f} : rows'[g] = rows[g] /\ ideal'[g] = ideal[g]
      /\ overtaken' = overtaken \cup Awaited(r, {f})
      /\ f \notin overtaken' => rows'[f] = ideal'[f]
      /\ written' = [written EXCEPT ![r] = written[r] \cup {f}]
      /\ unnamed' \subseteq unnamed \cup {f}
      /\ history' \in [Executions -> Statuses \cup {None}]
      /\ \A q \in Requests \ {r}, g \in Findings : history'[<<q, g>>] = history[<<q, g>>]
      /\ \A g \in Findings : history'[<<r, g>>] =
           IF failed[r] \/ g # f THEN history[<<r, g>>] ELSE InProgress
  <2>1. Recorded(r, f)
    BY <1>2, <1>3, TransactionFacts
  <2>2. QED
    BY <2>1 DEF Recorded
<1>6. /\ DOMAIN got[r] = 1 .. Len(got[r]) /\ Len(got[r]) \in Nat /\ Len(input[r].ids) \in Nat
      /\ Len(got[r]) <= Len(input[r].ids) /\ position[r] \in 1 .. Len(got[r])
  BY <1>1, <1>2, <1>4, InputFacts DEF ReadOf
<1>7. /\ written'[r] = written[r] \cup {f} /\ written' \in [Requests -> SUBSET Findings]
      /\ \A q \in Requests \ {r} : written'[q] = written[q]
  BY <1>1, <1>4, <1>5 DEF TypeOK, RequestsOK
<1>8. /\ \/ pc'[r] = "record" /\ position'[r] = position[r] + 1 /\ answer'[r] = None
            /\ position[r] < Len(got[r])
         \/ pc'[r] = "answered" /\ position'[r] = position[r] /\ answer'[r] = 202
            /\ position[r] = Len(got[r])
      /\ pc' \in [Requests -> Steps \cup {"idle", "answered"}]
      /\ position' \in [Requests -> Nat] /\ answer' \in [Requests -> Codes \cup {None}]
      /\ \A q \in Requests \ {r} : /\ pc'[q] = pc[q] /\ position'[q] = position[q]
                                   /\ answer'[q] = answer[q]
  <2>1. /\ pc \in [Requests -> Steps \cup {"idle", "answered"}] /\ position \in [Requests -> Nat]
        /\ answer \in [Requests -> Codes \cup {None}] /\ 202 \in Codes /\ "record" \in Steps
    BY <1>1 DEF TypeOK, RequestsOK, Codes, Steps
  <2>2. CASE /\ position[r] < Len(got[r]) /\ pc' = [pc EXCEPT ![r] = "record"]
             /\ position' = [position EXCEPT ![r] = position[r] + 1] /\ UNCHANGED answer
    BY <1>4, <1>6, <2>1, <2>2
  <2>3. CASE /\ ~(position[r] < Len(got[r])) /\ pc' = [pc EXCEPT ![r] = "answered"]
             /\ answer' = [answer EXCEPT ![r] = 202] /\ UNCHANGED position
    BY <1>4, <1>6, <2>1, <2>3
  <2>4. QED
    BY <1>2, <2>2, <2>3
<1>9. TypeOK'
  <2>1. unnamed' \cup overtaken' \subseteq Findings
    BY <1>1, <1>4, <1>5 DEF TypeOK, TablesOK, Awaited
  <2>2. TablesOK'
    BY <1>1, <1>2, <1>5, <2>1 DEF TypeOK, TablesOK
  <2>3. \A q \in Requests : position'[q] \in 1 .. Len(input'[q].ids)
    <3>1. position'[r] \in 1 .. Len(input[r].ids)
      BY <1>6, <1>8
    <3>2. \A q \in Requests : position[q] \in 1 .. Len(input[q].ids)
      BY <1>1 DEF TypeOK, RequestsOK
    <3>3. QED
      BY <1>2, <1>8, <3>1, <3>2
  <2>4. input' \in [Requests -> Input] /\ \A q \in Requests : input'[q] \in Inputs[q]
    BY <1>1, <1>2 DEF TypeOK, RequestsOK
  <2>5. RequestsOK'
    BY <1>1, <1>2, <1>7, <1>8, <2>3, <2>4 DEF TypeOK, RequestsOK
  <2>6. QED
    BY <2>2, <2>5 DEF TypeOK
<1>10. ReadOf(r)'
  <2>1. Found(r)' = Found(r) /\ Asked(r, Len(input[r].ids) + 1)' = Asked(r, Len(input[r].ids) + 1)
    BY <1>2 DEF Found, Asked
  <2>2. pc'[r] = "record" => position'[r] <= Len(got[r])
    BY <1>6, <1>8
  <2>3. QED
    BY <1>1, <1>2, <1>8, <2>1, <2>2 DEF ReadOf
<1>11. FoundBefore(r, position[r] + 1) = FoundBefore(r, position[r]) \cup {f}
       /\ FoundBefore(r, Len(got[r]) + 1) = Found(r)
  BY <1>1, <1>4, FoundFacts
<1>12. WrittenOf(r)'
  <2>1. written'[r] = FoundBefore(r, position[r] + 1) /\ written'[r] \subseteq Found(r)
    BY <1>1, <1>2, <1>4, <1>7, <1>11 DEF WrittenOf
  <2>2. pc'[r] = "record" => written'[r] = FoundBefore(r, position[r])'
    BY <1>2, <1>8, <2>1 DEF FoundBefore
  <2>3. answer'[r] \in {200, 202} => Asked(r, Len(input[r].ids) + 1)' = missed'[r] \cup written'[r]
    <3>1. None \notin {200, 202}
      BY ApiAssumption DEF Codes
    <3>2. answer'[r] \in {200, 202} => position[r] = Len(got[r])
      BY <1>8, <3>1
    <3>3. Asked(r, Len(input[r].ids) + 1)' = Found(r) \cup missed[r]
      BY <1>1, <1>2 DEF ReadOf, Asked
    <3>4. QED
      BY <1>2, <1>11, <2>1, <3>2, <3>3
  <2>4. answer'[r] # None => pc'[r] = "answered"
    BY <1>8
  <2>5. Found(r)' = Found(r)
    BY <1>2 DEF Found
  <2>6. QED
    BY <1>8, <2>1, <2>2, <2>3, <2>4, <2>5 DEF WrittenOf
<1>13. TrackedOf(r)'
  <2>1. /\ execution' = execution /\ failed' = failed /\ InProgress # None
        /\ \A g \in Findings : history'[<<r, g>>] =
             IF failed[r] \/ g # f THEN history[<<r, g>>] ELSE InProgress
    BY <1>2, <1>5, ApiAssumption DEF Statuses
  <2>2. ~failed[r] => execution[<<r, f>>] # "none"
    BY <1>1, <1>2, <1>4 DEF TrackedOf
  <2>3. \A g \in Findings : history'[<<r, g>>] # None => execution'[<<r, g>>] # "none"
    BY <1>1, <2>1, <2>2 DEF TrackedOf
  <2>4. \A g \in Findings : ~failed[r] /\ g \in FoundBefore(r, position[r] + 1) => history'[<<r, g>>] # None
    BY <1>1, <1>2, <1>11, <2>1 DEF TrackedOf
  <2>5. CASE pc'[r] = "record"
    <3>1. FoundBefore(r, position[r])' = FoundBefore(r, position[r] + 1) /\ Found(r)' = Found(r)
      BY <1>2, <1>8, <2>5 DEF FoundBefore, Found
    <3>2. \A g \in Findings : ~failed[r] => (execution'[<<r, g>>] # "none" <=> g \in Found(r))
      BY <1>1, <1>2, <2>1 DEF TrackedOf
    <3>3. QED
      BY <2>1, <2>3, <2>4, <2>5, <3>1, <3>2 DEF TrackedOf
  <2>6. CASE pc'[r] = "answered"
    <3>1. position[r] = Len(got[r])
      BY <1>8, <2>6
    <3>2. \A g \in Findings : ~failed[r] /\ execution'[<<r, g>>] # "none" => history'[<<r, g>>] # None
      BY <1>1, <1>2, <1>11, <2>1, <2>4, <3>1 DEF TrackedOf
    <3>3. QED
      BY <2>1, <2>3, <2>6, <3>2 DEF TrackedOf
  <2>7. QED
    BY <1>8, <2>5, <2>6
<1>14. Read' /\ Written' /\ Tracked'
  <2>1. /\ input' = input /\ got' = got /\ left' = left /\ missed' = missed /\ failed' = failed
        /\ execution' = execution
    BY <1>2
  <2>2. \A q \in Requests \ {r} :
          /\ pc'[q] = pc[q] /\ position'[q] = position[q] /\ written'[q] = written[q]
          /\ answer'[q] = answer[q]
    BY <1>7, <1>8
  <2>3. QED
    BY <1>5, <1>10, <1>12, <1>13, <2>1, <2>2, OneRequest
<1>15. Held' /\ NothingUndone'
  <2>1. \A q \in Requests : pc'[q] \in Steps => pc[q] \in Steps
    BY <1>2, <1>8 DEF Steps
  <2>2. \A q \in Requests : written'[q] = IF q = r THEN written[q] \cup {f} ELSE written[q]
    BY <1>7
  <2>3. /\ {f} \in SUBSET Findings /\ got' = got
        /\ \A g \in {f} \ overtaken' : rows'[g] = ideal'[g]
        /\ \A g \in Findings \ {f} : rows'[g] = rows[g] /\ ideal'[g] = ideal[g]
        /\ overtaken' = overtaken \cup Awaited(r, {f})
    BY <1>2, <1>4, <1>5
  <2>4. Writes(r, {f})
    BY <2>1, <2>2, <2>3 DEF Writes
  <2>5. QED
    BY <1>1, <2>4, WriteRows
<1>16. QED
  BY <1>9, <1>14, <1>15 DEF IInv

LEMMA RecordFailsStep ==
  ASSUME IInv, NEW r \in Requests, NEW applied \in BOOLEAN, RecordFails(r, applied)
  PROVE  IInv'
<1>1. TypeOK /\ Held /\ NothingUndone /\ ReadOf(r) /\ WrittenOf(r) /\ TrackedOf(r)
  BY DEF IInv, Read, Written, Tracked
<1>2. /\ pc[r] = "record" /\ pc' = [pc EXCEPT ![r] = "answered"]
      /\ answer' = [answer EXCEPT ![r] = 400]
      /\ UNCHANGED <<execution, input, position, got, left, attempts, failed, missed>>
      /\ Transaction(r) \/ UNCHANGED <<tableVars, written>>
  BY DEF RecordFails, Answer
<1>3. CASE UNCHANGED <<tableVars, written>>
  BY <1>2, <1>3, StopStep DEF Stops, tableVars
<1>4. CASE Transaction(r)
  <2>1. PICK f : f = Current(r).finding
    OBVIOUS
  <2>2. f \in Findings /\ f \in Found(r) /\ answer[r] = None
    BY <1>2, <2>1, CurrentFacts
  <2>3. /\ rows' \in [Findings -> Row \cup {NoRow}]
        /\ ideal' \in [Findings -> [version: Nat, status: Statuses \cup {NoRow.status},
                                    suppressed: BOOLEAN]]
        /\ \A g \in Findings \ {f} : rows'[g] = rows[g] /\ ideal'[g] = ideal[g]
        /\ overtaken' = overtaken \cup Awaited(r, {f})
        /\ f \notin overtaken' => rows'[f] = ideal'[f]
        /\ written' = [written EXCEPT ![r] = written[r] \cup {f}]
        /\ unnamed' \subseteq unnamed \cup {f}
        /\ history' \in [Executions -> Statuses \cup {None}]
        /\ \A q \in Requests \ {r}, g \in Findings : history'[<<q, g>>] = history[<<q, g>>]
        /\ \A g \in Findings : history'[<<r, g>>] =
             IF failed[r] \/ g # f THEN history[<<r, g>>] ELSE InProgress
    <3>1. Recorded(r, f)
      BY <1>2, <1>4, <2>1, TransactionFacts
    <3>2. QED
      BY <3>1 DEF Recorded
  <2>4. /\ written'[r] = written[r] \cup {f} /\ written' \in [Requests -> SUBSET Findings]
        /\ \A q \in Requests \ {r} : written'[q] = written[q]
    BY <1>1, <2>2, <2>3 DEF TypeOK, RequestsOK
  <2>5. /\ pc'[r] = "answered" /\ answer'[r] = 400
        /\ pc' \in [Requests -> Steps \cup {"idle", "answered"}]
        /\ answer' \in [Requests -> Codes \cup {None}]
        /\ \A q \in Requests \ {r} : pc'[q] = pc[q] /\ answer'[q] = answer[q]
    BY <1>1, <1>2 DEF TypeOK, RequestsOK, Codes
  <2>6. TypeOK'
    <3>1. unnamed' \cup overtaken' \subseteq Findings
      BY <1>1, <2>2, <2>3 DEF TypeOK, TablesOK, Awaited
    <3>2. TablesOK'
      BY <1>1, <1>2, <2>3, <3>1 DEF TypeOK, TablesOK
    <3>3. position' \in [Requests -> Nat] /\ \A q \in Requests : position'[q] \in 1 .. Len(input'[q].ids)
      BY <1>1, <1>2 DEF TypeOK, RequestsOK
    <3>4. input' \in [Requests -> Input] /\ \A q \in Requests : input'[q] \in Inputs[q]
      BY <1>1, <1>2 DEF TypeOK, RequestsOK
    <3>5. RequestsOK'
      BY <1>1, <1>2, <2>4, <2>5, <3>3, <3>4 DEF TypeOK, RequestsOK
    <3>6. QED
      BY <3>2, <3>5 DEF TypeOK
  <2>7. ReadOf(r)'
    BY <1>1, <1>2, <2>5 DEF ReadOf
  <2>8. WrittenOf(r)'
    BY <1>1, <1>2, <2>2, <2>4, <2>5 DEF WrittenOf, Found
  <2>9. TrackedOf(r)'
    <3>1. ~failed[r] => execution[<<r, f>>] # "none"
      BY <1>1, <1>2, <2>2 DEF TrackedOf
    <3>2. \A g \in Findings : history'[<<r, g>>] # None => execution'[<<r, g>>] # "none"
      BY <1>1, <1>2, <2>3, <3>1 DEF TrackedOf
    <3>3. QED
      BY <2>5, <3>2 DEF TrackedOf
  <2>10. Read' /\ Written' /\ Tracked'
    BY <1>2, <2>3, <2>4, <2>5, <2>7, <2>8, <2>9, OneRequest
  <2>11. Held' /\ NothingUndone'
    <3>1. \A q \in Requests : pc'[q] \in Steps => pc[q] \in Steps
      BY <1>2, <2>5 DEF Steps
    <3>2. \A q \in Requests : written'[q] = IF q = r THEN written[q] \cup {f} ELSE written[q]
      BY <2>4
    <3>3. /\ {f} \in SUBSET Findings /\ got' = got
          /\ \A g \in {f} \ overtaken' : rows'[g] = ideal'[g]
          /\ \A g \in Findings \ {f} : rows'[g] = rows[g] /\ ideal'[g] = ideal[g]
          /\ overtaken' = overtaken \cup Awaited(r, {f})
      BY <1>2, <2>2, <2>3
    <3>4. Writes(r, {f})
      BY <3>1, <3>2, <3>3 DEF Writes
    <3>5. QED
      BY <1>1, <3>4, WriteRows
  <2>12. QED
    BY <2>6, <2>10, <2>11 DEF IInv
<1>5. QED
  BY <1>2, <1>3, <1>4

-----------------------------------------------------------------------------
(***************************************************************************)
(* Suppressing.                                                            *)
(***************************************************************************)

\* The rows of some findings of the batch are written back with the flag.
Put(r, processed) ==
  /\ rows' \in [Findings -> Row \cup {NoRow}]
  /\ ideal' \in [Findings -> [version: Nat, status: Statuses \cup {NoRow.status},
                              suppressed: BOOLEAN]]
  /\ processed \subseteq Findings /\ processed \subseteq Found(r)
  /\ \A f \in Findings \ processed : rows'[f] = rows[f] /\ ideal'[f] = ideal[f]
  /\ overtaken' = overtaken \cup Awaited(r, processed)
  /\ \A f \in processed \ overtaken' : rows'[f] = ideal'[f]
  /\ written' \in [Requests -> SUBSET Findings]
  /\ \A q \in Requests : written'[q] = IF q = r THEN written[q] \cup processed ELSE written[q]
  /\ UNCHANGED <<history, unnamed>>

LEMMA PutRowsFacts ==
  ASSUME IInv, NEW r \in Requests, pc[r] = "put",
         NEW processed, processed \subseteq left[r], PutRows(r, processed)
  PROVE  Put(r, processed)
<1>1. TypeOK /\ HeldOf(r) /\ NothingUndone /\ WrittenOf(r)
  BY DEF IInv, Held, Written
<1>2. PICK flag \in BOOLEAN : flag = (input[r].action = "Suppress")
  OBVIOUS
<1>3. PICK rowOf : rowOf = [f \in processed |->
                             got[r][CHOOSE i \in DOMAIN got[r] : got[r][i].finding = f].row]
  OBVIOUS
<1>4. /\ rows' = [f \in Findings |-> IF f \in processed THEN Suppressed(rowOf[f], flag) ELSE rows[f]]
      /\ ideal' = [f \in Findings |->
                    IF f \in processed THEN [ideal[f] EXCEPT !.suppressed = flag] ELSE ideal[f]]
      /\ overtaken' = overtaken \cup Awaited(r, processed)
      /\ written' = [written EXCEPT ![r] = written[r] \cup processed]
      /\ UNCHANGED <<history, unnamed>>
  BY <1>2, <1>3 DEF PutRows, Awaited
<1>5. processed \subseteq Findings /\ processed \cap written[r] = {}
      /\ processed \subseteq FoundBefore(r, position[r] + PutSize)
  BY <1>1 DEF TypeOK, RequestsOK, WrittenOf
<1>6. ASSUME NEW f \in processed
      PROVE  /\ rowOf[f] \in Row /\ f \in Found(r)
             /\ f \notin overtaken => rowOf[f] = rows[f] /\ rows[f] = ideal[f]
  <2>1. \E i \in DOMAIN got[r] : got[r][i].finding = f
    BY <1>5, <1>6 DEF FoundBefore
  <2>2. PICK j \in DOMAIN got[r] : got[r][j].finding = f /\ rowOf[f] = got[r][j].row
    BY <1>3, <2>1
  <2>3. rowOf[f] \in Row /\ f \in Found(r)
    BY <1>1, <2>2, InputFacts DEF Found
  <2>4. f \notin overtaken => rowOf[f] = rows[f]
    BY <1>1, <1>5, <2>2 DEF HeldOf, Steps
  <2>5. f \notin overtaken => rows[f] = ideal[f]
    BY <1>1, <1>5 DEF NothingUndone
  <2>6. QED
    BY <2>3, <2>4, <2>5
<1>7. rows' \in [Findings -> Row \cup {NoRow}]
  <2>1. \A f \in processed : Suppressed(rowOf[f], flag) \in Row
    BY <1>6, RowFacts
  <2>2. \A f \in Findings : rows[f] \in Row \cup {NoRow}
    BY <1>1 DEF TypeOK, TablesOK
  <2>3. QED
    BY <1>4, <2>1, <2>2
<1>8. ideal' \in [Findings -> [version: Nat, status: Statuses \cup {NoRow.status},
                               suppressed: BOOLEAN]]
  <2>1. PICK R : R = [version: Nat, status: Statuses \cup {NoRow.status}, suppressed: BOOLEAN]
    OBVIOUS
  <2>2. \A f \in Findings : ideal[f] \in R
    BY <1>1, <2>1 DEF TypeOK, TablesOK
  <2>3. \A row \in R : [row EXCEPT !.suppressed = flag] \in R
    BY <2>1
  <2>4. QED
    BY <1>4, <2>1, <2>2, <2>3
<1>9. \A f \in processed \ overtaken' : rows'[f] = ideal'[f]
  BY <1>4, <1>5, <1>6 DEF Suppressed
<1>10. /\ written' \in [Requests -> SUBSET Findings]
       /\ \A q \in Requests : written'[q] = IF q = r THEN written[q] \cup processed ELSE written[q]
  BY <1>1, <1>4, <1>5 DEF TypeOK, RequestsOK
<1>11. \A f \in Findings \ processed : rows'[f] = rows[f] /\ ideal'[f] = ideal[f]
  BY <1>4
<1>12. processed \subseteq Found(r)
  BY <1>6
<1>13. QED
  BY <1>4, <1>5, <1>7, <1>8, <1>9, <1>10, <1>11, <1>12 DEF Put

\* What follows an attempt to write a batch.
LEMMA PutBatchActs ==
  ASSUME IInv, NEW r \in Requests, NEW processed, PutBatch(r, processed)
  PROVE  /\ pc[r] = "put" /\ processed \subseteq left[r] /\ Put(r, processed)
         /\ UNCHANGED <<execution, input, got, failed, missed>>
         /\ attempts' \in [Requests -> 0 .. MaxAttempts - 1]
         /\ \/ /\ left' = [left EXCEPT ![r] = left[r] \ processed] /\ UNCHANGED <<pc, position, answer>>
            \/ /\ processed = left[r] /\ position[r] + PutSize <= Len(got[r])
               /\ pc' = [pc EXCEPT ![r] = "put"]
               /\ position' = [position EXCEPT ![r] = position[r] + PutSize]
               /\ left' = [left EXCEPT ![r] = Items(got[r], position[r] + PutSize)]
               /\ UNCHANGED answer
            \/ /\ processed = left[r] /\ position[r] + PutSize > Len(got[r])
               /\ pc' = [pc EXCEPT ![r] = "answered"] /\ answer' = [answer EXCEPT ![r] = 200]
               /\ left' = [left EXCEPT ![r] = {}] /\ UNCHANGED position
            \/ /\ pc' = [pc EXCEPT ![r] = "answered"] /\ answer' = [answer EXCEPT ![r] = 400]
               /\ left' = [left EXCEPT ![r] = left[r] \ processed] /\ UNCHANGED position
<1>1. PICK tries : tries = attempts[r] + 1
  OBVIOUS
<1>2. PICK then : then = AfterAttempts(left[r] \ processed, tries)
  OBVIOUS
<1>3. PICK following : following = position[r] + PutSize
  OBVIOUS
<1>4. /\ pc[r] = "put" /\ processed \subseteq left[r] /\ PutRows(r, processed)
      /\ attempts' = [attempts EXCEPT ![r] = IF then = "again" THEN tries ELSE 0]
      /\ UNCHANGED <<execution, input, got, failed, missed>>
  BY <1>1, <1>2 DEF PutBatch
<1>5. \/ /\ then = "again"
         /\ left' = [left EXCEPT ![r] = left[r] \ processed]
         /\ UNCHANGED <<pc, position, answer>>
      \/ /\ then = "next" /\ following <= Len(got[r])
         /\ Goto(r, "put", following)
         /\ left' = [left EXCEPT ![r] = Items(got[r], following)]
         /\ UNCHANGED answer
      \/ /\ then = "next" /\ following > Len(got[r])
         /\ Answer(r, 200)
         /\ left' = [left EXCEPT ![r] = {}]
         /\ UNCHANGED position
      \/ /\ then = "error"
         /\ Answer(r, 400)
         /\ left' = [left EXCEPT ![r] = left[r] \ processed]
         /\ UNCHANGED position
  BY <1>1, <1>2, <1>3 DEF PutBatch
<1>6. then = "next" => processed = left[r]
  BY <1>2, <1>4 DEF AfterAttempts
<1>7. then = "again" => tries # MaxAttempts
  BY <1>2 DEF AfterAttempts
<1>8. attempts' \in [Requests -> 0 .. MaxAttempts - 1]
  <2>1. attempts \in [Requests -> 0 .. MaxAttempts - 1] /\ MaxAttempts \in Nat \ {0}
    BY ApiAssumption DEF IInv, TypeOK, RequestsOK
  <2>2. (IF then = "again" THEN tries ELSE 0) \in 0 .. MaxAttempts - 1
    BY <1>1, <1>7, <2>1
  <2>3. QED
    BY <1>4, <2>1, <2>2
<1>9. Put(r, processed)
  BY <1>4, PutRowsFacts
<1>10. QED
  BY <1>3, <1>4, <1>5, <1>6, <1>8, <1>9 DEF Goto, Answer

\* The batch after one that is written has none of the rows that are written.
LEMMA NextBatch ==
  ASSUME TypeOK, NEW r \in Requests, ReadOf(r), NEW i \in Nat \ {0}, i <= Len(got[r])
  PROVE  /\ Items(got[r], i) \subseteq Findings
         /\ Items(got[r], i) \cap FoundBefore(r, i) = {}
         /\ Items(got[r], i) \cup FoundBefore(r, i) = FoundBefore(r, i + PutSize)
<1>1. PICK g : g = got[r]
  OBVIOUS
<1>2. /\ g \in Seq([finding: Findings, row: Row]) /\ DOMAIN g = 1 .. Len(g) /\ Len(g) \in Nat
      /\ i <= Len(g) /\ \A j \in DOMAIN g : g[j].finding \in Findings
  BY <1>1, InputFacts
<1>3. Items(g, i) = {g[j].finding : j \in {k \in DOMAIN g : i <= k /\ k < i + PutSize}}
  BY <1>2, ItemsFacts
<1>4. /\ FoundBefore(r, i) = {g[j].finding : j \in {k \in DOMAIN g : k < i}}
      /\ FoundBefore(r, i + PutSize) = {g[j].finding : j \in {k \in DOMAIN g : k < i + PutSize}}
  BY <1>1 DEF FoundBefore
<1>5. \A k \in DOMAIN g : /\ k < i + PutSize <=> k < i \/ (i <= k /\ k < i + PutSize)
                          /\ ~(k < i /\ i <= k)
  BY <1>2, ApiAssumption
<1>6. \A j, k \in DOMAIN g : g[j].finding = g[k].finding => j = k
  BY <1>1 DEF ReadOf
<1>7. Items(g, i) \cap FoundBefore(r, i) = {}
  BY <1>3, <1>4, <1>5, <1>6
<1>8. Items(g, i) \cup FoundBefore(r, i) = FoundBefore(r, i + PutSize)
  BY <1>3, <1>4, <1>5
<1>9. Items(g, i) \subseteq Findings
  BY <1>2, <1>3
<1>10. QED
  BY <1>1, <1>7, <1>8, <1>9

\* A step of the writes of a batch, whatever the request does next.
Goes(r, processed) ==
  /\ pc'[r] \in {"put", "answered"} /\ pc' = [pc EXCEPT ![r] = pc'[r]]
  /\ position'[r] \in 1 .. Len(got[r]) /\ position' = [position EXCEPT ![r] = position'[r]]
  /\ answer'[r] \in {None, 200, 400} /\ answer' = [answer EXCEPT ![r] = answer'[r]]
  /\ left'[r] \subseteq Findings /\ left' = [left EXCEPT ![r] = left'[r]]
  /\ attempts' \in [Requests -> 0 .. MaxAttempts - 1]
  /\ pc'[r] = "put" => /\ (written[r] \cup processed) \cap left'[r] = {}
                       /\ written[r] \cup processed \cup left'[r] =
                            FoundBefore(r, position'[r] + PutSize)
  /\ answer'[r] # None => pc'[r] = "answered"
  /\ answer'[r] = None => pc'[r] = "put"
  /\ answer'[r] = 200 => written[r] \cup processed = Found(r)
  /\ UNCHANGED <<execution, input, got, failed, missed>>

LEMMA PutStep ==
  ASSUME IInv, NEW r \in Requests, NEW processed, pc[r] = "put",
         Put(r, processed), Goes(r, processed)
  PROVE  IInv'
<1>1. TypeOK /\ Held /\ NothingUndone /\ ReadOf(r) /\ WrittenOf(r) /\ TrackedOf(r)
  BY DEF IInv, Read, Written, Tracked
<1>2. /\ Len(got[r]) \in Nat /\ Len(input[r].ids) \in Nat /\ Len(got[r]) <= Len(input[r].ids)
      /\ None \notin {200, 202, 400, 504}
  BY <1>1, InputFacts, ApiAssumption DEF ReadOf, Codes
<1>3. \A q \in Requests \ {r} :
        /\ pc'[q] = pc[q] /\ position'[q] = position[q] /\ left'[q] = left[q]
        /\ written'[q] = written[q] /\ answer'[q] = answer[q]
  BY <1>1 DEF TypeOK, RequestsOK, Goes, Put
<1>4. /\ written'[r] = written[r] \cup processed /\ processed \subseteq Found(r)
      /\ input' = input /\ got' = got /\ missed' = missed /\ failed' = failed
      /\ execution' = execution /\ history' = history
  BY DEF Put, Goes
<1>5. TypeOK'
  <2>1. overtaken' \cup unnamed' \subseteq Findings
    BY <1>1 DEF TypeOK, TablesOK, Put, Awaited
  <2>2. TablesOK'
    BY <1>1, <1>4, <2>1 DEF TypeOK, TablesOK, Put
  <2>3. position' \in [Requests -> Nat] /\ \A q \in Requests : position'[q] \in 1 .. Len(input'[q].ids)
    <3>1. position'[r] \in 1 .. Len(input[r].ids)
      BY <1>2 DEF Goes
    <3>2. /\ position \in [Requests -> Nat]
          /\ \A q \in Requests : position[q] \in 1 .. Len(input[q].ids)
      BY <1>1 DEF TypeOK, RequestsOK
    <3>3. position' = [position EXCEPT ![r] = position'[r]]
      BY DEF Goes
    <3>4. position' \in [Requests -> Nat]
      BY <1>2, <3>1, <3>2, <3>3
    <3>5. QED
      BY <1>3, <1>4, <3>1, <3>2, <3>4
  <2>4. /\ pc' \in [Requests -> Steps \cup {"idle", "answered"}]
        /\ answer' \in [Requests -> Codes \cup {None}]
        /\ left' \in [Requests -> SUBSET Findings]
    <3>1. /\ pc \in [Requests -> Steps \cup {"idle", "answered"}]
          /\ answer \in [Requests -> Codes \cup {None}]
          /\ left \in [Requests -> SUBSET Findings]
      BY <1>1 DEF TypeOK, RequestsOK
    <3>2. /\ pc'[r] \in Steps \cup {"idle", "answered"} /\ pc' = [pc EXCEPT ![r] = pc'[r]]
          /\ answer'[r] \in Codes \cup {None} /\ answer' = [answer EXCEPT ![r] = answer'[r]]
          /\ left'[r] \in SUBSET Findings /\ left' = [left EXCEPT ![r] = left'[r]]
      BY DEF Goes, Steps, Codes
    <3>3. QED
      BY <3>1, <3>2
  <2>5. written' \in [Requests -> SUBSET Findings]
    BY DEF Put
  <2>6. attempts' \in [Requests -> 0 .. MaxAttempts - 1]
    BY DEF Goes
  <2>7. input' \in [Requests -> Input] /\ \A q \in Requests : input'[q] \in Inputs[q]
    BY <1>1, <1>4 DEF TypeOK, RequestsOK
  <2>8. RequestsOK'
    <3>1. /\ got' \in [Requests -> Seq([finding: Findings, row: Row])]
          /\ missed' \in [Requests -> SUBSET Findings] /\ failed' \in [Requests -> BOOLEAN]
      BY <1>1, <1>4 DEF TypeOK, RequestsOK
    <3>2. QED
      BY <2>3, <2>4, <2>5, <2>6, <2>7, <3>1 DEF RequestsOK
  <2>9. QED
    BY <2>2, <2>8 DEF TypeOK
<1>6. Found(r)' = Found(r) /\ (\A i : FoundBefore(r, i)' = FoundBefore(r, i))
      /\ Asked(r, Len(input[r].ids) + 1)' = Asked(r, Len(input[r].ids) + 1)
  BY <1>4 DEF Found, FoundBefore, Asked
<1>7. Found(r) \cup missed[r] = Asked(r, Len(input[r].ids) + 1)
  BY <1>1 DEF ReadOf
<1>8. ReadOf(r)'
  <2>1. pc'[r] \in {"put", "answered"} /\ position'[r] <= Len(got[r])
    BY <1>2 DEF Goes
  <2>2. QED
    BY <1>1, <1>2, <1>4, <1>6, <1>7, <2>1 DEF ReadOf
<1>9. WrittenOf(r)'
  <2>1. written'[r] \subseteq Found(r)
    BY <1>1, <1>4 DEF WrittenOf
  <2>2. pc'[r] \in {"put", "answered"} /\ (answer'[r] # None => pc'[r] = "answered")
    BY DEF Goes
  <2>3. pc'[r] = "put" => /\ written'[r] \cap left'[r] = {}
                          /\ written'[r] \cup left'[r] = FoundBefore(r, position[r] + PutSize)'
    <3>1. FoundBefore(r, position[r] + PutSize)' = FoundBefore(r, position'[r] + PutSize)
      BY <1>4 DEF FoundBefore
    <3>2. QED
      BY <1>4, <3>1 DEF Goes
  <2>4. answer'[r] \in {200, 202} => Asked(r, Len(input[r].ids) + 1)' = missed'[r] \cup written'[r]
    BY <1>2, <1>4, <1>6, <1>7 DEF Goes
  <2>5. QED
    BY <1>6, <2>1, <2>2, <2>3, <2>4 DEF WrittenOf
<1>10. TrackedOf(r)'
  <2>1. ~failed[r] /\ \A f \in Findings : execution[<<r, f>>] = "none" /\ history[<<r, f>>] = None
    BY <1>1 DEF TrackedOf
  <2>2. pc'[r] \in {"put", "answered"}
    BY DEF Goes
  <2>3. QED
    BY <1>4, <2>1, <2>2 DEF TrackedOf
<1>11. Read' /\ Written' /\ Tracked'
  BY <1>3, <1>4, <1>8, <1>9, <1>10, OneRequest
<1>12. Held' /\ NothingUndone'
  <2>1. \A q \in Requests : pc'[q] \in Steps => pc[q] \in Steps
    BY <1>3 DEF Steps
  <2>2. Writes(r, processed)
    BY <1>4, <2>1 DEF Writes, Put
  <2>3. QED
    BY <1>1, <2>2, WriteRows
<1>13. QED
  BY <1>5, <1>11, <1>12 DEF IInv

LEMMA PutBatchStep ==
  ASSUME IInv, NEW r \in Requests, NEW processed, PutBatch(r, processed)
  PROVE  IInv'
<1>1. TypeOK /\ ReadOf(r) /\ WrittenOf(r)
  BY DEF IInv, Read, Written
<1>2. /\ pc[r] = "put" /\ processed \subseteq left[r] /\ Put(r, processed)
      /\ UNCHANGED <<execution, input, got, failed, missed>>
      /\ attempts' \in [Requests -> 0 .. MaxAttempts - 1]
      /\ \/ /\ left' = [left EXCEPT ![r] = left[r] \ processed] /\ UNCHANGED <<pc, position, answer>>
         \/ /\ processed = left[r] /\ position[r] + PutSize <= Len(got[r])
            /\ pc' = [pc EXCEPT ![r] = "put"]
            /\ position' = [position EXCEPT ![r] = position[r] + PutSize]
            /\ left' = [left EXCEPT ![r] = Items(got[r], position[r] + PutSize)]
            /\ UNCHANGED answer
         \/ /\ processed = left[r] /\ position[r] + PutSize > Len(got[r])
            /\ pc' = [pc EXCEPT ![r] = "answered"] /\ answer' = [answer EXCEPT ![r] = 200]
            /\ left' = [left EXCEPT ![r] = {}] /\ UNCHANGED position
         \/ /\ pc' = [pc EXCEPT ![r] = "answered"] /\ answer' = [answer EXCEPT ![r] = 400]
            /\ left' = [left EXCEPT ![r] = left[r] \ processed] /\ UNCHANGED position
  BY PutBatchActs
<1>3. PICK following : following = position[r] + PutSize
  OBVIOUS
<1>4. /\ pc \in [Requests -> Steps \cup {"idle", "answered"}] /\ position \in [Requests -> Nat]
      /\ answer \in [Requests -> Codes \cup {None}] /\ left \in [Requests -> SUBSET Findings]
      /\ following \in Nat \ {0} /\ Len(got[r]) \in Nat /\ position[r] \in 1 .. Len(got[r])
      /\ PutSize \in Nat \ {0}
  <2>1. /\ pc \in [Requests -> Steps \cup {"idle", "answered"}] /\ position \in [Requests -> Nat]
        /\ answer \in [Requests -> Codes \cup {None}] /\ left \in [Requests -> SUBSET Findings]
    BY <1>1 DEF TypeOK, RequestsOK
  <2>2. /\ Len(got[r]) \in Nat /\ position[r] \in 1 .. Len(input[r].ids)
        /\ Len(input[r].ids) \in Nat
    BY <1>1, InputFacts
  <2>3. position[r] <= Len(got[r])
    BY <1>1, <1>2 DEF ReadOf
  <2>4. PutSize \in Nat \ {0}
    BY ApiAssumption
  <2>5. position[r] \in 1 .. Len(got[r]) /\ following \in Nat \ {0}
    BY <1>3, <2>2, <2>3, <2>4
  <2>6. QED
    BY <2>1, <2>2, <2>4, <2>5
<1>5. /\ written[r] \cap left[r] = {} /\ written[r] \cup left[r] = FoundBefore(r, following)
      /\ answer[r] = None /\ None \notin {200, 400}
  BY <1>1, <1>2, <1>3, ApiAssumption DEF WrittenOf, Codes
<1>6. CASE left' = [left EXCEPT ![r] = left[r] \ processed] /\ UNCHANGED <<pc, position, answer>>
  <2>1. Goes(r, processed)
    BY <1>2, <1>3, <1>4, <1>5, <1>6 DEF Goes
  <2>2. QED
    BY <1>2, <2>1, PutStep
<1>7. CASE /\ processed = left[r] /\ following <= Len(got[r])
           /\ pc' = [pc EXCEPT ![r] = "put"]
           /\ position' = [position EXCEPT ![r] = following]
           /\ left' = [left EXCEPT ![r] = Items(got[r], following)]
           /\ UNCHANGED answer
  <2>1. /\ Items(got[r], following) \subseteq Findings
        /\ Items(got[r], following) \cap FoundBefore(r, following) = {}
        /\ Items(got[r], following) \cup FoundBefore(r, following) = FoundBefore(r, following + PutSize)
    BY <1>1, <1>4, <1>7, NextBatch
  <2>2. /\ pc'[r] = "put" /\ position'[r] = following /\ left'[r] = Items(got[r], following)
        /\ answer'[r] = None
    BY <1>4, <1>5, <1>7
  <2>3. Goes(r, processed)
    BY <1>2, <1>4, <1>5, <1>7, <2>1, <2>2 DEF Goes
  <2>4. QED
    BY <1>2, <2>3, PutStep
<1>8. CASE /\ processed = left[r] /\ following > Len(got[r])
           /\ pc' = [pc EXCEPT ![r] = "answered"] /\ answer' = [answer EXCEPT ![r] = 200]
           /\ left' = [left EXCEPT ![r] = {}] /\ UNCHANGED position
  <2>1. FoundBefore(r, following) = Found(r)
    BY <1>1, <1>4, <1>8, FoundFacts
  <2>2. Goes(r, processed)
    BY <1>2, <1>4, <1>5, <1>8, <2>1 DEF Goes
  <2>3. QED
    BY <1>2, <2>2, PutStep
<1>9. CASE /\ pc' = [pc EXCEPT ![r] = "answered"] /\ answer' = [answer EXCEPT ![r] = 400]
           /\ left' = [left EXCEPT ![r] = left[r] \ processed] /\ UNCHANGED position
  <2>1. Goes(r, processed)
    BY <1>2, <1>4, <1>5, <1>9 DEF Goes
  <2>2. QED
    BY <1>2, <2>1, PutStep
<1>10. QED
  BY <1>2, <1>3, <1>6, <1>7, <1>8, <1>9

LEMMA PutFailsStep ==
  ASSUME IInv, NEW r \in Requests, NEW processed, PutFails(r, processed)
  PROVE  IInv'
<1>1. TypeOK /\ ReadOf(r)
  BY DEF IInv, Read
<1>2. /\ pc[r] = "put" /\ processed \subseteq left[r] /\ PutRows(r, processed)
      /\ pc' = [pc EXCEPT ![r] = "answered"] /\ answer' = [answer EXCEPT ![r] = 400]
      /\ UNCHANGED <<execution, input, position, got, left, attempts, failed, missed>>
  BY DEF PutFails, Answer
<1>3. Put(r, processed)
  BY <1>2, PutRowsFacts
<1>4. /\ pc \in [Requests -> Steps \cup {"idle", "answered"}] /\ position \in [Requests -> Nat]
      /\ answer \in [Requests -> Codes \cup {None}] /\ left \in [Requests -> SUBSET Findings]
      /\ attempts \in [Requests -> 0 .. MaxAttempts - 1]
      /\ position[r] \in 1 .. Len(got[r]) /\ None \notin {200, 400}
  <2>1. /\ pc \in [Requests -> Steps \cup {"idle", "answered"}] /\ position \in [Requests -> Nat]
        /\ answer \in [Requests -> Codes \cup {None}] /\ left \in [Requests -> SUBSET Findings]
        /\ attempts \in [Requests -> 0 .. MaxAttempts - 1]
    BY <1>1 DEF TypeOK, RequestsOK
  <2>2. /\ Len(got[r]) \in Nat /\ position[r] \in 1 .. Len(input[r].ids)
        /\ Len(input[r].ids) \in Nat
    BY <1>1, InputFacts
  <2>3. position[r] <= Len(got[r])
    BY <1>1, <1>2 DEF ReadOf
  <2>4. None \notin {200, 400}
    BY ApiAssumption DEF Codes
  <2>5. QED
    BY <2>1, <2>2, <2>3, <2>4
<1>5. Goes(r, processed)
  BY <1>2, <1>4 DEF Goes
<1>6. QED
  BY <1>2, <1>3, <1>5, PutStep

-----------------------------------------------------------------------------
(***************************************************************************)
(* Errors and timeouts, and the other writers.                             *)
(***************************************************************************)
LEMMA GetFailsStep ==
  ASSUME IInv, NEW r \in Requests, GetFails(r)
  PROVE  IInv'
<1>1. Stops(r, 400)
  BY DEF GetFails, Answer, Stops, tableVars
<1>2. QED
  BY <1>1, StopStep

LEMMA TimeoutStep ==
  ASSUME IInv, NEW r \in Requests, Timeout(r)
  PROVE  IInv'
<1>1. Stops(r, 504)
  BY DEF Timeout, Answer, Stops, tableVars
<1>2. QED
  BY <1>1, StopStep

\* Another writer leaves the requests where they are.
LEMMA OthersRequests ==
  ASSUME TypeOK, UNCHANGED requestVars
  PROVE  RequestsOK'
<1>1. UNCHANGED <<input, pc, position, got, left, attempts, failed, answer, missed, written>>
  BY DEF requestVars
<1>2. /\ input' \in [Requests -> Input] /\ \A q \in Requests : input'[q] \in Inputs[q]
      /\ position' \in [Requests -> Nat]
      /\ \A q \in Requests : position'[q] \in 1 .. Len(input'[q].ids)
  BY <1>1 DEF TypeOK, RequestsOK
<1>3. QED
  BY <1>1, <1>2 DEF TypeOK, RequestsOK

\* What has been read and written by the requests is as it was.
LEMMA OthersParts ==
  ASSUME Read, Written, UNCHANGED requestVars
  PROVE  Read' /\ Written'
<1>1. UNCHANGED <<input, pc, position, got, left, attempts, failed, answer, missed, written>>
  BY DEF requestVars
<1>2. ASSUME NEW q \in Requests
      PROVE  ReadOf(q)' /\ WrittenOf(q)'
  BY <1>1, SameRequest DEF Read, Written
<1>3. QED
  BY <1>2 DEF Read, Written

\* The row of f is changed by another writer, as its attribute is.
OtherRow(f) ==
  /\ \A g \in Findings \ {f} : rows'[g] = rows[g] /\ ideal'[g] = ideal[g]
  /\ overtaken' = overtaken \cup Awaited(None, {f})
  /\ rows[f] = ideal[f] => rows'[f] = ideal'[f]
  /\ UNCHANGED <<got, pc, written>>

LEMMA OtherRowStep ==
  ASSUME TypeOK, Held, NothingUndone, NEW f \in Findings, OtherRow(f)
  PROVE  Held' /\ NothingUndone'
<1>1. \A g \in {f} \ overtaken' : rows'[g] = ideal'[g]
  BY DEF OtherRow, NothingUndone
<1>2. \A q \in Requests : written'[q] = IF q = None THEN written[q] \cup {f} ELSE written[q]
  BY ApiAssumption DEF OtherRow
<1>3. Writes(None, {f})
  BY <1>1, <1>2 DEF Writes, OtherRow
<1>4. QED
  BY <1>3, WriteRows

\* A change by another writer, of the row and of what it would be.
LEMMA ChangeFacts ==
  ASSUME TypeOK, NEW f \in Findings, NEW row \in Row \cup {NoRow},
         NEW own \in [version: Nat, status: Statuses \cup {NoRow.status}, suppressed: BOOLEAN],
         rows' = [rows EXCEPT ![f] = row], ideal' = [ideal EXCEPT ![f] = own],
         overtaken' = overtaken \cup (IF \E q \in Requests \ {None} : f \in Pending(q) THEN {f} ELSE {}),
         rows[f] = ideal[f] => row = own,
         UNCHANGED requestVars
  PROVE  /\ rows' \in [Findings -> Row \cup {NoRow}]
         /\ ideal' \in [Findings -> [version: Nat, status: Statuses \cup {NoRow.status},
                                     suppressed: BOOLEAN]]
         /\ overtaken' \subseteq Findings
         /\ OtherRow(f)
<1>1. /\ rows \in [Findings -> Row \cup {NoRow}] /\ overtaken \subseteq Findings
      /\ ideal \in [Findings -> [version: Nat, status: Statuses \cup {NoRow.status},
                                 suppressed: BOOLEAN]]
  BY DEF TypeOK, TablesOK
<1>2. UNCHANGED <<got, pc, written>>
  BY DEF requestVars
<1>3. overtaken' = overtaken \cup Awaited(None, {f}) /\ overtaken' \subseteq Findings
  BY <1>1 DEF Awaited
<1>4. /\ rows'[f] = row /\ \A g \in Findings \ {f} : rows'[g] = rows[g]
      /\ rows' \in [Findings -> Row \cup {NoRow}]
  BY <1>1
<1>5. /\ ideal'[f] = own /\ \A g \in Findings \ {f} : ideal'[g] = ideal[g]
      /\ ideal' \in [Findings -> [version: Nat, status: Statuses \cup {NoRow.status},
                                  suppressed: BOOLEAN]]
  BY <1>1
<1>6. QED
  BY <1>2, <1>3, <1>4, <1>5 DEF OtherRow

LEMMA ReportStep ==
  ASSUME IInv, Outcomes \subseteq Statuses, NEW x \in Executions, NEW status \in Outcomes,
         Report(x, status)
  PROVE  IInv'
<1>1. TypeOK /\ Read /\ Written /\ Tracked /\ Held /\ NothingUndone
  BY DEF IInv
<1>2. PICK f \in Findings : f = x[2]
  BY DEF Executions
<1>3. /\ execution[x] = "running" /\ execution' = [execution EXCEPT ![x] = "ended"]
      /\ history' = [history EXCEPT ![x] = status]
      /\ UNCHANGED unnamed /\ UNCHANGED requestVars
  BY DEF Report
<1>4. UNCHANGED <<input, pc, position, got, left, attempts, failed, answer, missed, written>>
  BY <1>3 DEF requestVars
<1>5. /\ history' \in [Executions -> Statuses \cup {None}]
      /\ execution' \in [Executions -> {"none", "running", "ended"}]
      /\ unnamed' \subseteq Findings
  BY <1>1, <1>3 DEF TypeOK, TablesOK
<1>6. /\ rows' \in [Findings -> Row \cup {NoRow}]
      /\ ideal' \in [Findings -> [version: Nat, status: Statuses \cup {NoRow.status},
                                  suppressed: BOOLEAN]]
      /\ overtaken' \subseteq Findings
      /\ Held' /\ NothingUndone'
  <2>1. CASE history[x] # None \/ Exists(rows[f])
    <3>1. /\ rows' = [rows EXCEPT ![f] = SetStatus(rows[f], status)]
          /\ ideal' = [ideal EXCEPT ![f] = SetStatus(ideal[f], status)]
          /\ overtaken' = overtaken \cup
               (IF \E q \in Requests \ {None} : f \in Pending(q) THEN {f} ELSE {})
      BY <1>2, <2>1 DEF Report, Change
    <3>2. SetStatus(rows[f], status) \in Row \cup {NoRow}
      <4>1. rows[f] \in Row \cup {NoRow} /\ status \in Statuses
        BY <1>1 DEF TypeOK, TablesOK
      <4>2. QED
        BY <4>1, RowFacts
    <3>3. SetStatus(ideal[f], status) \in
            [version: Nat, status: Statuses \cup {NoRow.status}, suppressed: BOOLEAN]
      <4>1. ideal[f] \in [version: Nat, status: Statuses \cup {NoRow.status}, suppressed: BOOLEAN]
            /\ status \in Statuses
        BY <1>1 DEF TypeOK, TablesOK
      <4>2. QED
        BY <4>1 DEF SetStatus
    <3>4. rows[f] = ideal[f] => SetStatus(rows[f], status) = SetStatus(ideal[f], status)
      OBVIOUS
    <3>5. /\ rows' \in [Findings -> Row \cup {NoRow}] /\ overtaken' \subseteq Findings
          /\ ideal' \in [Findings -> [version: Nat, status: Statuses \cup {NoRow.status},
                                      suppressed: BOOLEAN]]
          /\ OtherRow(f)
      BY <1>1, <1>3, <3>1, <3>2, <3>3, <3>4, ChangeFacts
    <3>6. QED
      BY <1>1, <3>5, OtherRowStep
  <2>2. CASE ~(history[x] # None \/ Exists(rows[f]))
    <3>1. UNCHANGED <<rows, ideal, overtaken>>
      BY <1>2, <2>2 DEF Report
    <3>2. Held' /\ NothingUndone'
      BY <1>1, <1>4, <3>1, SameRows
    <3>3. QED
      BY <1>1, <3>1, <3>2 DEF TypeOK, TablesOK
  <2>3. QED
    BY <2>1, <2>2
<1>7. TablesOK'
  BY <1>5, <1>6 DEF TablesOK
<1>8. RequestsOK' /\ Read' /\ Written'
  BY <1>1, <1>3, OthersRequests, OthersParts
<1>9. Tracked'
  <2>1. ASSUME NEW q \in Requests
        PROVE  TrackedOf(q)'
    <3>1. ASSUME NEW g \in Findings
          PROVE  /\ execution'[<<q, g>>] # "none" <=> execution[<<q, g>>] # "none"
                 /\ history[<<q, g>>] # None => history'[<<q, g>>] # None
                 /\ history'[<<q, g>>] # None => history[<<q, g>>] # None \/ <<q, g>> = x
      <4>1. <<q, g>> \in Executions /\ status # None
        BY ApiAssumption DEF Executions
      <4>2. /\ execution \in [Executions -> {"none", "running", "ended"}]
            /\ history \in [Executions -> Statuses \cup {None}]
        BY <1>1 DEF TypeOK, TablesOK
      <4>3. QED
        BY <1>3, <4>1, <4>2
    <3>2. TrackedOf(q)
      BY <1>1 DEF Tracked
    <3>3. \A g \in Findings : <<q, g>> = x => execution[<<q, g>>] # "none"
      BY <1>3
    <3>4. /\ Found(q)' = Found(q) /\ FoundBefore(q, position[q])' = FoundBefore(q, position[q])
      BY <1>4 DEF Found, FoundBefore
    <3>5. QED
      BY <1>4, <3>1, <3>2, <3>3, <3>4 DEF TrackedOf
  <2>2. QED
    BY <2>1 DEF Tracked
<1>10. QED
  BY <1>6, <1>7, <1>8, <1>9 DEF IInv, TypeOK

\* An event changes a row, and nothing of the requests and their executions.
LEMMA EventStep ==
  ASSUME IInv, Event, NEW f \in Findings, OtherRow(f),
         rows' \in [Findings -> Row \cup {NoRow}], overtaken' \subseteq Findings,
         ideal' \in [Findings -> [version: Nat, status: Statuses \cup {NoRow.status},
                                 suppressed: BOOLEAN]]
  PROVE  IInv'
<1>1. TypeOK /\ Read /\ Written /\ Tracked /\ Held /\ NothingUndone
  BY DEF IInv
<1>2. UNCHANGED <<history, unnamed, execution>> /\ UNCHANGED requestVars
  BY DEF Event
<1>3. UNCHANGED <<input, pc, position, got, left, attempts, failed, answer, missed, written>>
  BY <1>2 DEF requestVars
<1>4. TablesOK'
  BY <1>1, <1>2 DEF TypeOK, TablesOK
<1>5. RequestsOK' /\ Read' /\ Written'
  BY <1>1, <1>2, OthersRequests, OthersParts
<1>6. Tracked'
  <2>1. ASSUME NEW q \in Requests
        PROVE  TrackedOf(q)'
    BY <1>1, <1>2, <1>3, SameTracked DEF Tracked
  <2>2. QED
    BY <2>1 DEF Tracked
<1>7. Held' /\ NothingUndone'
  BY <1>1, OtherRowStep
<1>8. QED
  BY <1>4, <1>5, <1>6, <1>7 DEF IInv, TypeOK

LEMMA UpdateStep ==
  ASSUME IInv, NEW f \in Findings, Update(f)
  PROVE  IInv'
<1>1. TypeOK
  BY DEF IInv
<1>2. /\ Event /\ rows[f].version < MaxVersion /\ UNCHANGED requestVars
      /\ rows' = [rows EXCEPT ![f] = Updated(rows[f])]
      /\ ideal' = [ideal EXCEPT ![f] = Updated(ideal[f])]
      /\ overtaken' = overtaken \cup (IF \E q \in Requests \ {None} : f \in Pending(q) THEN {f} ELSE {})
  BY DEF Update, Change, Event
<1>3. Updated(rows[f]) \in Row \cup {NoRow}
  <2>1. rows[f] \in Row \cup {NoRow} /\ MaxVersion \in Nat
    BY <1>1, TableAssumption DEF TypeOK, TablesOK
  <2>2. CASE rows[f] \in Row
    <3>1. [rows[f] EXCEPT !.version = rows[f].version + 1] \in Row
      BY <1>2, <2>1, <2>2 DEF Row
    <3>2. QED
      BY <3>1, RowFacts DEF Updated
  <2>3. CASE rows[f] = NoRow
    BY <2>3, RowFacts DEF Updated, Exists
  <2>4. QED
    BY <2>1, <2>2, <2>3
<1>4. Updated(ideal[f]) \in [version: Nat, status: Statuses \cup {NoRow.status}, suppressed: BOOLEAN]
  <2>1. ideal[f] \in [version: Nat, status: Statuses \cup {NoRow.status}, suppressed: BOOLEAN]
    BY <1>1 DEF TypeOK, TablesOK
  <2>2. [ideal[f] EXCEPT !.version = ideal[f].version + 1] \in
          [version: Nat, status: Statuses \cup {NoRow.status}, suppressed: BOOLEAN]
    BY <2>1
  <2>3. NewRow \in [version: Nat, status: Statuses \cup {NoRow.status}, suppressed: BOOLEAN]
    BY DEF NewRow, Statuses
  <2>4. QED
    BY <2>2, <2>3 DEF Updated
<1>5. rows[f] = ideal[f] => Updated(rows[f]) = Updated(ideal[f])
  OBVIOUS
<1>6. /\ rows' \in [Findings -> Row \cup {NoRow}] /\ overtaken' \subseteq Findings
      /\ ideal' \in [Findings -> [version: Nat, status: Statuses \cup {NoRow.status},
                                  suppressed: BOOLEAN]]
      /\ OtherRow(f)
  BY <1>1, <1>2, <1>3, <1>4, <1>5, ChangeFacts
<1>7. QED
  BY <1>2, <1>6, EventStep

LEMMA CloseStep ==
  ASSUME IInv, NEW f \in Findings, Close(f)
  PROVE  IInv'
<1>1. TypeOK
  BY DEF IInv
<1>2. /\ Event /\ UNCHANGED requestVars
      /\ rows' = [rows EXCEPT ![f] = NoRow]
      /\ ideal' = [ideal EXCEPT ![f] = NoRow]
      /\ overtaken' = overtaken \cup (IF \E q \in Requests \ {None} : f \in Pending(q) THEN {f} ELSE {})
  BY DEF Close, Change, Event
<1>3. NoRow \in [version: Nat, status: Statuses \cup {NoRow.status}, suppressed: BOOLEAN]
  BY DEF NoRow
<1>4. NoRow \in Row \cup {NoRow} /\ (rows[f] = ideal[f] => NoRow = NoRow)
  OBVIOUS
<1>5. /\ rows' \in [Findings -> Row \cup {NoRow}] /\ overtaken' \subseteq Findings
      /\ ideal' \in [Findings -> [version: Nat, status: Statuses \cup {NoRow.status},
                                  suppressed: BOOLEAN]]
      /\ OtherRow(f)
  BY <1>1, <1>2, <1>3, <1>4, ChangeFacts
<1>6. QED
  BY <1>2, <1>5, EventStep

-----------------------------------------------------------------------------
(***************************************************************************)
(* The invariant, and what follows from it.                                *)
(***************************************************************************)
LEMMA Initially ==
  ASSUME Init
  PROVE  IInv
<1>1. TablesOK
  <2>1. /\ rows \in [Findings -> Row \cup {NoRow}]
    BY RowFacts DEF Init
  <2>2. ideal \in [Findings -> [version: Nat, status: Statuses \cup {NoRow.status},
                               suppressed: BOOLEAN]]
    <3>1. NoRow \in [version: Nat, status: Statuses \cup {NoRow.status}, suppressed: BOOLEAN]
      BY DEF NoRow
    <3>2. NewRow \in [version: Nat, status: Statuses \cup {NoRow.status}, suppressed: BOOLEAN]
      BY DEF NewRow, Statuses
    <3>3. QED
      BY <3>1, <3>2 DEF Init
  <2>3. QED
    BY <2>1, <2>2 DEF Init, TablesOK
<1>2. RequestsOK
  <2>1. input \in [Requests -> Input] /\ \A r \in Requests : input[r] \in Inputs[r]
    BY ApiAssumption DEF Init
  <2>2. \A r \in Requests : Len(input[r].ids) \in Nat /\ 1 <= Len(input[r].ids)
    BY <2>1, ApiAssumption DEF Input
  <2>3. position \in [Requests -> Nat] /\ \A r \in Requests : position[r] \in 1 .. Len(input[r].ids)
    BY <2>2 DEF Init
  <2>4. 0 \in 0 .. MaxAttempts - 1
    BY ApiAssumption
  <2>5. attempts \in [Requests -> 0 .. MaxAttempts - 1]
    BY <2>4 DEF Init
  <2>6. got \in [Requests -> Seq([finding: Findings, row: Row])]
    BY DEF Init
  <2>7. QED
    BY <2>1, <2>3, <2>5, <2>6 DEF Init, RequestsOK, Steps
<1>3. TypeOK
  BY <1>1, <1>2 DEF TypeOK
<1>4. ASSUME NEW r \in Requests
      PROVE  ReadOf(r) /\ WrittenOf(r) /\ TrackedOf(r) /\ HeldOf(r)
  <2>1. /\ got[r] = <<>> /\ pc[r] = "idle" /\ position[r] = 1 /\ missed[r] = {} /\ written[r] = {}
        /\ answer[r] = None /\ failed[r] = FALSE
        /\ \A f \in Findings : execution[<<r, f>>] = "none" /\ history[<<r, f>>] = None
    BY DEF Init, Executions
  <2>2. DOMAIN got[r] = {} /\ Len(got[r]) = 0
    BY <2>1
  <2>3. Found(r) = {} /\ \A i : FoundBefore(r, i) = {}
    BY <2>2 DEF Found, FoundBefore
  <2>4. Asked(r, 1) = {}
    <3>1. DOMAIN input[r].ids = 1 .. Len(input[r].ids) /\ Len(input[r].ids) \in Nat
      BY <1>3, InputFacts
    <3>2. QED
      BY <3>1 DEF Asked
  <2>5. ReadOf(r)
    BY <2>1, <2>2, <2>3, <2>4 DEF ReadOf
  <2>6. WrittenOf(r)
    BY <2>1, <2>3, ApiAssumption DEF WrittenOf, Codes
  <2>7. TrackedOf(r)
    BY <2>1 DEF TrackedOf
  <2>8. HeldOf(r)
    BY <2>1 DEF HeldOf, Steps
  <2>9. QED
    BY <2>5, <2>6, <2>7, <2>8
<1>5. NothingUndone
  BY DEF Init, NothingUndone
<1>6. QED
  BY <1>3, <1>4, <1>5 DEF IInv, Read, Written, Tracked, Held

LEMMA Stutter ==
  ASSUME IInv, UNCHANGED vars
  PROVE  IInv'
<1>1. TypeOK /\ Read /\ Written /\ Tracked /\ Held /\ NothingUndone
  BY DEF IInv
<1>2. /\ UNCHANGED <<rows, history, unnamed, ideal, overtaken, execution>> /\ UNCHANGED requestVars
      /\ UNCHANGED <<pc, position, got, failed, answer, written>>
  BY DEF vars, tableVars, requestVars
<1>3. TablesOK'
  BY <1>1, <1>2 DEF TypeOK, TablesOK
<1>4. RequestsOK' /\ Read' /\ Written'
  BY <1>1, <1>2, OthersRequests, OthersParts
<1>5. Tracked'
  BY <1>1, <1>2, SameTracked DEF Tracked
<1>6. Held' /\ NothingUndone'
  BY <1>1, <1>2, SameRows
<1>7. QED
  BY <1>3, <1>4, <1>5, <1>6 DEF IInv, TypeOK

LEMMA Inductive ==
  ASSUME IInv, [Next]_vars
  PROVE  IInv'
<1>1. Outcomes \subseteq Statuses
  BY ApiAssumption DEF Statuses
<1>2. ASSUME NEW r \in Requests, Handle(r)
      PROVE  IInv'
  <2>1. CASE Receive(r)
    BY <2>1, ReceiveStep
  <2>2. CASE \E taken \in SUBSET Findings : GetBatch(r, taken)
    BY <2>2, GetBatchStep
  <2>3. CASE GetFails(r)
    BY <2>3, GetFailsStep
  <2>4. CASE Start(r)
    BY <2>4, StartStep
  <2>5. CASE Record(r)
    BY <2>5, RecordStep
  <2>6. CASE \E processed \in SUBSET Findings : PutBatch(r, processed)
    BY <2>6, PutBatchStep
  <2>7. QED
    BY <1>2, <2>1, <2>2, <2>3, <2>4, <2>5, <2>6 DEF Handle
<1>3. ASSUME NEW r \in Requests, NEW begun \in BOOLEAN, StartFails(r, begun)
      PROVE  IInv'
  BY <1>3, StartFailsStep
<1>4. ASSUME NEW r \in Requests, NEW applied \in BOOLEAN, RecordFails(r, applied)
      PROVE  IInv'
  BY <1>4, RecordFailsStep
<1>5. ASSUME NEW r \in Requests, NEW processed \in SUBSET Findings, PutFails(r, processed)
      PROVE  IInv'
  BY <1>5, PutFailsStep
<1>6. ASSUME NEW r \in Requests, Timeout(r)
      PROVE  IInv'
  BY <1>6, TimeoutStep
<1>7. ASSUME NEW x \in Executions, NEW status \in Outcomes, Report(x, status)
      PROVE  IInv'
  BY <1>1, <1>7, ReportStep
<1>8. ASSUME NEW f \in Findings, Update(f) \/ Close(f)
      PROVE  IInv'
  BY <1>8, UpdateStep, CloseStep
<1>9. CASE UNCHANGED vars
  BY <1>9, Stutter
<1>10. QED
  BY <1>2, <1>3, <1>4, <1>5, <1>6, <1>7, <1>8, <1>9 DEF Next

LEMMA Invariance == Spec => []IInv
<1>1. Init => IInv
  BY Initially
<1>2. IInv /\ [Next]_vars => IInv'
  BY Inductive
<1>3. QED
  BY <1>1, <1>2, PTL DEF Spec

\* The types of the tables and of the requests' variables.
THEOREM TypeCorrect == Spec => []TypeOK
<1>1. IInv => TypeOK
  BY DEF IInv
<1>2. QED
  BY <1>1, Invariance, PTL

\* However its batches are cut and retried, and whatever comes between them, a request
\* that answers with success has written all that it named, but for what was not there.
THEOREM SuccessesAreComplete == Spec => []SuccessComplete
<1>1. ASSUME IInv, NEW r \in Requests, answer[r] \in {200, 202}
      PROVE  {input[r].ids[i] : i \in DOMAIN input[r].ids} = missed[r] \cup written[r]
  <2>1. DOMAIN input[r].ids = 1 .. Len(input[r].ids) /\ Len(input[r].ids) \in Nat
    BY <1>1, InputFacts DEF IInv
  <2>2. \A i \in DOMAIN input[r].ids : i < Len(input[r].ids) + 1
    BY <2>1
  <2>3. Asked(r, Len(input[r].ids) + 1) = {input[r].ids[i] : i \in DOMAIN input[r].ids}
    BY <2>2 DEF Asked
  <2>4. QED
    BY <1>1, <2>3 DEF IInv, Written, WrittenOf
<1>2. IInv => SuccessComplete
  BY <1>1 DEF SuccessComplete
<1>3. QED
  BY <1>2, Invariance, PTL

\* An execution that a request has started is in the history, unless the request is yet to
\* record it, or did not succeed.
THEOREM ExecutionsAreTracked == Spec => []ExecutionsTracked
<1>1. IInv => ExecutionsTracked
  BY DEF IInv, Tracked, TrackedOf, ExecutionsTracked
<1>2. QED
  BY <1>1, Invariance, PTL

\* Rows are what each writer made of them, but those written between the read and the write
\* of a request.
THEOREM NothingIsUndone == Spec => []NothingUndone
<1>1. IInv => NothingUndone
  BY DEF IInv
<1>2. QED
  BY <1>1, Invariance, PTL
=============================================================================
