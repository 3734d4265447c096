------------------------------ MODULE ApiActions ------------------------------
(***************************************************************************)
(* Actions on several findings that users request of the API: Suppress,    *)
(* Unsuppress, Remediate and RemediateAndGenerateTicket.                   *)
(*                                                                         *)
(* A request reads the rows of its findings in batches, starts an          *)
(* execution of the Orchestrator for each of them if it is to remediate,   *)
(* and then writes the rows back, whole: one transaction per finding with  *)
(* the history of its execution, or batches of rows with another flag.     *)
(* Requests run concurrently with each other, with events from Security    *)
(* Hub and with the reports of executions; the function may be stopped     *)
(* anywhere, and no request is continued or undone.                        *)
(***************************************************************************)
EXTENDS FindingsTable, FiniteSets, Sequences, Functions

CONSTANTS
  Requests,     \* invocations of the function
  Inputs,       \* request -> its possible bodies: see Input
  Absent,       \* findings that may have no row when the requests come
  GetSize,      \* keys of a BatchGet, batchSize of batchGetByIds
  PutSize,      \* rows of a BatchWrite, batchSize of putInBatches
  MaxAttempts,  \* maxAttempts of putInBatches
  Outcomes,     \* how executions end
  MaxEvents,    \* bound on the events from Security Hub
  MaxFaults,    \* bound on failing calls and timeouts
  None

Input == [action: {"Suppress", "Unsuppress", "Remediate"}, ids: Seq(Findings)]

\* Codes a request is answered with; 504 is API Gateway's.
Codes == {200, 202, 400, 504}

\* The schema wants an id.  Only a request of more than GetSize could name a finding
\* twice without an error; such requests are left out.
ASSUME ApiAssumption ==
  /\ \A r \in Requests : \A i \in Inputs[r] :
       /\ i \in Input /\ i.ids # <<>>
       /\ Len(i.ids) > GetSize => \A j, k \in DOMAIN i.ids : i.ids[j] = i.ids[k] => j = k
  /\ Absent \subseteq Findings
  /\ {GetSize, PutSize, MaxAttempts} \subseteq Nat \ {0}
  /\ Outcomes \subseteq {Success, Failed}
  /\ None \notin Requests \cup Statuses /\ None \notin Codes
  /\ MaxVersion > 0
  /\ {MaxEvents, MaxFaults} \subseteq Nat

VARIABLES
  rows,       \* finding -> its row in the findings table
  history,    \* execution -> its status in the history table, None without an item
  unnamed,    \* findings with a history item that names no execution
  execution,  \* execution -> what became of it
  input,      \* request -> its body
  pc,         \* request -> where it is
  position,   \* request -> next id to read, finding to start or record, or row to write
  got,        \* request -> the findings read, and their rows as they were read
  left,       \* request -> UnprocessedItems of its batch of rows
  attempts,   \* request -> attempts at this batch
  failed,     \* request -> whether a start failed, remediationStatus FAILED
  answer,     \* request -> the status code it was answered with
  missed,     \* request -> ids without a row or left unprocessed
  written,    \* request -> findings whose rows it has written
  ideal,      \* finding -> its row if every writer had written its own attribute only
  overtaken,  \* findings written by another while a request was about to write them
  events,     \* events still to come
  faults      \* faults still to come

tableVars == <<rows, history, unnamed, ideal, overtaken>>
requestVars == <<input, pc, position, got, left, attempts, failed, answer, missed, written>>
vars == <<tableVars, execution, requestVars, events, faults>>

\* The execution that a request starts for a finding.
Executions == Requests \X Findings
Steps == {"get", "start", "record", "put"}

NewRow == [version |-> 1, status |-> NotStarted, suppressed |-> FALSE]

Init ==
  /\ \E absent \in SUBSET Absent :
       rows = [f \in Findings |->
                IF f \in absent THEN NoRow
                ELSE NewRow]
  /\ history = [x \in Executions |-> None]
  /\ unnamed = {}
  /\ execution = [x \in Executions |-> "none"]
  /\ input \in [Requests -> UNION {Inputs[r] : r \in Requests}]
  /\ \A r \in Requests : input[r] \in Inputs[r]
  /\ pc = [r \in Requests |-> "idle"]
  /\ position = [r \in Requests |-> 1]
  /\ got = [r \in Requests |-> <<>>]
  /\ left = [r \in Requests |-> {}]
  /\ attempts = [r \in Requests |-> 0]
  /\ failed = [r \in Requests |-> FALSE]
  /\ answer = [r \in Requests |-> None]
  /\ missed = [r \in Requests |-> {}]
  /\ written = [r \in Requests |-> {}]
  /\ ideal = rows
  /\ overtaken = {}
  /\ events = MaxEvents
  /\ faults = MaxFaults

Fault == faults > 0 /\ faults' = faults - 1

\* The function answers, or is stopped.
Answer(r, code) ==
  /\ pc' = [pc EXCEPT ![r] = "answered"]
  /\ answer' = [answer EXCEPT ![r] = code]

Goto(r, state, at) ==
  /\ pc' = [pc EXCEPT ![r] = state]
  /\ position' = [position EXCEPT ![r] = at]

-----------------------------------------------------------------------------
(***************************************************************************)
(* Whole rows, and the attributes a write is meant to change.              *)
(***************************************************************************)

\* The findings a request has read and is yet to write.
Pending(r) ==
  IF pc[r] \notin Steps THEN {}
  ELSE {got[r][i].finding : i \in DOMAIN got[r]} \ written[r]

\* A change to the row of f by someone, the request r or None, of the attributes that
\* Own changes.
Change(r, f, row, Own(_)) ==
  /\ ideal' = [ideal EXCEPT ![f] = Own(@)]
  /\ rows' = [rows EXCEPT ![f] = row]
  /\ overtaken' = overtaken \cup (IF \E q \in Requests \ {r} : f \in Pending(q) THEN {f} ELSE {})

\* Mutant of Suppressed: the flag is written with the status of a new row.
SuppressedAnew(row, flag) == [row EXCEPT !.suppressed = flag, !.status = NotStarted]

\* prepareUpdatedFindings
Suppressed(row, flag) == [row EXCEPT !.suppressed = flag]

-----------------------------------------------------------------------------
(***************************************************************************)
(* Reading: findByFindingIds, batchGetByIds.                               *)
(***************************************************************************)
Receive(r) ==
  /\ pc[r] = "idle"
  /\ Goto(r, "get", 1)
  /\ UNCHANGED <<tableVars, execution, input, got, left, attempts, failed, answer, missed,
                 written, events, faults>>

\* Up to size of the members of a sequence, from a position.
Batch(s, from, size) ==
  SubSeq(s, from, IF from + size - 1 < Len(s) THEN from + size - 1 ELSE Len(s))

Keys(r) == Batch(input[r].ids, position[r], GetSize)
Twice(keys) == \E i, j \in DOMAIN keys : i # j /\ keys[i] = keys[j]

\* The findings of the batch of rows at a position.
Items(found, from) ==
  LET batch == Batch(found, from, PutSize) IN {batch[i].finding : i \in DOMAIN batch}

\* After the last batch; no finding at all is an error.
AfterGet(r, found) ==
  /\ IF found = <<>> THEN Answer(r, 400) /\ UNCHANGED <<position, left>>
     ELSE IF input[r].action = "Remediate" THEN Goto(r, "start", 1) /\ UNCHANGED <<answer, left>>
     ELSE Goto(r, "put", 1) /\ left' = [left EXCEPT ![r] = Items(found, 1)] /\ UNCHANGED answer

\* One BatchGet, of which the keys taken are processed; its rows come in any order.
GetBatch(r, taken) ==
  LET keys == Keys(r)
      asked == {keys[i] : i \in DOMAIN keys}
      there == {f \in taken : Exists(rows[f])}
  IN
  /\ pc[r] = "get"
  /\ ~Twice(keys)
  /\ taken \subseteq asked
  /\ IF taken = asked THEN UNCHANGED faults ELSE Fault
  /\ missed' = [missed EXCEPT ![r] = @ \cup (asked \ there)]
  /\ \E here \in Bijection(1 .. Cardinality(there), there) :
       LET found == got[r] \o [i \in DOMAIN here |-> [finding |-> here[i], row |-> rows[here[i]]]]
       IN  /\ got' = [got EXCEPT ![r] = found]
           /\ IF position[r] + GetSize > Len(input[r].ids)
              THEN AfterGet(r, found)
              ELSE Goto(r, "get", position[r] + GetSize) /\ UNCHANGED <<answer, left>>
  /\ UNCHANGED <<tableVars, execution, input, attempts, failed, written, events>>

\* An error of a BatchGet, as for a key that is there twice, is answered as if no
\* finding had been found.
GetFails(r) ==
  /\ pc[r] = "get"
  /\ IF Twice(Keys(r)) THEN UNCHANGED faults ELSE Fault
  /\ Answer(r, 400)
  /\ UNCHANGED <<tableVars, execution, input, position, got, left, attempts, failed, missed,
                 written, events>>

-----------------------------------------------------------------------------
(***************************************************************************)
(* Remediate: executeRemediationWithTracking, executeRemediationWithHistory*)
(***************************************************************************)
Current(r) == got[r][position[r]]
OfCurrent(r) == <<r, Current(r).finding>>

\* The position of the next finding, and the state after the last one.
NextFinding(r, state) ==
  IF position[r] < Len(got[r]) THEN Goto(r, pc[r], position[r] + 1) ELSE Goto(r, state, 1)

\* executeOrchestrator
Start(r) ==
  /\ pc[r] = "start"
  /\ execution' = [execution EXCEPT ![OfCurrent(r)] = "running"]
  /\ NextFinding(r, "record")
  /\ UNCHANGED <<tableVars, input, got, left, attempts, failed, answer, missed, written,
                 events, faults>>

\* Mutant of AfterStartFails: the findings are in progress all the same.
AfterStartFailsUnseen(r) == FALSE

\* What the request goes on with: FAILED, for all of its findings.
AfterStartFails(r) == TRUE

\* The finding's JSON cannot be read, or the call fails; begun: its answer is lost.
\* The executions that were started are forgotten.
StartFails(r, begun) ==
  /\ pc[r] = "start"
  /\ Fault
  /\ execution' = IF begun THEN [execution EXCEPT ![OfCurrent(r)] = "running"] ELSE execution
  /\ failed' = [failed EXCEPT ![r] = AfterStartFails(r)]
  /\ Goto(r, "record", 1)
  /\ UNCHANGED <<tableVars, input, got, left, attempts, answer, missed, written, events>>

\* createRemediationHistoryWithFindingUpdate, one transaction.
Transaction(r) ==
  LET f == Current(r).finding
      status == IF failed[r] THEN Failed ELSE InProgress
  IN
  /\ Change(r, f, SetStatus(Current(r).row, status), LAMBDA row : SetStatus(row, status))
  /\ IF failed[r]
     THEN unnamed' = unnamed \cup {f} /\ UNCHANGED history
     ELSE history' = [history EXCEPT ![<<r, f>>] = status] /\ UNCHANGED unnamed
  /\ written' = [written EXCEPT ![r] = @ \cup {f}]

Record(r) ==
  /\ pc[r] = "record"
  /\ Transaction(r)
  /\ IF position[r] < Len(got[r])
     THEN Goto(r, "record", position[r] + 1) /\ UNCHANGED answer
     ELSE Answer(r, 202) /\ UNCHANGED position
  /\ UNCHANGED <<execution, input, got, left, attempts, failed, missed, events, faults>>

\* It fails, or (applied) seems to: the findings after it are not recorded.
RecordFails(r, applied) ==
  /\ pc[r] = "record"
  /\ Fault
  /\ IF applied THEN Transaction(r) ELSE UNCHANGED <<tableVars, written>>
  /\ Answer(r, 400)
  /\ UNCHANGED <<execution, input, position, got, left, attempts, failed, missed, events>>

-----------------------------------------------------------------------------
(***************************************************************************)
(* Suppress and Unsuppress: putInBatches.                                  *)
(***************************************************************************)

\* The rows of some findings are put.
PutRows(r, processed) ==
  LET flag == input[r].action = "Suppress"
      rowOf == [f \in processed |->
                 got[r][CHOOSE i \in DOMAIN got[r] : got[r][i].finding = f].row]
  IN
  /\ rows' = [f \in Findings |-> IF f \in processed THEN Suppressed(rowOf[f], flag) ELSE rows[f]]
  /\ ideal' = [f \in Findings |->
                IF f \in processed THEN [ideal[f] EXCEPT !.suppressed = flag] ELSE ideal[f]]
  /\ overtaken' = overtaken \cup {f \in processed : \E q \in Requests \ {r} : f \in Pending(q)}
  /\ written' = [written EXCEPT ![r] = @ \cup processed]
  /\ UNCHANGED <<history, unnamed>>

\* Mutant of AfterAttempts: the batch is given up.
AfterAttemptsNext(rest, tries) ==
  IF rest = {} \/ tries = MaxAttempts THEN "next" ELSE "again"

\* Mutant of AfterAttempts: one attempt too many.
AfterAttemptsLate(rest, tries) ==
  IF rest = {} THEN "next" ELSE IF tries > MaxAttempts THEN "error" ELSE "again"

\* After an attempt that left rows unprocessed.
AfterAttempts(rest, tries) ==
  IF rest = {} THEN "next" ELSE IF tries = MaxAttempts THEN "error" ELSE "again"

\* One BatchWrite, of which DynamoDB processes some of the rows.
PutBatch(r, processed) ==
  LET rest == left[r] \ processed
      tries == attempts[r] + 1
      then == AfterAttempts(rest, tries)
      following == position[r] + PutSize
  IN
  /\ pc[r] = "put"
  /\ processed \subseteq left[r]
  /\ PutRows(r, processed)
  /\ attempts' = [attempts EXCEPT ![r] = IF then = "again" THEN tries ELSE 0]
  /\ \/ /\ then = "again"
        /\ left' = [left EXCEPT ![r] = rest]
        /\ UNCHANGED <<pc, position, answer>>
     \/ /\ then = "next" /\ following <= Len(got[r])
        /\ Goto(r, "put", following)
        /\ left' = [left EXCEPT ![r] = Items(got[r], following)]
        /\ UNCHANGED answer
     \/ /\ then = "next" /\ following > Len(got[r])
        /\ Answer(r, 200)
        /\ left' = [left EXCEPT ![r] = {}]
        /\ UNCHANGED position
     \/ /\ then = "error"
        /\ Answer(r, 400)
        /\ left' = [left EXCEPT ![r] = rest]
        /\ UNCHANGED position
  /\ UNCHANGED <<execution, input, got, failed, missed, events, faults>>

\* The call fails, having processed some of the rows.
PutFails(r, processed) ==
  /\ pc[r] = "put"
  /\ Fault
  /\ processed \subseteq left[r]
  /\ PutRows(r, processed)
  /\ Answer(r, 400)
  /\ UNCHANGED <<execution, input, position, got, left, attempts, failed, missed, events>>

\* The function is stopped, when it has run for as long as API Gateway waits.
Timeout(r) ==
  /\ pc[r] \in Steps
  /\ Fault
  /\ Answer(r, 504)
  /\ UNCHANGED <<tableVars, execution, input, position, got, left, attempts, failed, missed,
                 written, events>>

-----------------------------------------------------------------------------
(***************************************************************************)
(* Other writers, each in one step here: SendNotifications, PreProcessor   *)
(* and Synchronization have their steps.                                   *)
(***************************************************************************)

\* An execution ends and its notification updates both tables; without a history
\* item it creates one, and then the finding's row has to exist.
Report(x, status) ==
  LET f == x[2] IN
  /\ execution[x] = "running"
  /\ execution' = [execution EXCEPT ![x] = "ended"]
  /\ history' = [history EXCEPT ![x] = status]
  /\ IF history[x] # None \/ Exists(rows[f])
     THEN Change(None, f, SetStatus(rows[f], status), LAMBDA row : SetStatus(row, status))
     ELSE UNCHANGED <<rows, ideal, overtaken>>
  /\ UNCHANGED <<unnamed, requestVars, events, faults>>

Event ==
  /\ events > 0
  /\ events' = events - 1
  /\ UNCHANGED <<history, unnamed, execution, requestVars, faults>>

\* A finding is updated in Security Hub: its row gets the version, or is made.
Updated(row) == IF Exists(row) THEN [row EXCEPT !.version = @ + 1] ELSE NewRow

Update(f) ==
  /\ Event
  /\ rows[f].version < MaxVersion
  /\ Change(None, f, Updated(rows[f]), Updated)

\* It is closed there, and its row is deleted.
Close(f) ==
  /\ Event
  /\ Exists(rows[f])
  /\ Change(None, f, NoRow, LAMBDA row : NoRow)

-----------------------------------------------------------------------------
\* What the function does next, unless a call fails.
Handle(r) ==
  \/ Receive(r)
  \/ \E taken \in SUBSET Findings : GetBatch(r, taken)
  \/ GetFails(r)
  \/ Start(r)
  \/ Record(r)
  \/ \E processed \in SUBSET Findings : PutBatch(r, processed)

Next ==
  \/ \E r \in Requests :
       \/ Handle(r)
       \/ \E begun \in BOOLEAN : StartFails(r, begun)
       \/ \E applied \in BOOLEAN : RecordFails(r, applied)
       \/ \E processed \in SUBSET Findings : PutFails(r, processed)
       \/ Timeout(r)
  \/ \E x \in Executions, status \in Outcomes : Report(x, status)
  \/ \E f \in Findings : Update(f) \/ Close(f)

Spec == Init /\ [][Next]_vars

-----------------------------------------------------------------------------
TablesOK ==
  /\ rows \in [Findings -> Row \cup {NoRow}]
  /\ ideal \in [Findings -> [version: Nat, status: Statuses \cup {NoRow.status},
                              suppressed: BOOLEAN]]
  /\ history \in [Executions -> Statuses \cup {None}]
  /\ unnamed \cup overtaken \subseteq Findings
  /\ execution \in [Executions -> {"none", "running", "ended"}]

RequestsOK ==
  /\ input \in [Requests -> Input] /\ \A r \in Requests : input[r] \in Inputs[r]
  /\ pc \in [Requests -> Steps \cup {"idle", "answered"}]
  /\ position \in [Requests -> Nat] /\ \A r \in Requests : position[r] \in 1 .. Len(input[r].ids)
  /\ got \in [Requests -> Seq([finding: Findings, row: Row])]
  /\ left \in [Requests -> SUBSET Findings]
  /\ missed \in [Requests -> SUBSET Findings] /\ written \in [Requests -> SUBSET Findings]
  /\ attempts \in [Requests -> 0 .. MaxAttempts - 1]
  /\ failed \in [Requests -> BOOLEAN]
  /\ answer \in [Requests -> Codes \cup {None}]

TypeOK == TablesOK /\ RequestsOK

\* An action answered with success was done to every finding it named that had a row
\* when it was read, but for the keys DynamoDB left unprocessed: no batch, and no row
\* that a batch left unprocessed, is forgotten.
SuccessComplete ==
  \A r \in Requests : answer[r] \in {200, 202} =>
    {input[r].ids[i] : i \in DOMAIN input[r].ids} = missed[r] \cup written[r]

\* An execution that a request started is in the history unless the request is still at
\* work, failed to start another one, was answered with an error or stopped; and only
\* executions that were started are.
ExecutionsTracked ==
  \A r \in Requests, f \in Findings :
    /\ execution[<<r, f>>] # "none" /\ history[<<r, f>>] = None =>
         pc[r] \in {"start", "record"} \/ failed[r] \/ answer[r] \in {400, 504}
    /\ history[<<r, f>>] # None => execution[<<r, f>>] # "none"

\* Writing whole rows undoes the write of another only when that came between the read
\* and the write of a request: otherwise suppressions, statuses and versions are what
\* they would be if each writer wrote only its own attribute.
NothingUndone == \A f \in Findings \ overtaken : rows[f] = ideal[f]

=============================================================================
