-------------------------- MODULE OrchestratorProofs --------------------------
(***************************************************************************)
(* What Orchestrator promises, proved for any executions, findings, bounds *)
(* of retries and faults.                                                  *)
(*                                                                         *)
(* The inductive invariant is typing and four parts: where the state       *)
(* machine of an item stands against what it has invoked (Control), what   *)
(* its notices say (Notified), who can have written its history row        *)
(* (Written), and what that row holds beside the finding's (Agree).        *)
(***************************************************************************)
EXTENDS Orchestrator, FiniteSetTheorems, TLAPS

\* States of an item before an automation may have been started for it.
Before == {"idle", "workflow", "approval", "document", "schedule"}

\* The two notifications of the state machine, and EventBridge's.
Queued(i) == <<i, "queued">>
Final(i) == <<i, "final">>
Event(i) == <<i, "event">>

\* An item that has not been started has no attempts, one that waits for the answer of
\* an attempt monitors nothing yet, and the final notification is that of its last
\* state; a failure event is delivered for executions that have failed.
ControlOf(i) ==
  /\ status[i[1]] = "idle" => pc[i] = "idle" /\ record[i[1]] = "none"
  /\ pc[i] \in Before => attempt[i] = 0
  /\ pc[i] = "remediate" => attempt[i] > 0
  /\ pc[i] \in Before \cup {"remediate"} => monitored[i] = 0 /\ call[Queued(i)].pc = "none"
  /\ pc[i] \in {"queued", "monitor", "ticket"} => monitored[i] > 0
  /\ pc[i] \notin {"final", "done"} => call[Final(i)].pc = "none"
  /\ call[Event(i)].pc # "none" => status[i[1]] = "failed"

Control == \A i \in Items : ControlOf(i)

\* A finding that was resolved when it came.
Resolved(i) == input[i[1]] = [trigger |-> "imported", workflow |-> "RESOLVED"]

\* What the notices of an item's invocations say, and on what grounds.
NotifiedOf(i) ==
  /\ call[Queued(i)].notice = "QUEUED"
  /\ call[Event(i)].pc # "none" => call[Event(i)].notice = "FAILED"
  /\ call[Final(i)].pc # "none" => call[Final(i)].notice # "QUEUED"
  /\ call[Final(i)].notice = "SUCCESS" => AutomationSucceeded(i)
  /\ call[Final(i)].notice = "NOT_NEW" => input[i[1]].trigger = "imported"
  /\ pc[i] = "ticket" => AutomationSucceeded(i)
  /\ history[i] = "SUCCESS" => AutomationSucceeded(i) \/ Resolved(i)

Notified == \A i \in Items : NotifiedOf(i)

\* An invocation that found no history row, and has not written one.
Missed == {"read", "create", "only"}

\* Who can have written the history row of an item.
WrittenOf(i) ==
  /\ history[i] # "NOT_STARTED"
  /\ \A k \in Kinds : call[<<i, k>>].pc = "only" => history[i] # None
  /\ pc[i] \in {"monitor", "ticket", "final", "done"} /\ faults = 0 => ~Active(Queued(i))
  /\ call[Final(i)].pc \in Missed /\ history[i] = "IN_PROGRESS" =>
       record[i[1]] = "written" \/ Disturbed(i[1])
  /\ history[i] = "SUCCESS" => call[Final(i)].pc # "none"
  /\ history[i] \in Outcomes /\ call[Event(i)].pc = "none" =>
       call[Final(i)].pc \notin Missed \cup {"none"}

Written == \A i \in Items : WrittenOf(i)

-----------------------------------------------------------------------------
(***************************************************************************)
(* Items, invocations and calls.                                           *)
(***************************************************************************)

\* An item is an execution and one of its findings.
LEMMA ItemParts ==
  ASSUME NEW i \in Items
  PROVE  /\ i[1] \in Executions
         /\ i[2] \in Findings
         /\ i = <<i[1], i[2]>>
  BY DEF Items

\* An execution has the item of its first finding.
LEMMA FirstItem ==
  ASSUME NEW e \in Executions
  PROVE  <<e, FirstOf[e]>> \in Items /\ FirstOf[e] \in Findings
  BY NotificationAssumption DEF Items

\* An invocation is an item and a kind.
LEMMA InvocationParts ==
  ASSUME NEW c \in Invocations
  PROVE  /\ c[1] \in Items
         /\ c[2] \in Kinds
         /\ c = <<c[1], c[2]>>
  BY DEF Invocations

\* Each item has an invocation of each kind.
LEMMA ItemInvocations ==
  ASSUME NEW i \in Items, NEW k \in Kinds
  PROVE  <<i, k>> \in Invocations
  BY DEF Invocations

\* A call as TypeOK has it.
Call == [pc: Steps \cup {"none", "returned", "failed"}, notice: Notices, found: BOOLEAN]

\* Moving a call on.
LEMMA MovedType ==
  ASSUME NEW r \in Call, NEW p \in Steps \cup {"returned", "failed"}, NEW b \in BOOLEAN
  PROVE  /\ \E new \in Call : new = [r EXCEPT !.pc = p] /\ new.pc = p /\ new.notice = r.notice
         /\ \E new \in Call : new = [r EXCEPT !.pc = p, !.found = b] /\ new.pc = p /\ new.notice = r.notice
  <1>1. /\ [r EXCEPT !.pc = p] \in Call
        /\ [r EXCEPT !.pc = p].pc = p
        /\ [r EXCEPT !.pc = p].notice = r.notice
    BY DEF Call
  <1>2. /\ [r EXCEPT !.pc = p, !.found = b] \in Call
        /\ [r EXCEPT !.pc = p, !.found = b].pc = p
        /\ [r EXCEPT !.pc = p, !.found = b].notice = r.notice
    BY DEF Call
  <1> QED BY <1>1, <1>2

\* A new call is one, and it is active.
LEMMA CalledType ==
  ASSUME NEW notice \in Notices
  PROVE  /\ Called(notice) \in Call
         /\ Called(notice).pc \in {"publish", "flag"}
         /\ Called(notice).notice = notice
  BY DEF Called, Call, Steps

\* The status that a notice is reported as.
LEMMA StatusOfCases ==
  ASSUME NEW e \in Executions, NEW notice \in Notices
  PROVE  /\ StatusOf(e, notice) \in Outcomes \cup {"IN_PROGRESS"}
         /\ StatusOf(e, notice) = "IN_PROGRESS" <=> notice = "QUEUED"
         /\ StatusOf(e, notice) = "SUCCESS" =>
              notice = "SUCCESS" \/ (notice = "NOT_NEW" /\ input[e].workflow = "RESOLVED")
         /\ notice = "FAILED" => StatusOf(e, notice) = "FAILED"
  <1>1. CASE notice = "QUEUED"
    <2>1. StatusOf(e, notice) = "IN_PROGRESS"
      BY <1>1, Zenon DEF StatusOf
    <2> QED BY <1>1, <2>1 DEF Outcomes
  <1>2. CASE notice = "NOT_NEW"
    <2>1. StatusOf(e, notice) = IF input[e].workflow = "RESOLVED" THEN "SUCCESS" ELSE "FAILED"
      BY <1>2 DEF StatusOf
    <2> QED BY <1>2, <2>1 DEF Outcomes
  <1>3. CASE notice \in {"SUCCESS", "FAILED"}
    <2>1. StatusOf(e, notice) = notice
      BY <1>3 DEF StatusOf
    <2> QED BY <1>3, <2>1 DEF Outcomes
  <1> QED BY <1>1, <1>2, <1>3 DEF Notices

\* A call that is moved on keeps its notice.
MovedOn(c) ==
  \E new \in Call :
    /\ call' = [call EXCEPT ![c] = new]
    /\ new.pc \in Steps \cup {"returned", "failed"}
    /\ new.notice = call[c].notice

\* A step of the function: it moves one active call on and keeps its notice, and
\* touches nothing of the state machine.
LEMMA NotificationStep ==
  ASSUME TypeOK, NEW c \in Invocations, Notification(c)
  PROVE  /\ Active(c)
         /\ MovedOn(c)
         /\ faults' \in {faults, faults + 1}
         /\ faults' \in 0 .. MaxFaults
         /\ UNCHANGED <<input, machineVars>>
  <1>a. call[c] \in Call /\ faults \in 0 .. MaxFaults /\ MaxFaults \in Nat
    BY NotificationAssumption DEF TypeOK, Call
  <1>b. Fault => faults' = faults + 1 /\ faults' \in 0 .. MaxFaults
    BY <1>a DEF Fault
  <1>c. UNCHANGED machineVars
    BY DEF Notification
  <1>1. ASSUME NEW p \in Steps \cup {"returned", "failed"}, Goto(c, p)
        PROVE  MovedOn(c)
    <2>1. call' = [call EXCEPT ![c] = [call[c] EXCEPT !.pc = p]]
      BY <1>1 DEF Goto
    <2>2. PICK new \in Call : new = [call[c] EXCEPT !.pc = p] /\ new.pc = p /\ new.notice = call[c].notice
      BY <1>a, MovedType
    <2> QED BY <2>1, <2>2 DEF MovedOn
  <1>2. AfterUpdate(c) \in Steps \cup {"returned", "failed"}
    BY DEF AfterUpdate, Steps
  <1> USE <1>a, <1>b, <1>c DEF Active, Steps
  <1>3. CASE Flag(c)
    BY <1>1, <1>3 DEF Flag
  <1>4. CASE Publish(c)
    BY <1>1, <1>2, <1>4 DEF Publish
  <1>5. CASE Update(c)
    BY <1>1, <1>2, <1>5 DEF Update
  <1>6. CASE ReadFinding(c)
    <2>1. ASSUME NEW b \in BOOLEAN, call' = [call EXCEPT ![c].pc = "create", ![c].found = b]
          PROVE  MovedOn(c)
      <3>1. call' = [call EXCEPT ![c] = [call[c] EXCEPT !.pc = "create", !.found = b]]
        BY <2>1
      <3>2. PICK new \in Call : new = [call[c] EXCEPT !.pc = "create", !.found = b] /\ new.pc = "create" /\ new.notice = call[c].notice
        BY MovedType
      <3> QED BY <3>1, <3>2 DEF MovedOn
    <2> QED BY <1>6, <2>1 DEF ReadFinding
  <1>7. CASE CreateHistory(c)
    BY <1>1, <1>2, <1>7 DEF CreateHistory
  <1>8. CASE UpdateFindingOnly(c)
    BY <1>1, <1>2, <1>8 DEF UpdateFindingOnly
  <1>9. CASE Resolve(c)
    BY <1>1, <1>9 DEF Resolve
  <1>10. CASE UpdateLost(c)
    BY <1>1, <1>2, <1>10 DEF UpdateLost
  <1>11. CASE InvocationFails(c)
    BY <1>1, <1>11 DEF InvocationFails
  <1> QED BY <1>3, <1>4, <1>5, <1>6, <1>7, <1>8, <1>9, <1>10, <1>11 DEF Notification, SendNotification

-----------------------------------------------------------------------------
(***************************************************************************)
(* Typing, which needs Control for the number of attempts.                 *)
(***************************************************************************)

\* The initial state.
LEMMA InitTyped == Init => TypeOK /\ Control
  <1> SUFFICES ASSUME Init PROVE TypeOK /\ Control
    OBVIOUS
  <1>1. TypeOK
    BY NotificationAssumption, OrchestratorAssumption
       DEF Init, StatusInit, TypeOK, NoCall, Notices, Row, Statuses, States, Progress, Steps
  <1>2. Control
    <2> SUFFICES ASSUME NEW i \in Items PROVE ControlOf(i)
      BY DEF Control
    <2>1. \A k \in Kinds : call[<<i, k>>].pc = "none"
      BY ItemInvocations DEF Init, StatusInit, NoCall
    <2> QED BY <2>1, ItemParts DEF Init, ControlOf, Kinds, Queued, Final, Event, Before
  <1> QED BY <1>1, <1>2

\* Entering a state, whether it invokes the function or not.
LEMMA EnterType ==
  ASSUME TypeOK, NEW i \in Items, NEW state \in States
  PROVE  /\ Enter(i, state) => pc' \in [Items -> States]
         /\ \A notice \in Notices : EnterNotify(i, state, notice) /\ state \in Kinds =>
              call' \in [Invocations -> Call] /\ pc' \in [Items -> States]
         /\ UNCHANGED call => call' \in [Invocations -> Call]
  <1>1. call \in [Invocations -> Call]
    BY DEF TypeOK, Call
  <1>2. Enter(i, state) => pc' \in [Items -> States]
    BY DEF Enter, TypeOK
  <1>3. ASSUME NEW notice \in Notices, EnterNotify(i, state, notice), state \in Kinds
        PROVE  call' \in [Invocations -> Call] /\ pc' \in [Items -> States]
    <2>1. <<i, state>> \in Invocations /\ Called(notice) \in Call
      BY <1>3, ItemInvocations, CalledType
    <2> QED BY <1>1, <1>2, <1>3, <2>1 DEF EnterNotify
  <1> QED BY <1>1, <1>2, <1>3

\* An item that waits for the answer of an attempt has made it.
LEMMA AttemptType ==
  ASSUME TypeOK, Control, NEW i \in Items
  PROVE  /\ attempt[i] \in 0 .. MaxStarts
         /\ pc[i] = "remediate" => attempt[i] \in 1 .. MaxStarts
         /\ pc[i] \in Before => attempt[i] = 0
         /\ MaxStarts \in Nat /\ 1 \in 1 .. MaxStarts
  BY OrchestratorAssumption DEF TypeOK, Control, ControlOf

LEMMA TypeNext ==
  ASSUME TypeOK, Control, [Next]_vars
  PROVE  TypeOK'
  <1> USE ItemParts, NotificationAssumption, OrchestratorAssumption
  <1>1. ASSUME NEW e \in Executions, StartExecution(e)
        PROVE  TypeOK'
    BY <1>1, FirstItem DEF TypeOK, StartExecution, States, Row, Statuses, Input
  <1>2. ASSUME NEW e \in Executions, RecordStarted(e)
        PROVE  TypeOK'
    BY <1>2, FirstItem DEF TypeOK, RecordStarted, PutStarted, Row, Statuses
  <1>3. ASSUME NEW e \in Executions, RecordFails(e)
        PROVE  TypeOK'
    <2>1. rows' \in [Findings -> Row \cup {None}]
      <3>1. [status |-> "FAILED", execution |-> None] \in Row
        BY DEF Row, Statuses, Outcomes
      <3>2. UNCHANGED rows \/ rows' = [rows EXCEPT ![FirstOf[e]] = [status |-> "FAILED", execution |-> None]]
        BY <1>3 DEF RecordFails
      <3>3. rows \in [Findings -> Row \cup {None}] /\ FirstOf[e] \in Findings
        BY FirstItem DEF TypeOK
      <3>4. CASE UNCHANGED rows
        BY <3>3, <3>4
      <3>5. CASE rows' = [rows EXCEPT ![FirstOf[e]] = [status |-> "FAILED", execution |-> None]]
        BY <3>1, <3>3, <3>5
      <3> QED BY <3>2, <3>4, <3>5
    <2> QED BY <1>3, <2>1 DEF TypeOK, RecordFails, Fault
  <1>4. ASSUME NEW e \in Executions, TimesOut(e)
        PROVE  TypeOK'
    BY <1>4 DEF TypeOK, TimesOut, Fail, statusVars
  <1>5. ASSUME NEW e \in Executions, DeliverEvent(e)
        PROVE  TypeOK'
    <2>1. EventCall(e) \in Invocations
      BY FirstItem, ItemInvocations DEF EventCall, Kinds
    <2>2. Called("FAILED") \in Call
      BY CalledType DEF Notices
    <2>3. deliveries' \in [Executions -> 0 .. MaxDeliveries]
      BY <1>5 DEF DeliverEvent, Redelivered, TypeOK
    <2> QED BY <1>5, <2>1, <2>2, <2>3 DEF TypeOK, DeliverEvent, tables, Call
  <1>6. ASSUME NEW i \in Items, NEW n \in 1 .. MaxStarts, StartAutomation(i, n) \/ AutomationEnds(i, n)
        PROVE  TypeOK'
    <2>1. PICK p \in Progress : automation' = [automation EXCEPT ![i][n] = p]
      BY <1>6, OrchestratorAssumption DEF StartAutomation, AutomationEnds, Progress, Ended
    <2>2. automation' \in [Items -> [1 .. MaxStarts -> Progress]]
      BY <2>1 DEF TypeOK
    <2> QED BY <1>6, <2>2 DEF TypeOK, StartAutomation, AutomationEnds, statusVars
  <1>7. ASSUME NEW f \in Findings, Closes, RowDeleted(f), UNCHANGED machineVars
        PROVE  TypeOK'
    BY <1>7 DEF TypeOK, RowDeleted, machineVars
  <1>8. ASSUME NEW c \in Invocations, Notification(c)
        PROVE  TypeOK'
    <2>1. /\ Active(c) /\ MovedOn(c)
          /\ faults' \in 0 .. MaxFaults
          /\ UNCHANGED <<input, machineVars>>
      BY <1>8, NotificationStep
    <2>2. call' \in [Invocations -> Call]
      BY <2>1 DEF MovedOn, TypeOK, Call
    <2>3. /\ c[1] \in Items /\ c[1][1] \in Executions /\ c[1][2] \in Findings
          /\ call[c].notice \in Notices
      BY InvocationParts DEF TypeOK
    <2>4. Reported(c) \in Row
      BY <2>3, StatusOfCases DEF Reported, Row, Statuses
    <2>5. /\ history' \in [Items -> Statuses \cup {None}]
          /\ rows' \in [Findings -> Row \cup {None}]
      <3>1. /\ history \in [Items -> Statuses \cup {None}]
            /\ rows \in [Findings -> Row \cup {None}]
            /\ Reported(c).status \in Statuses
        BY <2>4 DEF TypeOK, Row
      <3>2. CASE Update(c)
        BY <2>3, <2>4, <3>1, <3>2 DEF Update
      <3>3. CASE CreateHistory(c)
        BY <2>3, <2>4, <3>1, <3>3 DEF CreateHistory
      <3>4. CASE UpdateFindingOnly(c)
        BY <2>3, <2>4, <3>1, <3>4 DEF UpdateFindingOnly
      <3>5. ASSUME UNCHANGED <<history, rows>>
            PROVE  /\ history' \in [Items -> Statuses \cup {None}]
                   /\ rows' \in [Findings -> Row \cup {None}]
        BY <3>1, <3>5
      <3> QED BY <1>8, <3>2, <3>3, <3>4, <3>5 DEF Notification, SendNotification, Flag, Publish,
         ReadFinding, Resolve, UpdateLost, InvocationFails
    <2>6. /\ hub' \in [Findings -> {"NEW", "NOTIFIED", "RESOLVED"}]
          /\ told' \in [Items -> SUBSET Notices]
      <3>1. /\ hub \in [Findings -> {"NEW", "NOTIFIED", "RESOLVED"}]
            /\ told \in [Items -> SUBSET Notices]
        BY DEF TypeOK
      <3>2. CASE Flag(c) \/ Resolve(c)
        BY <2>3, <3>1, <3>2 DEF Flag, Resolve
      <3>3. CASE Publish(c)
        BY <2>3, <3>1, <3>3 DEF Publish
      <3>4. ASSUME UNCHANGED <<hub, told>>
            PROVE  /\ hub' \in [Findings -> {"NEW", "NOTIFIED", "RESOLVED"}]
                   /\ told' \in [Items -> SUBSET Notices]
        BY <3>1, <3>4
      <3> QED BY <1>8, <3>2, <3>3, <3>4 DEF Notification, SendNotification, Update,
         ReadFinding, CreateHistory, UpdateFindingOnly, UpdateLost, InvocationFails
    <2> QED BY <2>1, <2>2, <2>5, <2>6 DEF TypeOK, Call, machineVars
  <1>9. ASSUME NEW i \in Items, Step(i)
        PROVE  TypeOK'
    <2>a. {"NOT_NEW", "FAILED", "QUEUED", "SUCCESS"} \subseteq Notices /\ {"final", "queued"} \subseteq Kinds
      BY DEF Notices, Kinds
    <2>b. {"approval", "document", "schedule", "remediate", "queued", "monitor", "ticket", "final", "done"} \subseteq States
      BY DEF States
    <2> USE <2>a, <2>b, EnterType DEF tables
    <2>1. CASE CheckWorkflow(i)
      <3>1. call' \in [Invocations -> Call] /\ pc' \in [Items -> States]
        <4>1. \/ Enter(i, "approval") /\ UNCHANGED call
              \/ EnterNotify(i, "final", "NOT_NEW")
          BY <2>1, Zenon DEF CheckWorkflow
        <4> QED BY <4>1
      <3> QED BY <2>1, <3>1 DEF TypeOK, Call, CheckWorkflow
    <2>2. CASE GetApproval(i)
      BY <2>2 DEF TypeOK, GetApproval
    <2>3. ASSUME NEW doc \in Documents, CheckDocument(i, doc)
          PROVE  TypeOK'
      <3>1. call' \in [Invocations -> Call] /\ pc' \in [Items -> States]
        <4>1. \/ Enter(i, "schedule") /\ UNCHANGED call
              \/ EnterNotify(i, "final", "FAILED")
          BY <2>3, Zenon DEF CheckDocument
        <4> QED BY <4>1
      <3> QED BY <2>3, <3>1 DEF TypeOK, Call, CheckDocument
    <2>4. CASE Scheduled(i)
      <3>1. /\ attempt' = [attempt EXCEPT ![i] = 1]
            /\ automation' = [automation EXCEPT ![i][1] = "invoked"]
        <4>1. attempt[i] = 0
          BY <2>4, AttemptType DEF Scheduled, In, Before
        <4> QED BY <2>4, <4>1 DEF Scheduled, Invoke, TypeOK
      <3>2. /\ attempt' \in [Items -> 0 .. MaxStarts]
            /\ automation' \in [Items -> [1 .. MaxStarts -> Progress]]
        BY <3>1 DEF TypeOK, Progress
      <3> QED BY <2>4, <3>2 DEF TypeOK, Scheduled
    <2>5. CASE RemediationQueued(i)
      <3>1. call' \in [Invocations -> Call] /\ pc' \in [Items -> States]
        BY <2>5 DEF RemediationQueued
      <3> QED BY <2>5, <3>1 DEF TypeOK, Call, RemediationQueued
    <2>6. CASE RemediateFails(i)
      <3> DEFINE n == attempt[i]
                 left == IF automation[i][n] = "invoked" THEN "lost" ELSE automation[i][n]
                 alive == [automation EXCEPT ![i][n] = left]
      <3>1. n \in 1 .. MaxStarts
        BY <2>6, AttemptType DEF RemediateFails, In
      <3>2. alive \in [Items -> [1 .. MaxStarts -> Progress]]
        BY <3>1 DEF TypeOK, Progress
      <3>3. PICK others \in {alive} \cup (IF Timeouts THEN {automation} ELSE {}) :
              IF Retried(i)
              THEN /\ attempt' = [attempt EXCEPT ![i] = n + 1]
                   /\ automation' = [others EXCEPT ![i][n + 1] = "invoked"]
                   /\ UNCHANGED <<pc, call>>
              ELSE /\ automation' = others
                   /\ EnterNotify(i, "final", "FAILED")
                   /\ UNCHANGED attempt
        BY <2>6 DEF RemediateFails
      <3>4. others \in [Items -> [1 .. MaxStarts -> Progress]]
        BY <3>2, <3>3 DEF TypeOK
      <3> HIDE DEF alive, left
      <3>5. automation' \in [Items -> [1 .. MaxStarts -> Progress]]
        <4>1. CASE Retried(i)
          <5>1. n + 1 \in 1 .. MaxStarts
            BY <3>1, <4>1 DEF Retried
          <5>2. automation' = [others EXCEPT ![i][n + 1] = "invoked"]
            BY <3>3, <4>1
          <5> HIDE DEF n
          <5> QED BY <3>4, <5>1, <5>2 DEF Progress
        <4>2. CASE ~Retried(i)
          BY <3>3, <3>4, <4>2
        <4> QED BY <4>1, <4>2
      <3>6. attempt' \in [Items -> 0 .. MaxStarts]
        <4>1. CASE Retried(i)
          BY <3>1, <3>3, <4>1 DEF TypeOK, Retried
        <4>2. CASE ~Retried(i)
          BY <3>3, <4>2 DEF TypeOK
        <4> QED BY <4>1, <4>2
      <3>7. call' \in [Invocations -> Call] /\ pc' \in [Items -> States]
        <4>1. CASE Retried(i)
          BY <3>3, <4>1 DEF TypeOK
        <4>2. CASE ~Retried(i)
          BY <3>3, <4>2
        <4> QED BY <4>1, <4>2
      <3>8. UNCHANGED <<tables, status, record, document, monitored, deliveries>> /\ Fault
        BY <2>6 DEF RemediateFails
      <3>9. faults' \in 0 .. MaxFaults
        BY <3>8 DEF TypeOK, Fault
      <3> QED BY <3>5, <3>6, <3>7, <3>8, <3>9 DEF TypeOK, Call
    <2>7. CASE Monitor(i)
      BY <2>7 DEF TypeOK, Monitor
    <2>8. CASE Completed(i)
      <3>1. \/ EnterNotify(i, "final", "SUCCESS")
            \/ EnterNotify(i, "final", "FAILED")
            \/ Enter(i, "ticket") /\ UNCHANGED call
        BY <2>8 DEF Completed, Verdict
      <3>2. call' \in [Invocations -> Call] /\ pc' \in [Items -> States]
        BY <3>1
      <3> QED BY <2>8, <3>2 DEF TypeOK, Call, Completed
    <2>9. CASE GenerateTicket(i)
      <3>1. call' \in [Invocations -> Call] /\ pc' \in [Items -> States]
        BY <2>9 DEF GenerateTicket
      <3> QED BY <2>9, <3>1 DEF TypeOK, Call, GenerateTicket
    <2>10. CASE TaskFails(i)
      <3>1. call' \in [Invocations -> Call] /\ pc' \in [Items -> States]
        BY <2>10 DEF TaskFails
      <3> QED BY <2>10, <3>1 DEF TypeOK, Call, TaskFails, Fault
    <2>11. CASE Done(i)
      BY <2>11 DEF TypeOK, Done
    <2>12. CASE NotifyFails(i)
      BY <2>12 DEF TypeOK, NotifyFails, Fail, Fault
    <2> QED BY <1>9, <2>1, <2>2, <2>3, <2>4, <2>5, <2>6, <2>7, <2>8, <2>9, <2>10, <2>11, <2>12 DEF Step
  <1>10. CASE UNCHANGED vars
    BY <1>10 DEF TypeOK, vars, statusVars, machineVars
  <1> QED BY <1>1, <1>2, <1>3, <1>4, <1>5, <1>6, <1>7, <1>8, <1>9, <1>10 DEF Next

\* The invocations of two items are different.
LEMMA Invoked ==
  ASSUME NEW i \in Items
  PROVE  /\ Queued(i) \in Invocations /\ Final(i) \in Invocations /\ Event(i) \in Invocations
         /\ Queued(i) = <<i, "queued">> /\ Final(i) = <<i, "final">> /\ Event(i) = <<i, "event">>
         /\ \A j \in Items : /\ Queued(i) # Final(j) /\ Queued(i) # Event(j) /\ Final(i) # Event(j)
                             /\ i # j => Queued(i) # Queued(j) /\ Final(i) # Final(j) /\ Event(i) # Event(j)
  BY ItemInvocations DEF Queued, Final, Event, Kinds

\* Entering a state leaves the other items alone.
LEMMA EnterEffect ==
  ASSUME TypeOK, NEW i \in Items, NEW state, Enter(i, state)
  PROVE  /\ pc'[i] = state
         /\ \A j \in Items : j # i => pc'[j] = pc[j]
  BY DEF TypeOK, Enter

\* The calls of an item stay as they are.
SameCalls(i) ==
  /\ call'[Queued(i)] = call[Queued(i)]
  /\ call'[Final(i)] = call[Final(i)]
  /\ call'[Event(i)] = call[Event(i)]

\* The final notification is invoked for one item.
LEMMA EnterFinal ==
  ASSUME TypeOK, NEW i \in Items, NEW notice \in Notices, EnterNotify(i, "final", notice)
  PROVE  /\ pc'[i] = "final"
         /\ call'[Final(i)].notice = notice /\ call'[Final(i)].pc \in {"publish", "flag"}
         /\ call'[Queued(i)] = call[Queued(i)] /\ call'[Event(i)] = call[Event(i)]
         /\ \A j \in Items : j # i => pc'[j] = pc[j] /\ SameCalls(j)
  <1>1. call' = [call EXCEPT ![Final(i)] = Called(notice)]
    BY Invoked DEF EnterNotify
  <1>2. call'[Final(i)] = Called(notice) /\ \A c \in Invocations : c # Final(i) => call'[c] = call[c]
    BY <1>1, Invoked DEF TypeOK
  <1>3. \A j \in Items : j # i => pc'[j] = pc[j] /\ SameCalls(j)
    BY <1>2, Invoked, EnterEffect DEF EnterNotify, SameCalls
  <1> QED BY <1>2, <1>3, Invoked, EnterEffect, CalledType DEF EnterNotify

\* The queued notification is invoked for one item.
LEMMA EnterQueued ==
  ASSUME TypeOK, NEW i \in Items, EnterNotify(i, "queued", "QUEUED")
  PROVE  /\ pc'[i] = "queued"
         /\ call'[Queued(i)].notice = "QUEUED" /\ call'[Queued(i)].pc \in {"publish", "flag"}
         /\ call'[Final(i)] = call[Final(i)] /\ call'[Event(i)] = call[Event(i)]
         /\ \A j \in Items : j # i => pc'[j] = pc[j] /\ SameCalls(j)
  <1>1. call' = [call EXCEPT ![Queued(i)] = Called("QUEUED")]
    BY Invoked DEF EnterNotify
  <1>2. call'[Queued(i)] = Called("QUEUED") /\ \A c \in Invocations : c # Queued(i) => call'[c] = call[c]
    BY <1>1, Invoked DEF TypeOK
  <1>3. \A j \in Items : j # i => pc'[j] = pc[j] /\ SameCalls(j)
    BY <1>2, Invoked, EnterEffect DEF EnterNotify, SameCalls
  <1> QED BY <1>2, <1>3, Invoked, EnterEffect, CalledType DEF EnterNotify, Notices

LEMMA ControlNext ==
  ASSUME TypeOK, TypeOK', Control, [Next]_vars
  PROVE  Control'
  <1> SUFFICES ASSUME NEW j \in Items PROVE ControlOf(j)'
    BY DEF Control
  <1>a. /\ ControlOf(j)
        /\ j[1] \in Executions
        /\ pc \in [Items -> States] /\ status \in [Executions -> {"idle", "running", "succeeded", "failed"}]
        /\ attempt \in [Items -> 0 .. MaxStarts] /\ monitored \in [Items -> 0 .. MaxStarts]
        /\ call \in [Invocations -> Call]
        /\ record \in [Executions -> {"none", "owed", "written", "failed"}]
    BY ItemParts DEF Control, TypeOK, Call
  <1>b. {"NOT_NEW", "FAILED", "QUEUED", "SUCCESS"} \subseteq Notices /\ Kinds = {"queued", "final", "event"}
    BY DEF Notices, Kinds
  <1> USE <1>a
  <1>1. ASSUME NEW e \in Executions, StartExecution(e)
        PROVE  ControlOf(j)'
    BY <1>1 DEF StartExecution, ControlOf, Before
  <1>2. ASSUME NEW e \in Executions, RecordStarted(e) \/ RecordFails(e)
        PROVE  ControlOf(j)'
    BY <1>2 DEF RecordStarted, RecordFails, ControlOf
  <1>3. ASSUME NEW e \in Executions, TimesOut(e)
        PROVE  ControlOf(j)'
    BY <1>3 DEF TimesOut, Fail, statusVars, ControlOf
  <1>4. ASSUME NEW e \in Executions, DeliverEvent(e)
        PROVE  ControlOf(j)'
    <2>1. EventCall(e) = Event(<<e, FirstOf[e]>>) /\ <<e, FirstOf[e]>> \in Items
      BY FirstItem DEF EventCall, Event
    <2>2. /\ call'[Queued(j)] = call[Queued(j)] /\ call'[Final(j)] = call[Final(j)]
          /\ j[1] # e => call'[Event(j)] = call[Event(j)]
      BY <1>4, <2>1, Invoked DEF DeliverEvent
    <2> QED BY <1>4, <2>2 DEF DeliverEvent, ControlOf
  <1>5. ASSUME NEW i \in Items, NEW n \in 1 .. MaxStarts, StartAutomation(i, n) \/ AutomationEnds(i, n)
        PROVE  ControlOf(j)'
    BY <1>5 DEF StartAutomation, AutomationEnds, statusVars, ControlOf
  <1>6. ASSUME NEW f \in Findings, Closes, RowDeleted(f), UNCHANGED machineVars
        PROVE  ControlOf(j)'
    BY <1>6 DEF RowDeleted, machineVars, ControlOf
  <1>7. ASSUME NEW c \in Invocations, Notification(c)
        PROVE  ControlOf(j)'
    <2>1. Active(c) /\ MovedOn(c) /\ UNCHANGED machineVars
      BY <1>7, NotificationStep DEF machineVars
    <2>2. \A d \in Invocations : call[d].pc = "none" => call'[d].pc = "none"
      BY <2>1 DEF MovedOn, Active, Steps
    <2> QED BY <2>1, <2>2, Invoked DEF ControlOf, machineVars
  <1>8. ASSUME NEW i \in Items, Step(i)
        PROVE  ControlOf(j)'
    <2> USE <1>b, EnterEffect, EnterFinal, EnterQueued DEF ControlOf, Before, tables, In, SameCalls
    <2>1. CASE CheckWorkflow(i)
      <3>1. \/ Enter(i, "approval") /\ UNCHANGED call
            \/ EnterNotify(i, "final", "NOT_NEW")
        BY <2>1, Zenon DEF CheckWorkflow
      <3> QED BY <2>1, <3>1 DEF CheckWorkflow
    <2>2. CASE GetApproval(i)
      BY <2>2 DEF GetApproval
    <2>3. ASSUME NEW doc \in Documents, CheckDocument(i, doc)
          PROVE  ControlOf(j)'
      <3>1. \/ Enter(i, "schedule") /\ UNCHANGED call
            \/ EnterNotify(i, "final", "FAILED")
        BY <2>3, Zenon DEF CheckDocument
      <3> QED BY <2>3, <3>1 DEF CheckDocument
    <2>4. CASE Scheduled(i)
      BY <2>4 DEF Scheduled, Invoke
    <2>5. CASE RemediationQueued(i)
      BY <2>5 DEF RemediationQueued
    <2>6. CASE RemediateFails(i)
      <3>1. \/ attempt' = [attempt EXCEPT ![i] = attempt[i] + 1] /\ UNCHANGED <<pc, call>>
            \/ EnterNotify(i, "final", "FAILED") /\ UNCHANGED attempt
        BY <2>6 DEF RemediateFails
      <3> QED BY <2>6, <3>1 DEF RemediateFails
    <2>7. CASE Monitor(i)
      BY <2>7 DEF Monitor
    <2>8. CASE Completed(i)
      <3>1. \/ EnterNotify(i, "final", "SUCCESS")
            \/ EnterNotify(i, "final", "FAILED")
            \/ Enter(i, "ticket") /\ UNCHANGED call
        BY <2>8 DEF Completed, Verdict
      <3> QED BY <2>8, <3>1 DEF Completed
    <2>9. CASE GenerateTicket(i)
      BY <2>9 DEF GenerateTicket
    <2>10. CASE TaskFails(i)
      BY <2>10 DEF TaskFails
    <2>11. CASE Done(i)
      BY <2>11 DEF Done
    <2>12. CASE NotifyFails(i)
      BY <2>12 DEF NotifyFails, Fail
    <2> QED BY <1>8, <2>1, <2>2, <2>3, <2>4, <2>5, <2>6, <2>7, <2>8, <2>9, <2>10, <2>11, <2>12 DEF Step
  <1>9. CASE UNCHANGED vars
    BY <1>9 DEF ControlOf, vars, statusVars, machineVars
  <1> QED BY <1>1, <1>2, <1>3, <1>4, <1>5, <1>6, <1>7, <1>8, <1>9 DEF Next

-----------------------------------------------------------------------------
(***************************************************************************)
(* What is said of an item's automation.                                   *)
(***************************************************************************)

\* No step of the function changes what an invocation says, or makes one.
LEMMA SameNotices ==
  ASSUME TypeOK, NEW c \in Invocations, Notification(c), NEW d \in Invocations
  PROVE  /\ call'[d].notice = call[d].notice
         /\ call'[d].pc = "none" <=> call[d].pc = "none"
         /\ d # c => call'[d] = call[d]
  BY NotificationStep DEF TypeOK, MovedOn, Active, Steps

\* Once the automation that is monitored has succeeded it stays so: no attempt is made
\* any more, and what has ended does not change.
LEMMA SucceededStable ==
  ASSUME TypeOK, Control, [Next]_vars, NEW j \in Items, AutomationSucceeded(j)
  PROVE  AutomationSucceeded(j)'
  <1>a. /\ automation \in [Items -> [1 .. MaxStarts -> Progress]]
        /\ monitored \in [Items -> 0 .. MaxStarts]
        /\ monitored[j] \in 1 .. MaxStarts
        /\ automation[j][monitored[j]] \in Ended \ {"failed"}
        /\ pc[j] \notin Before \cup {"remediate"}
    BY OrchestratorAssumption DEF TypeOK, AutomationSucceeded, Control, ControlOf
  <1>b. ASSUME UNCHANGED monitored, automation'[j] = automation[j]
        PROVE  AutomationSucceeded(j)'
    BY <1>a, <1>b DEF AutomationSucceeded
  <1>c. ASSUME UNCHANGED <<monitored, automation>>
        PROVE  AutomationSucceeded(j)'
    BY <1>b, <1>c
  <1>1. ASSUME NEW e \in Executions,
               StartExecution(e) \/ RecordStarted(e) \/ RecordFails(e) \/ TimesOut(e) \/ DeliverEvent(e)
        PROVE  AutomationSucceeded(j)'
    BY <1>1, <1>c DEF StartExecution, RecordStarted, RecordFails, TimesOut, DeliverEvent
  <1>2. ASSUME NEW i \in Items, NEW n \in 1 .. MaxStarts, StartAutomation(i, n) \/ AutomationEnds(i, n)
        PROVE  AutomationSucceeded(j)'
    <2>1. /\ automation[i][n] \in {"invoked", "running"}
          /\ \E p : automation' = [automation EXCEPT ![i][n] = p]
          /\ UNCHANGED monitored
      BY <1>2 DEF StartAutomation, AutomationEnds
    <2>2. automation'[j][monitored[j]] = automation[j][monitored[j]]
      BY <1>a, <2>1 DEF Ended
    <2> QED BY <1>a, <2>1, <2>2 DEF AutomationSucceeded
  <1>3. ASSUME NEW f \in Findings, Closes, RowDeleted(f), UNCHANGED machineVars
        PROVE  AutomationSucceeded(j)'
    BY <1>3, <1>c DEF machineVars
  <1>4. ASSUME NEW c \in Invocations, Notification(c)
        PROVE  AutomationSucceeded(j)'
    BY <1>4, <1>c DEF Notification, machineVars
  <1>5. ASSUME NEW i \in Items, Step(i)
        PROVE  AutomationSucceeded(j)'
    <2>1. CASE Scheduled(i)
      BY <1>a, <1>b, <2>1 DEF Scheduled, Invoke, In, Before
    <2>2. CASE RemediationQueued(i)
      BY <1>a, <2>2 DEF RemediationQueued, In, AutomationSucceeded
    <2>3. CASE RemediateFails(i)
      <3> DEFINE n == attempt[i]
                 left == IF automation[i][n] = "invoked" THEN "lost" ELSE automation[i][n]
      <3>1. i # j /\ UNCHANGED monitored
        BY <1>a, <2>3 DEF RemediateFails, In
      <3>2. \E others \in {[automation EXCEPT ![i][n] = left], automation} :
              automation' \in {others, [others EXCEPT ![i][n + 1] = "invoked"]}
        BY <2>3 DEF RemediateFails
      <3> HIDE DEF left, n
      <3>3. automation'[j] = automation[j]
        BY <1>a, <3>1, <3>2
      <3> QED BY <1>b, <3>1, <3>3
    <2>4. CASE CheckWorkflow(i) \/ GetApproval(i) \/ Monitor(i) \/ Completed(i) \/ GenerateTicket(i)
      BY <1>c, <2>4 DEF CheckWorkflow, GetApproval, Monitor, Completed, GenerateTicket
    <2>5. CASE TaskFails(i) \/ Done(i) \/ NotifyFails(i) \/ \E doc \in Documents : CheckDocument(i, doc)
      BY <1>c, <2>5 DEF TaskFails, Done, NotifyFails, CheckDocument
    <2> QED BY <1>5, <2>1, <2>2, <2>3, <2>4, <2>5 DEF Step
  <1>6. CASE UNCHANGED vars
    BY <1>6, <1>c DEF vars, machineVars
  <1> QED BY <1>1, <1>2, <1>3, <1>4, <1>5, <1>6 DEF Next

\* What an execution was started with does not change.
LEMMA SameInput ==
  ASSUME [Next]_vars
  PROVE  UNCHANGED input
  <1>1. ASSUME NEW c \in Invocations, Notification(c)
        PROVE  UNCHANGED input
    BY <1>1 DEF Notification, SendNotification, Flag, Publish, Update, ReadFinding, CreateHistory,
       UpdateFindingOnly, Resolve, UpdateLost, InvocationFails
  <1>2. ASSUME NEW i \in Items, Step(i)
        PROVE  UNCHANGED input
    BY <1>2 DEF Step, tables, CheckWorkflow, GetApproval, CheckDocument, Scheduled, RemediationQueued,
       RemediateFails, Monitor, Completed, GenerateTicket, TaskFails, Done, NotifyFails
  <1>3. ASSUME NEW e \in Executions,
               StartExecution(e) \/ RecordStarted(e) \/ RecordFails(e) \/ TimesOut(e) \/ DeliverEvent(e)
        PROVE  UNCHANGED input
    BY <1>3 DEF StartExecution, RecordStarted, RecordFails, TimesOut, DeliverEvent, tables, statusVars
  <1>4. ASSUME NEW i \in Items, NEW n \in 1 .. MaxStarts, StartAutomation(i, n) \/ AutomationEnds(i, n)
        PROVE  UNCHANGED input
    BY <1>4 DEF StartAutomation, AutomationEnds, statusVars
  <1>5. ASSUME NEW f \in Findings, RowDeleted(f)
        PROVE  UNCHANGED input
    BY <1>5 DEF RowDeleted
  <1>6. CASE UNCHANGED vars
    BY <1>6 DEF vars, statusVars
  <1> QED BY <1>1, <1>2, <1>3, <1>4, <1>5, <1>6 DEF Next

\* An invocation writes the history row of its own item, with the status of its notice.
LEMMA NotificationHistory ==
  ASSUME TypeOK, NEW c \in Invocations, Notification(c), NEW i \in Items
  PROVE  \/ history'[i] = history[i]
         \/ i = c[1] /\ history'[i] = StatusOf(i[1], call[c].notice)
  <1>1. UNCHANGED history \/ history' = [history EXCEPT ![c[1]] = Reported(c).status]
    BY DEF Notification, SendNotification, Flag, Publish, Update, ReadFinding, CreateHistory,
       UpdateFindingOnly, Resolve, UpdateLost, InvocationFails
  <1> QED BY <1>1 DEF TypeOK, Reported

\* An invocation that reports success has grounds for it.
LEMMA SuccessGrounds ==
  ASSUME TypeOK, Notified, NEW c \in Invocations, Active(c), NEW i \in Items, i = c[1],
         StatusOf(i[1], call[c].notice) = "SUCCESS"
  PROVE  AutomationSucceeded(i) \/ Resolved(i)
  <1>1. /\ call[c].notice \in Notices /\ i[1] \in Executions /\ input[i[1]] \in Input
        /\ call[c].pc # "none"
        /\ c \in {Queued(i), Final(i), Event(i)}
    BY InvocationParts, ItemParts, NotificationAssumption
       DEF TypeOK, Kinds, Queued, Final, Event, Active, Steps
  <1>2. \/ call[c].notice = "SUCCESS"
        \/ call[c].notice = "NOT_NEW" /\ input[i[1]].workflow = "RESOLVED"
    BY <1>1, StatusOfCases
  <1>3. c = Final(i)
    BY <1>1, <1>2 DEF Notified, NotifiedOf
  <1>4. CASE call[c].notice = "SUCCESS"
    BY <1>3, <1>4 DEF Notified, NotifiedOf
  <1>5. CASE call[c].notice = "NOT_NEW" /\ input[i[1]].workflow = "RESOLVED"
    BY <1>1, <1>3, <1>5 DEF Notified, NotifiedOf, Resolved, Input
  <1> QED BY <1>2, <1>4, <1>5

LEMMA InitNotified == Init => Notified
  <1> SUFFICES ASSUME Init, NEW i \in Items PROVE NotifiedOf(i)
    BY DEF Notified
  <1>1. call[Queued(i)] = NoCall /\ call[Final(i)] = NoCall /\ call[Event(i)] = NoCall
    BY Invoked DEF Init, StatusInit
  <1>2. None # "SUCCESS" /\ history[i] = None /\ pc[i] = "idle"
    BY NotificationAssumption DEF Init, StatusInit, Statuses, Outcomes
  <1> QED BY <1>1, <1>2 DEF NotifiedOf, NoCall

LEMMA NotifiedNext ==
  ASSUME TypeOK, Control, Notified, [Next]_vars
  PROVE  Notified'
  <1> SUFFICES ASSUME NEW j \in Items PROVE NotifiedOf(j)'
    BY DEF Notified
  <1>a. /\ NotifiedOf(j) /\ ControlOf(j)
        /\ pc \in [Items -> States] /\ history \in [Items -> Statuses \cup {None}]
        /\ call \in [Invocations -> Call]
    BY DEF Notified, Control, TypeOK, Call
  <1>b. /\ AutomationSucceeded(j) => AutomationSucceeded(j)'
        /\ Resolved(j)' <=> Resolved(j)
        /\ input' = input
    BY SucceededStable, SameInput DEF Resolved
  <1> USE <1>a, <1>b DEF SameCalls
  <1>1. ASSUME NEW e \in Executions, StartExecution(e)
        PROVE  NotifiedOf(j)'
    BY <1>1 DEF StartExecution, NotifiedOf
  <1>2. ASSUME NEW e \in Executions, RecordStarted(e) \/ RecordFails(e)
        PROVE  NotifiedOf(j)'
    <2>1. history'[j] \in {history[j], "IN_PROGRESS"}
      BY <1>2 DEF RecordStarted, RecordFails, PutStarted
    <2> QED BY <1>2, <2>1 DEF RecordStarted, RecordFails, NotifiedOf
  <1>3. ASSUME NEW e \in Executions, TimesOut(e)
        PROVE  NotifiedOf(j)'
    BY <1>3 DEF TimesOut, statusVars, NotifiedOf
  <1>4. ASSUME NEW e \in Executions, DeliverEvent(e)
        PROVE  NotifiedOf(j)'
    <2>1. EventCall(e) = Event(<<e, FirstOf[e]>>) /\ <<e, FirstOf[e]>> \in Items
      BY FirstItem DEF EventCall, Event
    <2>2. /\ call'[Queued(j)] = call[Queued(j)] /\ call'[Final(j)] = call[Final(j)]
          /\ call'[Event(j)] = call[Event(j)] \/ call'[Event(j)].notice = "FAILED"
      BY <1>4, <2>1, Invoked, CalledType DEF DeliverEvent, Notices
    <2> QED BY <1>4, <2>2 DEF DeliverEvent, tables, NotifiedOf
  <1>5. ASSUME NEW i \in Items, NEW n \in 1 .. MaxStarts, StartAutomation(i, n) \/ AutomationEnds(i, n)
        PROVE  NotifiedOf(j)'
    BY <1>5 DEF StartAutomation, AutomationEnds, statusVars, NotifiedOf
  <1>6. ASSUME NEW f \in Findings, Closes, RowDeleted(f), UNCHANGED machineVars
        PROVE  NotifiedOf(j)'
    BY <1>6 DEF RowDeleted, machineVars, NotifiedOf
  <1>7. ASSUME NEW c \in Invocations, Notification(c)
        PROVE  NotifiedOf(j)'
    <2>1. Active(c) /\ UNCHANGED machineVars
      BY <1>7, NotificationStep DEF machineVars
    <2>2. \A d \in Invocations : /\ call'[d].notice = call[d].notice
                                 /\ call'[d].pc = "none" <=> call[d].pc = "none"
      BY <1>7, SameNotices
    <2>3. history'[j] = "SUCCESS" => AutomationSucceeded(j) \/ Resolved(j)
      BY <1>7, <2>1, NotificationHistory, SuccessGrounds DEF NotifiedOf
    <2> QED BY <2>1, <2>2, <2>3, Invoked DEF NotifiedOf, machineVars
  <1>8. ASSUME NEW i \in Items, Step(i)
        PROVE  NotifiedOf(j)'
    <2>a. {"NOT_NEW", "FAILED", "QUEUED", "SUCCESS"} \subseteq Notices
      BY DEF Notices
    <2> USE <2>a, EnterEffect, EnterFinal, EnterQueued DEF NotifiedOf, tables, In
    <2>1. CASE CheckWorkflow(i)
      <3>1. \/ Enter(i, "approval") /\ UNCHANGED call
            \/ EnterNotify(i, "final", "NOT_NEW") /\ input[i[1]].trigger = "imported"
        BY <2>1, Zenon DEF CheckWorkflow
      <3> QED BY <2>1, <3>1 DEF CheckWorkflow
    <2>2. CASE GetApproval(i) \/ Monitor(i)
      BY <2>2 DEF GetApproval, Monitor
    <2>3. ASSUME NEW doc \in Documents, CheckDocument(i, doc)
          PROVE  NotifiedOf(j)'
      <3>1. \/ Enter(i, "schedule") /\ UNCHANGED call
            \/ EnterNotify(i, "final", "FAILED")
        BY <2>3, Zenon DEF CheckDocument
      <3> QED BY <2>3, <3>1 DEF CheckDocument
    <2>4. CASE Scheduled(i)
      BY <2>4 DEF Scheduled
    <2>5. CASE RemediationQueued(i)
      BY <2>5 DEF RemediationQueued
    <2>6. CASE RemediateFails(i)
      <3>1. UNCHANGED <<pc, call>> \/ EnterNotify(i, "final", "FAILED")
        BY <2>6 DEF RemediateFails
      <3> QED BY <2>6, <3>1 DEF RemediateFails
    <2>7. CASE Completed(i)
      <3>1. \/ EnterNotify(i, "final", "SUCCESS") /\ automation[i][monitored[i]] \in Ended \ {"failed"}
            \/ EnterNotify(i, "final", "FAILED")
            \/ /\ Enter(i, "ticket") /\ UNCHANGED call
               /\ automation[i][monitored[i]] \in {"success", "rejected"}
        BY <2>7 DEF Completed, Verdict
      <3>2. monitored[i] > 0
        BY <2>7 DEF Completed, Control, ControlOf
      <3> QED BY <2>7, <3>1, <3>2 DEF Completed, AutomationSucceeded, Ended
    <2>8. CASE GenerateTicket(i)
      BY <2>8 DEF GenerateTicket
    <2>9. CASE TaskFails(i)
      BY <2>9 DEF TaskFails
    <2>10. CASE Done(i)
      BY <2>10 DEF Done
    <2>11. CASE NotifyFails(i)
      BY <2>11 DEF NotifyFails
    <2> QED BY <1>8, <2>1, <2>2, <2>3, <2>4, <2>5, <2>6, <2>7, <2>8, <2>9, <2>10, <2>11 DEF Step
  <1>9. CASE UNCHANGED vars
    BY <1>9 DEF NotifiedOf, vars, statusVars, machineVars
  <1> QED BY <1>1, <1>2, <1>3, <1>4, <1>5, <1>6, <1>7, <1>8, <1>9 DEF Next

-----------------------------------------------------------------------------
(***************************************************************************)
(* Who writes the tables.                                                  *)
(***************************************************************************)

\* What a step of an invocation does to its item's rows: both are written, or the
\* history row alone when there was none; the finding's alone; nothing, because the
\* history row is missing or has been there; or nothing at all.
LEMMA NotificationWrites ==
  ASSUME TypeOK, NEW c \in Invocations, Notification(c), NEW i \in Items, i = c[1]
  PROVE  \/ /\ call[c].pc \in {"update", "create"} /\ call'[c].pc \notin Missed
            /\ history' = [history EXCEPT ![i] = StatusOf(i[1], call[c].notice)]
            /\ \/ rows' = [rows EXCEPT ![i[2]] = Reported(c)]
               \/ history[i] = None /\ UNCHANGED rows
         \/ /\ call[c].pc = "only" /\ call'[c].pc \notin Missed
            /\ rows' = [rows EXCEPT ![i[2]] = Reported(c)]
            /\ UNCHANGED history
         \/ /\ history[i] = None \/ call[c].pc \in Missed
            /\ call'[c].pc = "only" => history[i] # None
            /\ UNCHANGED <<history, rows>>
         \/ /\ call'[c].pc \notin Missed
            /\ UNCHANGED <<history, rows>>
  <1>a. call[c] \in Call /\ i[1] \in Executions /\ Reported(c).status = StatusOf(i[1], call[c].notice)
    BY ItemParts DEF TypeOK, Call, Reported
  <1>b. AfterUpdate(c) \in {"resolve", "returned"}
    BY DEF AfterUpdate
  <1>c. ASSUME NEW p, Goto(c, p)
        PROVE  call'[c].pc = p
    BY <1>a, <1>c DEF Goto, TypeOK, Call
  <1> USE <1>a, <1>b, <1>c DEF Missed
  <1>1. CASE Flag(c)
    BY <1>1 DEF Flag
  <1>2. CASE Publish(c)
    BY <1>2 DEF Publish
  <1>3. CASE Update(c)
    BY <1>3 DEF Update
  <1>4. CASE ReadFinding(c)
    <2>1. call'[c].pc = "create"
      BY <1>4 DEF ReadFinding, TypeOK, Call
    <2> QED BY <1>4, <2>1 DEF ReadFinding
  <1>5. CASE CreateHistory(c)
    BY <1>5 DEF CreateHistory
  <1>6. CASE UpdateFindingOnly(c)
    BY <1>6 DEF UpdateFindingOnly
  <1>7. CASE Resolve(c)
    BY <1>7 DEF Resolve
  <1>8. CASE UpdateLost(c)
    BY <1>8 DEF UpdateLost
  <1>9. CASE InvocationFails(c)
    BY <1>9 DEF InvocationFails
  <1> QED BY <1>1, <1>2, <1>3, <1>4, <1>5, <1>6, <1>7, <1>8, <1>9 DEF Notification, SendNotification

\* What an invocation reports, by its kind.
LEMMA ReportKinds ==
  ASSUME TypeOK, Control, Notified, NEW i \in Items, NEW c \in Invocations, c[1] = i, Active(c)
  PROVE  /\ call[c].pc # "none"
         /\ c \in {Queued(i), Final(i), Event(i)}
         /\ c = Queued(i) => StatusOf(i[1], call[c].notice) = "IN_PROGRESS"
         /\ c = Final(i) => /\ StatusOf(i[1], call[c].notice) \in Outcomes
                            /\ pc[i] \in {"final", "done"}
         /\ c = Event(i) => /\ StatusOf(i[1], call[c].notice) = "FAILED"
                            /\ status[i[1]] = "failed"
  <1>1. /\ call[c].notice \in Notices /\ i[1] \in Executions
        /\ call[c].pc # "none"
        /\ c \in {Queued(i), Final(i), Event(i)}
    BY InvocationParts, ItemParts DEF TypeOK, Kinds, Queued, Final, Event, Active, Steps
  <1>2. NotifiedOf(i) /\ ControlOf(i)
    BY DEF Notified, Control
  <1> QED BY <1>1, <1>2, StatusOfCases DEF NotifiedOf, ControlOf, Outcomes

\* What has been disturbed stays so.
LEMMA DisturbedStable ==
  ASSUME TypeOK, TypeOK', [Next]_vars, NEW e \in Executions, Disturbed(e)
  PROVE  Disturbed(e)'
  <1>a. /\ faults \in Nat /\ faults' \in Nat /\ (Fault => faults' = faults + 1)
        /\ status \in [Executions -> {"idle", "running", "succeeded", "failed"}]
    BY NotificationAssumption DEF TypeOK, Fault
  <1>b. ASSUME UNCHANGED faults \/ Fault, status'[e] = status[e] \/ status'[e] = "failed" \/ status[e] # "failed"
        PROVE  Disturbed(e)'
    BY <1>a, <1>b DEF Disturbed
  <1>1. ASSUME NEW d \in Executions,
               StartExecution(d) \/ RecordStarted(d) \/ RecordFails(d) \/ TimesOut(d) \/ DeliverEvent(d)
        PROVE  Disturbed(e)'
    BY <1>1, <1>a, <1>b DEF StartExecution, RecordStarted, RecordFails, TimesOut, DeliverEvent, Fail, statusVars
  <1>2. ASSUME NEW i \in Items, NEW n \in 1 .. MaxStarts, StartAutomation(i, n) \/ AutomationEnds(i, n)
        PROVE  Disturbed(e)'
    BY <1>2, <1>b DEF StartAutomation, AutomationEnds, statusVars
  <1>3. ASSUME NEW f \in Findings, Closes, RowDeleted(f), UNCHANGED machineVars
        PROVE  Disturbed(e)'
    BY <1>3, <1>b DEF RowDeleted, machineVars
  <1>4. ASSUME NEW c \in Invocations, Notification(c)
        PROVE  Disturbed(e)'
    BY <1>4, <1>a, NotificationStep DEF Disturbed, machineVars
  <1>5. ASSUME NEW i \in Items, Step(i)
        PROVE  Disturbed(e)'
    <2>1. CASE Done(i)
      BY <1>a, <1>b, <2>1, ItemParts DEF Done, In
    <2>2. CASE NotifyFails(i)
      BY <1>a, <1>b, <2>2, ItemParts DEF NotifyFails, Fail
    <2>3. CASE CheckWorkflow(i) \/ GetApproval(i) \/ Monitor(i) \/ Completed(i) \/ GenerateTicket(i) \/ Scheduled(i)
      BY <1>b, <2>3 DEF CheckWorkflow, GetApproval, Monitor, Completed, GenerateTicket, Scheduled
    <2>4. CASE TaskFails(i) \/ RemediateFails(i) \/ RemediationQueued(i) \/ \E doc \in Documents : CheckDocument(i, doc)
      BY <1>b, <2>4 DEF TaskFails, RemediateFails, RemediationQueued, CheckDocument
    <2> QED BY <1>5, <2>1, <2>2, <2>3, <2>4 DEF Step
  <1>6. CASE UNCHANGED vars
    BY <1>6, <1>b DEF vars, statusVars, machineVars
  <1> QED BY <1>1, <1>2, <1>3, <1>4, <1>5, <1>6 DEF Next

LEMMA InitWritten == Init => Written
  <1> SUFFICES ASSUME Init, NEW i \in Items PROVE WrittenOf(i)
    BY DEF Written
  <1>1. \A k \in Kinds : call[<<i, k>>] = NoCall
    BY ItemInvocations DEF Init, StatusInit
  <1>2. call[Queued(i)] = NoCall /\ call[Final(i)] = NoCall /\ call[Event(i)] = NoCall
    BY Invoked DEF Init, StatusInit
  <1>3. None \notin {"NOT_STARTED", "IN_PROGRESS", "SUCCESS", "FAILED"} /\ history[i] = None
    BY NotificationAssumption DEF Init, StatusInit, Statuses, Outcomes
  <1> QED BY <1>1, <1>2, <1>3 DEF WrittenOf, NoCall, Active, Steps, Missed, Outcomes

\* The calls of an item by their names.
LEMMA OnlyCalls ==
  ASSUME NEW i \in Items
  PROVE  (\A k \in Kinds : call[<<i, k>>].pc = "only" => history[i] # None)
         <=> (\A c \in {Queued(i), Final(i), Event(i)} : call[c].pc = "only" => history[i] # None)
  BY DEF Kinds, Queued, Final, Event

\* A step that leaves an item's history row, and enters no state whose notification
\* would meet an unattended one.
LEMMA WrittenKept ==
  ASSUME TypeOK, TypeOK', Written, [Next]_vars, NEW i \in Items,
         history'[i] = history[i],
         call'[Queued(i)] = call[Queued(i)] \/ call'[Queued(i)].pc \in {"publish", "flag"},
         call'[Final(i)] = call[Final(i)]
           \/ (call[Final(i)].pc = "none" /\ call'[Final(i)].pc \in {"publish", "flag"}),
         call'[Event(i)] = call[Event(i)] \/ call'[Event(i)].pc \in {"publish", "flag"},
         record[i[1]] = "written" => record'[i[1]] = "written" \/ call[Final(i)].pc = "none",
         pc'[i] \in {"monitor", "ticket", "final", "done"} /\ faults' = 0 => ~Active(Queued(i))'
  PROVE  WrittenOf(i)'
  <1>1. WrittenOf(i) /\ (Disturbed(i[1]) => Disturbed(i[1])')
    BY DisturbedStable, ItemParts DEF Written
  <1>2. \A c \in {Queued(i), Final(i), Event(i)} : call[c].pc = "only" => history[i] # None
    BY <1>1, OnlyCalls DEF WrittenOf
  <1>3. \A c \in {Queued(i), Final(i), Event(i)} : call'[c].pc = "only" => history'[i] # None
    BY <1>2
  <1>4. \A k \in Kinds : call'[<<i, k>>].pc = "only" => history'[i] # None
    BY <1>3 DEF Kinds, Queued, Final, Event
  <1> QED BY <1>1, <1>4 DEF WrittenOf, Missed

LEMMA WrittenNotification ==
  ASSUME TypeOK, TypeOK', Control, Notified, Written, [Next]_vars,
         NEW c \in Invocations, Notification(c), NEW j \in Items
  PROVE  WrittenOf(j)'
  <1>a. /\ WrittenOf(j) /\ (Disturbed(j[1]) => Disturbed(j[1])')
        /\ faults \in Nat /\ faults' \in Nat /\ faults' >= faults
        /\ UNCHANGED <<pc, record, status>>
        /\ Active(c)
    <2>1. WrittenOf(j) /\ (Disturbed(j[1]) => Disturbed(j[1])')
      BY DisturbedStable, ItemParts DEF Written
    <2>2. Active(c) /\ faults' \in {faults, faults + 1} /\ UNCHANGED machineVars
      BY NotificationStep
    <2>3. faults \in Nat /\ faults' \in Nat
      BY NotificationAssumption DEF TypeOK
    <2> QED BY <2>1, <2>2, <2>3 DEF machineVars
  <1>b. \A d \in Invocations : /\ call'[d].pc = "none" <=> call[d].pc = "none"
                               /\ d # c => call'[d] = call[d]
    BY SameNotices
  <1>c. /\ Queued(j) \in Invocations /\ Final(j) \in Invocations /\ Event(j) \in Invocations
        /\ Queued(j) # Final(j) /\ Queued(j) # Event(j) /\ Final(j) # Event(j)
        /\ (call[Final(j)].pc # "none" => pc[j] \in {"final", "done"})
    BY Invoked DEF Control, ControlOf
  <1>d. \A d \in {Queued(j), Final(j), Event(j)} : call[d].pc = "only" => history[j] # None
    BY <1>a, OnlyCalls DEF WrittenOf
  <1>e. None \notin {"NOT_STARTED", "IN_PROGRESS", "SUCCESS", "FAILED"}
    BY NotificationAssumption DEF Statuses, Outcomes
  <1>f. ~Active(Queued(j)) => ~Active(Queued(j))'
    BY <1>a, <1>b, <1>c DEF Active
  <1>g. ASSUME \A d \in {Queued(j), Final(j), Event(j)} : call'[d].pc = "only" => history'[j] # None
        PROVE  \A k \in Kinds : call'[<<j, k>>].pc = "only" => history'[j] # None
    BY <1>g DEF Kinds, Queued, Final, Event
  <1>1. CASE c[1] # j
    <2>1. c \notin {Queued(j), Final(j), Event(j)}
      BY <1>1 DEF Queued, Final, Event
    <2>2. history'[j] = history[j]
      BY <1>1, NotificationHistory
    <2>3. \A d \in {Queued(j), Final(j), Event(j)} : call'[d] = call[d]
      BY <1>b, <1>c, <2>1
    <2> QED BY <1>a, <1>d, <1>f, <1>g, <2>2, <2>3 DEF WrittenOf, Disturbed
  <1>2. CASE c[1] = j
    <2>1. /\ c \in {Queued(j), Final(j), Event(j)}
          /\ c = Queued(j) => StatusOf(j[1], call[c].notice) = "IN_PROGRESS"
          /\ c = Final(j) => StatusOf(j[1], call[c].notice) \in Outcomes
          /\ c = Event(j) => /\ StatusOf(j[1], call[c].notice) = "FAILED"
                             /\ status[j[1]] = "failed"
      BY <1>2, <1>a, ReportKinds
    <2>2. call[c].pc # "none"
      BY <1>a DEF Active, Steps
    <2>3. CASE call'[c].pc \notin Missed /\ history'[j] = StatusOf(j[1], call[c].notice)
      <3>1. \A d \in {Queued(j), Final(j), Event(j)} : call'[d].pc = "only" => history'[j] # None
        BY <1>e, <2>1, <2>3 DEF Outcomes
      <3>2. CASE c = Queued(j)
        <4>1. call[Final(j)].pc # "none" => Disturbed(j[1])
          BY <1>a, <1>c, <3>2 DEF WrittenOf, Disturbed
        <4> QED BY <1>a, <1>b, <1>c, <1>f, <1>g, <2>1, <2>3, <3>1, <3>2, <4>1
                DEF WrittenOf, Missed, Outcomes, Disturbed
      <3>3. CASE c = Final(j)
        BY <1>a, <1>b, <1>c, <1>f, <1>g, <2>1, <2>2, <2>3, <3>1, <3>3 DEF WrittenOf, Missed, Outcomes, Disturbed
      <3>4. CASE c = Event(j)
        BY <1>a, <1>b, <1>c, <1>f, <1>g, <2>1, <2>2, <2>3, <3>1, <3>4 DEF WrittenOf, Missed, Outcomes, Disturbed
      <3> QED BY <2>1, <3>2, <3>3, <3>4
    <2>4. CASE call'[c].pc \notin Missed /\ history'[j] = history[j]
      <3>1. \A d \in {Queued(j), Final(j), Event(j)} : call'[d].pc = "only" => history'[j] # None
        BY <1>b, <1>c, <1>d, <2>1, <2>4 DEF Missed
      <3>2. call'[Final(j)].pc \in Missed \cup {"none"} => call[Final(j)].pc = call'[Final(j)].pc
        BY <1>b, <1>c, <2>2, <2>4
      <3> QED BY <1>a, <1>b, <1>c, <1>f, <1>g, <2>2, <2>4, <3>1, <3>2 DEF WrittenOf, Missed, Disturbed
    <2>5. CASE /\ history[j] = None \/ call[c].pc \in Missed
               /\ call'[c].pc = "only" => history[j] # None
               /\ history'[j] = history[j]
      <3>1. \A d \in {Queued(j), Final(j), Event(j)} : call'[d].pc = "only" => history'[j] # None
        BY <1>b, <1>c, <1>d, <2>1, <2>5
      <3>2. call[Final(j)].pc # "none" <=> call'[Final(j)].pc # "none"
        BY <1>b, <1>c
      <3>3. call'[Final(j)].pc \in Missed => history[j] = None \/ call[Final(j)].pc \in Missed
        BY <1>b, <1>c, <2>5
      <3> QED BY <1>a, <1>b, <1>c, <1>e, <1>f, <1>g, <2>2, <2>5, <3>1, <3>2, <3>3 DEF WrittenOf, Missed, Outcomes, Disturbed
    <2>6. history \in [Items -> Statuses \cup {None}]
      BY DEF TypeOK
    <2> QED BY <1>2, <2>3, <2>4, <2>5, <2>6, NotificationWrites
  <1> QED BY <1>1, <1>2

LEMMA WrittenNext ==
  ASSUME TypeOK, TypeOK', Control, Notified, Written, [Next]_vars
  PROVE  Written'
  <1> SUFFICES ASSUME NEW j \in Items PROVE WrittenOf(j)'
    BY DEF Written
  <1>a. /\ WrittenOf(j) /\ ControlOf(j)
        /\ j[1] \in Executions
        /\ pc \in [Items -> States] /\ history \in [Items -> Statuses \cup {None}]
        /\ record \in [Executions -> {"none", "owed", "written", "failed"}]
        /\ faults \in Nat /\ faults' \in Nat /\ (Fault => faults' # 0)
    BY ItemParts, NotificationAssumption DEF Written, Control, TypeOK, Fault
  <1>b. pc[j] \in {"monitor", "ticket", "final", "done"} /\ faults = 0 => ~Active(Queued(j))
    BY <1>a DEF WrittenOf
  <1>c. ASSUME history'[j] = history[j], SameCalls(j), pc'[j] = pc[j], record'[j[1]] = record[j[1]],
               UNCHANGED faults \/ Fault
        PROVE  WrittenOf(j)'
    BY <1>a, <1>b, <1>c, WrittenKept DEF SameCalls, Active
  <1>1. ASSUME NEW e \in Executions, StartExecution(e)
        PROVE  WrittenOf(j)'
    <2>1. j[1] = e => call[Final(j)].pc = "none"
      BY <1>a, <1>1 DEF StartExecution, ControlOf
    <2> QED BY <1>a, <1>b, <1>1, <2>1, WrittenKept DEF StartExecution, Active
  <1>2. ASSUME NEW e \in Executions, RecordStarted(e)
        PROVE  WrittenOf(j)'
    <2>1. CASE j = <<e, FirstOf[e]>>
      <3>1. history'[j] = "IN_PROGRESS" /\ record'[j[1]] = "written"
        BY <1>2, <1>a, <2>1 DEF RecordStarted, PutStarted
      <3>2. \A k \in Kinds : call'[<<j, k>>].pc = "only" => history'[j] # None
        BY <3>1, NotificationAssumption DEF Statuses
      <3> QED BY <1>a, <1>2, <3>1, <3>2 DEF RecordStarted, WrittenOf, Outcomes, Active
    <2>2. CASE j # <<e, FirstOf[e]>>
      <3>1. history'[j] = history[j]
        BY <1>2, <1>a, <2>2 DEF RecordStarted, PutStarted
      <3> QED BY <1>a, <1>b, <1>2, <3>1, WrittenKept DEF RecordStarted, Active
    <2> QED BY <2>1, <2>2
  <1>3. ASSUME NEW e \in Executions, RecordFails(e)
        PROVE  WrittenOf(j)'
    <2>1. record[j[1]] = "written" => record'[j[1]] = "written"
      BY <1>a, <1>3 DEF RecordFails
    <2> QED BY <1>a, <1>b, <1>3, <2>1, WrittenKept DEF RecordFails, Active
  <1>4. ASSUME NEW e \in Executions, TimesOut(e)
        PROVE  WrittenOf(j)'
    BY <1>4, <1>c DEF TimesOut, statusVars, SameCalls
  <1>5. ASSUME NEW e \in Executions, DeliverEvent(e)
        PROVE  WrittenOf(j)'
    <2>1. EventCall(e) = Event(<<e, FirstOf[e]>>) /\ <<e, FirstOf[e]>> \in Items
      BY FirstItem DEF EventCall, Event
    <2>2. /\ call'[Queued(j)] = call[Queued(j)] /\ call'[Final(j)] = call[Final(j)]
          /\ call'[Event(j)] = call[Event(j)] \/ call'[Event(j)].pc \in {"publish", "flag"}
      BY <1>5, <2>1, Invoked, CalledType DEF DeliverEvent, Notices
    <2> QED BY <1>a, <1>b, <1>5, <2>2, WrittenKept DEF DeliverEvent, tables, Active
  <1>6. ASSUME NEW i \in Items, NEW n \in 1 .. MaxStarts, StartAutomation(i, n) \/ AutomationEnds(i, n)
        PROVE  WrittenOf(j)'
    BY <1>6, <1>c DEF StartAutomation, AutomationEnds, statusVars, SameCalls
  <1>7. ASSUME NEW f \in Findings, Closes, RowDeleted(f), UNCHANGED machineVars
        PROVE  WrittenOf(j)'
    BY <1>7, <1>c DEF RowDeleted, machineVars, SameCalls
  <1>8. ASSUME NEW c \in Invocations, Notification(c)
        PROVE  WrittenOf(j)'
    BY <1>8, WrittenNotification
  <1>9. ASSUME NEW i \in Items, Step(i)
        PROVE  WrittenOf(j)'
    <2>a. {"NOT_NEW", "FAILED", "QUEUED", "SUCCESS"} \subseteq Notices
      BY DEF Notices
    <2>b. UNCHANGED <<history, record>>
      BY <1>9 DEF Step, tables, CheckWorkflow, GetApproval, CheckDocument, Scheduled, RemediationQueued,
         RemediateFails, Monitor, Completed, GenerateTicket, TaskFails, Done, NotifyFails
    <2>c. UNCHANGED faults \/ Fault
      BY <1>9 DEF Step, tables, CheckWorkflow, GetApproval, CheckDocument, Scheduled, RemediationQueued,
         RemediateFails, Monitor, Completed, GenerateTicket, TaskFails, Done, NotifyFails
    <2>d. CASE i # j
      <3>1. pc'[j] = pc[j] /\ SameCalls(j)
        <4> USE <2>a, <2>d, EnterEffect, EnterFinal, EnterQueued DEF SameCalls, tables
        <4>1. CASE CheckWorkflow(i)
          <5>1. \/ Enter(i, "approval") /\ UNCHANGED call
                \/ EnterNotify(i, "final", "NOT_NEW")
            BY <4>1, Zenon DEF CheckWorkflow
          <5> QED BY <5>1
        <4>2. ASSUME NEW doc \in Documents, CheckDocument(i, doc)
              PROVE  pc'[j] = pc[j] /\ SameCalls(j)
          <5>1. \/ Enter(i, "schedule") /\ UNCHANGED call
                \/ EnterNotify(i, "final", "FAILED")
            BY <4>2, Zenon DEF CheckDocument
          <5> QED BY <5>1
        <4>3. CASE RemediateFails(i)
          <5>1. UNCHANGED <<pc, call>> \/ EnterNotify(i, "final", "FAILED")
            BY <4>3 DEF RemediateFails
          <5> QED BY <5>1
        <4>4. CASE Completed(i)
          <5>1. \/ EnterNotify(i, "final", "SUCCESS")
                \/ EnterNotify(i, "final", "FAILED")
                \/ Enter(i, "ticket") /\ UNCHANGED call
            BY <4>4 DEF Completed, Verdict
          <5> QED BY <5>1
        <4>5. CASE GetApproval(i) \/ Monitor(i) \/ Scheduled(i) \/ Done(i) \/ NotifyFails(i)
          BY <4>5 DEF GetApproval, Monitor, Scheduled, Done, NotifyFails
        <4>6. CASE RemediationQueued(i) \/ GenerateTicket(i) \/ TaskFails(i)
          BY <4>6 DEF RemediationQueued, GenerateTicket, TaskFails
        <4> QED BY <1>9, <4>1, <4>2, <4>3, <4>4, <4>5, <4>6 DEF Step
      <3> QED BY <1>c, <2>b, <2>c, <3>1
    <2>e. CASE i = j
      <3> USE <1>a, <1>b, <2>a, <2>b, <2>c, <2>e, EnterEffect, EnterFinal, EnterQueued, WrittenKept
          DEF tables, In, Active, Steps, ControlOf, Before
      <3>1. CASE CheckWorkflow(i)
        <4>1. \/ Enter(i, "approval") /\ UNCHANGED call
              \/ EnterNotify(i, "final", "NOT_NEW")
          BY <3>1, Zenon DEF CheckWorkflow
        <4> QED BY <3>1, <4>1 DEF CheckWorkflow
      <3>2. CASE GetApproval(i) \/ Scheduled(i) \/ Monitor(i) \/ Done(i) \/ NotifyFails(i)
        BY <3>2 DEF GetApproval, Scheduled, Monitor, QueuedReturned, Queued, Done, NotifyFails
      <3>3. ASSUME NEW doc \in Documents, CheckDocument(i, doc)
            PROVE  WrittenOf(j)'
        <4>1. \/ Enter(i, "schedule") /\ UNCHANGED call
              \/ EnterNotify(i, "final", "FAILED")
          BY <3>3, Zenon DEF CheckDocument
        <4> QED BY <3>3, <4>1 DEF CheckDocument
      <3>4. CASE RemediationQueued(i)
        BY <3>4 DEF RemediationQueued
      <3>5. CASE RemediateFails(i)
        <4>1. Fault /\ (UNCHANGED <<pc, call>> \/ EnterNotify(i, "final", "FAILED"))
          BY <3>5 DEF RemediateFails
        <4> QED BY <3>5, <4>1 DEF RemediateFails
      <3>6. CASE Completed(i)
        <4>1. \/ EnterNotify(i, "final", "SUCCESS")
              \/ EnterNotify(i, "final", "FAILED")
              \/ Enter(i, "ticket") /\ UNCHANGED call
          BY <3>6 DEF Completed, Verdict
        <4> QED BY <3>6, <4>1 DEF Completed
      <3>7. CASE GenerateTicket(i)
        BY <3>7 DEF GenerateTicket
      <3>8. CASE TaskFails(i)
        BY <3>8 DEF TaskFails, Queued
      <3> QED BY <1>9, <3>1, <3>2, <3>3, <3>4, <3>5, <3>6, <3>7, <3>8 DEF Step
    <2> QED BY <2>d, <2>e
  <1>10. CASE UNCHANGED vars
    BY <1>10, <1>c DEF vars, statusVars, machineVars, SameCalls
  <1> QED BY <1>1, <1>2, <1>3, <1>4, <1>5, <1>6, <1>7, <1>8, <1>9, <1>10 DEF Next

-----------------------------------------------------------------------------
(***************************************************************************)
(* The tables.                                                             *)
(***************************************************************************)

\* Both an item's final notification and its failure event have been invoked.
BothReport(i) == call[Final(i)].pc # "none" /\ call[Event(i)].pc # "none"

\* Which is what their number says.
LEMMA ReportersCount ==
  ASSUME NEW i \in Items
  PROVE  BothReport(i) => Cardinality(Reporters(i)) = 2
  <1> SUFFICES ASSUME BothReport(i) PROVE Cardinality(Reporters(i)) = 2
    OBVIOUS
  <1>1. Reporters(i) = {"final", "event"}
    BY DEF BothReport, Reporters, Final, Event
  <1>2. IsFiniteSet({"final"}) /\ Cardinality({"final"}) = 1
    BY FS_Singleton
  <1>3. Cardinality({"final"} \cup {"event"}) = 2
    BY <1>2, FS_AddElement
  <1>4. {"final", "event"} = {"final"} \cup {"event"}
    OBVIOUS
  <1> QED BY <1>1, <1>3, <1>4

\* An outcome of an item in the findings table.
ShownOf(i) ==
  /\ rows[i[2]] # None
  /\ rows[i[2]].execution = i[1]
  /\ rows[i[2]].status \in Outcomes

\* What TablesAgree says of one item, with both reporters by name.
AgreeOf(i) ==
  ShownOf(i) =>
    \/ history[i] = rows[i[2]].status
    \/ history[i] = "IN_PROGRESS" /\ (record[i[1]] = "written" \/ Disturbed(i[1]))
    \/ history[i] # None /\ BothReport(i)

Agree == \A i \in Items : AgreeOf(i)

LEMMA InitAgree == Init => Agree
  BY ItemParts, NotificationAssumption DEF Init, StatusInit, Agree, AgreeOf, ShownOf

\* A step that keeps an item's history row and shows no new outcome of it.
LEMMA AgreeKept ==
  ASSUME TypeOK, TypeOK', Agree, [Next]_vars, NEW i \in Items,
         history'[i] = history[i],
         ShownOf(i)' => ShownOf(i) /\ rows'[i[2]] = rows[i[2]],
         record[i[1]] = "written" => record'[i[1]] = "written",
         BothReport(i) => BothReport(i)'
  PROVE  AgreeOf(i)'
  BY DisturbedStable, ItemParts DEF Agree, AgreeOf

\* An invocation shows outcomes of its own item only, whose history row it writes too,
\* or has found written meanwhile.
LEMMA AgreeNotification ==
  ASSUME TypeOK, TypeOK', Control, Notified, Written, Agree, [Next]_vars,
         NEW c \in Invocations, Notification(c), NEW j \in Items
  PROVE  AgreeOf(j)'
  <1> DEFINE i == c[1]
  <1>a. /\ i \in Items /\ i[1] \in Executions /\ i[2] \in Findings /\ i = <<i[1], i[2]>>
        /\ j[1] \in Executions /\ j[2] \in Findings /\ j = <<j[1], j[2]>>
        /\ Active(c) /\ UNCHANGED machineVars
        /\ Reported(c) = [status |-> StatusOf(i[1], call[c].notice), execution |-> i[1]]
    BY InvocationParts, ItemParts, NotificationStep DEF Reported
  <1>b. /\ history \in [Items -> Statuses \cup {None}]
        /\ rows \in [Findings -> Row \cup {None}]
    BY DEF TypeOK
  <1>c. BothReport(j)' <=> BothReport(j)
    BY SameNotices, Invoked DEF BothReport
  <1>d. /\ UNCHANGED <<record, status>>
        /\ Disturbed(j[1]) => Disturbed(j[1])'
    BY <1>a, DisturbedStable DEF machineVars
  <1>e. \/ /\ call[c].pc \in {"update", "create"}
           /\ history' = [history EXCEPT ![i] = StatusOf(i[1], call[c].notice)]
           /\ \/ rows' = [rows EXCEPT ![i[2]] = Reported(c)]
              \/ history[i] = None /\ UNCHANGED rows
        \/ /\ call[c].pc = "only"
           /\ rows' = [rows EXCEPT ![i[2]] = Reported(c)]
           /\ UNCHANGED history
        \/ UNCHANGED <<history, rows>>
    BY <1>a, NotificationWrites
  <1> HIDE DEF i
  <1>1. CASE i # j
    <2>1. history'[j] = history[j]
      BY <1>1, <1>a, <1>b, <1>e
    <2>2. rows'[j[2]] = rows[j[2]] \/ (rows'[j[2]] = Reported(c) /\ i[2] = j[2])
      BY <1>a, <1>b, <1>e
    <2>3. ShownOf(j)' => ShownOf(j) /\ rows'[j[2]] = rows[j[2]]
      BY <1>1, <1>a, <2>2 DEF ShownOf
    <2> QED BY <1>c, <1>d, <2>1, <2>3, AgreeKept
  <1>2. CASE i = j
    <2>1. CASE UNCHANGED <<history, rows>>
      BY <1>c, <1>d, <2>1, AgreeKept DEF ShownOf
    <2>2. CASE /\ history' = [history EXCEPT ![i] = StatusOf(i[1], call[c].notice)]
               /\ rows' = [rows EXCEPT ![i[2]] = Reported(c)]
      <3>1. history'[j] = rows'[j[2]].status
        BY <1>2, <1>a, <1>b, <2>2
      <3> QED BY <3>1 DEF AgreeOf
    <2>3. CASE history[i] = None /\ UNCHANGED rows
      <3>1. ~ShownOf(j)
        BY <1>2, <2>3, NotificationAssumption DEF Agree, AgreeOf, ShownOf, Statuses
      <3> QED BY <3>1, <2>3 DEF AgreeOf, ShownOf
    <2>4. CASE /\ call[c].pc = "only"
               /\ rows' = [rows EXCEPT ![i[2]] = Reported(c)]
               /\ UNCHANGED history
      <3>1. /\ c \in {Queued(j), Final(j), Event(j)}
            /\ c = Queued(j) => StatusOf(j[1], call[c].notice) = "IN_PROGRESS"
            /\ c = Final(j) => StatusOf(j[1], call[c].notice) \in Outcomes
            /\ c = Event(j) => /\ StatusOf(j[1], call[c].notice) = "FAILED"
                               /\ status[j[1]] = "failed"
        BY <1>2, <1>a, ReportKinds DEF i
      <3>2. rows'[j[2]].status = StatusOf(j[1], call[c].notice)
        BY <1>2, <1>a, <1>b, <2>4
      <3>3. history[j] \in {"IN_PROGRESS", "SUCCESS", "FAILED"} /\ history'[j] = history[j]
        <4>1. history[j] # None /\ history[j] # "NOT_STARTED"
          BY <2>4, <3>1, OnlyCalls DEF Written, WrittenOf
        <4> QED BY <1>b, <2>4, <4>1 DEF Statuses, Outcomes
      <3>4. WrittenOf(j) /\ ControlOf(j) /\ None \notin Statuses
        BY NotificationAssumption DEF Written, Control
      <3>5. CASE c = Queued(j)
        BY <3>1, <3>2, <3>5 DEF AgreeOf, ShownOf, Outcomes
      <3>6. CASE c = Final(j)
        <4>1. CASE history[j] = "IN_PROGRESS"
          BY <1>d, <2>4, <3>3, <3>4, <3>6, <4>1 DEF AgreeOf, WrittenOf, Missed
        <4>2. CASE history[j] \in Outcomes
          <5>1. BothReport(j)
            BY <2>4, <3>4, <3>6, <4>2 DEF BothReport, WrittenOf, Missed
          <5> QED BY <1>c, <3>3, <3>4, <4>2, <5>1 DEF AgreeOf, Statuses
        <4> QED BY <3>3, <4>1, <4>2 DEF Outcomes
      <3>7. CASE c = Event(j)
        <4>1. CASE history[j] = "IN_PROGRESS"
          BY <1>d, <3>1, <3>3, <3>7, <4>1 DEF AgreeOf, Disturbed
        <4>2. CASE history[j] = "FAILED"
          BY <3>1, <3>2, <3>3, <3>7, <4>2 DEF AgreeOf
        <4>3. CASE history[j] = "SUCCESS"
          <5>1. BothReport(j)
            BY <2>4, <3>4, <3>7, <4>3 DEF BothReport, WrittenOf
          <5> QED BY <1>c, <3>3, <3>4, <4>3, <5>1 DEF AgreeOf, Statuses, Outcomes
        <4> QED BY <3>3, <4>1, <4>2, <4>3
      <3> QED BY <3>1, <3>5, <3>6, <3>7
    <2> QED BY <1>e, <2>1, <2>2, <2>3, <2>4
  <1> QED BY <1>1, <1>2

\* The steps of the state machine write no rows and take back no invocation.
LEMMA StepKeeps ==
  ASSUME TypeOK, Control, NEW i \in Items, Step(i), NEW j \in Items
  PROVE  /\ UNCHANGED <<history, rows, record>>
         /\ BothReport(j) => BothReport(j)'
  <1>1. UNCHANGED <<history, rows, record>>
    BY DEF Step, tables, CheckWorkflow, GetApproval, CheckDocument, Scheduled, RemediationQueued,
       RemediateFails, Monitor, Completed, GenerateTicket, TaskFails, Done, NotifyFails
  <1>2. \/ UNCHANGED call
        \/ EnterNotify(i, "queued", "QUEUED")
        \/ \E notice \in {"NOT_NEW", "FAILED", "SUCCESS"} : EnterNotify(i, "final", notice)
    <2>1. CASE CheckWorkflow(i)
      BY <2>1, Zenon DEF CheckWorkflow
    <2>2. ASSUME NEW doc \in Documents, CheckDocument(i, doc)
          PROVE  UNCHANGED call \/ EnterNotify(i, "final", "FAILED")
      BY <2>2, Zenon DEF CheckDocument
    <2>3. CASE RemediateFails(i)
      BY <2>3 DEF RemediateFails
    <2>4. CASE Completed(i)
      BY <2>4 DEF Completed, Verdict
    <2>5. CASE GetApproval(i) \/ Monitor(i) \/ Scheduled(i) \/ Done(i) \/ NotifyFails(i)
      BY <2>5 DEF GetApproval, Monitor, Scheduled, Done, NotifyFails
    <2>6. CASE RemediationQueued(i) \/ GenerateTicket(i) \/ TaskFails(i)
      BY <2>6 DEF RemediationQueued, GenerateTicket, TaskFails
    <2> QED BY <2>1, <2>2, <2>3, <2>4, <2>5, <2>6 DEF Step
  <1>3. CASE UNCHANGED call
    BY <1>1, <1>3 DEF BothReport
  <1>4. CASE EnterNotify(i, "queued", "QUEUED")
    BY <1>1, <1>4, EnterQueued DEF BothReport, SameCalls
  <1>5. ASSUME NEW notice \in {"NOT_NEW", "FAILED", "SUCCESS"}, EnterNotify(i, "final", notice)
        PROVE  BothReport(j) => BothReport(j)'
    <2>1. notice \in Notices
      BY DEF Notices
    <2> QED BY <1>1, <1>5, <2>1, EnterFinal DEF BothReport, SameCalls
  <1> QED BY <1>1, <1>2, <1>3, <1>4, <1>5

LEMMA AgreeNext ==
  ASSUME TypeOK, TypeOK', Control, Notified, Written, Agree, [Next]_vars
  PROVE  Agree'
  <1> SUFFICES ASSUME NEW j \in Items PROVE AgreeOf(j)'
    BY DEF Agree
  <1>a. /\ j[1] \in Executions /\ j[2] \in Findings /\ j = <<j[1], j[2]>>
        /\ history \in [Items -> Statuses \cup {None}]
        /\ rows \in [Findings -> Row \cup {None}]
        /\ record \in [Executions -> {"none", "owed", "written", "failed"}]
        /\ AgreeOf(j) /\ ControlOf(j)
    BY ItemParts DEF TypeOK, Agree, Control
  <1>b. ASSUME UNCHANGED <<history, rows, record>>, BothReport(j) => BothReport(j)'
        PROVE  AgreeOf(j)'
    BY <1>b, AgreeKept DEF ShownOf
  <1>1. ASSUME NEW e \in Executions, StartExecution(e)
        PROVE  AgreeOf(j)'
    <2>1. record[j[1]] = "written" => record'[j[1]] = "written"
      BY <1>a, <1>1 DEF StartExecution, ControlOf
    <2>2. ShownOf(j)' => ShownOf(j) /\ rows'[j[2]] = rows[j[2]]
      BY <1>a, <1>1, FirstItem DEF StartExecution, ShownOf, Outcomes
    <2> QED BY <1>1, <2>1, <2>2, AgreeKept DEF StartExecution, BothReport
  <1>2. ASSUME NEW e \in Executions, RecordStarted(e)
        PROVE  AgreeOf(j)'
    <2>1. FirstOf[e] \in Findings /\ <<e, FirstOf[e]>> \in Items
      BY FirstItem
    <2>2. CASE j = <<e, FirstOf[e]>>
      BY <1>2, <1>a, <2>2 DEF RecordStarted, PutStarted, AgreeOf
    <2>3. CASE j # <<e, FirstOf[e]>>
      <3>1. history'[j] = history[j]
        BY <1>2, <1>a, <2>3 DEF RecordStarted, PutStarted
      <3>2. ShownOf(j)' => ShownOf(j) /\ rows'[j[2]] = rows[j[2]]
        BY <1>2, <1>a, <2>1 DEF RecordStarted, PutStarted, ShownOf, Outcomes
      <3>3. record[j[1]] = "written" => record'[j[1]] = "written"
        BY <1>2, <1>a DEF RecordStarted
      <3> QED BY <1>2, <3>1, <3>2, <3>3, AgreeKept DEF RecordStarted, BothReport
    <2> QED BY <2>2, <2>3
  <1>3. ASSUME NEW e \in Executions, RecordFails(e)
        PROVE  AgreeOf(j)'
    <2>1. rows' \in {rows, [rows EXCEPT ![FirstOf[e]] = [status |-> "FAILED", execution |-> None]]}
      BY <1>3 DEF RecordFails
    <2>2. ShownOf(j)' => ShownOf(j) /\ rows'[j[2]] = rows[j[2]]
      BY <1>a, <2>1, FirstItem, NotificationAssumption DEF ShownOf
    <2>3. record[j[1]] = "written" => record'[j[1]] = "written"
      BY <1>a, <1>3 DEF RecordFails
    <2> QED BY <1>3, <2>2, <2>3, AgreeKept DEF RecordFails, BothReport
  <1>4. ASSUME NEW e \in Executions, TimesOut(e)
        PROVE  AgreeOf(j)'
    BY <1>4, <1>b DEF TimesOut, statusVars, BothReport
  <1>5. ASSUME NEW e \in Executions, DeliverEvent(e)
        PROVE  AgreeOf(j)'
    <2>1. EventCall(e) = Event(<<e, FirstOf[e]>>) /\ <<e, FirstOf[e]>> \in Items
      BY FirstItem DEF EventCall, Event
    <2>2. BothReport(j) => BothReport(j)'
      BY <1>5, <2>1, Invoked, CalledType DEF DeliverEvent, Notices, BothReport, TypeOK
    <2> QED BY <1>5, <1>b, <2>2 DEF DeliverEvent, tables
  <1>6. ASSUME NEW i \in Items, NEW n \in 1 .. MaxStarts, StartAutomation(i, n) \/ AutomationEnds(i, n)
        PROVE  AgreeOf(j)'
    BY <1>6, <1>b DEF StartAutomation, AutomationEnds, statusVars, BothReport
  <1>7. ASSUME NEW f \in Findings, Closes, RowDeleted(f), UNCHANGED machineVars
        PROVE  AgreeOf(j)'
    <2>1. ShownOf(j)' => ShownOf(j) /\ rows'[j[2]] = rows[j[2]]
      BY <1>a, <1>7 DEF RowDeleted, ShownOf
    <2> QED BY <1>7, <2>1, AgreeKept DEF RowDeleted, machineVars, BothReport
  <1>8. ASSUME NEW c \in Invocations, Notification(c)
        PROVE  AgreeOf(j)'
    BY <1>8, AgreeNotification
  <1>9. ASSUME NEW i \in Items, Step(i)
        PROVE  AgreeOf(j)'
    BY <1>9, <1>b, StepKeeps
  <1>10. CASE UNCHANGED vars
    BY <1>10, <1>b DEF vars, statusVars, machineVars, BothReport
  <1> QED BY <1>1, <1>2, <1>3, <1>4, <1>5, <1>6, <1>7, <1>8, <1>9, <1>10 DEF Next

\* What OnlyStarterReopens says of a step.
Reopens ==
  \A i \in Items :
    history[i] \in Outcomes /\ history'[i] = "IN_PROGRESS" =>
      record'[i[1]] # record[i[1]] \/ Disturbed(i[1])

LEMMA ReopensStep ==
  ASSUME TypeOK, Control, Notified, Written, [Next]_vars
  PROVE  Reopens
  <1> SUFFICES ASSUME NEW j \in Items, history[j] \in Outcomes, history'[j] = "IN_PROGRESS"
               PROVE  record'[j[1]] # record[j[1]] \/ Disturbed(j[1])
    BY DEF Reopens
  <1>a. /\ history \in [Items -> Statuses \cup {None}]
        /\ record \in [Executions -> {"none", "owed", "written", "failed"}]
        /\ faults \in Nat /\ j[1] \in Executions
        /\ ControlOf(j) /\ WrittenOf(j)
        /\ history'[j] # history[j]
    BY ItemParts, NotificationAssumption DEF TypeOK, Control, Written, Outcomes
  <1>1. ASSUME NEW e \in Executions, RecordStarted(e)
        PROVE  record'[j[1]] # record[j[1]]
    BY <1>1, <1>a DEF RecordStarted, PutStarted
  <1>2. ASSUME NEW c \in Invocations, Notification(c)
        PROVE  Disturbed(j[1])
    <2>1. c[1] = j /\ StatusOf(j[1], call[c].notice) = "IN_PROGRESS"
      BY <1>2, <1>a, NotificationHistory
    <2>2. Active(c)
      BY <1>2, NotificationStep
    <2>3. c = Queued(j)
      BY <2>1, <2>2, ReportKinds DEF Outcomes
    <2>4. CASE call[Event(j)].pc = "none"
      BY <1>a, <2>2, <2>3, <2>4 DEF WrittenOf, ControlOf, Disturbed
    <2>5. CASE call[Event(j)].pc # "none"
      BY <1>a, <2>5 DEF ControlOf, Disturbed
    <2> QED BY <2>4, <2>5
  <1>3. ASSUME NEW i \in Items, Step(i)
        PROVE  FALSE
    BY <1>3, <1>a, StepKeeps
  <1>4. ASSUME NEW e \in Executions,
               StartExecution(e) \/ RecordFails(e) \/ TimesOut(e) \/ DeliverEvent(e)
        PROVE  FALSE
    BY <1>4, <1>a DEF StartExecution, RecordFails, TimesOut, DeliverEvent, tables, statusVars
  <1>5. ASSUME NEW i \in Items, NEW n \in 1 .. MaxStarts, StartAutomation(i, n) \/ AutomationEnds(i, n)
        PROVE  FALSE
    BY <1>5, <1>a DEF StartAutomation, AutomationEnds, statusVars
  <1>6. ASSUME NEW f \in Findings, RowDeleted(f)
        PROVE  FALSE
    BY <1>6, <1>a DEF RowDeleted
  <1>7. CASE UNCHANGED vars
    BY <1>7, <1>a DEF vars, statusVars
  <1> QED BY <1>1, <1>2, <1>3, <1>4, <1>5, <1>6, <1>7 DEF Next

-----------------------------------------------------------------------------
(***************************************************************************)
(* The theorems.                                                           *)
(***************************************************************************)

\* The inductive invariant.
IInv == TypeOK /\ Control /\ Notified /\ Written /\ Agree

\* Initially, and with every step.
LEMMA Invariance == Spec => []IInv
  <1>1. Init => IInv
    BY InitTyped, InitNotified, InitWritten, InitAgree DEF IInv
  <1>2. IInv /\ [Next]_vars => IInv'
    <2> SUFFICES ASSUME IInv, [Next]_vars PROVE IInv'
      OBVIOUS
    <2>1. TypeOK'
      BY TypeNext DEF IInv
    <2>2. Control'
      BY <2>1, ControlNext DEF IInv
    <2>3. Notified'
      BY NotifiedNext DEF IInv
    <2>4. Written'
      BY <2>1, WrittenNext DEF IInv
    <2>5. Agree'
      BY <2>1, AgreeNext DEF IInv
    <2> QED BY <2>1, <2>2, <2>3, <2>4, <2>5 DEF IInv
  <1> QED BY <1>1, <1>2, PTL DEF Spec

\* Every variable keeps its type: attempts are bounded by the retries of Execute
\* Remediation and deliveries by EventBridge's.
THEOREM TypeCorrect == Spec => []TypeOK
  <1>1. IInv => TypeOK
    BY DEF IInv
  <1> QED BY <1>1, Invariance, PTL

\* The history says SUCCESS only of a finding whose monitored automation ended with
\* Success or that was resolved when it came, whatever fails, is retried or runs late.
THEOREM SuccessIsBacked == Spec => []SuccessBacked
  <1>1. IInv => SuccessBacked
    BY DEF IInv, Notified, NotifiedOf, SuccessBacked, Resolved
  <1> QED BY <1>1, Invariance, PTL

\* An outcome in the findings table has its history row, but for the exceptions that
\* TablesAgree names.
THEOREM TablesTellTheSame == Spec => []TablesAgree
  <1>1. IInv => TablesAgree
    <2> SUFFICES ASSUME IInv, NEW i \in Items, ShownOf(i)
                 PROVE  \/ history[i] = rows[i[2]].status
                        \/ history[i] = "IN_PROGRESS" /\ (record[i[1]] = "written" \/ Disturbed(i[1]))
                        \/ history[i] # None /\ Cardinality(Reporters(i)) = 2
      BY DEF TablesAgree, ShownOf
    <2> QED BY ReportersCount DEF IInv, Agree, AgreeOf
  <1> QED BY <1>1, Invariance, PTL

\* Without a failure, only the starter puts a finished history row back to IN_PROGRESS.
THEOREM OnlyTheStarterReopens == Spec => OnlyStarterReopens
  <1>1. IInv /\ [Next]_vars => [Reopens]_vars
    BY ReopensStep DEF IInv
  <1>2. Spec => [][Reopens]_vars
    BY <1>1, Invariance, PTL DEF Spec
  <1> QED BY <1>2 DEF OnlyStarterReopens, Reopens
=============================================================================
