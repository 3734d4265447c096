---------------------------- MODULE Orchestrator -----------------------------
(***************************************************************************)
(* The Orchestrator: a Step Functions state machine that takes each finding*)
(* of its input from the check of its workflow status to an automation in  *)
(* the member account and the notification of the outcome.                 *)
(*                                                                         *)
(* A task that times out leaves its Lambda invocation running (the         *)
(* functions' own timeout is longer), so an automation or a notification   *)
(* that the state machine has given up may still happen.                   *)
(***************************************************************************)
EXTENDS SendNotifications

CONSTANTS
  Documents,     \* states of a runbook: see DocState
  MaxStarts,     \* attempts of the state Execute Remediation (1 + maxAttempts)
  MaxDeliveries, \* attempts of EventBridge's target (1 + retryAttempts)
  Ends,          \* how automations end: see Ended
  Timeouts,      \* whether tasks may time out
  Closes         \* whether findings may be closed meanwhile

ASSUME OrchestratorAssumption ==
  /\ Documents \subseteq {"Active", "Inactive", "NotAutomation", "Missing", "Denied", "Disabled"}
  /\ MaxStarts \in Nat \ {0}
  /\ MaxDeliveries \in Nat \ {0}
  /\ Timeouts \in BOOLEAN
  /\ Closes \in BOOLEAN
  /\ Ends \subseteq {"success", "rejected", "refused", "failed"}

VARIABLES
  status,      \* execution -> its status
  record,      \* execution -> whether its starter still has to write to the tables
  pc,          \* item -> state of the state machine it is in
  document,    \* item -> the runbook's state when it was looked up
  attempt,     \* item -> attempts of Execute Remediation
  automation,  \* item -> attempt -> what became of it
  monitored,   \* item -> the attempt whose automation the state machine knows
  deliveries   \* execution -> deliveries of its failure event

machineVars == <<status, record, pc, document, attempt, automation, monitored, deliveries>>
vars == <<statusVars, machineVars>>

-----------------------------------------------------------------------------
ItemsOf(e) == {i \in Items : i[1] = e}

States == {"idle", "workflow", "approval", "document", "schedule", "remediate", "queued",
           "monitor", "ticket", "final", "done"}

\* How an automation can end: the SSM status, and for Success what the script says
\* of the remediation.
Ended == {"success", "rejected", "refused", "failed"}

\* An attempt is invoked, starts an automation, which ends; lost: it never will.
Progress == {"none", "invoked", "running", "lost"} \cup Ended

Init ==
  /\ StatusInit
  /\ status = [e \in Executions |-> "idle"]
  /\ record = [e \in Executions |-> "none"]
  /\ pc = [i \in Items |-> "idle"]
  /\ document = [i \in Items |-> None]
  /\ attempt = [i \in Items |-> 0]
  /\ automation = [i \in Items |-> [n \in 1 .. MaxStarts |-> "none"]]
  /\ monitored = [i \in Items |-> 0]
  /\ deliveries = [e \in Executions |-> 0]

-----------------------------------------------------------------------------
(***************************************************************************)
(* Starters.                                                               *)
(***************************************************************************)

\* StartExecution, with findings as Security Hub has them.  A custom action's rule has
\* nothing to write to the tables, the pre-processor has written the finding's row
\* already.
StartExecution(e) ==
  LET f == FirstOf[e] IN
  /\ status[e] = "idle"
  /\ status' = [status EXCEPT ![e] = "running"]
  /\ pc' = [i \in Items |-> IF i[1] = e THEN "workflow" ELSE pc[i]]
  /\ record' = [record EXCEPT ![e] = IF Silent(e) \/ input[e].trigger = "custom" THEN "none" ELSE "owed"]
  /\ rows' = IF input[e].trigger = "imported" /\ ~Silent(e)
             THEN [rows EXCEPT ![f] = [status |-> "IN_PROGRESS", execution |-> None]]
             ELSE rows
  /\ hub' = [g \in Findings |-> IF g \in FindingsOf[e] THEN input[e].workflow ELSE hub[g]]
  /\ UNCHANGED <<input, history, call, told, faults,
                 document, attempt, automation, monitored, deliveries>>

\* createRemediationHistory, createRemediationHistoryWithFindingUpdate.
RecordStarted(e) ==
  /\ record[e] = "owed"
  /\ record' = [record EXCEPT ![e] = "written"]
  /\ PutStarted(e)
  /\ UNCHANGED <<input, hub, call, told, faults,
                 status, pc, document, attempt, automation, monitored, deliveries>>

\* It fails.  When another of the findings of an API call could not be started, all
\* of them are written as FAILED and without the executions they have.
RecordFails(e) ==
  LET f == FirstOf[e] IN
  /\ record[e] = "owed"
  /\ Fault
  /\ record' = [record EXCEPT ![e] = "failed"]
  /\ \/ UNCHANGED rows
     \/ /\ input[e].trigger = "api"
        /\ rows' = [rows EXCEPT ![f] = [status |-> "FAILED", execution |-> None]]
  /\ UNCHANGED <<input, history, hub, call, told,
                 status, pc, document, attempt, automation, monitored, deliveries>>

-----------------------------------------------------------------------------
(***************************************************************************)
(* States of one finding.                                                  *)
(***************************************************************************)
In(i, state) == pc[i] = state /\ status[i[1]] = "running"

Enter(i, state) == pc' = [pc EXCEPT ![i] = state]

\* Enters the state that invokes send_notifications with a notice.
EnterNotify(i, state, notice) ==
  /\ Enter(i, state)
  /\ call' = [call EXCEPT ![<<i, state>>] = Called(notice)]

tables == <<input, history, rows, hub, told>>

\* Finding Workflow State NEW?
CheckWorkflow(i) ==
  LET e == i[1] IN
  /\ In(i, "workflow")
  /\ IF input[e].trigger # "imported" \/ input[e].workflow = "NEW"
     THEN Enter(i, "approval") /\ UNCHANGED call
     ELSE EnterNotify(i, "final", "NOT_NEW")
  /\ UNCHANGED <<tables, faults, status, record, document, attempt, automation, monitored, deliveries>>

\* Get Remediation Approval Requirement
GetApproval(i) ==
  /\ In(i, "approval")
  /\ Enter(i, "document")
  /\ UNCHANGED <<tables, call, faults, status, record, document, attempt, automation, monitored, deliveries>>

\* check_ssm_doc_state: a document of another type or that is not active is found to
\* be so, and then ACTIVE.
DocState(doc) ==
  CASE doc \in {"Active", "Inactive", "NotAutomation"} -> "ACTIVE"
    [] doc = "Missing" -> "NOTFOUND"
    [] doc = "Denied" -> "ACCESSDENIED"
    [] doc = "Disabled" -> "NOTENABLED"

\* Get Automation Document State, Automation Doc Active?
CheckDocument(i, doc) ==
  /\ In(i, "document")
  /\ document' = [document EXCEPT ![i] = doc]
  /\ IF DocState(doc) = "ACTIVE"
     THEN Enter(i, "schedule") /\ UNCHANGED call
     ELSE EnterNotify(i, "final", "FAILED")
  /\ UNCHANGED <<tables, faults, status, record, attempt, automation, monitored, deliveries>>

\* Execute Remediation is invoked, again if need be.
Invoke(i) ==
  /\ attempt' = [attempt EXCEPT ![i] = @ + 1]
  /\ automation' = [automation EXCEPT ![i][attempt[i] + 1] = "invoked"]

\* Send Task Token is answered, Remediation Wait is over.
Scheduled(i) ==
  /\ In(i, "schedule")
  /\ Enter(i, "remediate")
  /\ Invoke(i)
  /\ UNCHANGED <<tables, call, faults, status, record, document, monitored, deliveries>>

\* exec_ssm_doc starts the automation.
StartAutomation(i, n) ==
  /\ automation[i][n] = "invoked"
  /\ automation' = [automation EXCEPT ![i][n] = "running"]
  /\ UNCHANGED <<statusVars, status, record, pc, document, attempt, monitored, deliveries>>

\* It ends by itself.
AutomationEnds(i, n) ==
  /\ automation[i][n] = "running"
  /\ \E end \in Ends : automation' = [automation EXCEPT ![i][n] = end]
  /\ UNCHANGED <<statusVars, status, record, pc, document, attempt, monitored, deliveries>>

\* Execute Remediation returns the automation's id, Queued Notification is invoked.
RemediationQueued(i) ==
  /\ In(i, "remediate")
  /\ automation[i][attempt[i]] \in {"running"} \cup Ended
  /\ monitored' = [monitored EXCEPT ![i] = attempt[i]]
  /\ EnterNotify(i, "queued", "QUEUED")
  /\ UNCHANGED <<tables, faults, status, record, document, attempt, automation, deliveries>>

\* Mutant of Retried: attempts are not counted against the limit.
RetriedAlways(i) == TRUE

\* maxAttempts of Execute Remediation's retry.
Retried(i) == attempt[i] < MaxStarts

\* Its attempt fails, before or after the automation has been started, or times out
\* and runs on.  It is retried, then the failure is notified.
RemediateFails(i) ==
  LET n == attempt[i]
      left == IF automation[i][n] = "invoked" THEN "lost" ELSE automation[i][n]
      alive == [automation EXCEPT ![i][n] = left]
  IN
  /\ In(i, "remediate")
  /\ Fault
  /\ \E others \in {alive} \cup (IF Timeouts THEN {automation} ELSE {}) :
       IF Retried(i)
       THEN /\ attempt' = [attempt EXCEPT ![i] = n + 1]
            /\ automation' = [others EXCEPT ![i][n + 1] = "invoked"]
            /\ UNCHANGED <<pc, call>>
       ELSE /\ automation' = others
            /\ EnterNotify(i, "final", "FAILED")
            /\ UNCHANGED attempt
  /\ UNCHANGED <<tables, status, record, document, monitored, deliveries>>

\* Mutant of QueuedReturned: the state machine does not wait for the invocation.
QueuedInvoked(i) == TRUE

QueuedReturned(i) == call[<<i, "queued">>].pc = "returned"

\* Queued Notification returns, execMonitor is entered.
Monitor(i) ==
  /\ In(i, "queued")
  /\ QueuedReturned(i)
  /\ Enter(i, "monitor")
  /\ UNCHANGED <<tables, call, faults, status, record, document, attempt, automation, monitored, deliveries>>

\* Mutant of Verdict: every terminal status is a success.
VerdictIgnored(end) == "SUCCESS"

\* execMonitor and Remediation completed?: a script's "Failed" goes to Remediation
\* Failed, which notifies the SSM status; other answers of the script are not seen.
Verdict(end) == IF end = "failed" THEN "FAILED" ELSE "SUCCESS"

\* It has found the automation ended; on success a ticket may be asked for.
Completed(i) ==
  LET end == automation[i][monitored[i]] IN
  /\ In(i, "monitor")
  /\ end \in Ended
  /\ \/ EnterNotify(i, "final", Verdict(end))
     \/ /\ input[i[1]].trigger # "imported"
        /\ end \in {"success", "rejected"}
        /\ Enter(i, "ticket") /\ UNCHANGED call
  /\ UNCHANGED <<tables, faults, status, record, document, attempt, automation, monitored, deliveries>>

\* Generate Ticket; the ticket function's answer does not change the outcome.
GenerateTicket(i) ==
  /\ In(i, "ticket")
  /\ EnterNotify(i, "final", "SUCCESS")
  /\ UNCHANGED <<tables, faults, status, record, document, attempt, automation, monitored, deliveries>>

\* Another task fails, after its retries, or times out: Orchestrator Failed.  A
\* notification that has failed is not a new fault.
TaskFails(i) ==
  /\ \E state \in {"approval", "document", "schedule", "queued", "monitor", "ticket"} : In(i, state)
  /\ \/ pc[i] = "queued" /\ call[<<i, "queued">>].pc = "failed" /\ UNCHANGED faults
     \/ (pc[i] = "queued" => Timeouts /\ ~Over(<<i, "queued">>)) /\ Fault
  /\ EnterNotify(i, "final", "FAILED")
  /\ UNCHANGED <<tables, status, record, document, attempt, automation, monitored, deliveries>>

\* The notification returns: the finding is done, and with the last one the execution.
Done(i) ==
  LET e == i[1] IN
  /\ In(i, "final")
  /\ call[<<i, "final">>].pc = "returned"
  /\ Enter(i, "done")
  /\ status' = [status EXCEPT ![e] =
                 IF \A j \in ItemsOf(e) \ {i} : pc[j] = "done" THEN "succeeded" ELSE "running"]
  /\ UNCHANGED <<tables, call, faults, record, document, attempt, automation, monitored, deliveries>>

-----------------------------------------------------------------------------
(***************************************************************************)
(* The execution fails as a whole.                                         *)
(***************************************************************************)
Fail(e) == status' = [status EXCEPT ![e] = "failed"]

\* notify has no Catch: its failure, or its timeout, ends the execution.
NotifyFails(i) ==
  LET c == <<i, "final">> IN
  /\ In(i, "final")
  /\ \/ call[c].pc = "failed" /\ UNCHANGED faults
     \/ Timeouts /\ ~Over(c) /\ Fault
  /\ Fail(i[1])
  /\ UNCHANGED <<tables, call, record, pc, document, attempt, automation, monitored, deliveries>>

\* The timeout of the state machine, or StopExecution.
TimesOut(e) ==
  /\ status[e] = "running"
  /\ Fail(e)
  /\ UNCHANGED <<statusVars, record, pc, document, attempt, automation, monitored, deliveries>>

\* transform_stepfunctions_failure_event reports the first finding of the input.
EventCall(e) == << <<e, FirstOf[e]>>, "event">>

\* Mutant of Redelivered: a failed delivery is not made again.
RedeliveredNever(e) == FALSE

\* The target's retry policy.
Redelivered(e) == call[EventCall(e)].pc = "failed" /\ deliveries[e] < MaxDeliveries

\* ExecutionFailureRule invokes the notification function, again when it fails.
DeliverEvent(e) ==
  /\ status[e] = "failed"
  /\ deliveries[e] = 0 \/ Redelivered(e)
  /\ deliveries' = [deliveries EXCEPT ![e] = @ + 1]
  /\ call' = [call EXCEPT ![EventCall(e)] = Called("FAILED")]
  /\ UNCHANGED <<tables, faults, status, record, pc, document, attempt, automation, monitored>>

-----------------------------------------------------------------------------
Notification(c) ==
  /\ SendNotification(c) \/ UpdateLost(c) \/ InvocationFails(c)
  /\ UNCHANGED machineVars

Step(i) ==
  \/ CheckWorkflow(i)
  \/ GetApproval(i)
  \/ \E doc \in Documents : CheckDocument(i, doc)
  \/ Scheduled(i)
  \/ RemediationQueued(i)
  \/ RemediateFails(i)
  \/ Monitor(i)
  \/ Completed(i)
  \/ GenerateTicket(i)
  \/ TaskFails(i)
  \/ Done(i)
  \/ NotifyFails(i)

Next ==
  \/ \E e \in Executions :
       StartExecution(e) \/ RecordStarted(e) \/ RecordFails(e) \/ TimesOut(e) \/ DeliverEvent(e)
  \/ \E i \in Items : Step(i)
  \/ \E i \in Items, n \in 1 .. MaxStarts : StartAutomation(i, n) \/ AutomationEnds(i, n)
  \/ \E c \in Invocations : Notification(c)
  \/ \E f \in Findings : Closes /\ RowDeleted(f) /\ UNCHANGED machineVars

Spec == Init /\ [][Next]_vars

\* Lambda functions run to their end, EventBridge delivers, and an execution does not
\* run longer than the state machine's timeout.
FairSpec ==
  /\ Spec
  /\ \A c \in Invocations : WF_vars(Notification(c))
  /\ \A e \in Executions : WF_vars(TimesOut(e)) /\ WF_vars(DeliverEvent(e))
-----------------------------------------------------------------------------
(***************************************************************************)
(* Properties.                                                             *)
(***************************************************************************)

\* Every variable has its type.
TypeOK ==
  /\ input \in [Executions -> Inputs]
  /\ history \in [Items -> Statuses \cup {None}]
  /\ rows \in [Findings -> Row \cup {None}]
  /\ hub \in [Findings -> {"NEW", "NOTIFIED", "RESOLVED"}]
  /\ call \in [Invocations -> [pc: Steps \cup {"none", "returned", "failed"},
                              notice: Notices, found: BOOLEAN]]
  /\ told \in [Items -> SUBSET Notices]
  /\ faults \in 0 .. MaxFaults
  /\ status \in [Executions -> {"idle", "running", "succeeded", "failed"}]
  /\ record \in [Executions -> {"none", "owed", "written", "failed"}]
  /\ pc \in [Items -> States]
  /\ document \in [Items -> Documents \cup {None}]
  /\ attempt \in [Items -> 0 .. MaxStarts]
  /\ automation \in [Items -> [1 .. MaxStarts -> Progress]]
  /\ monitored \in [Items -> 0 .. MaxStarts]
  /\ deliveries \in [Executions -> 0 .. MaxDeliveries]

\* The automation that the state machine monitors has ended with SSM status Success.
AutomationSucceeded(i) ==
  monitored[i] > 0 /\ automation[i][monitored[i]] \in Ended \ {"failed"}

\* Whatever fails, is repeated, runs late or is written by the starter, the history
\* says SUCCESS only of a finding whose automation ended with Success or that was
\* resolved when it came (Remediation completed?, is_resolved_item).
SuccessBacked ==
  \A i \in Items :
    history[i] = "SUCCESS" =>
      \/ AutomationSucceeded(i)
      \/ input[i[1]] = [trigger |-> "imported", workflow |-> "RESOLVED"]

\* The invocations that report an outcome of an item.
Reporters(i) == {k \in {"final", "event"} : call[<<i, k>>].pc # "none"}

\* Something has failed or timed out, so an invocation may be running unattended.
Disturbed(e) == faults > 0 \/ status[e] = "failed"

\* An outcome in the findings table, and the executionId with it, has a history row
\* of that execution with the same outcome: the two are written together, along every
\* path of remediation_data_service.  The exceptions come from its fallback, which is
\* not one transaction: the starter, or a queued notification running unattended,
\* writes the history row between its calls or after them, or two invocations report
\* at once.
TablesAgree ==
  \A i \in Items :
    LET row == rows[i[2]]
        e == i[1]
    IN
    row # None /\ row.execution = e /\ row.status \in Outcomes =>
      \/ history[i] = row.status
      \/ history[i] = "IN_PROGRESS" /\ (record[e] = "written" \/ Disturbed(e))
      \/ history[i] # None /\ Cardinality(Reporters(i)) = 2

\* As long as nothing fails or times out, only the starter of an execution puts a
\* finished history row back to IN_PROGRESS: the queued notification has returned
\* before the outcome is looked for (notifyQueued, execMonitor).
OnlyStarterReopens ==
  [][\A i \in Items :
       history[i] \in Outcomes /\ history'[i] = "IN_PROGRESS" =>
         record'[i[1]] # record[i[1]] \/ Disturbed(i[1])]_vars

\* Every finding of an execution is eventually notified as fixed, failed or not new,
\* although the execution may fail or time out at any step and EventBridge has to
\* deliver its failure more than once (executionFailureRule).
EveryoneTold ==
  \A i \in Items :
    status[i[1]] = "running" ~> told[i] \cap {"SUCCESS", "FAILED", "NOT_NEW"} # {}

\* SUCCESS is reported only for a remediation whose script says that it succeeded
\* (check_ssm_execution's remediation_status).
SuccessVerified ==
  \A i \in Items :
    "SUCCESS" \in told[i] => automation[i][monitored[i]] \notin {"rejected", "refused"}

\* A runbook that is not an active automation document is not executed
\* (check_ssm_doc_state, Automation Document is not Active).
InactiveNotRun ==
  \A i \in Items :
    document[i] \in {"Inactive", "NotAutomation"} => \A n \in 1 .. MaxStarts : automation[i][n] = "none"
=============================================================================
