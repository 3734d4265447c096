-------------------------- MODULE SendNotifications --------------------------
(***************************************************************************)
(* The notification function and the tables it reports to.                 *)
(*                                                                         *)
(* The state machine invokes send_notifications when a remediation has     *)
(* been queued and when it is over, EventBridge invokes it when an         *)
(* execution fails.  The function flags the finding in Security Hub,       *)
(* publishes a message, writes the outcome to the findings table and to    *)
(* the remediation history, and resolves the finding.  Each call to a      *)
(* service is a step of its own, so invocations interleave with each other *)
(* and with whoever started the execution, who writes the same history     *)
(* row.                                                                    *)
(***************************************************************************)
EXTENDS Naturals, FiniteSets

CONSTANTS
  Executions,   \* executions of the Orchestrator
  Findings,     \* findings
  FindingsOf,   \* execution -> the findings in its input
  FirstOf,      \* execution -> the first of them
  Inputs,       \* what executions are started with: see Input
  MaxFaults,    \* how many calls fail or time out
  None          \* no execution, no row

\* Who starts an execution, an "imported" event, the "api" or a "custom" action, and the
\* workflow status of its findings.
Input == [trigger: {"imported", "api", "custom"}, workflow: {"NEW", "NOTIFIED", "RESOLVED"}]

\* The remediation statuses in the tables.
Outcomes == {"SUCCESS", "FAILED"}
Statuses == {"NOT_STARTED", "IN_PROGRESS"} \cup Outcomes

ASSUME NotificationAssumption ==
  /\ FindingsOf \in [Executions -> SUBSET Findings]
  /\ \A e \in Executions : FirstOf[e] \in FindingsOf[e]
  /\ Inputs \subseteq Input
  /\ MaxFaults \in Nat
  /\ None \notin Executions \cup Statuses

VARIABLES
  input,    \* execution -> what it was started with
  history,  \* item -> status in the remediation history table
  rows,     \* finding -> status and executionId in the findings table
  hub,      \* finding -> its workflow status in Security Hub
  call,     \* invocation -> where it is
  told,     \* item -> the notices published about it
  faults    \* failures so far

statusVars == <<input, history, rows, hub, call, told, faults>>

-----------------------------------------------------------------------------
\* What the Orchestrator works on: one finding of one execution.
Items == {i \in Executions \X Findings : i[2] \in FindingsOf[i[1]]}

\* The states of the state machine that invoke the function, and EventBridge.
Kinds == {"queued", "final", "event"}
Invocations == Items \X Kinds

Notices == {"QUEUED", "SUCCESS", "FAILED", "NOT_NEW"}

\* A row of the findings table without the finding's own data.
Row == [status: Statuses, execution: Executions \cup {None}]

\* The next call the function makes.
Steps == {"flag", "publish", "update", "read", "create", "only", "resolve"}

NoCall == [pc |-> "none", notice |-> "QUEUED", found |-> FALSE]
Active(c) == call[c].pc \in Steps
Over(c) == call[c].pc \in {"returned", "failed"}

\* Executions of imported events have one finding.
InputOK(e) == Cardinality(FindingsOf[e]) > 1 => input[e].trigger = "custom"

StatusInit ==
  /\ input \in [Executions -> Inputs]
  /\ \A e \in Executions : InputOK(e)
  /\ history = [i \in Items |-> None]
  /\ rows = [f \in Findings |-> [status |-> "NOT_STARTED", execution |-> None]]
  /\ hub = [f \in Findings |-> "NEW"]
  /\ call = [c \in Invocations |-> NoCall]
  /\ told = [i \in Items |-> {}]
  /\ faults = 0

Fault == faults < MaxFaults /\ faults' = faults + 1

-----------------------------------------------------------------------------
\* is_notified_workflow: an imported NOTIFIED finding leaves the tables alone.
Silent(e) == input[e].workflow = "NOTIFIED" /\ input[e].trigger = "imported"

\* map_remediation_status, and is_resolved_item.
StatusOf(e, notice) ==
  CASE notice = "QUEUED" -> "IN_PROGRESS"
    [] notice = "NOT_NEW" -> IF input[e].workflow = "RESOLVED" THEN "SUCCESS" ELSE "FAILED"
    [] OTHER -> notice

\* lambda_handler begins: all but SUCCESS and QUEUED flag the finding.
Called(notice) ==
  [pc |-> IF notice \in {"SUCCESS", "QUEUED"} THEN "publish" ELSE "flag",
   notice |-> notice, found |-> FALSE]

\* What follows the updates of the tables.
AfterUpdate(c) == IF call[c].notice = "SUCCESS" THEN "resolve" ELSE "returned"

Goto(c, pc) == call' = [call EXCEPT ![c].pc = pc]

\* A row that names the execution.
Reported(c) == [status |-> StatusOf(c[1][1], call[c].notice), execution |-> c[1][1]]

-----------------------------------------------------------------------------
(***************************************************************************)
(* The function, from one call to the next.                                *)
(***************************************************************************)

\* BatchUpdateFindings to NOTIFIED; an error is only logged.
Flag(c) ==
  /\ call[c].pc = "flag"
  /\ \/ hub' = [hub EXCEPT ![c[1][2]] = "NOTIFIED"] /\ UNCHANGED faults
     \/ Fault /\ UNCHANGED hub
  /\ Goto(c, "publish")
  /\ UNCHANGED <<input, history, rows, told>>

\* The message to the SNS topic.
Publish(c) ==
  /\ call[c].pc = "publish"
  /\ told' = [told EXCEPT ![c[1]] = @ \cup {call[c].notice}]
  /\ Goto(c, IF Silent(c[1][1]) THEN AfterUpdate(c) ELSE "update")
  /\ UNCHANGED <<input, history, rows, hub, faults>>

\* Mutant of Update: the rows are not written in one transaction, the finding's first.
UpdateSeparately(c) ==
  LET i == c[1] IN
  /\ call[c].pc = "update"
  /\ rows' = [rows EXCEPT ![i[2]] = Reported(c)]
  /\ IF history[i] # None
     THEN /\ history' = [history EXCEPT ![i] = Reported(c).status]
          /\ Goto(c, AfterUpdate(c))
     ELSE UNCHANGED history /\ Goto(c, "read")
  /\ UNCHANGED <<input, hub, told, faults>>

\* try_update_with_existing_history: one transaction updates both rows, creating
\* the finding's if need be, unless there is no history row.
Update(c) ==
  LET i == c[1] IN
  /\ call[c].pc = "update"
  /\ IF history[i] # None
     THEN /\ history' = [history EXCEPT ![i] = Reported(c).status]
          /\ rows' = [rows EXCEPT ![i[2]] = Reported(c)]
          /\ Goto(c, AfterUpdate(c))
     ELSE UNCHANGED <<history, rows>> /\ Goto(c, "read")
  /\ UNCHANGED <<input, hub, told, faults>>

\* create_history_with_finding_update reads the finding; an error counts as none.
ReadFinding(c) ==
  LET exists == rows[c[1][2]] # None IN
  /\ call[c].pc = "read"
  /\ \/ call' = [call EXCEPT ![c].pc = "create", ![c].found = exists] /\ UNCHANGED faults
     \/ call' = [call EXCEPT ![c].pc = "create", ![c].found = FALSE] /\ Fault
  /\ UNCHANGED <<input, history, rows, hub, told>>

\* One transaction creates the history row and updates the finding's, if it was
\* found; it is cancelled when the history row has appeared since.
CreateHistory(c) ==
  LET i == c[1] IN
  /\ call[c].pc = "create"
  /\ IF history[i] = None
     THEN /\ history' = [history EXCEPT ![i] = Reported(c).status]
          /\ rows' = IF call[c].found THEN [rows EXCEPT ![i[2]] = Reported(c)] ELSE rows
          /\ Goto(c, AfterUpdate(c))
     ELSE UNCHANGED <<history, rows>> /\ Goto(c, "only")
  /\ UNCHANGED <<input, hub, told, faults>>

\* update_finding_only
UpdateFindingOnly(c) ==
  /\ call[c].pc = "only"
  /\ rows' = [rows EXCEPT ![c[1][2]] = Reported(c)]
  /\ Goto(c, AfterUpdate(c))
  /\ UNCHANGED <<input, history, hub, told, faults>>

\* Any other error of a write, a conflict of transactions for one, is logged and
\* the status is lost.
UpdateLost(c) ==
  /\ call[c].pc \in {"update", "create", "only"}
  /\ Fault
  /\ Goto(c, AfterUpdate(c))
  /\ UNCHANGED <<input, history, rows, hub, told>>

\* BatchUpdateFindings to RESOLVED; an error is only logged.
Resolve(c) ==
  /\ call[c].pc = "resolve"
  /\ \/ hub' = [hub EXCEPT ![c[1][2]] = "RESOLVED"] /\ UNCHANGED faults
     \/ Fault /\ UNCHANGED hub
  /\ Goto(c, "returned")
  /\ UNCHANGED <<input, history, rows, told>>

\* The message cannot be published, or the function is lost.
InvocationFails(c) ==
  /\ Active(c)
  /\ Fault
  /\ Goto(c, "failed")
  /\ UNCHANGED <<input, history, rows, hub, told>>

SendNotification(c) ==
  \/ Flag(c)
  \/ Publish(c)
  \/ Update(c)
  \/ ReadFinding(c)
  \/ CreateHistory(c)
  \/ UpdateFindingOnly(c)
  \/ Resolve(c)

-----------------------------------------------------------------------------
(***************************************************************************)
(* Other writers of the tables.                                            *)
(***************************************************************************)

\* What a starter writes once it has the execution's ARN: the pre-processor the
\* history row, the API both rows in one transaction; neither looks at what is
\* there.
PutStarted(e) ==
  LET f == FirstOf[e] IN
  /\ history' = [history EXCEPT ![<<e, f>>] = "IN_PROGRESS"]
  /\ rows' = IF input[e].trigger = "api"
             THEN [rows EXCEPT ![f] = [status |-> "IN_PROGRESS", execution |-> e]]
             ELSE rows

\* A finding that is closed in Security Hub is deleted by the pre-processor.
RowDeleted(f) ==
  /\ rows[f] # None
  /\ rows' = [rows EXCEPT ![f] = None]
  /\ UNCHANGED <<input, history, hub, call, told, faults>>
=============================================================================
