------------------------- MODULE ScheduleRemediation -------------------------
(***************************************************************************)
(* The remediation scheduler: the "Send Task Token" state of the           *)
(* Orchestrator state machine, the SQS scheduling queue, the Lambda        *)
(* function schedule_remediation and the DynamoDB scheduling table.        *)
(*                                                                         *)
(* Every orchestrator execution asks for a start time.  It sends a message *)
(* with a task token and waits; the Lambda function reserves the next slot *)
(* of the execution's account and region in the table and answers the      *)
(* token with it (PlannedTimestamp).  Slots of one account and region are  *)
(* to be WaitThreshold seconds apart.                                      *)
(***************************************************************************)
EXTENDS Integers, FiniteSets

CONSTANTS
  Executions,      \* orchestrator executions
  Pairs,           \* account-region pairs: the keys of the scheduling table
  PairOf,          \* the pair an execution remediates in
  Workers,         \* Lambda execution environments of the function
  WaitThreshold,   \* RemediationWaitTime, in seconds
  MaxLag,          \* how far the clock may move during one invocation
  MaxReceiveCount, \* receives of a message before it is dead-lettered
  MaxAttempts,     \* task attempts of the state: the first one and its retries
  MaxClock,        \* bound on the clock, for model checking
  NoItem           \* no item under a key, no slot planned

ASSUME SchedulerAssumption ==
  /\ Executions # {}
  /\ PairOf \in [Executions -> Pairs]
  /\ WaitThreshold \in Nat
  /\ MaxLag \in 1 .. (WaitThreshold + 1)
  /\ MaxReceiveCount \in Nat \ {0}
  /\ MaxAttempts \in Nat \ {0}
  /\ MaxClock \in Nat
  /\ NoItem \notin Int

VARIABLES
  clock,     \* seconds, as int(datetime.now(timezone.utc).timestamp()) reads them
  item,      \* the scheduling table: pair -> LastExecutedTimestamp
  stale,     \* pair -> older values of the item that a read may still return
  queue,     \* message -> where it is
  receives,  \* message -> ApproximateReceiveCount
  task,      \* execution -> state of its "Send Task Token" task
  attempt,   \* execution -> attempt of that task
  planned,   \* execution -> PlannedTimestamp it was given
  worker,    \* execution environment -> the invocation it runs
  era,       \* history, for the properties: pair -> how many first puts have
             \* overwritten an item that their invocation's read had missed
  eraOf      \* history: execution -> era of its pair when it was given its time

vars == <<clock, item, stale, queue, receives, task, attempt, planned, worker, era, eraOf>>

-----------------------------------------------------------------------------
\* A message carries the task token of one attempt of one execution.
Messages == Executions \X (1 .. MaxAttempts)

Slots == Nat \cup {NoItem}

\* Program counters of an invocation: the next call it makes.
Idle == "idle"
Read == "read"        \* get_item
Decide == "decide"    \* compute the slot, or put the first one
Put == "put"          \* conditional put_item
Reply == "reply"      \* send_task_success
Fail == "fail"        \* send_task_failure
Return == "return"    \* handler returned: the poller deletes the message

Invocation == [pc: {Idle, Read, Decide, Put, Reply, Fail, Return},
               msg: Messages, current: Nat, found: Slots, new: Nat,
               missed: BOOLEAN]  \* history: get_item found nothing though an item was there

NoInvocation == [pc |-> Idle, msg |-> CHOOSE m \in Messages : TRUE,
                 current |-> 0, found |-> NoItem, new |-> 0, missed |-> FALSE]

Busy(w) == worker[w].pc # Idle
PairOfWorker(w) == PairOf[worker[w].msg[1]]

\* Step Functions accepts an answer only for the token of the attempt it waits for.
LiveToken(m) == task[m[1]] = "waiting" /\ attempt[m[1]] = m[2]

Init ==
  /\ clock = 0
  /\ item = [p \in Pairs |-> NoItem]
  /\ stale = [p \in Pairs |-> {}]
  /\ queue = [m \in Messages |-> "unsent"]
  /\ receives = [m \in Messages |-> 0]
  /\ task = [e \in Executions |-> "ready"]
  /\ attempt = [e \in Executions |-> 1]
  /\ planned = [e \in Executions |-> NoItem]
  /\ worker = [w \in Workers |-> NoInvocation]
  /\ era = [p \in Pairs |-> 0]
  /\ eraOf = [e \in Executions |-> 0]

-----------------------------------------------------------------------------
(***************************************************************************)
(* The state machine's task.                                               *)
(***************************************************************************)

\* Mutant of TaskFails: retries are not counted against the limit.
TaskFailsUnlimited(e) ==
  /\ task' = [task EXCEPT ![e] = "ready"]
  /\ attempt' = [attempt EXCEPT ![e] = @ + 1]

\* The task fails: retried while attempts are left, then caught by orchestratorFailed.
TaskFails(e) ==
  IF attempt[e] < MaxAttempts
  THEN /\ task' = [task EXCEPT ![e] = "ready"]
       /\ attempt' = [attempt EXCEPT ![e] = @ + 1]
  ELSE /\ task' = [task EXCEPT ![e] = "failed"]
       /\ UNCHANGED attempt

SendTaskToken(e) ==
  /\ task[e] = "ready"
  /\ task' = [task EXCEPT ![e] = "waiting"]
  /\ queue' = [queue EXCEPT ![<<e, attempt[e]>>] = "visible"]
  /\ UNCHANGED <<clock, item, stale, receives, attempt, planned, worker, era, eraOf>>

\* sqs:SendMessage itself fails.
SendTaskTokenFails(e) ==
  /\ task[e] = "ready"
  /\ TaskFails(e)
  /\ UNCHANGED <<clock, item, stale, queue, receives, planned, worker, era, eraOf>>

\* The execution times out or is stopped: its token becomes unknown.
AbortExecution(e) ==
  /\ task[e] \in {"ready", "waiting"}
  /\ task' = [task EXCEPT ![e] = "aborted"]
  /\ UNCHANGED <<clock, item, stale, queue, receives, attempt, planned, worker, era, eraOf>>

-----------------------------------------------------------------------------
(***************************************************************************)
(* The invocation of the Lambda function for one message.                  *)
(***************************************************************************)

Goto(w, pc) == worker' = [worker EXCEPT ![w].pc = pc]

\* Mutant of Receive: no limit on concurrent invocations.
ReceiveConcurrently(w, m) ==
  /\ ~Busy(w)
  /\ queue[m] = "visible"
  /\ queue' = [queue EXCEPT ![m] = "inflight"]
  /\ receives' = [receives EXCEPT ![m] = @ + 1]
  /\ worker' = [worker EXCEPT ![w] =
                 [pc |-> Read, msg |-> m, current |-> clock, found |-> NoItem, new |-> 0,
                  missed |-> FALSE]]
  /\ UNCHANGED <<clock, item, stale, task, attempt, planned, era, eraOf>>

\* One message per invocation, and one invocation at a time: batchSize 1 and
\* reservedConcurrentExecutions 1.  The handler parses the record and reads the clock.
Receive(w, m) ==
  /\ \A v \in Workers : ~Busy(v)
  /\ queue[m] = "visible"
  /\ queue' = [queue EXCEPT ![m] = "inflight"]
  /\ receives' = [receives EXCEPT ![m] = @ + 1]
  /\ worker' = [worker EXCEPT ![w] =
                 [pc |-> Read, msg |-> m, current |-> clock, found |-> NoItem, new |-> 0,
                  missed |-> FALSE]]
  /\ UNCHANGED <<clock, item, stale, task, attempt, planned, era, eraOf>>

\* Without ConsistentRead: the item, or what it was before writes not yet replicated.
GetItem(w) ==
  LET p == PairOfWorker(w) IN
  /\ worker[w].pc = Read
  /\ \E value \in {item[p]} \cup stale[p] :
       worker' = [worker EXCEPT ![w].pc = Decide, ![w].found = value,
                                ![w].missed = (value = NoItem /\ item[p] # NoItem)]
  /\ UNCHANGED <<clock, item, stale, queue, receives, task, attempt, planned, era, eraOf>>

\* Mutant of NextSlot: the wait is added twice.
NextSlotTwice(found, current) ==
  IF clock - found <= WaitThreshold THEN found + 2 * WaitThreshold ELSE current

\* The slot after the one found.  The threshold is compared with a second
\* reading of the clock, the slot with the first.
NextSlot(found, current) ==
  LET calculated == IF clock - found <= WaitThreshold
                    THEN found + WaitThreshold
                    ELSE current
  IN  IF calculated >= current THEN calculated ELSE current

ComputeSlot(w) ==
  /\ worker[w].pc = Decide
  /\ worker[w].found # NoItem
  /\ worker' = [worker EXCEPT ![w].pc = Put,
                              ![w].new = NextSlot(worker[w].found, worker[w].current)]
  /\ UNCHANGED <<clock, item, stale, queue, receives, task, attempt, planned, era, eraOf>>

\* DynamoDB replaces an item; until its replicas converge a read may miss the write.
Write(p, value) ==
  /\ item' = [item EXCEPT ![p] = value]
  /\ stale' = [stale EXCEPT ![p] = @ \cup {item[p]}]

\* put_item took effect; its response arrives, or is lost and the handler sees an error.
WriteSlot(w, slot) ==
  /\ Write(PairOfWorker(w), slot)
  /\ \E pc \in {Reply, Fail} :
       worker' = [worker EXCEPT ![w].pc = pc, ![w].new = slot]
  /\ UNCHANGED <<clock, queue, receives, task, attempt, planned>>

\* put_initial_in_dynamodb: no condition on the write, so an item that the read
\* missed is overwritten and the times it stood for are forgotten.
PutInitial(w) ==
  LET p == PairOfWorker(w) IN
  /\ worker[w].pc = Decide
  /\ worker[w].found = NoItem
  /\ WriteSlot(w, worker[w].current)
  /\ era' = [era EXCEPT ![p] = IF worker[w].missed /\ item[p] # NoItem THEN @ + 1 ELSE @]
  /\ UNCHANGED eraOf

\* Mutant of PutItem: the write has no condition.
PutItemUnconditional(w) ==
  /\ worker[w].pc = Put
  /\ WriteSlot(w, worker[w].new)
  /\ UNCHANGED <<era, eraOf>>

\* The write is conditional on the slot the invocation read.
PutItem(w) ==
  /\ worker[w].pc = Put
  /\ item[PairOfWorker(w)] = worker[w].found
  /\ WriteSlot(w, worker[w].new)
  /\ UNCHANGED <<era, eraOf>>

PutItemRejected(w) ==
  /\ worker[w].pc = Put
  /\ item[PairOfWorker(w)] # worker[w].found
  /\ Goto(w, Fail)
  /\ UNCHANGED <<clock, item, stale, queue, receives, task, attempt, planned, era, eraOf>>

\* A call to DynamoDB or Step Functions raises without having had an effect.
CallFails(w) ==
  /\ \/ worker[w].pc \in {Read, Put, Reply}
     \/ worker[w].pc = Decide /\ worker[w].found = NoItem
  /\ Goto(w, Fail)
  /\ UNCHANGED <<clock, item, stale, queue, receives, task, attempt, planned, era, eraOf>>

\* send_task_success is accepted; its response arrives or is lost.
SendSuccess(w) ==
  LET m == worker[w].msg IN
  /\ worker[w].pc = Reply
  /\ LiveToken(m)
  /\ task' = [task EXCEPT ![m[1]] = "scheduled"]
  /\ planned' = [planned EXCEPT ![m[1]] = worker[w].new]
  /\ eraOf' = [eraOf EXCEPT ![m[1]] = era[PairOfWorker(w)]]
  /\ \E pc \in {Return, Fail} : Goto(w, pc)
  /\ UNCHANGED <<clock, item, stale, queue, receives, attempt, era>>

\* The token is no longer known: TaskTimedOut or TaskDoesNotExist.
SendSuccessRejected(w) ==
  /\ worker[w].pc = Reply
  /\ ~LiveToken(worker[w].msg)
  /\ Goto(w, Fail)
  /\ UNCHANGED <<clock, item, stale, queue, receives, task, attempt, planned, era, eraOf>>

SendFailure(w) ==
  LET m == worker[w].msg IN
  /\ worker[w].pc = Fail
  /\ LiveToken(m)
  /\ TaskFails(m[1])
  /\ Goto(w, Return)
  /\ UNCHANGED <<clock, item, stale, queue, receives, planned, era, eraOf>>

\* Mutant of MessageReturns: a failed invocation acknowledges its message.
MessageDropped(w) ==
  /\ queue' = [queue EXCEPT ![worker[w].msg] = "deleted"]
  /\ worker' = [worker EXCEPT ![w] = NoInvocation]
  /\ UNCHANGED <<clock, item, stale, receives, task, attempt, planned, era, eraOf>>

\* The invocation ends without deleting its message, which becomes visible
\* again or, at its last receive, goes to the dead-letter queue.
MessageReturns(w) ==
  LET m == worker[w].msg IN
  /\ queue' = [queue EXCEPT ![m] = IF receives[m] < MaxReceiveCount THEN "visible" ELSE "dead"]
  /\ worker' = [worker EXCEPT ![w] = NoInvocation]
  /\ UNCHANGED <<clock, item, stale, receives, task, attempt, planned, era, eraOf>>

\* send_task_failure raises inside the exception handler.
SendFailureRejected(w) ==
  /\ worker[w].pc = Fail
  /\ ~LiveToken(worker[w].msg)
  /\ MessageReturns(w)

\* The function times out or its environment is lost, anywhere in the handler.
Crash(w) ==
  /\ Busy(w)
  /\ MessageReturns(w)

DeleteMessage(w) ==
  /\ worker[w].pc = Return
  /\ queue' = [queue EXCEPT ![worker[w].msg] = "deleted"]
  /\ worker' = [worker EXCEPT ![w] = NoInvocation]
  /\ UNCHANGED <<clock, item, stale, receives, task, attempt, planned, era, eraOf>>

-----------------------------------------------------------------------------
(***************************************************************************)
(* The environment.                                                        *)
(***************************************************************************)

\* A standard queue delivers at least once: a deleted message may come back.
Redeliver(m) ==
  /\ queue[m] = "deleted"
  /\ receives[m] < MaxReceiveCount
  /\ queue' = [queue EXCEPT ![m] = "visible"]
  /\ UNCHANGED <<clock, item, stale, receives, task, attempt, planned, worker, era, eraOf>>

\* Time passes, at most MaxLag seconds of it during one invocation.
Tick ==
  /\ clock < MaxClock
  /\ \A w \in Workers : Busy(w) => clock - worker[w].current < MaxLag
  /\ clock' = clock + 1
  /\ UNCHANGED <<item, stale, queue, receives, task, attempt, planned, worker, era, eraOf>>

\* Mutant of Expire: the TTL is the slot itself.
ExpireAtSlot(p) ==
  /\ item[p] # NoItem
  /\ item[p] < clock
  /\ Write(p, NoItem)
  /\ UNCHANGED <<clock, queue, receives, task, attempt, planned, worker, era, eraOf>>

\* DynamoDB deletes an item some time after its TTL, LastExecutedTimestamp + WaitThreshold.
Expire(p) ==
  /\ item[p] # NoItem
  /\ item[p] + WaitThreshold < clock
  /\ Write(p, NoItem)
  /\ UNCHANGED <<clock, queue, receives, task, attempt, planned, worker, era, eraOf>>

\* All replicas of the item have its last write.
Converge(p) ==
  /\ stale[p] # {}
  /\ stale' = [stale EXCEPT ![p] = {}]
  /\ UNCHANGED <<clock, item, queue, receives, task, attempt, planned, worker, era, eraOf>>

-----------------------------------------------------------------------------
Handle(w) ==
  \/ GetItem(w)
  \/ ComputeSlot(w)
  \/ PutInitial(w)
  \/ PutItem(w)
  \/ PutItemRejected(w)
  \/ SendSuccess(w)
  \/ SendSuccessRejected(w)
  \/ SendFailure(w)
  \/ SendFailureRejected(w)
  \/ DeleteMessage(w)

Next ==
  \/ \E e \in Executions : SendTaskToken(e) \/ SendTaskTokenFails(e) \/ AbortExecution(e)
  \/ \E w \in Workers : Handle(w) \/ CallFails(w) \/ Crash(w)
  \/ \E w \in Workers, m \in Messages : Receive(w, m)
  \/ \E m \in Messages : Redeliver(m)
  \/ \E p \in Pairs : Expire(p) \/ Converge(p)
  \/ Tick

Spec == Init /\ [][Next]_vars

\* The queue keeps delivering and an invocation keeps running; clocks, expiry,
\* failures and crashes are not obliged to happen.
FairSpec ==
  /\ Spec
  /\ WF_vars(\E w \in Workers : Handle(w))
  /\ WF_vars(\E w \in Workers, m \in Messages : Receive(w, m))

-----------------------------------------------------------------------------
(***************************************************************************)
(* Properties.                                                             *)
(***************************************************************************)

\* Every variable has its type.
TypeOK ==
  /\ clock \in Nat
  /\ item \in [Pairs -> Slots]
  /\ stale \in [Pairs -> SUBSET Slots]
  /\ queue \in [Messages -> {"unsent", "visible", "inflight", "deleted", "dead"}]
  /\ receives \in [Messages -> Nat]
  /\ task \in [Executions -> {"ready", "waiting", "scheduled", "failed", "aborted"}]
  /\ attempt \in [Executions -> 1 .. MaxAttempts]
  /\ planned \in [Executions -> Slots]
  /\ worker \in [Workers -> Invocation]
  /\ era \in [Pairs -> Nat]
  /\ eraOf \in [Executions -> Nat]

\* What the two clock readings leave of WaitThreshold: all of it when the clock
\* moves at most one second during an invocation.
SlotGap == WaitThreshold + 1 - MaxLag

\* The executions of a pair that were told a time.
Promised(p) == {e \in Executions : PairOf[e] = p /\ planned[e] # NoItem}

\* Throttling: whatever is retried, redelivered, lost, crashed or expired, and
\* whatever a read returns, two executions remediate in the same account and region
\* at least SlotGap apart, unless a first put between them overwrote an item its
\* read had missed. A stale read costs the spacing on the path that has no
\* condition, and nowhere else (schedule_remediation.lambda_handler).
SlotsSpaced ==
  \A p \in Pairs : \A e, f \in Promised(p) :
    e # f /\ eraOf[e] = eraOf[f] =>
      \/ planned[e] - planned[f] >= SlotGap
      \/ planned[f] - planned[e] >= SlotGap

\* The executions told a time less than SlotGap after that of e, e among them.
StartingWith(e) == {f \in Promised(PairOf[e]) : planned[f] - planned[e] \in 0 .. (SlotGap - 1)}

\* What the stale reads cost: "Remediations will be scheduled in the future to
\* prevent throttling" (CHANGELOG.md:286), yet the get_item without ConsistentRead
\* lets several start together. In any SlotGap seconds one execution of an account
\* and region starts, and one more for every first put that has overwritten an item
\* unseen: no order of calls, failures and stale reads costs more than that.
StaleReadsCost ==
  \A e \in Executions :
    planned[e] # NoItem => Cardinality(StartingWith(e)) <= 1 + era[PairOf[e]]

\* A time promised to an execution stays covered by the table: until its
\* WaitThreshold has passed the table holds that time or a later one, so the next
\* conditional write cannot hand it out again (put_item, TTL expiry); only a first
\* put that had missed the item uncovers it.
PromisesCovered ==
  \A p \in Pairs : \A e \in Promised(p) :
    eraOf[e] = era[p] =>
      IF item[p] = NoItem THEN planned[e] + WaitThreshold < clock ELSE planned[e] <= item[p]

\* The receives so far of the messages of a pair.
Receipts(p) == UNION {{m} \X (1 .. receives[m]) : m \in {m \in Messages : PairOf[m[1]] = p}}

\* A burst is served at the configured rate: an execution is never told to wait
\* longer than WaitThreshold for every message received so far for its pair, so
\* slots reserved by failed invocations cost at most their own wait.
BurstBounded ==
  \A e \in Executions :
    planned[e] # NoItem =>
      planned[e] <= clock + WaitThreshold * Cardinality(Receipts(PairOf[e]))

\* No execution is left waiting: its token is answered, or its message ends in
\* the dead-letter queue (SQS redelivery, send_task_failure in the handler).
TokenAnswered ==
  \A e \in Executions :
    task[e] = "waiting" ~> (task[e] # "waiting" \/ queue[<<e, attempt[e]>>] = "dead")
=============================================================================
