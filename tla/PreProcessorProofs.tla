-------------------------- MODULE PreProcessorProofs --------------------------
(***************************************************************************)
(* Proofs about PreProcessor: its types, and that it implements ClaimOnce  *)
(* when no user writes rows back, for any number of findings, messages,    *)
(* containers, batches, versions and receives, with failures or without;   *)
(* and that in ClaimOnce a version is started on one claim only.           *)
(***************************************************************************)
EXTENDS PreProcessor, TLAPS

Inv == TypeOK /\ TasksConsistent

\* A missing row is not a row; a row that exists is.
LEMMA RowFacts ==
  /\ NoRow \notin Row
  /\ \A row \in Row \cup {NoRow} :
       row.version \in 0 .. MaxVersion /\ row.suppressed \in BOOLEAN
  /\ \A row \in Row \cup {NoRow} : Exists(row) <=> row \in Row
<1>1. NoRow.status \notin Statuses
  BY DEF NoRow, Statuses, NotStarted, InProgress, Success, Failed
<1>2. NoRow \notin Row
  BY <1>1 DEF Row
<1>3. NoRow.version \in 0 .. MaxVersion /\ NoRow.suppressed \in BOOLEAN
  BY TableAssumption DEF NoRow
<1>4. QED
  BY <1>2, <1>3 DEF Row, Exists

\* The idle task is a task.
LEMMA NoTaskType == NoTask \in Task /\ NoTask.pc = "none"
BY TableAssumption DEF NoTask, Task, Row, Statuses, NotStarted

\* A task with another program counter is a task.
LEMMA FinishType ==
  ASSUME NEW m \in Messages, task \in [Messages -> Task],
         NEW pc \in {"none", "done", "ignored", "threw"} \cup Calls, Finish(m, pc)
  PROVE  /\ task' \in [Messages -> Task]
         /\ task'[m] = [task[m] EXCEPT !.pc = pc]
         /\ \A n \in Messages : n # m => task'[n] = task[n]
<1> DEFINE t == [task[m] EXCEPT !.pc = pc]
<1>1. t \in Task
  BY DEF Task
<1>2. task' = [task EXCEPT ![m] = t]
  BY DEF Finish
<1> HIDE DEF t
<1>3. QED
  BY <1>1, <1>2 DEF t

\* What a running handler can rely on.
LEMMA Running ==
  ASSUME Inv, NEW m \in Messages, task[m].pc # "none"
  PROVE  /\ queue[m] = "inflight" /\ task[m] \in Task /\ task[m].at \in Containers
         /\ event[m] \in Events /\ event[m].finding \in Findings
         /\ event[m].version \in 1 .. MaxVersion
         /\ receives[m] \in 1 .. MaxReceiveCount
<1>1. queue[m] = "inflight" /\ task[m].at \in Containers /\ event[m] \in Events
      /\ event[m].version > 0 /\ receives[m] > 0
  BY DEF Inv, TasksConsistent
<1>2. event[m].version \in 0 .. MaxVersion /\ event[m].finding \in Findings
  BY <1>1 DEF Events
<1>3. QED
  BY <1>1, <1>2, PreProcessorAssumption, TableAssumption DEF Inv, TypeOK

\* A lookup returns a row or none.
LEMMA LookupType ==
  ASSUME Inv, NEW m \in Messages, task[m].pc # "none"
  PROVE  /\ Lookup(m) \in Row \cup {NoRow}
         /\ \A item \in Answers(m) : item \in Row \cup {NoRow}
<1>1. Lookup(m) \in Row \cup {NoRow}
  BY Running DEF Lookup, Inv, TypeOK
<1>2. QED
  BY <1>1 DEF Answers

\* The cache keeps its type when a lookup is remembered.
LEMMA RememberType ==
  ASSUME Inv, NEW m \in Messages, task[m].pc # "none",
         NEW item \in Row \cup {NoRow}, Remember(m, item)
  PROVE  cache' \in [Containers -> [finding: Findings \cup {None}, row: Row \cup {NoRow}]]
BY Running DEF Remember, Inv, TypeOK

\* A handler's next program counter and row keep what ties it to its message.
LEMMA HandlerStep ==
  ASSUME Inv, NEW m \in Messages, task[m].pc # "none",
         NEW t \in Task, task' = [task EXCEPT ![m] = t],
         t.at = task[m].at,
         t.pc \in {"old", "exists", "put", "create"} => t.row.version = event[m].version,
         t.pc = "delete" => ~t.trigger,
         UNCHANGED <<event, queue, receives>>
  PROVE  TasksConsistent' /\ task' \in [Messages -> Task]
<1>1. task \in [Messages -> Task] /\ TasksConsistent
  BY DEF Inv, TypeOK
<1>2. task' \in [Messages -> Task] /\ task'[m] = t
      /\ \A n \in Messages : n # m => task'[n] = task[n]
  BY <1>1
<1>3. queue[m] = "inflight" /\ t.at \in Containers
  BY Running
<1>4. ASSUME NEW n \in Messages, n # m
      PROVE  /\ task'[n].pc # "none" => queue'[n] = "inflight" /\ task'[n].at \in Containers
             /\ task'[n].pc \in {"old", "exists", "put", "create"} =>
                  task'[n].row.version = event'[n].version
             /\ task'[n].pc = "delete" => ~task'[n].trigger
  BY <1>1, <1>2, <1>4 DEF TasksConsistent
<1>5. QED
  BY <1>1, <1>2, <1>3, <1>4 DEF TasksConsistent

\* Finish is such a step, to any program counter that has no row of its own.
LEMMA FinishStep ==
  ASSUME Inv, NEW m \in Messages, task[m].pc # "none",
         NEW pc \in {"done", "ignored", "threw", "start", "history"},
         Finish(m, pc), UNCHANGED <<event, queue, receives>>
  PROVE  TasksConsistent' /\ task' \in [Messages -> Task]
<1> DEFINE t == [task[m] EXCEPT !.pc = pc]
<1>1. task[m] \in Task
  BY Running
<1>2. t \in Task /\ t.at = task[m].at /\ t.pc = pc
  BY <1>1 DEF Task, Calls
<1>3. task' = [task EXCEPT ![m] = t]
  BY DEF Finish
<1> HIDE DEF t
<1>4. QED
  BY <1>2, <1>3, HandlerStep

\* The row a handler is about to write.
LEMMA ItemType ==
  ASSUME Inv, NEW m \in Messages, task[m].pc # "none", NEW auto \in BOOLEAN,
         NEW item \in Row \cup {NoRow}
  PROVE  LET e == event[m]
             trigger == Triggers(e, auto, item)
         IN  /\ trigger \in BOOLEAN
             /\ ItemOf(e, NextStatus(e, trigger, item), item) \in Row
             /\ \A status \in Statuses : ItemOf(e, status, item) \in Row
<1>1. event[m].version \in 0 .. MaxVersion
  BY Running DEF Events
<1>2. item.suppressed \in BOOLEAN
  BY RowFacts
<1>3. \A status \in Statuses : ItemOf(event[m], status, item) \in Row
  BY <1>1, <1>2 DEF ItemOf, Row
<1>4. \A trigger \in BOOLEAN : NextStatus(event[m], trigger, item) \in Statuses
  BY <1>2, RowFacts DEF NextStatus, Row, Statuses, NotStarted, InProgress
<1>5. Triggers(event[m], auto, item) \in BOOLEAN
  BY DEF Triggers
<1>6. QED
  BY <1>3, <1>4, <1>5

\* The first decision of a handler.
LEMMA IsNewStep ==
  ASSUME Inv, NEW m \in Messages, NEW auto \in BOOLEAN, IsNew(m, auto)
  PROVE  Inv'
<1>0. task[m].pc = "isNew"
  BY DEF IsNew
<1>1. PICK item \in Answers(m) :
        LET e == event[m]
            trigger == Triggers(e, auto, item)
        IN  /\ task' = [task EXCEPT ![m] =
                         [@ EXCEPT !.pc = WriteCall(e, IF Exists(item) THEN "put" ELSE "old"),
                                   !.trigger = trigger,
                                   !.silent = Exists(item) /\ e.workflow = "NOTIFIED",
                                   !.row = ItemOf(e, NextStatus(e, trigger, item), item)]]
            /\ Remember(m, item)
  BY DEF IsNew
<1>i. item \in Row \cup {NoRow}
  BY <1>0, LookupType
<1> DEFINE e == event[m]
           trigger == Triggers(e, auto, item)
           pc == WriteCall(e, IF Exists(item) THEN "put" ELSE "old")
           row == ItemOf(e, NextStatus(e, trigger, item), item)
           silent == Exists(item) /\ e.workflow = "NOTIFIED"
           t == [task[m] EXCEPT !.pc = pc, !.trigger = trigger, !.silent = silent, !.row = row]
<1>u. /\ task' = [task EXCEPT ![m] = t] /\ Remember(m, item)
      /\ UNCHANGED <<hub, event, queue, receives, rows, era, started, ended, draft>>
  BY <1>1 DEF IsNew, Inv, TypeOK
<1>2. task[m] \in Task /\ row \in Row /\ trigger \in BOOLEAN /\ silent \in BOOLEAN
  BY <1>0, <1>i, Running, ItemType DEF Exists
<1>3. pc \in {"delete", "put", "old"} /\ (pc = "delete" => e.kind = "closed")
  BY DEF WriteCall
<1>4. e.kind = "closed" => ~trigger
  BY DEF Triggers
<1>5. row.version = e.version
  BY DEF ItemOf
<1> HIDE DEF row, trigger, pc, silent
<1>6. /\ t \in Task /\ t.at = task[m].at /\ t.pc = pc /\ t.row = row /\ t.trigger = trigger
  BY <1>2, <1>3 DEF Task, Calls
<1> HIDE DEF t
<1>7. TasksConsistent' /\ task' \in [Messages -> Task]
  BY <1>0, <1>u, <1>3, <1>4, <1>5, <1>6, HandlerStep
<1>8. TypeOK'
  BY <1>0, <1>i, <1>u, <1>7, RememberType DEF Inv, TypeOK
<1>9. QED
  BY <1>7, <1>8 DEF Inv

\* The second and third lookups of a new finding.
LEMMA LookupSteps ==
  ASSUME Inv, NEW m \in Messages, Old(m) \/ ExistsCall(m)
  PROVE  Inv'
<1>0. task[m].pc \in {"old", "exists"}
  BY DEF Old, ExistsCall
<1>p. PICK item \in Answers(m) :
        /\ \/ /\ Old(m)
              /\ task' = [task EXCEPT ![m] =
                           [@ EXCEPT !.pc = IF Exists(item) THEN "put" ELSE "exists",
                                     !.row = ItemOf(event[m], task[m].row.status, item)]]
           \/ ExistsCall(m) /\ Finish(m, IF Exists(item) THEN "put" ELSE "create")
        /\ Remember(m, item)
  BY DEF Old, ExistsCall
<1>i. item \in Row \cup {NoRow}
  BY <1>0, LookupType
<1> DEFINE e == event[m]
           row == IF task[m].pc = "old" THEN ItemOf(e, task[m].row.status, item) ELSE task[m].row
           pc == IF Exists(item) THEN "put" ELSE IF task[m].pc = "old" THEN "exists" ELSE "create"
           t == [task[m] EXCEPT !.pc = pc, !.row = row]
<1>1. task[m] \in Task
  BY <1>0, Running
<1>2. row \in Row /\ pc \in {"put", "exists", "create"}
  BY <1>0, <1>1, <1>i, ItemType DEF Task, Row
<1>3. row.version = e.version
  BY <1>0 DEF ItemOf, Inv, TasksConsistent
<1>4. /\ task' = [task EXCEPT ![m] = t] /\ Remember(m, item)
      /\ UNCHANGED <<hub, event, queue, receives, rows, era, started, ended, draft>>
  <2>0. UNCHANGED <<hub, event, queue, receives, rows, era, started, ended, draft>>
    BY DEF Old, ExistsCall
  <2>1. CASE task[m].pc = "old"
    BY <1>p, <2>0, <2>1 DEF ExistsCall, Inv, TypeOK
  <2>2. CASE task[m].pc = "exists"
    <3>1. t = [task[m] EXCEPT !.pc = pc]
      BY <1>1, <2>2 DEF Task
    <3>2. QED
      BY <1>p, <2>0, <2>2, <3>1 DEF Old, Finish
  <2>3. QED
    BY <1>0, <2>1, <2>2
<1> HIDE DEF row, pc
<1>5. t \in Task /\ t.at = task[m].at /\ t.pc = pc /\ t.row = row
  BY <1>1, <1>2 DEF Task, Calls
<1> HIDE DEF t
<1>6. TasksConsistent' /\ task' \in [Messages -> Task]
  BY <1>0, <1>1, <1>2, <1>3, <1>4, <1>5, HandlerStep
<1>7. TypeOK'
  BY <1>0, <1>i, <1>4, <1>6, RememberType DEF Inv, TypeOK
<1>8. QED
  BY <1>6, <1>7 DEF Inv

\* A write keeps the table's type, whether its response arrives or not.
LEMMA ApplyWriteType ==
  ASSUME Inv, NEW m \in Messages, task[m].pc \in {"put", "create", "delete"}, ApplyWrite(m)
  PROVE  rows' \in [Findings -> Row \cup {NoRow}] /\ era' \in [Findings -> Nat]
<1>1. event[m].finding \in Findings /\ task[m].row \in Row
  BY Running DEF Task
<1>2. rows \in [Findings -> Row \cup {NoRow}] /\ era \in [Findings -> Nat]
  BY DEF Inv, TypeOK
<1>3. CASE task[m].pc = "delete"
  BY <1>1, <1>2, <1>3 DEF ApplyWrite
<1>4. CASE task[m].pc # "delete"
  BY <1>1, <1>2, <1>4 DEF ApplyWrite
<1>5. QED
  BY <1>3, <1>4

\* Writing the row.
LEMMA WriteSteps ==
  ASSUME Inv, NEW m \in Messages, Write(m) \/ WriteRejected(m) \/ WriteLost(m)
  PROVE  Inv'
<1>1. task[m] \in Task /\ task[m].pc \in {"put", "create", "delete"}
  BY Running DEF Write, WriteRejected, WriteLost
<1>2. CASE Write(m)
  <2> DEFINE pc == IF task[m].trigger THEN "start" ELSE "done"
             t == [task[m] EXCEPT !.pc = pc, !.era = era[event[m].finding]]
  <2>1. /\ task' = [task EXCEPT ![m] = t] /\ ApplyWrite(m)
        /\ UNCHANGED <<hub, event, queue, receives, cache, started, ended, draft>>
    BY <1>2 DEF Write, Inv, TypeOK
  <2>2. era[event[m].finding] \in Nat
    BY <1>1, Running DEF Inv, TypeOK
  <2>3. t \in Task /\ t.at = task[m].at /\ t.pc \in {"start", "done"}
    BY <1>1, <2>2 DEF Task, Calls
  <2> HIDE DEF t
  <2>4. TasksConsistent' /\ task' \in [Messages -> Task]
    BY <1>1, <2>1, <2>3, HandlerStep
  <2>5. TypeOK'
    BY <1>1, <2>1, <2>4, ApplyWriteType DEF Inv, TypeOK
  <2>6. QED
    BY <2>4, <2>5 DEF Inv
<1>3. CASE WriteRejected(m)
  <2>1. TasksConsistent' /\ task' \in [Messages -> Task]
    BY <1>1, <1>3, FinishStep DEF WriteRejected
  <2>2. TypeOK'
    BY <1>3, <2>1 DEF WriteRejected, Inv, TypeOK
  <2>3. QED
    BY <2>1, <2>2 DEF Inv
<1>4. CASE WriteLost(m)
  <2>1. PICK pc \in {"done", "threw"} : Finish(m, pc)
    BY <1>4 DEF WriteLost
  <2>2. /\ ApplyWrite(m)
        /\ UNCHANGED <<hub, event, queue, receives, cache, started, ended, draft>>
    BY <1>4 DEF WriteLost
  <2>3. TasksConsistent' /\ task' \in [Messages -> Task]
    BY <1>1, <2>1, <2>2, FinishStep
  <2>4. TypeOK'
    BY <1>1, <2>2, <2>3, ApplyWriteType DEF Inv, TypeOK
  <2>5. QED
    BY <2>3, <2>4 DEF Inv
<1>5. QED
  BY <1>2, <1>3, <1>4

\* Steps of a handler that only move its program counter.
LEMMA MoveSteps ==
  ASSUME Inv, NEW m \in Messages, Ignore(m) \/ History(m) \/ Throw(m)
  PROVE  Inv'
<1>1. PICK pc \in {"done", "ignored", "threw"} : Finish(m, pc)
  BY DEF Ignore, History, Throw
<1>2. /\ task[m].pc # "none"
      /\ UNCHANGED <<hub, event, queue, receives, rows, era, started, ended, draft>>
      /\ UNCHANGED cache \/ Remember(m, Lookup(m))
  BY DEF Ignore, History, Throw, Calls
<1>3. TasksConsistent' /\ task' \in [Messages -> Task]
  BY <1>1, <1>2, FinishStep
<1>4. TypeOK'
  BY <1>2, <1>3, LookupType, RememberType DEF Inv, TypeOK
<1>5. QED
  BY <1>3, <1>4 DEF Inv

\* The execution of a running handler.
LEMMA ExecutionType ==
  ASSUME Inv, NEW m \in Messages, task[m].pc # "none"
  PROVE  Execution(m) \in Executions
<1>1. /\ task[m].era \in Nat /\ task[m].silent \in BOOLEAN
      /\ event[m].finding \in Findings /\ event[m].version \in 0 .. MaxVersion
      /\ <<m, receives[m]>> \in Deliveries
  BY Running DEF Task, Events, Deliveries
<1>2. QED
  BY <1>1 DEF Execution, Executions

\* Starting an execution.
LEMMA StartStep ==
  ASSUME Inv, NEW m \in Messages, Start(m)
  PROVE  Inv'
<1>1. PICK pc \in {"history", "done", "start"} : Finish(m, pc)
  BY DEF Start
<1>2. /\ task[m].pc = "start" /\ started' = started \cup {Execution(m)}
      /\ UNCHANGED <<hub, event, queue, receives, cache, rows, era, ended, draft>>
  BY DEF Start
<1>3. TasksConsistent' /\ task' \in [Messages -> Task]
  BY <1>1, <1>2, FinishStep
<1>4. started' \subseteq Executions /\ ended' \subseteq started'
  BY <1>2, ExecutionType DEF Inv, TypeOK
<1>5. TypeOK'
  BY <1>2, <1>3, <1>4 DEF Inv, TypeOK
<1>6. QED
  BY <1>3, <1>5 DEF Inv

\* Security Hub's events.
LEMMA PublishStep ==
  ASSUME Inv, NEW m \in Messages, NEW f \in Findings, NEW kind \in Kinds,
         NEW workflow \in Workflows, NEW newer \in BOOLEAN,
         Publish(m, f, kind, workflow, newer)
  PROVE  Inv'
<1> DEFINE version == IF newer THEN hub[f].version + 1 ELSE hub[f].version
           e == [finding |-> f, version |-> version, kind |-> kind, workflow |-> workflow]
<1>1. /\ queue[m] = "unsent" /\ version \in 1 .. MaxVersion
      /\ hub' = [hub EXCEPT ![f] = [version |-> version, kind |-> kind]]
      /\ event' = [event EXCEPT ![m] = e] /\ queue' = [queue EXCEPT ![m] = "visible"]
      /\ UNCHANGED <<receives, task, cache, rows, era, started, ended, draft>>
  BY DEF Publish
<1>2. version \in 0 .. MaxVersion /\ e.version > 0
  BY <1>1, TableAssumption
<1> HIDE DEF version
<1>3. e \in Events
  BY <1>2 DEF Events
<1> HIDE DEF e
<1>4. TypeOK'
  BY <1>1, <1>2, <1>3 DEF Inv, TypeOK
<1>5. receives[m] < MaxReceiveCount
  BY <1>1 DEF Inv, TasksConsistent
<1>6. task[m].pc = "none"
  BY <1>1 DEF Inv, TasksConsistent
<1>7. ASSUME NEW n \in Messages
      PROVE  /\ event'[n] = IF n = m THEN e ELSE event[n]
             /\ queue'[n] = IF n = m THEN "visible" ELSE queue[n]
  BY <1>1 DEF Inv, TypeOK
<1>8. TasksConsistent'
  BY <1>1, <1>2, <1>3, <1>5, <1>6, <1>7 DEF Inv, TasksConsistent
<1>9. QED
  BY <1>4, <1>8 DEF Inv

\* A batch is received.
LEMMA ReceiveStep ==
  ASSUME Inv, NEW c \in Containers, NEW batch \in SUBSET Messages, Receive(c, batch)
  PROVE  Inv'
<1> DEFINE t == [NoTask EXCEPT !.pc = "isNew", !.at = c]
<1>1. /\ \A m \in batch : queue[m] = "visible"
      /\ queue' = [m \in Messages |-> IF m \in batch THEN "inflight" ELSE queue[m]]
      /\ receives' = [m \in Messages |-> IF m \in batch THEN receives[m] + 1 ELSE receives[m]]
      /\ task' = [m \in Messages |-> IF m \in batch THEN t ELSE task[m]]
      /\ UNCHANGED <<hub, event, cache, rows, era, started, ended, draft>>
  BY DEF Receive
<1>2. t \in Task /\ t.pc = "isNew" /\ t.at = c
  BY NoTaskType DEF Task, Calls
<1> HIDE DEF t
<1>3. \A m \in batch : receives[m] \in 0 .. MaxReceiveCount /\ receives[m] < MaxReceiveCount
  BY <1>1 DEF Inv, TypeOK, TasksConsistent
<1>4. \A m \in batch : receives[m] + 1 \in 0 .. MaxReceiveCount /\ receives[m] + 1 > 0
  BY <1>3, PreProcessorAssumption
<1>5. TypeOK'
  BY <1>1, <1>2, <1>4 DEF Inv, TypeOK
<1>6. TasksConsistent'
  BY <1>1, <1>2, <1>4 DEF Inv, TasksConsistent
<1>7. QED
  BY <1>5, <1>6 DEF Inv

\* An invocation returns or is lost.
LEMMA ReturnSteps ==
  ASSUME Inv, NEW c \in Containers, Return(c) \/ Crash(c)
  PROVE  Inv'
<1> DEFINE batch == TasksOf(c)
<1>1. \A m \in Messages : Retried(m) \in {"visible", "dead"}
                          /\ (Retried(m) = "visible" => receives[m] < MaxReceiveCount)
  BY DEF Retried
<1>2. \A pc : Returned(pc) \in {"deleted", "ignored"}
  BY DEF Returned
<1>3. \A m \in batch : event[m] \in Events /\ event[m].version > 0
  BY Running DEF TasksOf, Inv, TasksConsistent
<1>4. /\ task' = [m \in Messages |-> IF m \in batch THEN NoTask ELSE task[m]]
      /\ UNCHANGED <<hub, event, receives, rows, era, started, ended, draft>>
      /\ cache' = cache \/ cache' = [cache EXCEPT ![c] = NoCache]
  BY DEF Return, Crash
<1>5. /\ queue' \in [Messages -> {"unsent", "visible", "inflight", "deleted", "ignored", "dead"}]
      /\ \A m \in Messages \ batch : queue'[m] = queue[m]
      /\ \A m \in batch : /\ queue'[m] \in {"visible", "dead", "deleted", "ignored"}
                          /\ queue'[m] = "visible" => receives[m] < MaxReceiveCount
  <2>1. CASE Return(c)
    <3>1. queue' = [m \in Messages |->
                     IF m \notin batch THEN queue[m]
                     ELSE IF task[m].pc = "threw" THEN Retried(m) ELSE Returned(task[m].pc)]
      BY <2>1 DEF Return
    <3>2. batch \subseteq Messages
      BY DEF TasksOf
    <3>3. queue \in [Messages -> {"unsent", "visible", "inflight", "deleted", "ignored", "dead"}]
      BY DEF Inv, TypeOK
    <3> HIDE DEF batch
    <3>4. QED
      BY <1>1, <1>2, <3>1, <3>2, <3>3
  <2>2. CASE Crash(c)
    <3>1. queue' = [m \in Messages |-> IF m \in batch THEN Retried(m) ELSE queue[m]]
      BY <2>2 DEF Crash
    <3>2. batch \subseteq Messages
      BY DEF TasksOf
    <3>3. queue \in [Messages -> {"unsent", "visible", "inflight", "deleted", "ignored", "dead"}]
      BY DEF Inv, TypeOK
    <3> HIDE DEF batch
    <3>4. QED
      BY <1>1, <3>1, <3>2, <3>3
  <2>3. QED
    BY <2>1, <2>2
<1> HIDE DEF batch
<1>6. NoCache \in [finding: Findings \cup {None}, row: Row \cup {NoRow}]
  BY DEF NoCache
<1>7. TypeOK'
  <2>1. cache' \in [Containers -> [finding: Findings \cup {None}, row: Row \cup {NoRow}]]
    BY <1>4, <1>6, Zenon DEF Inv, TypeOK
  <2>2. task' \in [Messages -> Task]
    BY <1>4, NoTaskType DEF Inv, TypeOK
  <2>3. QED
    BY <1>4, <1>5, <2>1, <2>2 DEF Inv, TypeOK
<1>8. TasksConsistent'
  BY <1>3, <1>4, <1>5, NoTaskType DEF Inv, TasksConsistent
<1>9. QED
  BY <1>7, <1>8 DEF Inv

\* The other writers of the table.
LEMMA OtherWriters ==
  ASSUME Inv,
         \/ \E x \in started : NotifyFails(x)
         \/ \E x \in started, status \in {InProgress, Success, Failed} : Notify(x, status)
         \/ \E u \in Users, f \in Findings : ReadForSuppress(u, f)
         \/ \E u \in Users : WriteSuppressed(u)
  PROVE  Inv'
<1>1. CASE \E x \in started : NotifyFails(x)
  BY <1>1 DEF NotifyFails, Inv, TypeOK, TasksConsistent
<1>2. ASSUME NEW x \in started, NEW status \in {InProgress, Success, Failed}, Notify(x, status)
      PROVE  Inv'
  <2> DEFINE new(row) == IF Exists(row) THEN SetStatus(row, status)
                         ELSE [version |-> 0, status |-> status, suppressed |-> FALSE]
  <2>1. \A row \in Row \cup {NoRow} : new(row) \in Row
    <3>1. status \in Statuses
      BY DEF Statuses
    <3>2. \A row \in Row : SetStatus(row, status) \in Row
      BY <3>1 DEF SetStatus, Row
    <3>3. [version |-> 0, status |-> status, suppressed |-> FALSE] \in Row
      BY <3>1, TableAssumption DEF Row
    <3>4. QED
      BY <3>2, <3>3, RowFacts
  <2>2. x.finding \in Findings
    BY DEF Inv, TypeOK, Executions
  <2>3. /\ rows' = rows \/ rows' = [rows EXCEPT ![x.finding] = new(rows[x.finding])]
        /\ ended' \subseteq ended \cup {x}
        /\ UNCHANGED <<hub, event, queue, receives, task, cache, era, started, draft>>
    BY <1>2, <2>2 DEF Notify, StatusWritten, Inv, TypeOK
  <2> HIDE DEF new
  <2>4. QED
    BY <2>1, <2>2, <2>3 DEF Inv, TypeOK, TasksConsistent
<1>3. ASSUME NEW u \in Users, NEW f \in Findings, ReadForSuppress(u, f)
      PROVE  Inv'
  <2> DEFINE row == [rows[f] EXCEPT !.suppressed = ~@]
  <2>1. rows[f] \in Row
    BY <1>3, RowFacts DEF ReadForSuppress, Inv, TypeOK
  <2>2. row \in Row
    BY <2>1 DEF Row
  <2>3. /\ draft' = [draft EXCEPT ![u] = [finding |-> f, row |-> row]]
        /\ UNCHANGED <<hub, event, queue, receives, task, cache, rows, era, started, ended>>
    BY <1>3 DEF ReadForSuppress
  <2> HIDE DEF row
  <2>4. QED
    BY <2>2, <2>3 DEF Inv, TypeOK, TasksConsistent
<1>4. ASSUME NEW u \in Users, WriteSuppressed(u)
      PROVE  Inv'
  <2>1. draft[u].row \in Row \cup {NoRow} /\ NoDraft \in [finding: Findings \cup {None}, row: Row \cup {NoRow}]
    BY DEF NoDraft, Inv, TypeOK
  <2>2. QED
    BY <1>4, <2>1 DEF WriteSuppressed, Inv, TypeOK, TasksConsistent
<1>5. QED
  BY <1>1, <1>2, <1>3, <1>4

\* The invariant is inductive.
LEMMA InvInductive ==
  /\ Init => Inv
  /\ Inv /\ [Next]_vars => Inv'
<1>1. ASSUME Init PROVE Inv
  <2>1. NoCache.row = NoRow /\ NoDraft.row = NoRow /\ NoTask \in Task /\ NoTask.pc = "none"
    BY NoTaskType DEF NoCache, NoDraft
  <2>2. 0 \in 0 .. MaxVersion /\ 0 \in 0 .. MaxReceiveCount /\ 0 < MaxReceiveCount
    BY PreProcessorAssumption, TableAssumption
  <2>3. /\ NoCache \in [finding: Findings \cup {None}, row: Row \cup {NoRow}]
        /\ NoDraft \in [finding: Findings \cup {None}, row: Row \cup {NoRow}]
    BY DEF NoCache, NoDraft
  <2>4. TypeOK
    BY <1>1, <2>1, <2>2, <2>3 DEF Init, TypeOK
  <2>5. TasksConsistent
    BY <1>1, <2>1, <2>2 DEF Init, TasksConsistent
  <2>6. QED
    BY <2>4, <2>5 DEF Inv
<1>2. ASSUME Inv, [Next]_vars PROVE Inv'
  <2>1. CASE \E m \in Messages, f \in Findings, kind \in Kinds, workflow \in Workflows,
               newer \in BOOLEAN : Publish(m, f, kind, workflow, newer)
    BY <1>2, <2>1, PublishStep
  <2>2. CASE \E c \in Containers, batch \in SUBSET Messages : Receive(c, batch)
    BY <1>2, <2>2, ReceiveStep
  <2>3. CASE \E c \in Containers : Return(c) \/ Crash(c)
    BY <1>2, <2>3, ReturnSteps
  <2>4. ASSUME NEW m \in Messages, Handle(m) \/ WriteLost(m) \/ Throw(m)
        PROVE  Inv'
    BY <1>2, <2>4, IsNewStep, LookupSteps, WriteSteps, MoveSteps, StartStep DEF Handle
  <2>5. CASE \/ \E x \in started : NotifyFails(x)
             \/ \E x \in started, status \in {InProgress, Success, Failed} : Notify(x, status)
             \/ \E u \in Users, f \in Findings : ReadForSuppress(u, f)
             \/ \E u \in Users : WriteSuppressed(u)
    BY <1>2, <2>5, OtherWriters
  <2>6. CASE UNCHANGED vars
    BY <1>2, <2>6 DEF vars, Inv, TypeOK, TasksConsistent
  <2>7. QED
    BY <1>2, <2>1, <2>2, <2>3, <2>4, <2>5, <2>6 DEF Next
<1>3. QED
  BY <1>1, <1>2

LEMMA Invariance == Spec => []Inv
<1>1. Init => Inv
  BY InvInductive
<1>2. Inv /\ [Next]_vars => Inv'
  BY InvInductive
<1>3. QED
  BY <1>1, <1>2, PTL DEF Spec

\* Every variable keeps its type.
THEOREM TypeCorrect == Spec => []TypeOK
<1>1. Inv => TypeOK
  BY DEF Inv
<1>2. QED
  BY <1>1, Invariance, PTL

\* Every handler stays tied to its message, in the queue, the Lambda containers and the
\* table alike.
THEOREM TasksTied == Spec => []TasksConsistent
<1>1. Inv => TasksConsistent
  BY DEF Inv
<1>2. QED
  BY <1>1, Invariance, PTL

-----------------------------------------------------------------------------
(***************************************************************************)
(* Refinement of ClaimOnce.                                                *)
(***************************************************************************)

Latest == [f \in Findings |-> rows[f].version]
Granted == {ClaimOf(Execution(m)) : m \in Claimants}
Used == {ClaimOf(x) : x \in started}

\* A step that records no version and makes no claim, and that at most loses some.
LEMMA NoNewClaims ==
  ASSUME Latest' = Latest, Granted' \subseteq Granted, UNCHANGED <<era, started>>
  PROVE  [Claims!Next]_(Claims!vars)
<1>1. Used' = Used
  BY DEF Used
<1>2. Claims!Drop(Granted \ Granted')
  BY <1>1 DEF Claims!Drop, Latest, Granted, Used
<1>3. QED
  BY <1>2 DEF Claims!Next, Granted

\* No new claimant, no new claim.
LEMMA FewerClaimants ==
  ASSUME \A m \in Messages : task'[m].pc = "start" =>
           task'[m] = task[m] /\ event'[m] = event[m] /\ receives'[m] = receives[m]
  PROVE  Granted' \subseteq Granted
<1>1. Claimants' \subseteq Messages
  BY DEF Claimants
<1>2. \A m \in Claimants' : ClaimOf(Execution(m))' = ClaimOf(Execution(m)) /\ m \in Claimants
  BY DEF Claimants, Execution, ClaimOf
<1>3. QED
  BY <1>2 DEF Granted

\* What a write of one row does to the versions recorded.
LEMMA LatestAfter ==
  ASSUME Inv, NEW f \in Findings, NEW row \in Row \cup {NoRow},
         rows' = [rows EXCEPT ![f] = row]
  PROVE  Latest' = [Latest EXCEPT ![f] = row.version] /\ Latest[f] = rows[f].version
BY DEF Inv, TypeOK, Latest

\* A write of the table records a version for one claimant or none, or forgets.
LEMMA WriteRefines ==
  ASSUME Inv, NEW m \in Messages, task[m].pc \in {"put", "create", "delete"},
         WriteAllowed(m), ApplyWrite(m), UNCHANGED <<event, receives, started>>,
         NEW t \in Task, task' = [task EXCEPT ![m] = t],
         t.pc = "start" => t.trigger /\ t.era = era[event[m].finding] /\ task[m].trigger,
         NEW f, f = event[m].finding, NEW v, v = event[m].version
  PROVE  Claims!Next
<1> DEFINE c == [finding |-> f, version |-> v, era |-> era[f], delivery |-> <<m, receives[m]>>]
<1>1. f \in Findings /\ v \in 1 .. MaxVersion /\ <<m, receives[m]>> \in Deliveries
      /\ task[m] \in Task /\ task[m].row \in Row
  BY Running DEF Deliveries, Task
<1>2. task'[m] = t /\ \A n \in Messages : n # m => task'[n] = task[n]
  BY DEF Inv, TypeOK
<1>3. \A n \in Messages \ {m} : n \in Claimants' <=> n \in Claimants
  BY <1>2 DEF Claimants
<1>4. \A n \in Messages \ {m} : ClaimOf(Execution(n))' = ClaimOf(Execution(n))
  BY <1>2 DEF Execution, ClaimOf
<1>5. m \notin Claimants
  BY DEF Claimants
<1>6. Used' = Used
  BY DEF Used
<1>7. CASE task[m].pc = "delete"
  <2>1. m \notin Claimants'
    BY <1>2, <1>7 DEF Claimants, Inv, TasksConsistent
  <2>2. Granted' = Granted
    BY <1>3, <1>4, <1>5, <2>1 DEF Granted, Claimants
  <2>3. NoRow.version = 0
    BY DEF NoRow
  <2>4. Latest' = [Latest EXCEPT ![f] = 0]
    BY <1>1, <1>7, <2>3, LatestAfter DEF ApplyWrite
  <2>5. Claims!Forget(f)
    BY <1>6, <1>7, <2>2, <2>4 DEF Claims!Forget, ApplyWrite, Latest, Granted, Used
  <2>6. QED
    BY <1>1, <2>5 DEF Claims!Next
<1>8. CASE task[m].pc # "delete"
  <2> PICK holders : holders = IF t.pc = "start" THEN {<<m, receives[m]>>} ELSE {}
    OBVIOUS
  <2>1. task[m].row.version = v
    BY <1>8 DEF Inv, TasksConsistent
  <2>2. Latest' = [Latest EXCEPT ![f] = v] /\ Latest[f] = rows[f].version /\ era' = era
    BY <1>1, <1>8, <2>1, LatestAfter DEF ApplyWrite
  <2>3. Latest[f] < v
    <3>1. NoRow.version = 0
      BY DEF NoRow
    <3>2. rows[f].version = 0 \/ rows[f].version < v
      BY <1>8, <2>1, <3>1 DEF WriteAllowed, IsNewer, Exists
    <3>3. QED
      BY <1>1, <2>2, <3>2
  <2>4. t.pc = "start" => ClaimOf(Execution(m))' = c
    BY <1>2 DEF ClaimOf, Execution
  <2>5. Granted' = Granted \cup {[finding |-> f, version |-> v, era |-> era[f], delivery |-> d] : d \in holders}
    <3>1. CASE t.pc = "start"
      <4>1. Claimants' = Claimants \cup {m}
        BY <1>2, <1>3, <3>1 DEF Claimants
      <4>2. holders = {<<m, receives[m]>>}
        BY <3>1
      <4>3. Granted' = Granted \cup {c}
        BY <1>4, <1>5, <2>4, <3>1, <4>1 DEF Granted, Claimants
      <4>4. QED
        BY <4>2, <4>3
    <3>2. CASE t.pc # "start"
      <4>1. Claimants' = Claimants
        BY <1>2, <1>3, <1>5, <3>2 DEF Claimants
      <4>2. Granted' = Granted
        BY <1>4, <1>5, <4>1 DEF Granted, Claimants
      <4>3. QED
        BY <3>2, <4>2
    <3>3. QED
      BY <3>1, <3>2
  <2>6. holders \in {{}} \cup {{d} : d \in Deliveries}
    BY <1>1
  <2>7. Claims!Record(f, v, holders)
    BY <1>6, <2>2, <2>3, <2>5 DEF Claims!Record, Latest, Granted, Used
  <2>8. QED
    BY <1>1, <2>6, <2>7 DEF Claims!Next
<1>9. QED
  BY <1>7, <1>8

\* StartExecution uses the handler's claim.
LEMMA StartRefines ==
  ASSUME Inv, NEW m \in Messages, Start(m), NEW c, c = ClaimOf(Execution(m))
  PROVE  Claims!Next
<1>1. PICK pc \in {"history", "done", "start"} : Finish(m, pc)
  BY DEF Start
<1>2. /\ task[m].pc = "start" /\ started' = started \cup {Execution(m)}
      /\ UNCHANGED <<event, receives, rows, era>>
  BY DEF Start
<1>3. c \in Granted
  BY <1>2 DEF Granted, Claimants
<1>4. Used' = Used \cup {c}
  BY <1>2 DEF Used
<1>5. Latest' = Latest
  BY <1>2 DEF Latest
<1>6. /\ task'[m] = [task[m] EXCEPT !.pc = pc] /\ task'[m].pc = pc
      /\ \A n \in Messages : n # m => task'[n] = task[n]
  <2>1. task \in [Messages -> Task]
    BY DEF Inv, TypeOK
  <2>2. task[m] \in Task /\ task' = [task EXCEPT ![m].pc = pc]
    BY <1>1, <2>1 DEF Finish
  <2>3. QED
    BY <2>1, <2>2 DEF Task
<1>7. \A n \in Messages : ClaimOf(Execution(n))' = ClaimOf(Execution(n))
  <2>1. task'[m].era = task[m].era /\ task'[m].silent = task[m].silent
    <3>1. task[m] \in Task
      BY DEF Inv, TypeOK
    <3>2. QED
      BY <1>6, <3>1 DEF Task
  <2>2. QED
    BY <1>2, <1>6, <2>1 DEF ClaimOf, Execution
<1>8. \A n \in Messages : ClaimOf(Execution(n)) = c => n = m
  BY DEF ClaimOf, Execution
<1>9. Granted' \in {Granted, Granted \ {c}}
  <2>1. CASE pc = "start"
    <3>1. Claimants' = Claimants
      BY <1>2, <1>6, <2>1 DEF Claimants
    <3>2. QED
      BY <1>7, <3>1 DEF Granted, Claimants
  <2>2. CASE pc # "start"
    <3>1. Claimants' = Claimants \ {m}
      BY <1>6, <2>2 DEF Claimants
    <3>2. Granted' = {ClaimOf(Execution(n)) : n \in Claimants \ {m}}
      BY <1>7, <3>1 DEF Granted, Claimants
    <3>3. QED
      BY <1>8, <3>2 DEF Granted, Claimants
  <2>3. QED
    BY <2>1, <2>2
<1>10. Claims!Use(c)
  BY <1>2, <1>3, <1>4, <1>5, <1>9 DEF Claims!Use, Latest, Granted, Used
<1>11. QED
  BY <1>3, <1>10 DEF Claims!Next, Granted

\* Steps of the queue, the containers and the handlers that leave the table and
\* the executions alone make no claim.
LEMMA QuietRefines ==
  ASSUME Inv,
         \/ \E m \in Messages, f \in Findings, kind \in Kinds, workflow \in Workflows,
               newer \in BOOLEAN : Publish(m, f, kind, workflow, newer)
         \/ \E c \in Containers, batch \in SUBSET Messages : Receive(c, batch)
         \/ \E c \in Containers : Return(c) \/ Crash(c)
         \/ \E m \in Messages : \/ \E auto \in BOOLEAN : IsNew(m, auto)
                                \/ Ignore(m) \/ Old(m) \/ ExistsCall(m)
                                \/ WriteRejected(m) \/ History(m) \/ Throw(m)
  PROVE  [Claims!Next]_(Claims!vars)
<1>1. UNCHANGED <<rows, era, started>>
  BY DEF Publish, Receive, Return, Crash, IsNew, Ignore, Old, ExistsCall, WriteRejected, History, Throw
<1>2. Latest' = Latest
  BY <1>1 DEF Latest
<1>3. SUFFICES ASSUME NEW n \in Messages, task'[n].pc = "start"
               PROVE  task'[n] = task[n] /\ event'[n] = event[n] /\ receives'[n] = receives[n]
  BY <1>1, <1>2, FewerClaimants, NoNewClaims
<1>4. ASSUME NEW m \in Messages, NEW f \in Findings, NEW kind \in Kinds, NEW workflow \in Workflows,
             NEW newer \in BOOLEAN, Publish(m, f, kind, workflow, newer)
      PROVE  task'[n] = task[n] /\ event'[n] = event[n] /\ receives'[n] = receives[n]
  <2>1. task[m].pc = "none"
    BY <1>4 DEF Publish, Inv, TasksConsistent
  <2>2. n # m
    BY <1>3, <1>4, <2>1 DEF Publish
  <2>3. QED
    BY <1>4, <2>2 DEF Publish, Inv, TypeOK
<1>5. ASSUME NEW c \in Containers, NEW batch \in SUBSET Messages, Receive(c, batch)
      PROVE  task'[n] = task[n] /\ event'[n] = event[n] /\ receives'[n] = receives[n]
  <2>1. n \notin batch
    BY <1>3, <1>5 DEF Receive, NoTask
  <2>2. QED
    BY <1>5, <2>1 DEF Receive
<1>6. ASSUME NEW c \in Containers, Return(c) \/ Crash(c)
      PROVE  task'[n] = task[n] /\ event'[n] = event[n] /\ receives'[n] = receives[n]
  <2>1. task' = [m \in Messages |-> IF m \in TasksOf(c) THEN NoTask ELSE task[m]]
    BY <1>6 DEF Return, Crash
  <2>2. n \notin TasksOf(c)
    BY <1>3, <2>1, NoTaskType
  <2>3. QED
    BY <1>6, <2>1, <2>2 DEF Return, Crash
<1>7. ASSUME NEW m \in Messages,
             \/ \E auto \in BOOLEAN : IsNew(m, auto)
             \/ Ignore(m) \/ Old(m) \/ ExistsCall(m)
             \/ WriteRejected(m) \/ History(m) \/ Throw(m)
      PROVE  task'[n] = task[n] /\ event'[n] = event[n] /\ receives'[n] = receives[n]
  <2>1. task \in [Messages -> Task]
    BY DEF Inv, TypeOK
  <2>2. task[m] \in Task
    BY <2>1
  <2>3. /\ event' = event /\ receives' = receives
        /\ task'[m].pc # "start"
        /\ n # m => task'[n] = task[n]
    <3>1. CASE \E auto \in BOOLEAN : IsNew(m, auto)
      <4>1. PICK auto \in BOOLEAN : IsNew(m, auto)
        BY <3>1
      <4>i. PICK item \in Answers(m) :
              LET e == event[m]
                  trigger == Triggers(e, auto, item)
              IN  task' = [task EXCEPT ![m] =
                            [@ EXCEPT !.pc = WriteCall(e, IF Exists(item) THEN "put" ELSE "old"),
                                      !.trigger = trigger,
                                      !.silent = Exists(item) /\ e.workflow = "NOTIFIED",
                                      !.row = ItemOf(e, NextStatus(e, trigger, item), item)]]
        BY <4>1 DEF IsNew
      <4> DEFINE pc == WriteCall(event[m], IF Exists(item) THEN "put" ELSE "old")
                 t == [task[m] EXCEPT !.pc = pc, !.trigger = Triggers(event[m], auto, item),
                         !.silent = Exists(item) /\ event[m].workflow = "NOTIFIED",
                         !.row = ItemOf(event[m], NextStatus(event[m], Triggers(event[m], auto, item), item), item)]
      <4>2. event' = event /\ receives' = receives /\ task' = [task EXCEPT ![m] = t]
        BY <2>1, <4>1, <4>i DEF IsNew
      <4>3. pc # "start"
        BY DEF WriteCall
      <4> HIDE DEF pc
      <4>4. t.pc = pc
        BY <2>2 DEF Task
      <4> HIDE DEF t
      <4>5. QED
        BY <2>1, <4>2, <4>3, <4>4
    <3>2. CASE Old(m)
      BY <2>1, <2>2, <3>2 DEF Old, Task
    <3>3. CASE ExistsCall(m)
      BY <2>1, <2>2, <3>3 DEF ExistsCall, Finish, Task
    <3>4. CASE Ignore(m) \/ WriteRejected(m) \/ History(m) \/ Throw(m)
      BY <2>1, <2>2, <3>4 DEF Ignore, WriteRejected, History, Throw, Finish, Task
    <3>5. QED
      BY <1>7, <3>1, <3>2, <3>3, <3>4
  <2>4. QED
    BY <1>3, <2>3
<1>8. QED
  BY <1>4, <1>5, <1>6, <1>7

\* An execution's report leaves versions and claims alone.
LEMMA NotifyRefines ==
  ASSUME Inv, NEW x \in started,
         NotifyFails(x) \/ \E status \in {InProgress, Success, Failed} : Notify(x, status)
  PROVE  [Claims!Next]_(Claims!vars)
<1>1. UNCHANGED <<event, receives, task, era, started>>
  BY DEF NotifyFails, Notify
<1>2. Granted' = Granted
  BY <1>1 DEF Granted, Claimants, Execution, ClaimOf
<1>3. Latest' = Latest
  <2>1. \A row \in Row \cup {NoRow}, status \in Statuses : SetStatus(row, status).version = row.version
    BY DEF SetStatus, Row, NoRow
  <2>2. NoRow.version = 0 /\ {InProgress, Success, Failed} \subseteq Statuses
    BY DEF NoRow, Statuses
  <2>3. rows \in [Findings -> Row \cup {NoRow}]
    BY DEF Inv, TypeOK
  <2>4. ASSUME NEW status \in {InProgress, Success, Failed}, Notify(x, status), NEW f \in Findings
        PROVE  rows'[f].version = rows[f].version
    BY <2>1, <2>2, <2>3, <2>4 DEF Notify, StatusWritten, Exists
  <2>5. QED
    BY <2>4 DEF NotifyFails, Latest
<1>4. QED
  BY <1>1, <1>2, <1>3, NoNewClaims

\* A handler's write, whether its response arrives or not.
LEMMA WriteStepRefines ==
  ASSUME Inv, NEW m \in Messages, Write(m) \/ WriteLost(m)
  PROVE  Claims!Next
<1>1. /\ task[m].pc \in {"put", "create", "delete"} /\ WriteAllowed(m) /\ ApplyWrite(m)
      /\ UNCHANGED <<event, receives, started>>
  BY DEF Write, WriteLost
<1>2. task[m] \in Task
  BY <1>1, Running
<1>3. CASE Write(m)
  <2> DEFINE t == [task[m] EXCEPT !.pc = IF task[m].trigger THEN "start" ELSE "done",
                                  !.era = era[event[m].finding]]
  <2>1. task' = [task EXCEPT ![m] = t]
    BY <1>3 DEF Write, Inv, TypeOK
  <2>2. era[event[m].finding] \in Nat
    BY <1>1, Running DEF Inv, TypeOK
  <2>3. /\ t \in Task /\ t.trigger = task[m].trigger /\ t.era = era[event[m].finding]
        /\ t.pc = "start" => task[m].trigger
    BY <1>2, <2>2 DEF Task, Calls
  <2> HIDE DEF t
  <2>4. QED
    BY <1>1, <2>1, <2>3, WriteRefines
<1>4. CASE WriteLost(m)
  <2>1. PICK pc \in {"done", "threw"} : Finish(m, pc)
    BY <1>4 DEF WriteLost
  <2> DEFINE t == [task[m] EXCEPT !.pc = pc]
  <2>2. task' = [task EXCEPT ![m] = t]
    BY <2>1 DEF Finish
  <2>3. t \in Task /\ t.pc # "start"
    BY <1>2 DEF Task
  <2> HIDE DEF t
  <2>4. QED
    BY <1>1, <2>2, <2>3, WriteRefines
<1>5. QED
  BY <1>3, <1>4

\* Every step maps to a step of ClaimOnce or to a stutter.
LEMMA RefineStep ==
  ASSUME Users = {}, Inv, [Next]_vars
  PROVE  [Claims!Next]_(Claims!vars)
<1>1. ASSUME NEW m \in Messages, Handle(m) \/ WriteLost(m) \/ Throw(m)
      PROVE  [Claims!Next]_(Claims!vars)
  <2>1. CASE Write(m) \/ WriteLost(m)
    BY <2>1, WriteStepRefines
  <2>2. CASE Start(m)
    BY <2>2, StartRefines
  <2>3. CASE \/ \E auto \in BOOLEAN : IsNew(m, auto)
             \/ Ignore(m) \/ Old(m) \/ ExistsCall(m)
             \/ WriteRejected(m) \/ History(m) \/ Throw(m)
    BY <2>3, QuietRefines
  <2>4. QED
    BY <1>1, <2>1, <2>2, <2>3 DEF Handle
<1>2. ASSUME NEW x \in started,
             NotifyFails(x) \/ \E status \in {InProgress, Success, Failed} : Notify(x, status)
      PROVE  [Claims!Next]_(Claims!vars)
  BY <1>2, NotifyRefines
<1>3. CASE \/ \E m \in Messages, f \in Findings, kind \in Kinds, workflow \in Workflows,
                 newer \in BOOLEAN : Publish(m, f, kind, workflow, newer)
           \/ \E c \in Containers, batch \in SUBSET Messages : Receive(c, batch)
           \/ \E c \in Containers : Return(c) \/ Crash(c)
  BY <1>3, QuietRefines
<1>4. CASE UNCHANGED vars
  <2>1. Latest' = Latest /\ Granted' = Granted
    BY <1>4 DEF vars, Latest, Granted, Claimants, Execution, ClaimOf
  <2>2. QED
    BY <1>4, <2>1, NoNewClaims DEF vars
<1>5. QED
  BY <1>1, <1>2, <1>3, <1>4 DEF Next

\* Without users that write rows back, the pre-processor implements ClaimOnce: only
\* the delivery whose conditional write recorded a version may start an execution.
THEOREM Implements ==
  ASSUME Users = {}
  PROVE  Spec => ClaimsSpec
<1>1. Init => Claims!Init
  BY DEF Init, Claims!Init, Claimants, NoTask, NoRow
<1>2. Inv /\ [Next]_vars => [Claims!Next]_(Claims!vars)
  BY RefineStep
<1>3. Spec => []Inv
  BY Invariance
<1>4. QED
  BY <1>1, <1>2, <1>3, PTL DEF Spec, ClaimsSpec, Claims!Spec

-----------------------------------------------------------------------------
(***************************************************************************)
(* What ClaimOnce guarantees, whatever its variables stand for: nothing    *)
(* here uses what Latest, Granted and Used are.                            *)
(***************************************************************************)
Abstract == INSTANCE ClaimOnce WITH latest <- Latest, granted <- Granted, used <- Used

\* No step of ClaimOnce breaks its invariant: a new claim is for a version newer
\* than every claim of its era.
LEMMA ClaimStep ==
  ASSUME MaxVersion \in Nat, Abstract!ClaimInv, [Abstract!Next]_(Abstract!vars)
  PROVE  Abstract!ClaimInv'
<1> USE DEF Abstract!ClaimInv
<1>1. ASSUME NEW f \in Findings, NEW v \in 1 .. MaxVersion,
             NEW holders \in {{}} \cup {{d} : d \in Deliveries}, Abstract!Record(f, v, holders)
      PROVE  Abstract!ClaimInv'
  <2> DEFINE new == {[finding |-> f, version |-> v, era |-> era[f], delivery |-> d] : d \in holders}
  <2>1. /\ Latest[f] < v /\ Latest' = [Latest EXCEPT ![f] = v]
        /\ Granted' = Granted \cup new /\ era' = era /\ Used' = Used
    BY <1>1 DEF Abstract!Record
  <2>2. v \in Nat /\ v \in 0 .. MaxVersion /\ \A g \in Findings : Latest[g] \in Nat
    OBVIOUS
  <2>3. holders \subseteq Deliveries /\ \A d, e \in holders : d = e
    OBVIOUS
  <2>4. /\ new \subseteq Abstract!Claim
        /\ \A c \in new : c.finding = f /\ c.version = v /\ c.era = era[f]
        /\ \A c, d \in new : c = d
    BY <2>2, <2>3 DEF Abstract!Claim
  <2> HIDE DEF new
  <2>5. /\ Latest' \in [Findings -> 0 .. MaxVersion] /\ Granted' \subseteq Abstract!Claim
        /\ \A g \in Findings : Latest[g] <= Latest'[g]
        /\ Latest'[f] = v
    BY <2>1, <2>2, <2>4
  <2>6. ASSUME NEW c \in Granted \cup Used
        PROVE  c.era <= era[c.finding] /\ (c.era = era[c.finding] => c.version <= Latest'[c.finding])
    <3>1. c.finding \in Findings /\ c.version \in Nat
      BY DEF Abstract!Claim
    <3>2. QED
      BY <2>2, <2>5, <3>1
  <2>7. \A c \in Granted \cup Used, d \in new : ~Abstract!SameRun(c, d) /\ ~Abstract!SameRun(d, c)
    <3> SUFFICES ASSUME NEW c \in Granted \cup Used, c.finding = f, c.era = era[f], c.version = v
                 PROVE  FALSE
      BY <2>4 DEF Abstract!SameRun
    <3>1. QED
      BY <2>1, <2>2
  <2>8. \A c, d \in Granted' \cup Used' : Abstract!SameRun(c, d) => c = d
    BY <2>1, <2>4, <2>7
  <2>9. \A c \in Granted' \cup Used' :
          /\ c.era <= era'[c.finding]
          /\ c.era = era'[c.finding] => c.version <= Latest'[c.finding]
    BY <2>1, <2>2, <2>4, <2>5, <2>6
  <2>10. QED
    BY <2>1, <2>5, <2>8, <2>9
<1>2. ASSUME NEW f \in Findings, Abstract!Forget(f) PROVE Abstract!ClaimInv'
  <2>1. /\ Latest' = [Latest EXCEPT ![f] = 0] /\ era' = [era EXCEPT ![f] = @ + 1]
        /\ Granted' = Granted /\ Used' = Used
    BY <1>2 DEF Abstract!Forget
  <2>2. Latest' \in [Findings -> 0 .. MaxVersion] /\ era' \in [Findings -> Nat]
    BY <2>1
  <2>3. ASSUME NEW c \in Granted \cup Used
        PROVE  c.era <= era'[c.finding] /\ (c.era = era'[c.finding] => c.version <= Latest'[c.finding])
    <3>1. c.finding \in Findings /\ c.era \in Nat
      BY DEF Abstract!Claim
    <3>2. CASE c.finding = f
      BY <2>1, <3>1, <3>2
    <3>3. CASE c.finding # f
      BY <2>1, <3>1, <3>3
    <3>4. QED
      BY <3>2, <3>3
  <2>4. QED
    BY <2>1, <2>2, <2>3
<1>3. ASSUME NEW c \in Granted, Abstract!Use(c) PROVE Abstract!ClaimInv'
  <2>1. /\ Granted' \cup Used' \subseteq Granted \cup Used /\ Granted' \subseteq Granted
        /\ Latest' = Latest /\ era' = era
    BY <1>3 DEF Abstract!Use
  <2>2. Used' \subseteq Abstract!Claim
    BY <1>3 DEF Abstract!Use
  <2>3. QED
    BY <2>1, <2>2
<1>4. ASSUME NEW claims \in SUBSET Granted, Abstract!Drop(claims) PROVE Abstract!ClaimInv'
  BY <1>4 DEF Abstract!Drop
<1>5. CASE UNCHANGED Abstract!vars
  BY <1>5 DEF Abstract!vars
<1>6. QED
  BY <1>1, <1>2, <1>3, <1>4, <1>5 DEF Abstract!Next

\* A version of a finding is started on the claim of one delivery only.
THEOREM OneClaim ==
  ASSUME MaxVersion \in Nat
  PROVE  Abstract!Spec => []Abstract!OneClaimUsed
<1>1. Abstract!Init => Abstract!ClaimInv
  BY DEF Abstract!Init, Abstract!ClaimInv
<1>2. Abstract!ClaimInv /\ [Abstract!Next]_(Abstract!vars) => Abstract!ClaimInv'
  BY ClaimStep
<1>3. Abstract!ClaimInv => Abstract!OneClaimUsed
  BY DEF Abstract!ClaimInv, Abstract!OneClaimUsed
<1>4. QED
  BY <1>1, <1>2, <1>3, PTL DEF Abstract!Spec

-----------------------------------------------------------------------------

\* One version of a finding is sent to the Orchestrator by one delivery, however
\* often Security Hub, the queue and failing calls repeat it.
THEOREM OneDelivery ==
  ASSUME Users = {}
  PROVE  Spec => []OneDeliveryStarts
<1>1. Claims!Init => Abstract!Init
  BY DEF Claims!Init, Abstract!Init, Latest, Granted, Used
<1>2. [Claims!Next]_(Claims!vars) => [Abstract!Next]_(Abstract!vars)
  BY DEF Claims!Next, Claims!vars, Claims!Record, Claims!Forget, Claims!Use, Claims!Drop,
         Abstract!Next, Abstract!vars, Abstract!Record, Abstract!Forget, Abstract!Use, Abstract!Drop,
         Latest, Granted, Used
<1>3. Spec => Abstract!Spec
  BY <1>1, <1>2, Implements, PTL DEF ClaimsSpec, Claims!Spec, Abstract!Spec
<1>4. Abstract!Spec => []Abstract!OneClaimUsed
  BY TableAssumption, OneClaim
<1>5. Abstract!OneClaimUsed => OneDeliveryStarts
  <2>1. SUFFICES ASSUME Abstract!OneClaimUsed, NEW x \in started, NEW y \in started,
                        x.finding = y.finding, x.version = y.version, x.era = y.era
                 PROVE  x.delivery = y.delivery
    BY DEF OneDeliveryStarts
  <2>2. ClaimOf(x) \in Used /\ ClaimOf(y) \in Used
    BY DEF Used
  <2>3. Abstract!SameRun(ClaimOf(x), ClaimOf(y))
    BY <2>1 DEF Abstract!SameRun, ClaimOf
  <2>4. ClaimOf(x) = ClaimOf(y)
    BY <2>1, <2>2, <2>3 DEF Abstract!OneClaimUsed
  <2>5. QED
    BY <2>4 DEF ClaimOf
<1>6. QED
  BY <1>3, <1>4, <1>5, PTL

\* No writer takes a row back to an older version: a step of ClaimOnce records a
\* newer one, or forgets the finding and begins its next era.
THEOREM VersionsGrow ==
  ASSUME Users = {}
  PROVE  Spec => VersionNeverRegresses
<1>1. ASSUME Inv, [Claims!Next]_(Claims!vars)
      PROVE  \A f \in Findings : era'[f] = era[f] => rows[f].version <= rows'[f].version
  <2>1. /\ \A f \in Findings : Latest[f] \in Nat /\ Latest[f] = rows[f].version
        /\ era \in [Findings -> Nat] /\ Latest \in [Findings -> Nat]
    <3>1. \A f \in Findings : rows[f].version \in 0 .. MaxVersion
      BY <1>1, RowFacts DEF Inv, TypeOK
    <3>2. QED
      BY <1>1, <3>1, TableAssumption DEF Latest, Inv, TypeOK
  <2>2. \A f \in Findings : Latest'[f] = rows'[f].version
    BY DEF Latest
  <2>3. SUFFICES ASSUME NEW f \in Findings, era'[f] = era[f]
                 PROVE  Latest[f] <= Latest'[f]
    BY <2>1, <2>2
  <2>4. ASSUME NEW g \in Findings, NEW v \in 1 .. MaxVersion, NEW holders, Claims!Record(g, v, holders)
        PROVE  Latest[f] <= Latest'[f]
    <3>1. Latest[g] < v /\ Latest' = [Latest EXCEPT ![g] = v]
      BY <2>4 DEF Claims!Record, Latest
    <3> HIDE DEF Latest
    <3>2. QED
      BY <2>1, <3>1
  <2>5. ASSUME NEW g \in Findings, Claims!Forget(g)
        PROVE  Latest[f] <= Latest'[f]
    <3>1. Latest' = [Latest EXCEPT ![g] = 0] /\ era' = [era EXCEPT ![g] = @ + 1]
      BY <2>5 DEF Claims!Forget, Latest
    <3>2. f # g
      BY <2>1, <2>3, <3>1
    <3>3. QED
      BY <2>1, <3>1, <3>2
  <2>6. CASE Latest' = Latest
    BY <2>1, <2>6
  <2>7. QED
    BY <1>1, <2>4, <2>5, <2>6 DEF Claims!Next, Claims!Use, Claims!Drop, Claims!vars, Latest
<1>2. Inv /\ [Next]_vars =>
        [\A f \in Findings : era'[f] = era[f] => rows[f].version <= rows'[f].version]_vars
  BY <1>1, RefineStep
<1>3. Spec => []Inv
  BY Invariance
<1>4. QED
  BY <1>2, <1>3, PTL DEF Spec, VersionNeverRegresses
=============================================================================
