---------------------------- MODULE PreProcessor -----------------------------
(***************************************************************************)
(* The pre-processor: the SQS queue of Security Hub events, the Lambda     *)
(* containers that process them in batches, and the findings table.        *)
(*                                                                         *)
(* A record is looked up in the table, written if it is newer than the row *)
(* and, when the finding is to be remediated, handed to the Orchestrator.  *)
(* The records of a batch run concurrently in one Node.js process and share*)
(* the one-row cache of its FindingRepository.  Between two awaited calls  *)
(* a record's handler is not interrupted, so an action is the code from    *)
(* one call to the next.                                                   *)
(***************************************************************************)
EXTENDS FindingsTable, FiniteSets

CONSTANTS
  Messages,        \* SQS messages
  Containers,      \* Lambda execution environments
  Users,           \* users of the API that suppress findings
  Kinds,           \* what an event says: "failing", "warning" or "closed"
  Workflows,       \* its workflow status: "NEW", "NOTIFIED", "SUPPRESSED"
  BatchSize,       \* records of one invocation
  MaxReceiveCount, \* receives of a message before it is dead-lettered
  Failures,        \* whether calls may fail and containers may crash
  None             \* no event, no container, no finding

ASSUME PreProcessorAssumption ==
  /\ Kinds \subseteq {"failing", "warning", "closed"}
  /\ Workflows \subseteq {"NEW", "NOTIFIED", "SUPPRESSED"}
  /\ BatchSize \in Nat \ {0}
  /\ MaxReceiveCount \in Nat \ {0}
  /\ Failures \in BOOLEAN
  /\ None \notin Findings

VARIABLES
  hub,       \* finding -> version and kind Security Hub has
  event,     \* message -> the event it carries
  queue,     \* message -> where it is
  receives,  \* message -> ApproximateReceiveCount
  task,      \* message -> the recordHandler call that processes it
  cache,     \* container -> FindingRepository.cachedItem
  rows,      \* the findings table
  era,       \* finding -> how often its row has been deleted
  started,   \* executions started, by the delivery that started them
  ended,     \* those that have notified their outcome
  draft      \* user -> the row its API call read and will write back

vars == <<hub, event, queue, receives, task, cache, rows, era, started, ended, draft>>

-----------------------------------------------------------------------------
Events == [finding: Findings, version: 0 .. MaxVersion, kind: Kinds, workflow: Workflows]

\* A delivery is one receive of one message.
Deliveries == Messages \X (1 .. MaxReceiveCount)

\* An execution: what it was started for, and whether it runs without a history
\* row and without status updates (a NOTIFIED finding).
Executions == [finding: Findings, version: 0 .. MaxVersion, era: Nat,
               delivery: Deliveries, silent: BOOLEAN]

\* The call a handler makes next; "done" and "threw" have returned.
Calls == {"isNew", "old", "exists", "put", "create", "delete", "start", "history"}

Task == [pc: {"none", "done", "ignored", "threw"} \cup Calls, at: Containers \cup {None},
         trigger: BOOLEAN, silent: BOOLEAN, row: Row, era: Nat]

NoTask == [pc |-> "none", at |-> None, trigger |-> FALSE, silent |-> FALSE,
           row |-> [version |-> 0, status |-> NotStarted, suppressed |-> FALSE], era |-> 0]

NoCache == [finding |-> None, row |-> NoRow]
NoDraft == [finding |-> None, row |-> NoRow]

TasksOf(c) == {m \in Messages : task[m].pc # "none" /\ task[m].at = c}

Init ==
  /\ hub = [f \in Findings |-> [version |-> 0, kind |-> "closed"]]
  /\ event = [m \in Messages |-> None]
  /\ queue = [m \in Messages |-> "unsent"]
  /\ receives = [m \in Messages |-> 0]
  /\ task = [m \in Messages |-> NoTask]
  /\ cache = [c \in Containers |-> NoCache]
  /\ rows = [f \in Findings |-> NoRow]
  /\ era = [f \in Findings |-> 0]
  /\ started = {}
  /\ ended = {}
  /\ draft = [u \in Users |-> NoDraft]

-----------------------------------------------------------------------------
(***************************************************************************)
(* Security Hub and the queue.                                             *)
(***************************************************************************)

\* Security Hub imports a new version of a finding, or reports the same version
\* again with another workflow status (BatchUpdateFindings leaves UpdatedAt).
Publish(m, f, kind, workflow, newer) ==
  LET version == IF newer THEN hub[f].version + 1 ELSE hub[f].version IN
  /\ queue[m] = "unsent"
  /\ version \in 1 .. MaxVersion
  /\ ~newer => kind = hub[f].kind
  /\ hub' = [hub EXCEPT ![f] = [version |-> version, kind |-> kind]]
  /\ event' = [event EXCEPT ![m] =
                [finding |-> f, version |-> version, kind |-> kind, workflow |-> workflow]]
  /\ queue' = [queue EXCEPT ![m] = "visible"]
  /\ UNCHANGED <<receives, task, cache, rows, era, started, ended, draft>>

\* A free container is invoked with a batch of messages.
Receive(c, batch) ==
  /\ TasksOf(c) = {}
  /\ Cardinality(batch) \in 1 .. BatchSize
  /\ \A m \in batch : queue[m] = "visible"
  /\ queue' = [m \in Messages |-> IF m \in batch THEN "inflight" ELSE queue[m]]
  /\ receives' = [m \in Messages |-> IF m \in batch THEN receives[m] + 1 ELSE receives[m]]
  /\ task' = [m \in Messages |->
               IF m \in batch THEN [NoTask EXCEPT !.pc = "isNew", !.at = c] ELSE task[m]]
  /\ UNCHANGED <<hub, event, cache, rows, era, started, ended, draft>>

\* Where a processed message goes.
Returned(pc) == IF pc = "done" THEN "deleted" ELSE "ignored"

\* Mutants of Retried: no dead-letter queue; a failed record is not shown again.
RetriedAlways(m) == "visible"
RetriedNever(m) == "inflight"

\* Where an unprocessed one goes.
Retried(m) == IF receives[m] < MaxReceiveCount THEN "visible" ELSE "dead"

\* The invocation returns when all its records have: those that threw are
\* reported as batch item failures, the others are deleted.
Return(c) ==
  LET batch == TasksOf(c) IN
  /\ batch # {}
  /\ \A m \in batch : task[m].pc \notin Calls
  /\ queue' = [m \in Messages |->
                IF m \notin batch THEN queue[m]
                ELSE IF task[m].pc = "threw" THEN Retried(m)
                ELSE Returned(task[m].pc)]
  /\ task' = [m \in Messages |-> IF m \in batch THEN NoTask ELSE task[m]]
  /\ UNCHANGED <<hub, event, receives, cache, rows, era, started, ended, draft>>

\* The container is lost, by a timeout or between invocations: its cache is gone
\* and no record of its batch is reported as processed.
Crash(c) ==
  LET batch == TasksOf(c) IN
  /\ Failures
  /\ batch # {} \/ cache[c] # NoCache
  /\ queue' = [m \in Messages |-> IF m \in batch THEN Retried(m) ELSE queue[m]]
  /\ task' = [m \in Messages |-> IF m \in batch THEN NoTask ELSE task[m]]
  /\ cache' = [cache EXCEPT ![c] = NoCache]
  /\ UNCHANGED <<hub, event, receives, rows, era, started, ended, draft>>

-----------------------------------------------------------------------------
(***************************************************************************)
(* Decisions of a handler.                                                 *)
(***************************************************************************)

\* FindingRepository.findByIdWithCache: the cached row of this finding, else the
\* row of the table, which is cached if there is one.
Lookup(m) ==
  LET e == event[m]
      c == task[m].at
  IN  IF cache[c].finding = e.finding THEN cache[c].row ELSE rows[e.finding]

\* What the handler may be answered: a read of the table that fails counts as no row
\* (findById).
Answers(m) ==
  {Lookup(m)} \cup
  (IF Failures /\ cache[task[m].at].finding # event[m].finding THEN {NoRow} ELSE {})

Remember(m, item) ==
  IF Exists(item)
  THEN cache' = [cache EXCEPT ![task[m].at] = [finding |-> event[m].finding, row |-> item]]
  ELSE UNCHANGED cache

\* Mutant of Triggers: any kind of event of an open workflow.
TriggersAnyKind(e, auto, item) ==
  /\ auto
  /\ e.workflow # "SUPPRESSED"
  /\ ~Exists(item) \/ item.status \in {NotStarted, Failed}

\* shouldTriggerRemediation, with hasBeenTriggered and hasPreviouslyFailedRemediation.
Triggers(e, auto, item) ==
  /\ auto
  /\ e.kind = "failing"
  /\ e.workflow # "SUPPRESSED"
  /\ ~Exists(item) \/ item.status \in {NotStarted, Failed}

\* The remediationStatus passed to updateWithIncomingData, or the old row's.
NextStatus(e, trigger, item) ==
  IF ~Exists(item) THEN IF trigger THEN InProgress ELSE NotStarted
  ELSE IF trigger /\ e.workflow # "NOTIFIED" THEN InProgress ELSE item.status

\* buildFindingTableItem
ItemOf(e, status, old) == [version |-> e.version, status |-> status, suppressed |-> old.suppressed]

\* Closed findings are deleted, the others written.
WriteCall(e, call) == IF e.kind = "closed" THEN "delete" ELSE call

Finish(m, pc) == task' = [task EXCEPT ![m].pc = pc]

-----------------------------------------------------------------------------
(***************************************************************************)
(* recordHandler, from one awaited call to the next.                       *)
(***************************************************************************)

\* A malformed record, an unsupported finding type or a finding that the filters
\* reject is dropped; so is, after the lookup, one whose item cannot be built.
Ignore(m) ==
  /\ task[m].pc \in {"isNew", "old"}
  /\ Finish(m, "ignored")
  /\ UNCHANGED cache \/ Remember(m, Lookup(m))
  /\ UNCHANGED <<hub, event, queue, receives, rows, era, started, ended, draft>>

\* isNew, and for a finding that has a row all of processExistingFinding up to
\* the write: every further lookup hits the cache.
IsNew(m, auto) ==
  LET e == event[m] IN
  /\ task[m].pc = "isNew"
  /\ \E item \in Answers(m) :
       LET trigger == Triggers(e, auto, item) IN
       /\ task' = [task EXCEPT ![m] =
                     [@ EXCEPT !.pc = WriteCall(e, IF Exists(item) THEN "put" ELSE "old"),
                               !.trigger = trigger,
                               !.silent = Exists(item) /\ e.workflow = "NOTIFIED",
                               !.row = ItemOf(e, NextStatus(e, trigger, item), item)]]
       /\ Remember(m, item)
  /\ UNCHANGED <<hub, event, queue, receives, rows, era, started, ended, draft>>

\* updateWithIncomingData of a new finding looks the old row up again ...
Old(m) ==
  /\ task[m].pc = "old"
  /\ \E item \in Answers(m) :
       /\ task' = [task EXCEPT ![m] =
                     [@ EXCEPT !.pc = IF Exists(item) THEN "put" ELSE "exists",
                               !.row = ItemOf(event[m], task[m].row.status, item)]]
       /\ Remember(m, item)
  /\ UNCHANGED <<hub, event, queue, receives, rows, era, started, ended, draft>>

\* ... and then whether it exists.
ExistsCall(m) ==
  /\ task[m].pc = "exists"
  /\ \E item \in Answers(m) :
       Finish(m, IF Exists(item) THEN "put" ELSE "create") /\ Remember(m, item)
  /\ UNCHANGED <<hub, event, queue, receives, rows, era, started, ended, draft>>

\* Mutant of WriteAllowed: createIfNotExists without attribute_not_exists.
CreateAllowed(m) ==
  LET row == rows[event[m].finding] IN
  \/ task[m].pc = "put" /\ IsNewer(row, task[m].row)
  \/ task[m].pc = "create"
  \/ task[m].pc = "delete" /\ Exists(row)

\* The condition of the write the handler is about to make.
WriteAllowed(m) ==
  LET row == rows[event[m].finding] IN
  \/ task[m].pc = "put" /\ IsNewer(row, task[m].row)
  \/ task[m].pc = "create" /\ ~Exists(row)
  \/ task[m].pc = "delete" /\ Exists(row)

\* Its effect.
ApplyWrite(m) ==
  LET f == event[m].finding IN
  IF task[m].pc = "delete"
  THEN /\ rows' = [rows EXCEPT ![f] = NoRow]
       /\ era' = [era EXCEPT ![f] = @ + 1]
  ELSE /\ rows' = [rows EXCEPT ![f] = task[m].row]
       /\ UNCHANGED era

\* putIfNewer, createIfNotExists or deleteIfExists succeeds.
Write(m) ==
  /\ task[m].pc \in {"put", "create", "delete"}
  /\ WriteAllowed(m)
  /\ ApplyWrite(m)
  /\ task' = [task EXCEPT ![m] = [@ EXCEPT !.pc = IF task[m].trigger THEN "start" ELSE "done",
                                           !.era = era[event[m].finding]]]
  /\ UNCHANGED <<hub, event, queue, receives, cache, started, ended, draft>>

\* Its condition fails: somebody else has written the row.
WriteRejected(m) ==
  /\ task[m].pc \in {"put", "create", "delete"}
  /\ ~WriteAllowed(m)
  /\ Finish(m, "done")
  /\ UNCHANGED <<hub, event, queue, receives, cache, rows, era, started, ended, draft>>

\* It takes effect and the response is lost: the client's retry fails the
\* condition, or the client gives up.
WriteLost(m) ==
  /\ Failures
  /\ task[m].pc \in {"put", "create", "delete"}
  /\ WriteAllowed(m)
  /\ ApplyWrite(m)
  /\ \E pc \in {"done", "threw"} : Finish(m, pc)
  /\ UNCHANGED <<hub, event, queue, receives, cache, started, ended, draft>>

Execution(m) ==
  [finding |-> event[m].finding, version |-> event[m].version, era |-> task[m].era,
   delivery |-> <<m, receives[m]>>, silent |-> task[m].silent]

\* StartExecution.  The finding may come back without an execution ARN, and a
\* call whose response is lost is made again.
Start(m) ==
  /\ task[m].pc = "start"
  /\ started' = started \cup {Execution(m)}
  /\ \E pc \in (IF task[m].silent THEN {"done"} ELSE {"history", "done"})
               \cup (IF Failures THEN {"start"} ELSE {}) : Finish(m, pc)
  /\ UNCHANGED <<hub, event, queue, receives, cache, rows, era, ended, draft>>

\* createRemediationHistory; a failure is only logged.
History(m) ==
  /\ task[m].pc = "history"
  /\ Finish(m, "done")
  /\ UNCHANGED <<hub, event, queue, receives, cache, rows, era, started, ended, draft>>

\* A call raises without effect and the record is to be retried.  (Before isNew these are the
\* reads of the configuration; lookups of the row raise nothing.)
Throw(m) ==
  /\ Failures
  /\ task[m].pc \in Calls \ {"old", "exists", "history"}
  /\ Finish(m, "threw")
  /\ UNCHANGED <<hub, event, queue, receives, cache, rows, era, started, ended, draft>>

-----------------------------------------------------------------------------
(***************************************************************************)
(* The other writers of the table.                                         *)
(***************************************************************************)

\* What the update of an execution's finding leaves: a deleted row comes back with
\* the keys and the status alone, unless the execution has no history row either.
StatusWritten(x, status) ==
  LET f == x.finding IN
  IF x.silent THEN {rows}
  ELSE IF Exists(rows[f]) THEN {[rows EXCEPT ![f] = SetStatus(rows[f], status)]}
  ELSE {rows, [rows EXCEPT ![f] = [version |-> 0, status |-> status, suppressed |-> FALSE]]}

\* An execution reports: queued (still in progress), or its outcome.
Notify(x, status) ==
  /\ x \notin ended
  /\ ended' = IF status = InProgress THEN ended ELSE ended \cup {x}
  /\ rows' \in StatusWritten(x, status)
  /\ UNCHANGED <<hub, event, queue, receives, task, cache, era, started, draft>>

\* It ends without its update reaching the table (the error is swallowed).
NotifyFails(x) ==
  /\ Failures
  /\ x \notin ended
  /\ ended' = ended \cup {x}
  /\ UNCHANGED <<hub, event, queue, receives, task, cache, rows, era, started, draft>>

\* An API call to suppress or unsuppress reads the row ...
ReadForSuppress(u, f) ==
  /\ draft[u] = NoDraft
  /\ Exists(rows[f])
  /\ draft' = [draft EXCEPT ![u] =
                [finding |-> f, row |-> [rows[f] EXCEPT !.suppressed = ~@]]]
  /\ UNCHANGED <<hub, event, queue, receives, task, cache, rows, era, started, ended>>

\* ... and writes all of it back.
WriteSuppressed(u) ==
  /\ draft[u] # NoDraft
  /\ rows' = [rows EXCEPT ![draft[u].finding] = draft[u].row]
  /\ draft' = [draft EXCEPT ![u] = NoDraft]
  /\ UNCHANGED <<hub, event, queue, receives, task, cache, era, started, ended>>

-----------------------------------------------------------------------------
Handle(m) ==
  \/ \E auto \in BOOLEAN : IsNew(m, auto)
  \/ Ignore(m)
  \/ Old(m)
  \/ ExistsCall(m)
  \/ Write(m)
  \/ WriteRejected(m)
  \/ Start(m)
  \/ History(m)

Next ==
  \/ \E m \in Messages, f \in Findings, kind \in Kinds, workflow \in Workflows, newer \in BOOLEAN :
       Publish(m, f, kind, workflow, newer)
  \/ \E c \in Containers, batch \in SUBSET Messages : Receive(c, batch)
  \/ \E c \in Containers : Return(c) \/ Crash(c)
  \/ \E m \in Messages : Handle(m) \/ WriteLost(m) \/ Throw(m)
  \/ \E x \in started : NotifyFails(x) \/ \E status \in {InProgress, Success, Failed} : Notify(x, status)
  \/ \E u \in Users, f \in Findings : ReadForSuppress(u, f)
  \/ \E u \in Users : WriteSuppressed(u)

Spec == Init /\ [][Next]_vars

\* The queue keeps delivering, and handlers and invocations that run get to their
\* end; nobody has to publish, fail, crash, notify or suppress.
FairSpec ==
  /\ Spec
  /\ \A m \in Messages : WF_vars(Handle(m))
  /\ \A c \in Containers : WF_vars(Return(c))
  /\ WF_vars(\E c \in Containers, batch \in SUBSET Messages : Receive(c, batch))

-----------------------------------------------------------------------------
(***************************************************************************)
(* Refinement: the row's version is the latest recorded, a handler about   *)
(* to call StartExecution holds a claim, an execution is a claim used.     *)
(***************************************************************************)

\* Handlers about to start an execution.
Claimants == {m \in Messages : task[m].pc = "start"}

ClaimOf(x) == [finding |-> x.finding, version |-> x.version, era |-> x.era, delivery |-> x.delivery]

Claims == INSTANCE ClaimOnce
  WITH latest <- [f \in Findings |-> rows[f].version],
       granted <- {ClaimOf(Execution(m)) : m \in Claimants},
       used <- {ClaimOf(x) : x \in started}

\* The pre-processor implements ClaimOnce.
ClaimsSpec == Claims!Spec

-----------------------------------------------------------------------------
(***************************************************************************)
(* Properties.                                                             *)
(***************************************************************************)

\* Every variable has its type.
TypeOK ==
  /\ hub \in [Findings -> [version: 0 .. MaxVersion, kind: Kinds \cup {"closed"}]]
  /\ event \in [Messages -> Events \cup {None}]
  /\ queue \in [Messages -> {"unsent", "visible", "inflight", "deleted", "ignored", "dead"}]
  /\ receives \in [Messages -> 0 .. MaxReceiveCount]
  /\ task \in [Messages -> Task]
  /\ cache \in [Containers -> [finding: Findings \cup {None}, row: Row \cup {NoRow}]]
  /\ rows \in [Findings -> Row \cup {NoRow}]
  /\ era \in [Findings -> Nat]
  /\ started \subseteq Executions
  /\ ended \subseteq started
  /\ draft \in [Users -> [finding: Findings \cup {None}, row: Row \cup {NoRow}]]

\* What ties a handler to its message: it runs while the message is in flight, its
\* write is for the version of its event, and what it deletes it does not remediate.
TasksConsistent ==
  \A m \in Messages :
    LET t == task[m] IN
    /\ t.pc # "none" => queue[m] = "inflight" /\ t.at \in Containers
    /\ queue[m] # "unsent" => event[m] \in Events /\ event[m].version > 0
    /\ queue[m] \in {"unsent", "visible"} => receives[m] < MaxReceiveCount
    /\ queue[m] = "inflight" => receives[m] > 0
    /\ t.pc \in {"old", "exists", "put", "create"} => t.row.version = event[m].version
    /\ t.pc = "delete" => ~t.trigger

\* Security Hub repeats itself, the queue delivers again, containers crash and
\* responses are lost, and still one version of a finding is sent to the
\* Orchestrator by at most one delivery, as long as its row is not deleted in
\* between (the conditions of putIfNewer and createIfNotExists).
OneDeliveryStarts ==
  \A x, y \in started :
    x.finding = y.finding /\ x.version = y.version /\ x.era = y.era => x.delivery = y.delivery

\* No writer of the pre-processor or of the Orchestrator takes a row back to an
\* older version, nor drops its version (putIfNewer, build_update_item).
VersionNeverRegresses ==
  [][\A f \in Findings : era'[f] = era[f] => rows[f].version <= rows'[f].version]_vars

\* A message that Security Hub's event put on the queue is eventually processed,
\* dropped or dead-lettered.
MessagesSettle ==
  \A m \in Messages : queue[m] = "visible" ~> queue[m] \in {"deleted", "ignored", "dead"}

\* All events of a finding have been processed and none was dropped.
Settled(f) ==
  \A m \in Messages :
    event[m] # None /\ event[m].finding = f => queue[m] = "deleted"

\* An automatically started remediation is not started again while one runs
\* (hasBeenTriggered, the workflow flag set for NOTIFIED findings).
OneRunPerFinding ==
  \A x, y \in started \ ended : x.finding = y.finding => x = y

\* A status other than NOT_STARTED says the finding was sent for remediation
\* (hasBeenTriggered), once nobody is still working on it.
TriggeredWasSent ==
  \A f \in Findings :
    Settled(f) /\ Exists(rows[f]) /\ rows[f].status # NotStarted =>
      \E x \in started : x.finding = f

\* An event older than the row does not take the row away: when every event has
\* been processed, an open finding has a row (deleteIfExists).
OpenFindingListed ==
  \A f \in Findings :
    Settled(f) /\ hub[f].version > 0 /\ hub[f].kind # "closed" => Exists(rows[f])
=============================================================================
