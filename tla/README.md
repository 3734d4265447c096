# Formal model of Automated Security Response on AWS

TLA+ specifications of the control logic of the solution, the TLC configurations that
model-check them on small instances, and theorems checked by TLAPS. Paths in this file are
relative to `src/source/` of the repository.

1. [Inventory of the system](#1-inventory-of-the-system)
2. [Modules and how they correspond to the code](#2-modules)
3. [Runs: what is checked, bounds, what it shows](#3-runs)
4. [Fairness](#4-fairness)
5. [Proofs](#5-proofs)
6. [Where the code and what is said of it disagree](#6-disagreements)
7. [What is not modelled](#7-what-is-not-modelled)
8. [Plan](#8-plan)

## 1. Inventory of the system

Security Hub findings reach the solution as EventBridge events on an SQS queue. A TypeScript
Lambda function, the *pre-processor*, records each finding in the DynamoDB findings table and,
when its control is remediated automatically, starts the *Orchestrator*. A user can start it as
well, by a custom action in Security Hub or through the API behind the web UI. The Orchestrator
is a Step Functions state machine whose states are Python Lambda functions. It checks whether
the finding may be remediated, reserves a start time from the *scheduler*, runs an SSM
automation in the member account, polls it, and notifies. The notification function writes the
outcome to the findings table and to the remediation history table, and to Security Hub. A
weekly job imports all findings again.

| Component | Source | State | Operations |
|---|---|---|---|
| Pre-processor | `lambdas/pre-processor/`, `lambdas/common/services/findingDataService.ts`, `lambdas/common/repositories/findingRepository.ts`, `lib/pre-processor-construct.ts` | queue and dead-letter queue, one cached row per container, findings table, history table | receive a batch, look a finding up, write it if newer, delete it, start an execution, record its history |
| Remediation scheduling | `Orchestrator/schedule_remediation.py`, `lib/common-orchestrator-construct.ts`, `lib/administrator-stack.ts` | scheduling table with TTL, queue and dead-letter queue, task tokens | send a token, reserve a slot, answer the token |
| Orchestrator | `lib/common-orchestrator-construct.ts`, `Orchestrator/{get_approval_requirement,check_ssm_doc_state,exec_ssm_doc,check_ssm_execution}.py` | one execution with a Map over its findings, automations in member accounts | workflow check, approval, runbook state, schedule, execute, monitor, ticket, notify |
| Notification and status | `Orchestrator/send_notifications.py`, `layer/{event_transformers,remediation_data_service,history_repository,findings_repository,sechub_findings}.py` | findings table, history table, workflow status in Security Hub | flag, publish, transactional update, creation of a missing history row, finding-only update, resolve |
| API actions | `lambdas/api/services/findingsService.ts`, `lambdas/common/repositories/remediationHistoryRepository.ts` | findings and history tables | remediate, remediate with a ticket, suppress, unsuppress |
| Searches and exports | `lambdas/api/{handlers/baseHandler,services/baseSearchService,services/findingsService,services/remediationService}.ts`, `lambdas/common/repositories/` | none (pages of the tables) | access rules, filters, index selection, page tokens, exports |
| Synchronization | `lambdas/synchronization/`, `lib/synchronization-findings-construct.ts` | findings table, one cached row per invocation | weekly import in chunks, pages and batches of ten; retries of the invocation |
| Filters | `lambdas/common/utils/{filterUtils,ssmCache}.ts` | parameters and organizational units cached per container | account, unit and tag filters |
| Users | `lambdas/api/services/{cognito,authorization}.ts`, `lambdas/api/handlers/{preSignUp,users}.ts`, `lambdas/common/repositories/userAccountMappingRepository.ts` | external user pool, account mapping table, cache per container | invite, update, delete, list, link, authorize |
| Web UI | `webui/src` | component state, store of RTK Query | search, load more, refresh, actions with optimistic marks |
| Runbooks and playbooks | `remediation_runbooks/`, `playbooks/`, `lib/` | resources of member accounts | about 150 independent remediations |
| Ticketing, metrics, deployment, test tooling | `blueprints/`, `layer/metrics.py`, `lib/`, `solution_deploy/`, `simtest/`, `test-stack/` | none the flow reads | I/O and one-off work |

How they interact:

- *Shared tables.* A row of the findings table has four writers that do not know of each other:
  the pre-processor (conditional on the version, or on existence), the notification function
  (unconditional update of the status, in a transaction with the history row), the API
  (whole-row writes) and the synchronization. The history table has three: both starters and the
  notification function.
- *Queues.* The pre-processor's and the scheduler's queues deliver at least once, in any order,
  and again after a failure, up to a limit.
- *Callbacks.* The scheduler answers the state machine by a task token that dies with the
  attempt it belongs to.
- *Asynchronous outcomes.* A Lambda function that the state machine has given up on (task
  timeout) runs on: the functions' own timeouts are longer than most of the tasks'. So does an
  SSM automation nobody monitors.

What is hard here, and what the properties are therefore about, is in `hazards` of
`PROJECT.json`, each at its line: stale reads (the cache of the pre-processor, the eventually
consistent read of the scheduler), writes that are not one transaction (the fallback of the
status update, the starter's late history row), steps done and their answer lost (every call to
a service), delivery again after a partial success, and the executions whose failure only an
event reports. What makes each component correct:

- scheduler: start times in one account and region are far enough apart, what stale reads cost
  of that is bounded, bursts are served at the configured rate, every token is answered;
- pre-processor: one remediation per version of a finding whatever is repeated, rows that do not
  go back in time, every message settled, no row that says a remediation runs when none was
  started, no open finding without its row;
- Orchestrator and notification: SUCCESS only for automations that succeeded, tables that agree,
  outcomes that are not reopened, everybody told, nothing executed that was found unfit;
- API actions: what is answered with success is done for every finding named, what is started is
  recorded, and whole-row writes undo nothing they need not undo;
- synchronization and filters: no finding dropped that the configuration admits, errors fail
  open and only errors do, suppressions and versions survive the import, lost rows come back and
  rows of closed findings go;
- searches: whatever index answers, whatever moves meanwhile, what matches and does not change
  is read once;
- users: pool and table agree with the requests answered, caches follow, lists are complete;
- web UI: the rows shown are those of the filter, marked as in the table, and nothing spins
  forever.

## 2. Modules

| Module | Contents |
|---|---|
| `FindingsTable` | a findings row and the conditions of its writers, shared by the modules below |
| `ScheduleRemediation` | Send Task Token, the scheduling queue, the function and its table |
| `PreProcessor` | queue, containers, cache, `recordHandler` call by call, the table's other writers |
| `ClaimOnce` | abstract specification of what the pre-processor promises about starting remediations |
| `SendNotifications` | the notification function call by call, over both tables and Security Hub |
| `Orchestrator` | the state machine, its starters, its automations and the failure rule; EXTENDS `SendNotifications` |
| `ApiActions` | requests of users on several findings: batch reads, executions, transactions, batch writes |
| `Filters` | a configuration and what it lets through; the caches of a container |
| `Synchronization` | the weekly import; EXTENDS `FindingsTable` and `Filters` |
| `SearchFilters` | filters, their grouping, the choice of an index and the expression for the rest |
| `SearchRequests` | who may send a search and what its body becomes; EXTENDS `SearchFilters` |
| `SearchPages` | pages, tokens, direct reads and exports over a table that changes; EXTENDS `SearchRequests` |
| `UserManagement` | user pool, account mapping, user caches, the requests on users |
| `FindingsPage` | the page of findings of the web UI, its hook and its store |
| `*Proofs` | theorems about the module they are named for (`SearchProofs`: about `SearchFilters`, `SearchRequests` and `SearchPages`) |
| `MC*` | instances for TLC |

Granularity. An action is the code from one call to an external service to the next, since other
handlers, containers, executions and services interleave exactly there: in Node.js a handler is
not interrupted between two awaited calls, and Python functions of different containers share
nothing but the services. A call that writes has up to three outcomes: it takes effect and
answers, it takes effect and its answer is lost, it fails without effect. (A call that two
modules describe has all three in the one that is about it: the notification's own writes in
`SendNotifications`, not where `PreProcessor` has `Notify`.) Payloads (findings
JSON, messages, parameters of runbooks) are left out; a finding's row is its version
(`securityHubUpdatedAtTime`), its `remediationStatus` and `suppressed`.

**ScheduleRemediation.** `SendTaskToken`, `TaskFails` and `AbortExecution` are the state of the
state machine with its retries and its catch. `Receive` .. `DeleteMessage` are `lambda_handler`,
one action per call: the clock is read once when the handler starts and a second time in
`calculate_next_timestamp`'s comparison (`NextSlot`), `PutInitial` has no condition and
`PutItem` has one, as in the code. `GetItem` is eventually consistent: it answers with the item
or with any value it had since the replicas last converged. `missed` and `era` are history: a
read that found nothing though an item was there, and how many first puts have overwritten an
item such a read had missed. `Redeliver`, `Crash`, `Expire` (TTL), `Converge` (replicas)
and `Tick` are the environment. `reservedConcurrentExecutions: 1` and `batchSize: 1` are the
guard of `Receive`.

**PreProcessor.** A message's `task` is the `recordHandler` that processes it, its `pc` the call
it makes next: the lookup (`isNew`), for a finding without a row a second lookup and `exists`,
then `putIfNewer`, `createIfNotExists` or `deleteIfExists`, `StartExecution`, the history row.
A lookup that fails is one that finds no row (`Answers`), since `findById` takes its error for
that; other calls end the handler when they fail (`Throw`).
Records of a batch run concurrently in one container and share the one-row cache of its
`FindingRepository`, which is filled by reads and never by writes. Filters, normalization and
the remediation configuration decide `Ignore` and the parameter `auto` nondeterministically.
`Return` is the batch response with its item failures, `Crash` the loss of a container with its
cache. `Notify` is how an execution's report reaches the row (the detailed version is
`SendNotifications`), `ReadForSuppress` and `WriteSuppressed` an API request. A row's *era* is a
history variable: how often it has been deleted.

**ClaimOnce.** The abstract promise: whoever records a newer version of a finding may be granted
the claim to start its remediation, no version is claimed twice in an era, and a remediation is
started only on a claim held. `PreProcessor` maps a row's version to `latest`, a handler about
to call `StartExecution` to a claim granted, an execution to a claim used; lookups, queue moves,
crashes and reports are stutters or dropped claims.

**SendNotifications.** An invocation is identified by the finding of an execution and by who
invoked it: the state *Queued Notification*, the state *notify*, or the failure rule. Its steps
follow `lambda_handler`: `Flag` (all but SUCCESS and QUEUED), `Publish`, then
`remediation_data_service`: `Update` (one transaction over both rows if the history row exists),
else `ReadFinding`, `CreateHistory` (one transaction, cancelled if the row has appeared) and
`UpdateFindingOnly`, then `Resolve`. Errors that the code logs and drops are disjuncts of the
same actions or `UpdateLost`; those that end the invocation are `InvocationFails`.

**Orchestrator.** `pc` of an item (a finding of an execution) is the state of the Map's
iteration it is in; the Pass states that only build a notification are part of the transition
into *notify* (`EnterNotify`). Tasks fail after their retries (`TaskFails`), *Execute
Remediation* keeps its attempts, because an attempt that timed out or lost its answer may have
started an automation that nobody monitors. *notify* has no Catch: its failure fails the
execution, as the timeout of the state machine and StopExecution do (`TimesOut`), and then
`DeliverEvent` is EventBridge's rule with its retries. `RecordStarted` is the history row the
starter writes when `StartExecution` has returned, which may be long after the execution has
begun; `RecordFails` includes the API's FAILED for all findings of a request of which one could
not be started. An execution of an imported event or of the API has one finding, a custom
action's may have several (`InputOK`). Retries inside a client or of the Lambda service before a
function runs (`retryOnServiceExceptions`) have no state and are not distinguished from one
call. A NOTIFIED finding that the pre-processor remediates for the first time is sent on as NEW
(its `handleNotifiedFindingOrchestration` applies to known rows), so `input` has the status the
Orchestrator is given. The answer of the scheduler is one step (`Scheduled`) or a failure;
`ScheduleRemediation` shows that one of them comes.

**ApiActions.** `pc` of a request is the loop of `executeAction` it is in: `get`
(`findByFindingIds`, batches of `GetSize` keys), `start` (one `StartExecution` per finding),
`record` (one transaction per finding over both tables) or `put` (`putInBatches`, with
`UnprocessedItems` tried again up to `MaxAttempts` times). A batch get returns its rows in any
order; keys that it leaves unprocessed are dropped, a batch with the same key twice is refused, a
start that fails ends the loop and marks *all* findings FAILED under a key that names no
execution. `got` holds the rows as they were read: whole rows are written back, so `ideal` keeps
what each row would be had every writer written only its own attribute, and `overtaken` the
findings another wrote between such a read and its write. `Update` and `Close` are events of
Security Hub, `Report` the notification of an execution, `Timeout` the end of the Lambda function
at any point.

**Filters** and **Synchronization.** `run` is an invocation: the chunk of controls, the page and
the batch it is at, its attempt. `StartBatch` .. `EndBatch` bracket `Promise.allSettled` over
the findings of a batch, whose `task`s (`processSingleFinding`) interleave at each call: the
configuration, the organizational units, the row in the table (through the one-row cache the
repository of this invocation has), its existence, the write. The filter caches (`params`,
`units`) belong to the container and outlive the invocation; an error is cached as *no
configuration* or *no units*. A failing invocation is retried as Lambda retries asynchronous
events, from the start. Security Hub (`Import`, `Event`), users (`UserRead`, `UserSuppress`),
administrators (`Configure`) and DynamoDB (`Expire`) act meanwhile. Time is in days and moves
only when the invocation is over (`Tick`), since an invocation takes minutes and a row lives
days.

**SearchFilters**, **SearchRequests**, **SearchPages.** A value is a number, whose order is that
of the strings, and `Contains` the pairs of which one contains the other. A body is its single
and its composite filters; `ConvertToSearchCriteria` makes one flat set of them, as the code
drops the operators, so that filters on one field are alternatives. A filter given twice in a
body is two filters (`copy`), as the choice of an index counts them. A row may lack an attribute
(`Absent`): DynamoDB's *not equal* and *not contains* hold of such a row, and in memory
`matchesSingleFilter` answers no filter on it. Rows have a place in the order of the index, which
a write moves; a token is a place. `Answers` is what one DynamoDB query may answer (any number of
rows up to the limit, as 1 MB may be reached before), `Answer` all that the code does with it
until the next: cut to the page size, choose the token's row, ask again or return. A client that
follows the tokens and `fetchAllFindingsForExport` are the same loop, the latter with limits.
`table` selects findings or history: the history has its own indexes, groups by execution and
does not sort by severity.

**UserManagement.** A user is an entry of the pool with a set of groups, a row of accounts, and
what each container has cached of him. Each call to Cognito or the table is an action, so
`getUserById` is three (`Lookup`, `LookupGroups`, `LookupAccounts`), with two exceptions: the
read before the write of an update, as the write puts the same accounts whatever was read, and
the read of an operator's accounts in a list, which cannot fail and adds nothing to whom the list
has. A call that writes may take effect and lose its answer (`AnswerLost`): of a deletion this
leaves the user cached in the very container that deleted him. After the lookup an update may be
refused, since it names another type or status than the user's (`AfterLookup`). `wanted` is what
the requests answered with success ask for. `cut` marks users whose last request that wrote
anything ended midway, until one is answered with success; `disturbed` those whose requests
overlapped or believed an outdated cache; `outdated` says which containers hold what has changed
since: an invitation, a deletion elsewhere or unanswered, a failed read.

**FindingsPage.** `page` is the state of the component, `hook` the request and the answer
`useLazySearchFindingsQuery` shows, `store` what RTK Query keeps per request. `Render` runs the two
effects in the order React does, when their dependencies have changed, and again when they
change the operation. An answer equal to the one there is the same object (structural sharing)
and triggers nothing. `Serve` and `Deliver` separate the server's reading from the arrival, so
that answers come late; a request that the hook has left still fills the store. `raced` are
the findings of which an answer read before an action may come after it; a refresh, another
filter or opening the page anew clears them once neither an action nor an answer is under way.

## 3. Runs

Runs that pass:

| Run | Properties | Instance |
|---|---|---|
| `schedule_safety` | `TypeOK`, `SlotsSpaced`, `StaleReadsCost`, `PromisesCovered`, `BurstBounded` | two executions of one account and region, two environments, two receives, a wait of two seconds, a clock of five values that moves by up to two during an invocation, stale reads |
| `schedule_live` | `TokenAnswered` | one execution with two attempts of its task, each message received up to twice, stale reads |
| `pre_claims` | `TypeOK`, `TasksConsistent`, `OneDeliveryStarts`, `VersionNeverRegresses`, `ClaimsSpec` | one finding with two versions, two messages, two containers, batches of two, two receives, every failure |
| `pre_live` | `MessagesSettle` | one finding that is failing, two messages, one container, a user who suppresses, every failure |
| `orch_outcome` | `TypeOK`, `SuccessBacked`, `TablesAgree`, `OnlyStarterReopens`, `EveryoneTold` | one execution of one finding by each kind of starter, two failures or timeouts anywhere, two attempts of Execute Remediation, the rule's three deliveries, a finding that may be deleted |
| `sync_filters` | `NeverDropped`, `OnlyErrorsLetThrough`, `Repaired` | two findings of two accounts and units, two configurations, one change of them, one failure, two attempts |
| `sync_writes` | `TypeOK`, `SuppressionsKept`, `NoRollback`, `GhostsGo` | one finding with two versions, two writes of users, two failures, rows that live two periods |
| `search` | `TypeOK`, `NothingLost`, `NothingTwice`, `Ends` | four findings, one without a severity, pages of two, two queries per page, nine requests of findings and of the history, one with a filter given twice, both orders, two changes of the table, one failing read |
| `api` | `TypeOK`, `SuccessComplete`, `ExecutionsTracked`, `NothingUndone` | two requests on three findings, batches of two, two attempts, one failure or timeout, one event |
| `users` | `TypeOK`, `StoresAgree`, `CacheFollows`, `ListComplete` | two users, two containers, two lists of accounts, five requests, one failure or lost answer |
| `page` | `TypeOK`, `FirstRows`, `MarksShown`, `SpinnerStops` | three findings, pages of one, two filters, four events of the user, one failing call |

What they show:

- **Start times.** `get_item` is eventually consistent and the first write has no condition, so
  what the code promises is relative to the one harm they can do together: a first put that
  overwrites an item its read has missed ends an *era* of the pair. `SlotsSpaced`: two executions
  of one account and region that are told times in the same era start at least
  `SlotGap = WaitThreshold + 1 - MaxLag` apart, whatever is retried, redelivered, lost, expired
  or read late. The code compares the threshold with a later clock reading than the one it
  computes from, so the spacing it can promise shrinks with the time an invocation takes
  (`MaxLag`); that is why `SlotGap` and not `WaitThreshold`. `StaleReadsCost` is over all eras:
  in any `SlotGap` seconds one execution starts, and one more for each item overwritten unseen.
  So a stale read costs spacing on the path without a condition only, and one execution each
  time (section 6). `PromisesCovered`: until the wait of a time promised in this era is over, the
  table holds it or a later one (TTL may not take it away too early).
  `BurstBounded`: nobody waits longer than `WaitThreshold` for every message received so far,
  failed ones included. `TokenAnswered`: an execution does not wait for an answer forever.
- **One remediation per version.** `OneDeliveryStarts`: while a finding's row lasts, one version
  of it is sent to the Orchestrator by at most one delivery of one message: not by a second
  container, a second message with the same version, or the redelivery of one whose first
  delivery wrote the row. `VersionNeverRegresses`: no writer of the pre-processor or the
  Orchestrator takes a row to an older version. `ClaimsSpec`: the refinement of `ClaimOnce`,
  from which the first follows. `MessagesSettle`: every event ends processed, dropped or
  dead-lettered.
- **Outcomes.** `SuccessBacked`: the history says SUCCESS only if the monitored automation ended
  with SSM status Success, or the finding was resolved when it came. `TablesAgree`: an outcome
  in the findings table, with the execution it names, is the history row's outcome; the property
  lists the only ways in which the two can differ, which come from the fallback that is not a
  transaction. `OnlyStarterReopens`: while nothing fails or times out, no outcome goes back to
  IN_PROGRESS except by the starter's late Put. `EveryoneTold`: with fewer failing calls than
  EventBridge's deliveries, the finding of an execution is notified as fixed, failed or not new.
- **The import.** `NeverDropped`: a finding that every configuration in force since the container
  started admits is never filtered out, whatever errors are cached; `OnlyErrorsLetThrough`: one
  that all of them reject is written only after a filter call of this container has failed. The
  two together are what *fail open* means here. `Repaired`: a finding that stays failing and
  admitted has its row again and again, whatever is lost; `GhostsGo`: the row of one that is
  closed, whose event was lost, expires. `SuppressionsKept`: the import takes a suppression back
  only if it was made, or the row's read failed, during the same invocation; `NoRollback`: only
  a user's whole-row write may bring an older version back.
- **Searches.** `NothingLost` and `NothingTwice`: an export or a client that follows the tokens
  to their end has every finding that was there, matched and did not change, once; and none that
  never matched. `Ends`: it ends, though rows it has passed may come back before it.
- **API.** `SuccessComplete`: an answer of 200 or 202 means that every finding named had no row,
  was left unprocessed by the batch get, or has been written. `ExecutionsTracked`: an execution
  that was started has its history row, unless its request was stopped or failed to start
  another. `NothingUndone`: a request undoes another's write only if that came between its read
  and its write.
- **Users.** `StoresAgree`: whatever failed before, once a request on a user is answered with
  success and none after it wrote and broke off, the pool and the table hold what was asked for;
  and however requests fail, a row of accounts belongs to an operator. Overlapping requests and
  believed outdated caches can break this (hazards with their notes). `CacheFollows`: what a
  container has cached is what it would find, except of a user who was invited, or deleted by
  another container, since it read his groups, whose read failed, or whom it deleted itself
  without getting the answer. `ListComplete`: a list has every user who had a role all the time,
  and nobody who never had one.
- **Page.** `FirstRows`: at rest, the rows are the first ones of the filter that is set and the
  token is that of the next; `MarksShown`: their marks are the table's, and those an answer from
  before an action has put back are right again after a refresh; `SpinnerStops`: it turns only
  while a request is under way. Each names the course of events that breaks it (see 6).

The one run that TLC is expected to find violated is `search_severity`, in section 6.

Bounds and why they are enough. *Messages, containers, executions, users, requests*: the
properties are about pairs (two deliveries of one version, two promises, two requests on one
finding), so two of each suffice for a violation of most; in `schedule_safety` the second receive
of a message is what burns a slot, or finds it expired, between two promises; three findings in
`api` make a second batch, four in `search` a second page with rows on both sides of a move.
*Receives* (`MaxReceiveCount`, 10 in the code): two distinguish the first, a repeated and the
last receive. *Attempts* (`MaxAttempts`, 4 in the scheduler, 3 in the synchronization;
`MaxStarts`, 3): one that is repeated and the last; one only in `schedule_safety`, where another
attempt's message is as good as another receive's. *Clock* (`MaxClock`): in `schedule_safety`
past the wait of the first slot, so that both branches of `NextSlot` and the expiry occur, with
two seconds within an invocation (`MaxLag`), so that the spacing is eroded; in `schedule_live`,
which has no property of times, just enough for expiry. *Versions* (`MaxVersion`): two, so that
an older event can come after a newer one. *Periods* (`SyncPeriod`, `TtlDays`; 7 and 8 in the
code): a row outlives a period, as in the code. *Failures* (`MaxFaults`): in `orch_outcome` two,
one less than the deliveries of the failure event, the strongest case in which `EveryoneTold` can
hold; elsewhere one or two, enough for any one step of a request to fail before or after any
other. *Changes, events* (`MaxChanges`, `MaxEvents`, `MaxCalls`, `MaxWrites`): each property's
excuses need at most two of them, and the mutants of the code are found within them. *Pages*
(`PageSize`, `MaxQueries`, `MaxRecords`): small enough that every limit is met. *Findings*: one
in the runs of the pre-processor and the Orchestrator; rows of different findings meet only in
the one-row cache, which the theorems cover for any number, and `sync_filters` has two.
Executions of the Orchestrator: one in `orch_outcome`; two executions of one finding with as many
failures are too many states for a run and are left to a proof (plan). Symmetry is used in
`schedule_safety`, `pre_claims` and `users` only, which check no liveness, over sets of model
values that are interchangeable there.

Deadlock is not checked (`CHECK_DEADLOCK FALSE`): all messages delivered, all executions over, a
clock or a budget of requests at its bound are proper ends of every instance.

## 4. Fairness

- `ScheduleRemediation`: an invocation that runs makes its next call or returns (`Handle`), and
  the event source keeps receiving while messages are visible (`Receive`). Nothing obliges a
  task to be sent, an execution to be aborted, a replica to converge or a clock to move; crashes
  and failing calls are possible, never required. Both hold because Lambda runs a handler to its
  end or its timeout, and the poller does not stop.
- `PreProcessor`: the same for each record's handler, for the batch response (`Return`) and for
  `Receive`.
- `Orchestrator`: a notification's invocation runs on (`Notification`), an execution does not
  outlive the state machine's timeout (`TimesOut`), EventBridge delivers the failure event
  (`DeliverEvent`). The other states of the state machine are *not* assumed to make progress: a
  stuck runbook or a task that never answers is what the timeout is for.
- `Synchronization`: days pass (`Tick`), an invocation goes on (`Advance`) and so does each call
  under way (`Process`); time to live removes an expired row (`Expire`). Security Hub, users and
  administrators need do nothing, and calls need not succeed: each failure is bounded, a call
  that was tried is over either way.
- `SearchPages`: the reader goes on (`Read`). The table need not change and no time limit need
  be met.

Weak fairness suffices everywhere: none of these actions is disabled by others again and again
while it waits. The other modules have safety properties only; the web UI promises nothing under
fairness that the code would justify, as a request to the API may stay unanswered for ever.

## 5. Proofs

TLAPS checks these for every value of the constants that the modules' ASSUMEs allow (which TLC
evaluates in the runs).

**Scheduling** (`ScheduleRemediationProofs`).
- `TypeCorrect`: `Spec => []TypeOK`, one step per action.
- `Spacing` and `Coverage`: `SlotsSpaced` and `PromisesCovered`, whatever reads return. Neither
  is inductive: the slot an invocation is about to promise is in no table and in no execution
  yet. `SlotsInductive` adds what a running invocation knows (`SlotAfterPromises`: what it
  computed is `SlotGap` after what it read, and what it wrote is `SlotGap` after all promises of
  the era and covered; what it *read* may be of any age, until the condition of `PutItem`
  confirms that it is the item), that it is the only one (`OneInvocation`), that its clock
  reading is at most `MaxLag` old (`ReadingFresh`), and that an execution has a time only when
  answered. The arithmetic of the two clock readings is the lemma `NextSlotSpaced`. `MaxLag <=
  WaitThreshold + 1` is assumed; beyond it two times may coincide.
- `StaleReadsBounded`: `StaleReadsCost`, from `Spacing` and that no execution is of a later era
  than its pair's: executions that start within `SlotGap` seconds are of different eras, so there
  are no more of them than eras.
- `BurstsAreBounded`: `BurstBounded`. `BurstInv` bounds whatever an
  invocation may read (the item and the replicas that lag behind it) or has computed, by the
  number of receives; a receive raises the bound by one `WaitThreshold` before its invocation
  adds as much.

**Pre-processor** (`PreProcessorProofs`).
- `OneClaim`: in `ClaimOnce` a version is started on the claim of one delivery only. The
  inductive invariant `ClaimInv` says that every claim of the current era is for a version
  recorded already, so that the next record, which is of a newer one, cannot repeat it.
- `TypeCorrect` and `TasksTied`: `TypeOK` and `TasksConsistent`, which are inductive together,
  with suppressing users, failures and crashes.
- `Implements`: if there are no suppressing users (`Users = {}`), `Spec => ClaimsSpec`. A
  successful `putIfNewer` or `createIfNotExists` is `Record`, `deleteIfExists` is `Forget`,
  `StartExecution` is `Use`; everything else leaves the latest versions and at most drops claims
  (`NoNewClaims`, `FewerClaimants`).
- `OneDelivery` and `VersionsGrow`: with the same assumption, by the refinement. The assumption
  excludes the whole-row writes of the API, which put a version read earlier back.

**Orchestrator and notifications** (`OrchestratorProofs`). The invariant `IInv` has, beside the
types, a part for each step an outcome takes from an automation to the two tables.
- `Control`: where the state machine of an item stands against what it has invoked. Without it a
  notice could stem from an attempt that has not been made.
- `Notified`: what a notice says, and on what grounds. `SuccessIsBacked` is read off it: the
  final notice says SUCCESS only of a monitored automation that ended so, and no other notice
  says it of a finding that was not resolved.
- `Written`: who can have written the history row it holds; `OnlyTheStarterReopens` follows from
  it and `Control`, as the queued notification has returned before an outcome is looked for.
- `Agree`: what the history row is while and after the finding's row is written.
  `TablesTellTheSame` follows; its exceptions are those that `TablesAgree` names.

**Actions of users** (`ApiActionsProofs`). The invariant `IInv` has a part for each phase of a
request.
- `Read`: what has been read and missed is exactly the ids before the position, each finding
  once, in whatever order a batch returns its rows.
- `Written`: what has been written, or is left of the batch, is what has been read before the
  position. `SuccessesAreComplete` is both together at the end of the loop; that the loop of
  `putInBatches` steps over no row when it retries what was left is what the argument turns on.
- `Tracked`: executions have been started for the findings before the position, then recorded
  for them: `ExecutionsAreTracked`.
- `Held`: a row still to be written back is the one in the table, unless another write has come
  between. It makes `NothingUndone` inductive: `NothingIsUndone`.

**Synchronization** (`SynchronizationProofs`).
- `TypesOK`, `WantedNotDropped`, `UnwantedNeedsError`: from the inductive invariant `Inv`, which
  adds to the types what the caches may hold (`CachesSound`: a configuration of this container's
  time, or none; the units of the account, or none after an error) and what a call under way was
  decided by (`Sound`). The lemma `PassesWanted` relates the filters as coded to what a
  configuration is meant to do.
- `RowsAdvance` and `SuppressionsHold`: the second needs that an invocation handles no finding
  twice (`Placed`: it is in the controls, the page or the batch still to come, or under way, and
  in one of them only), since the cached row and the row about to be written (`Held`) are only
  true of what the invocation has not yet written.

**Searches** (`SearchProofs`).
- `FindingsPlanExact` and `HistoryPlanExact`: for every set of filters, every row and every list
  of indexed fields, a row is in the partition that the chosen index reads and passes the
  expression left over exactly if it is what was asked for (`Asked`, a definition without groups
  or indexes). `GroupsExact` is about the grouping, `QueryExact` about taking the one filter out
  that the index answers, `ChosenIndex` about the choice; that an index is chosen only if its
  field has a single filter is what the argument turns on.
- `SearchExact`: the same from the body of the request on, through the conversion of filters and
  the accounts added for an account operator who names none (`RequestExact`): the rows are those
  the request asks for. It says nothing of which accounts an operator may name.
- `TypeCorrect`, `PagesRepeatNothing`, `PagesLoseNothing`: `TypeOK`, `NothingTwice` and
  `NothingLost`, for any table, changes, page size, limits and order. `Placed` says that rows have
  different places; `Ordering`, that what a page has found is in order, after its token and up to
  the start key; `Collected`, that of the findings that have not changed the result has exactly
  what was asked for up to the token, and the page what was asked for from there to the start
  key. `AnswerReads` is about one answer of DynamoDB, `PageGives` about where a page ends: at its
  last item if it is full and there is more, else at the last row evaluated.
- `PagesLoseNothing` assumes `Answerable`: a search by index uses one whose key structure is
  known, and one by ids has only filters that `matchesSingleFilter` answers as DynamoDB would
  (`InMemory`): neither *at least* nor *at most*, and no *not equal* or *not contains* on an
  attribute that a row lacks. TLC evaluates it to TRUE for the
  searches of the run `search` and to FALSE for that of `search_severity`, where `NothingLost`
  fails (section 6); the second half is the other disagreement there about comparisons.

**Users** (`UserManagementProofs`).
- `TypesOK`, `StoresAgreeAlways`, `CacheFollowsAlways`: the invariant `Inv` says of a user nobody
  has disturbed that one request at most is on him and how far it has got (`Reached`: an
  invitation between the pool and the table, a deletion between the table and the pool), that
  without one he is `Tidy`, and as asked for unless `cut` (`Settled`), that a request knows what it
  needs (`Formed`) and that what a lookup has read but not yet cached still holds (`Foreseen`).
  `CacheFollows` is part of it: a deletion goes by the type a cache holds. `AnswerLostStep` is the
  case of a write whose answer is lost.
- `ListsAreComplete`: `ListComplete`, if there are finitely many users and no more than one page
  of `ListUsers` has (`PageLimit`), as `getAllUsers` asks for one page only. `Listing` says of a
  list under way that those who have had a role all the time are listed or still to come.

**The page of findings** (`FindingsPageProofs`).
- `TypeCorrect` is inductive by itself; `FirstRowsShown`, `MarksAreShown` and `SpinnerEnds` are
  read off `IInv`. What makes them hard is that the page, the hook and the store go on at
  different times, and that the effects run again when only the operation changes.
- `Followed` ties the operation to the request and the token to the answer that the hook shows;
  that an operation *refresh* or *filter* lasts only until there is an answer to show is why its
  first answer is never missed. `Asked` says that a request for more rows follows an answer with
  an earlier token, so that its own answer is another object and ends the spinner.
- `Coming` is for `MarksAreShown`: outside `raced` every answer on its way has the marks of the
  table. With neither an action nor an answer under way, the request that follows is read anew,
  which is why a refresh may clear `raced`.
- `OnPage` says what is on the page before an answer comes too: once the first rows of the filter
  are shown, if only from an earlier request, they are the first ones (`FirstPage`), and a request
  for more rows asks for what follows them (`MorePages`). An answer equal to the one shown changes
  nothing; its rows are then those of the page except where an action has changed a mark, and in
  both cases they are `Good`.
- `RenderFirst` and `RenderSame` say what the effects come to, `TwoPasses` that a second run after
  a change of the operation gives the same; `MergeMore` that merging the next answer gives the
  first rows again, `MergeSame` that merging one that is shown changes nothing.

Assumptions on constants. Markers are not values: `None` is no status, execution, request,
answer code, answer or action. Sets over which something is counted are finite (the findings of
a search or of the page, the users of a list). A request of more ids than one batch gets names
none twice (`ApiAssumption`, section 6). A list of findings names none twice (`PageAssumption`;
the pages that `SearchPages` answers do not, by `PagesRepeatNothing`).

Only model-checked: liveness (`TokenAnswered`, `MessagesSettle`, `EveryoneTold`, `Repaired`,
`GhostsGo`, `Ends`), as the installed provers know nothing of ENABLED and so of fairness. Every
other property of a passing run is a theorem.

## 6. Disagreements

`search_severity` is a run in which TLC finds `NothingLost` violated by what the code does: a
search by one severity is answered from an index that `GSI_KEY_STRUCTURES` leaves out. What its
only query found beyond a page is lost, as there is neither a last key nor a structure to make a
token of; `findings` in `PROJECT.json` quotes what the code says of that table.

The following were met while modelling. Those with a formula have it in the module named, beside
the properties the runs check, where it does not hold of the code. None of these formulas is in a
run; `MCOrchestrator` keeps the inputs that show those of the Orchestrator.

- `CHANGELOG.md:286` says remediations are scheduled in the future to prevent throttling. As
  `get_item` is eventually consistent and the first write unconditional, the invocation after the
  one that created an item, or after any write not yet replicated over an expired one, may hand
  out the same time again: two remediations start together. `SlotsSpaced` is therefore about the
  times of one era and `StaleReadsCost` says what the rest costs.
- `OneRunPerFinding` (`PreProcessor`): whether a finding was triggered is asked of a cached row
  that the container does not update, so a newer version starts a second remediation while one
  runs.
- `TriggeredWasSent` (`PreProcessor`): the row says IN_PROGRESS before `StartExecution` is
  called; if that fails, the retry finds the row as new as itself and starts nothing.
- `OpenFindingListed` (`PreProcessor`): `deleteIfExists` has no version condition, so a late
  PASSED or ARCHIVED event removes the row of a finding that is open again.
- `EveryoneTold` (`Orchestrator`) with several findings in an execution: of a failed one only the
  first is notified.
- `SuccessVerified` (`Orchestrator`): a script that returns FAILED in an automation that ended
  with Success is notified as SUCCESS.
- `InactiveNotRun` (`Orchestrator`): a runbook found to be not active is executed, as the status
  is overwritten.
- `ExpiryCountsFromUpdate` (`Synchronization`): `ttlUtils.ts` counts a row's life from its last
  update, but `putIfNewer` does not set `expireAt`, so the row of a failing finding expires eight
  days after it was made, however often it is updated, and is made anew by the next import. On a
  row that has just gone, `putIfNewer` makes one without `expireAt`, which never expires: the
  exception in `GhostsGo`.
- `RowsOfFilter` (`FindingsPage`): more rows asked for between a change of the filter and its
  first answer are asked for with the token of the old filter, and the rows mixed; `FirstRows`
  leaves that course out (`hurried`). A filter changed while more rows load leaves the spinner on
  and loads no more until a refresh (`broken`). After a failed refresh, an answer equal to the
  one before does not bring the rows back (`failed`).
- `findById` takes an error for a missing row: a row whose read failed is rewritten as that of a
  new finding (`touched`), and a search by ids leaves it out (`unread`).
- Searches of the history offer *at least* and *at most* on dates; as filters on one field are
  alternatives, a range of two matches everything. In a search by ids these two comparisons
  match nothing (`MatchesSingleFilter`), and a row without an attribute does not match a *not
  equal* on it, as it does in a search by index.
- An export that ends exactly at `EXPORT_MAX_RECORDS` is called partial although nothing is left.
- A start that fails makes the API write FAILED for every finding of the request, those started
  included, and still answer 202.
- A request of over a hundred ids that names a finding twice in different batches starts it twice
  and keeps only the last execution; `ApiAssumption` leaves such requests out.
- `putUntyped` and `putInBatches` overwrite `lastUpdatedBy`, so the user who suppressed a finding
  is not recorded.
- A user whose invitation was cut short has no group: he is not listed, and can be neither
  updated nor deleted nor invited again. A deletion whose answer is lost leaves the user in the
  cache of the container that deleted him. A lookup that fails is kept as *no such user* for the
  container's life. `getAllUsers` reads one page of the pool only.

## 7. What is not modelled

- What runbook scripts do in member accounts, ticketing requests, metrics, logs, deployment and
  the CDK stacks (which are most of the TypeScript lines): I/O, or declarations that the flow
  does not read back. Settings of queues, functions, rules and the state machine that the flow
  depends on are modelled where they are used. The state of the Orchestrator that calls the
  ticket function is modelled, what the function does is not.
- Normalization of event formats and the remediation configuration: their outcome only. Every
  event a format can be normalized to is in the model of the pre-processor.
- The alternative workflow of the approval function (`WORKFLOW_RUNBOOK`): it replaces which
  document is executed, not the flow.
- The linking of federated users at sign-up, and the groups that handlers other than searches
  require: decisions without state of their own.
- In the web UI, the table of the remediation history, whose effects are those of the table of
  findings with a filter of executions already shown, and the pages of users, which refetch after
  every change; layout and selection.
- A second answer of DynamoDB for the executions of one finding (`fetchRemediationsByFindingId`
  reads one).
- In `PreProcessor`, DynamoDB's eventually consistent `GetItem`, whose staleness is contained in
  that of the cache as long as a container lives.
- Loss inside AWS services: DynamoDB's durability, Step Functions' own crashes, EventBridge
  events that never arrive (the synchronization has lost events).
- The contents of messages and error texts.

## 8. Plan

Done, in this order: `ScheduleRemediation` with its proofs; `FindingsTable`, `PreProcessor`,
`ClaimOnce` with their proofs; `SendNotifications` and `Orchestrator`; `Filters` and
`Synchronization` with their proofs; `SearchFilters` with its proofs, `SearchRequests` and
`SearchPages`; `ApiActions`; `UserManagement` with its proofs; `FindingsPage`. The most important
behaviour came first: what decides whether a change is made in a member account, how often,
when, and what is said of it.

Then the safety properties of `Orchestrator`, `ApiActions` and `SearchPages`, `BurstBounded` and
`ListComplete` were proved, and those of `FindingsPage`, whose merging of rows is stated without
recursion for it.

Next: that
`SendNotifications` implements an abstract *report* that writes both rows at once whenever the
history row exists; `PreProcessor` with suppressing users: what still holds.
