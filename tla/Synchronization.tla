--------------------------- MODULE Synchronization ---------------------------
(***************************************************************************)
(* The synchronization function: once a week, and once when the stack is   *)
(* created, it reads the active findings of the supported controls from    *)
(* Security Hub and writes them to the findings table.                     *)
(*                                                                         *)
(* The controls are taken in chunks, the findings of a chunk in pages and  *)
(* those of a page in batches whose findings are processed concurrently.   *)
(* They share one FindingRepository with its one-row cache, made anew by   *)
(* every invocation, and the filter caches of the container, which outlive *)
(* it.  Meanwhile Security Hub, users of the API and DynamoDB's time to    *)
(* live change the findings and their rows.                                *)
(***************************************************************************)
EXTENDS FindingsTable, Filters

CONSTANTS
  Chunks,       \* number of chunks of supported control ids
  ChunkOf,      \* finding -> the chunk its control is in
  AccountOf,    \* finding -> account
  TagsOf,       \* finding -> tag keys of its resources
  PageSize,     \* MAX_RESULTS_PER_REQUEST
  BatchSize,    \* BATCH_SIZE
  MaxAttempts,  \* invocations of one asynchronous event: the first and two retries
  SyncPeriod,   \* days between two scheduled events
  TtlDays,      \* FINDINGS_TTL_DAYS
  MaxFaults,    \* bound on failing calls and lost containers
  MaxWrites,    \* bound on the actions of users and administrators
  None          \* no finding

ASSUME SynchronizationAssumption ==
  /\ Chunks \in Nat \ {0}
  /\ ChunkOf \in [Findings -> 1 .. Chunks]
  /\ AccountOf \in [Findings -> Accounts]
  /\ TagsOf \in [Findings -> SUBSET Tags]
  /\ {PageSize, BatchSize, MaxAttempts, SyncPeriod, TtlDays} \subseteq Nat \ {0}
  /\ SyncPeriod < TtlDays
  /\ {MaxFaults, MaxWrites} \subseteq Nat
  /\ None \notin Findings

VARIABLES
  hub,      \* finding -> version and kind Security Hub has
  rows,     \* the findings table
  expire,   \* finding -> days until expireAt of its row
  written,  \* findings whose row was written since the last scheduled event
  phase,    \* days since the last scheduled event
  run,      \* the invocation: where it is and what it has still to do
  task,     \* finding -> the processSingleFinding call that handles it
  cache,    \* FindingRepository.cachedItem of the invocation
  draft,    \* the row a user's API call has read and will write back
  writes,   \* actions users and administrators may still take
  faults,   \* faults that may still happen
  touched,  \* findings a user wrote, or a read of which failed, in this invocation
  misled,   \* whether a filter call has failed in this container
  inForce   \* configurations that were in force since this container was started

tableVars == <<rows, expire, written>>
vars == <<hub, tableVars, phase, run, task, cache, draft, writes, faults, touched, misled,
          inForce, filterVars>>

containerVars == <<filterVars, inForce>>

-----------------------------------------------------------------------------
Snapshot == [version: 0 .. MaxVersion, kind: {"failing", "closed"}]

\* The awaited calls of processSingleFinding.
Calls == {"config", "units", "old", "exists", "put", "create"}
Results == {"success", "failed", "error", "filtered"}

Task == [pc: {"none"} \cup Calls \cup Results, seen: Snapshot, config: Configs \cup {DefaultConfig},
         row: Row, again: BOOLEAN]

BlankRow == [version |-> 0, status |-> NotStarted, suppressed |-> FALSE]

\* A row without expireAt.
Never == TtlDays + 1
NoTask == [pc |-> "none", seen |-> [version |-> 0, kind |-> "closed"],
           config |-> DefaultConfig, row |-> BlankRow, again |-> FALSE]

\* due: an event waits for its next invocation.  todo: findings of the chunk that
\* GetFindings has not returned.  page: those returned and not yet in a batch.
Run == [state: {"off", "due", "on"}, attempt: 0 .. MaxAttempts, chunk: 0 .. Chunks,
        todo: SUBSET Findings, page: SUBSET [finding: Findings, seen: Snapshot]]
NoRun == [state |-> "off", attempt |-> 0, chunk |-> 0, todo |-> {}, page |-> {}]

\* A call that has returned its FindingProcessingStatus.
Done(result) == [NoTask EXCEPT !.pc = result]

NoCache == [finding |-> None, row |-> NoRow]
NoDraft == [finding |-> None, row |-> NoRow, expire |-> 0]

Tasks == {f \in Findings : task[f].pc # "none"}
Active == {f \in Tasks : task[f].pc \in Calls}

\* What the custom resource leaves behind when the stack is created: an event for
\* the function, or none, as no function is named or the invocation was refused.
Triggered == {NoRun, [NoRun EXCEPT !.state = "due"]}

\* The stack has just been created.
Init ==
  /\ FilterInit
  /\ hub = [f \in Findings |-> [version |-> 0, kind |-> "closed"]]
  /\ rows = [f \in Findings |-> NoRow]
  /\ expire = [f \in Findings |-> 0]
  /\ written = {}
  /\ phase = 0
  /\ run \in Triggered
  /\ task = [f \in Findings |-> NoTask]
  /\ cache = NoCache
  /\ draft = NoDraft
  /\ writes = MaxWrites
  /\ faults = MaxFaults
  /\ touched = {}
  /\ misled = FALSE
  /\ inForce = {ssm}

-----------------------------------------------------------------------------
(***************************************************************************)
(* Time, Security Hub and the users.                                       *)
(***************************************************************************)

\* A day passes.  An invocation lasts at most fifteen minutes, retries included
\* it is over within the day.
Tick ==
  /\ run.state = "off"
  /\ phase' = (phase + 1) % SyncPeriod
  /\ run' = IF phase + 1 = SyncPeriod THEN [NoRun EXCEPT !.state = "due"] ELSE run
  /\ expire' = [f \in Findings |-> IF expire[f] \in 1 .. TtlDays THEN expire[f] - 1 ELSE expire[f]]
  /\ written' = IF phase' = 0 THEN {} ELSE written
  /\ UNCHANGED <<hub, rows, task, cache, draft, writes, faults, touched, misled, containerVars>>

\* DynamoDB deletes a row whose expireAt has passed.
Expire(f) ==
  /\ Exists(rows[f])
  /\ expire[f] = 0
  /\ rows' = [rows EXCEPT ![f] = NoRow]
  /\ UNCHANGED <<hub, expire, written, phase, run, task, cache, draft, writes, faults, touched,
                 misled, containerVars>>

\* Security Hub imports a new version.  The pages being read may shift under it,
\* so that GetFindings no longer returns the finding; its event may be lost.
Import(f, kind) ==
  /\ hub[f].version < MaxVersion
  /\ hub' = [hub EXCEPT ![f] = [version |-> hub[f].version + 1, kind |-> kind]]
  /\ \E todo \in {run.todo, run.todo \ {f}} : run' = [run EXCEPT !.todo = todo]
  /\ UNCHANGED <<tableVars, phase, task, cache, draft, writes, faults, touched, misled,
                 containerVars>>

\* buildFindingTableItem with what updateWithIncomingData carries over.
ItemOf(seen, old) ==
  [version |-> seen.version, status |-> IF Exists(old) THEN old.status ELSE NotStarted,
   suppressed |-> Exists(old) /\ old.suppressed]

\* The pre-processor handles an event, in one step (PreProcessor has the others):
\* the row of a closed finding is deleted, that of another one is made or renewed.
Event(f) ==
  LET new == ItemOf(hub[f], rows[f]) IN
  /\ hub[f].version > 0
  /\ IF hub[f].kind = "closed"
     THEN Exists(rows[f]) /\ rows' = [rows EXCEPT ![f] = NoRow] /\ UNCHANGED <<expire, written>>
     ELSE /\ ~Exists(rows[f]) \/ IsNewer(rows[f], new)
          /\ rows' = [rows EXCEPT ![f] = new]
          /\ expire' = [expire EXCEPT ![f] = IF Exists(rows[f]) THEN @ ELSE TtlDays]
          /\ written' = written \cup {f}
  /\ UNCHANGED <<hub, phase, run, task, cache, draft, writes, faults, touched, misled,
                 containerVars>>

\* findByFindingIds of an action of the API.
UserRead(f) ==
  /\ draft = NoDraft
  /\ writes > 0
  /\ Exists(rows[f])
  /\ draft' = [finding |-> f, row |-> rows[f], expire |-> expire[f]]
  /\ writes' = writes - 1
  /\ UNCHANGED <<hub, tableVars, phase, run, task, cache, faults, touched, misled, containerVars>>

\* prepareUpdatedFindings and putAll: the whole row is written back, suppressed.
UserSuppress ==
  LET f == draft.finding IN
  /\ draft # NoDraft
  /\ rows' = [rows EXCEPT ![f] = [draft.row EXCEPT !.suppressed = TRUE]]
  /\ expire' = [expire EXCEPT ![f] = draft.expire]
  /\ written' = written \cup {f}
  /\ draft' = NoDraft
  /\ touched' = touched \cup {f}
  /\ UNCHANGED <<hub, phase, run, task, cache, writes, faults, misled, containerVars>>

\* An administrator changes the filters.
Configure(config) ==
  /\ writes > 0
  /\ SetParameters(config)
  /\ inForce' = inForce \cup {config}
  /\ writes' = writes - 1
  /\ UNCHANGED <<hub, tableVars, phase, run, task, cache, draft, faults, touched, misled>>

Fault == faults > 0 /\ faults' = faults - 1

-----------------------------------------------------------------------------
(***************************************************************************)
(* handleScheduledSync and processAllFindings.                             *)
(***************************************************************************)

\* Mutant of InChunk: the chunk before the one that is asked for.
InChunkBefore(chunk) == {f \in Findings : ChunkOf[f] = chunk - 1 /\ hub[f].kind = "failing"}

\* The active, failing findings of the chunk's controls.
InChunk(chunk) == {f \in Findings : ChunkOf[f] = chunk /\ hub[f].kind = "failing"}

\* Mutant of FreshCache: the FindingDataService is made once per container.
KeptCache == cache

\* The FindingDataService, and with it the cached row, of an invocation.
FreshCache == NoCache

\* The container starts without any cache.
NewContainer ==
  /\ misled' = FALSE
  /\ inForce' = {ssm}
  /\ ForgetCaches

\* The function is invoked, in the container of the last invocation or a new one.
Invoke(kept) ==
  /\ run.state = "due"
  /\ run' = [run EXCEPT !.state = "on", !.attempt = @ + 1, !.chunk = 1, !.todo = InChunk(1)]
  /\ cache' = FreshCache
  /\ touched' = {}
  /\ IF kept THEN UNCHANGED <<misled, containerVars>> ELSE NewContainer
  /\ UNCHANGED <<hub, tableVars, phase, task, draft, writes, faults>>

\* GetFindings returns a page.
GetPage(findings) ==
  /\ run.state = "on" /\ run.page = {} /\ Tasks = {}
  /\ findings # {} /\ Cardinality(findings) <= PageSize
  /\ Cardinality(findings) = PageSize \/ findings = run.todo
  /\ run' = [run EXCEPT !.todo = @ \ findings,
                        !.page = {[finding |-> f, seen |-> hub[f]] : f \in findings}]
  /\ UNCHANGED <<hub, tableVars, phase, task, cache, draft, writes, faults, touched, misled,
                 containerVars>>

\* No NextToken: the next chunk, or the end of the invocation.
NextChunk ==
  /\ run.state = "on" /\ run.page = {} /\ Tasks = {} /\ run.todo = {}
  /\ run' = IF run.chunk < Chunks
            THEN [run EXCEPT !.chunk = @ + 1, !.todo = InChunk(run.chunk + 1)]
            ELSE NoRun
  /\ UNCHANGED <<hub, tableVars, phase, task, cache, draft, writes, faults, touched, misled,
                 containerVars>>

\* Mutant of AfterFailure: retried for ever.
AfterFailureAlways == [NoRun EXCEPT !.state = "due", !.attempt = run.attempt]

\* What is left of a failed invocation: the event is tried again, twice.
AfterFailure ==
  IF run.attempt < MaxAttempts THEN [NoRun EXCEPT !.state = "due", !.attempt = run.attempt]
  ELSE NoRun

\* GetFindings raises: the invocation fails.
GetPageFails ==
  /\ run.state = "on" /\ run.page = {} /\ Tasks = {}
  /\ Fault
  /\ run' = AfterFailure
  /\ UNCHANGED <<hub, tableVars, phase, task, cache, draft, writes, touched, misled, containerVars>>

\* The container is lost, or the function times out.
Crash ==
  /\ run.state = "on"
  /\ Fault
  /\ run' = AfterFailure
  /\ task' = [f \in Findings |-> NoTask]
  /\ NewContainer
  /\ UNCHANGED <<hub, tableVars, phase, cache, draft, writes, touched>>

\* Promise.all of the batch has resolved.
EndBatch ==
  /\ Tasks # {} /\ Active = {}
  /\ task' = [f \in Findings |-> NoTask]
  /\ UNCHANGED <<hub, tableVars, phase, run, cache, draft, writes, faults, touched, misled,
                 containerVars>>

-----------------------------------------------------------------------------
(***************************************************************************)
(* processSingleFinding, from one awaited call to the next.                *)
(***************************************************************************)

\* The filters are done: updateWithIncomingData, which has nothing to write for a
\* finding that is closed by now.
Judged(f, seen, config, parents) ==
  IF ~Passes(AccountOf[f], TagsOf[f], config, parents) THEN Done("filtered")
  ELSE IF seen.kind = "closed" THEN Done("success")
  ELSE [NoTask EXCEPT !.pc = "old", !.seen = seen]

\* The configuration is there: the cached units, or a call for them.
Configured(f, seen, config) ==
  LET account == AccountOf[f] IN
  IF ~NeedsUnits(account, config) THEN Judged(f, seen, config, {})
  ELSE IF units[account] # Unset THEN Judged(f, seen, config, units[account])
  ELSE [NoTask EXCEPT !.pc = "units", !.seen = seen, !.config = config]

Begin(f, seen) ==
  IF params = Unset THEN [NoTask EXCEPT !.pc = "config", !.seen = seen]
  ELSE Configured(f, seen, params)

\* The next batch of the page begins; its calls consult the caches at once.
StartBatch(batch) ==
  /\ run.state = "on" /\ Tasks = {}
  /\ batch # {}
  /\ Cardinality(batch) <= BatchSize
  /\ Cardinality(batch) = BatchSize \/ batch = run.page
  /\ task' = [f \in Findings |->
               IF \E b \in batch : b.finding = f
               THEN Begin(f, (CHOOSE b \in batch : b.finding = f).seen) ELSE NoTask]
  /\ run' = [run EXCEPT !.page = @ \ batch]
  /\ UNCHANGED <<hub, tableVars, phase, cache, draft, writes, faults, touched, misled, containerVars>>

Answered(ok) ==
  \/ ok /\ UNCHANGED <<faults, misled>>
  \/ ~ok /\ Fault /\ misled' = TRUE

\* GetParametersByPath answers or raises.
ConfigRead(f, ok) ==
  /\ task[f].pc = "config"
  /\ Answered(ok)
  /\ LoadParameters(ok)
  /\ UNCHANGED inForce
  /\ task' = [task EXCEPT ![f] = Configured(f, task[f].seen, LoadedConfig(ok))]
  /\ UNCHANGED <<hub, tableVars, phase, run, cache, draft, writes, touched>>

\* ListParents answers or raises.
UnitsRead(f, ok) ==
  LET account == AccountOf[f] IN
  /\ task[f].pc = "units"
  /\ Answered(ok)
  /\ FindUnits(account, ok)
  /\ UNCHANGED inForce
  /\ task' = [task EXCEPT ![f] =
               Judged(f, task[f].seen, task[f].config, FoundUnits(account, ok))]
  /\ UNCHANGED <<hub, tableVars, phase, run, cache, draft, writes, touched>>

\* findByIdWithCache: the cached row of this finding, else that of the table.
Lookup(f) == IF cache.finding = f THEN cache.row ELSE rows[f]

\* A call of findByIdWithCache: a failing read is taken for a missing row, and
\* only a row that was found is cached.
Reads(f, item) ==
  \/ /\ item = Lookup(f)
     /\ cache' = IF Exists(item) THEN [finding |-> f, row |-> item] ELSE cache
     /\ UNCHANGED <<faults, touched>>
  \/ /\ item = NoRow
     /\ cache.finding # f
     /\ Fault
     /\ touched' = touched \cup {f}
     /\ UNCHANGED cache

\* The first lookup of updateWithIncomingData.
Old(f, item) ==
  /\ task[f].pc = "old"
  /\ Reads(f, item)
  /\ task' = [task EXCEPT ![f].pc = "exists", ![f].row = ItemOf(task[f].seen, item)]
  /\ UNCHANGED <<hub, tableVars, phase, run, draft, writes, misled, containerVars>>

\* The second one decides between an update and a creation.
ExistsCall(f, item) ==
  /\ task[f].pc = "exists"
  /\ Reads(f, item)
  /\ task' = [task EXCEPT ![f].pc = IF Exists(item) THEN "put" ELSE "create"]
  /\ UNCHANGED <<hub, tableVars, phase, run, draft, writes, misled, containerVars>>

\* Mutant of WriteAllowed: the creation is not conditional.
WriteAllowedAlways(f) == task[f].pc = "create" \/ IsNewer(rows[f], task[f].row)

WriteAllowed(f) ==
  IF task[f].pc = "create" THEN ~Exists(rows[f]) ELSE IsNewer(rows[f], task[f].row)

\* Mutant of ExpireAfter: expireAt in milliseconds, a date DynamoDB ignores.
ExpireInMillis(f) == IF task[f].pc = "create" THEN Never + 1 ELSE expire[f]

\* createIfNotExists puts the whole item; putIfNewer, an update, sets every
\* attribute but expireAt: on a row that is gone it creates one without.
ExpireAfter(f) ==
  IF task[f].pc = "create" THEN TtlDays
  ELSE IF Exists(rows[f]) THEN expire[f] ELSE Never

\* putIfNewer or createIfNotExists, its condition evaluated.
Write(f) ==
  /\ task[f].pc \in {"put", "create"}
  /\ IF WriteAllowed(f)
     THEN /\ rows' = [rows EXCEPT ![f] = task[f].row]
          /\ expire' = [expire EXCEPT ![f] = ExpireAfter(f)]
          /\ written' = written \cup {f}
          /\ task' = [task EXCEPT ![f] = Done("success")]
     ELSE /\ task' = [task EXCEPT ![f] = Done("failed")]
          /\ UNCHANGED tableVars
  /\ UNCHANGED <<hub, phase, run, cache, draft, writes, faults, touched, misled, containerVars>>

\* The write raises: handleFilterError makes one more attempt of the whole of
\* updateWithIncomingData, whose failure is counted as an error.
WriteFails(f) ==
  /\ task[f].pc \in {"put", "create"}
  /\ Fault
  /\ task' = [task EXCEPT ![f] = IF task[f].again THEN Done("error")
                                 ELSE [NoTask EXCEPT !.pc = "old", !.seen = task[f].seen,
                                                     !.again = TRUE]]
  /\ UNCHANGED <<hub, tableVars, phase, run, cache, draft, writes, touched, misled, containerVars>>

-----------------------------------------------------------------------------
Process(f) ==
  \/ \E ok \in BOOLEAN : ConfigRead(f, ok) \/ UnitsRead(f, ok)
  \/ \E item \in {Lookup(f), NoRow} : Old(f, item) \/ ExistsCall(f, item)
  \/ Write(f)
  \/ WriteFails(f)

Advance ==
  \/ \E kept \in BOOLEAN : Invoke(kept)
  \/ \E findings \in SUBSET run.todo : GetPage(findings)
  \/ NextChunk
  \/ \E batch \in SUBSET run.page : StartBatch(batch)
  \/ EndBatch

Next ==
  \/ Tick
  \/ \E f \in Findings : Expire(f) \/ Event(f) \/ UserRead(f) \/ Process(f)
  \/ \E f \in Findings, kind \in {"failing", "closed"} : Import(f, kind)
  \/ UserSuppress
  \/ \E config \in Configs : Configure(config)
  \/ Advance
  \/ GetPageFails
  \/ Crash

Spec == Init /\ [][Next]_vars

\* The schedule fires, the function runs while it is invoked, DynamoDB deletes
\* what has expired.  Nothing is assumed of Security Hub, users or faults.
FairSpec ==
  /\ Spec
  /\ WF_vars(Tick)
  /\ WF_vars(Advance)
  /\ \A f \in Findings : WF_vars(Process(f)) /\ WF_vars(Expire(f))

-----------------------------------------------------------------------------
TypeOK ==
  /\ FilterTypeOK
  /\ hub \in [Findings -> Snapshot]
  /\ rows \in [Findings -> Row \cup {NoRow}]
  /\ expire \in [Findings -> 0 .. Never]
  /\ written \subseteq Findings
  /\ phase \in 0 .. SyncPeriod - 1
  /\ run \in Run
  /\ task \in [Findings -> Task]
  /\ cache = NoCache \/ cache \in [finding: Findings, row: Row]
  /\ draft = NoDraft \/ draft \in [finding: Findings, row: Row, expire: 0 .. Never]
  /\ touched \subseteq Findings
  /\ misled \in BOOLEAN
  /\ ssm \in inForce /\ inForce \subseteq Configs

\* What a configuration is meant to do: a finding that has a value of the kind
\* concerned goes through if one is listed, or none, according to the mode.
Admits(filter, values) ==
  \/ IsFilterDisabled(filter) \/ values = {}
  \/ (filter.mode = "Include") <=> (values \cap filter.list # {})

Wanted(f, config) ==
  /\ Admits(config.account, {AccountOf[f]})
  /\ Admits(config.unit, UnitsOf[AccountOf[f]])
  /\ Admits(config.tag, TagsOf[f])

AlwaysWanted(f) == \A config \in inForce : Wanted(f, config)
NeverWanted(f) == \A config \in inForce : ~Wanted(f, config)

\* A finding that every configuration in force since the container was started accepts
\* is not dropped, whatever errors Parameter Store and Organizations answer and whatever
\* the container has cached of its units (filterUtils.ts, fail open).
NeverDropped == \A f \in Findings : AlwaysWanted(f) => task[f].pc # "filtered"

\* A finding that every such configuration rejects is only written by a container in
\* which a filter call has failed: one error of Organizations, cached as no units,
\* lets every later finding of the account through (filterUtils.ts:201).
OnlyErrorsLetThrough ==
  \A f \in Findings :
    (NeverWanted(f) /\ task[f].pc \in {"old", "exists", "put", "create"}) => misled

\* The synchronization takes back a suppression only if it was made, or a read of
\* the row failed, while this very invocation ran (findingDataService.ts:168-173).
SuppressionsKept ==
  [][\A f \in Findings :
       (rows[f].suppressed /\ Exists(rows'[f]) /\ ~rows'[f].suppressed) => f \in touched]_vars

\* A row is never replaced by one of an older version of the finding, except by
\* a user who writes back what the row was when it was read (putIfNewer,
\* createIfNotExists against executeAction).
NoRollback ==
  [][\A f \in Findings :
       (Exists(rows[f]) /\ Exists(rows'[f]) /\ rows'[f].version < rows[f].version)
         => draft.finding = f /\ draft' = NoDraft]_vars

\* A finding that stays failing and that no configuration of the container rejects gets
\* its row again and again, although its events are lost, its calls fail, or its row
\* expires: the weekly refresh finds it.
Repaired ==
  \A f \in Findings :
    <>[](hub[f].kind = "failing" /\ AlwaysWanted(f)) => []<>Exists(rows[f])

\* The row of a closed finding whose event was lost goes in the end, by its time to
\* live: the refresh, which does not delete, does not keep it alive either.  The
\* exception is a row that putIfNewer made when the one it had read was gone.
GhostsGo ==
  \A f \in Findings :
    hub[f].kind = "closed"
      ~> (~Exists(rows[f]) \/ hub[f].kind = "failing" \/ expire[f] = Never)

\* Time to live counts from the last update (ttlUtils.ts:11-12), so the row of a
\* failing finding that was written in this period does not expire in it.  The
\* update of putIfNewer does not set expireAt, so it may.
ExpiryCountsFromUpdate ==
  [][\A f \in Findings :
       (Exists(rows[f]) /\ ~Exists(rows'[f]) /\ hub[f].kind = "failing") => f \notin written]_vars
=============================================================================
