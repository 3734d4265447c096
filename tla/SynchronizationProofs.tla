------------------------ MODULE SynchronizationProofs ------------------------
(***************************************************************************)
(* Proofs about Synchronization, for any number of findings, accounts,     *)
(* units, chunks, versions, configurations and faults: its types, that the *)
(* caches of a container never drop a finding its configurations want and  *)
(* only let others through after an error, and what its writes do to rows  *)
(* that others wrote: no older version replaces a newer one, and a         *)
(* suppression is only taken back if it was made, or a read of its row     *)
(* failed, in the same invocation.                                         *)
(***************************************************************************)
EXTENDS Synchronization, TLAPS

\* A call may have been sent for a finding only by an invocation, and a configuration
\* or an answer that was made up is only used once a call has failed.
Sound(f) ==
  /\ run.state # "on" => task[f].pc = "none"
  /\ task[f].pc = "units" =>
       task[f].config \in inForce \/ (misled /\ task[f].config = DefaultConfig)
  /\ task[f].pc = "filtered" => ~AlwaysWanted(f)
  /\ task[f].pc \in {"old", "exists", "put", "create"} => misled \/ ~NeverWanted(f)

CachesSound ==
  /\ params \in inForce \cup {Unset}
  /\ \A a \in Accounts : units[a] \in {Unset, UnitsOf[a]} \/ (misled /\ units[a] = {})

Inv ==
  /\ TypeOK
  /\ run.state = "due" => run.attempt < MaxAttempts
  /\ CachesSound
  /\ \A f \in Findings : Sound(f)

-----------------------------------------------------------------------------
(***************************************************************************)
(* Types.                                                                  *)
(***************************************************************************)

\* The values rows and tasks begin with.
LEMMA Blank ==
  /\ BlankRow \in Row /\ NoRow \notin Row /\ ~Exists(NoRow)
  /\ NoTask \in Task /\ NoTask.pc = "none"
  /\ NoRun \in Run
<1>1. NoRow.status \notin Statuses
  BY DEF NoRow, Statuses, NotStarted, InProgress, Success, Failed
<1>2. NoRow \notin Row /\ ~Exists(NoRow)
  BY <1>1 DEF Row, Exists
<1>3. BlankRow \in Row
  BY TableAssumption DEF BlankRow, Row, Statuses, NotStarted
<1>4. NoTask \in Task /\ NoTask.pc = "none"
  BY <1>3, TableAssumption DEF NoTask, Task, Snapshot
<1>5. NoRun \in Run
  BY SynchronizationAssumption DEF NoRun, Run
<1> QED  BY <1>2, <1>3, <1>4, <1>5

\* The row made of a version of a finding and the row before.
LEMMA ItemType ==
  ASSUME NEW seen \in Snapshot, NEW old \in Row \cup {NoRow}
  PROVE  ItemOf(seen, old) \in Row /\ ItemOf(seen, old).version = seen.version
<1>1. seen.version \in 0 .. MaxVersion
  BY DEF Snapshot
<1>2. old.suppressed \in BOOLEAN
  <2>1. NoRow.suppressed \in BOOLEAN
    BY DEF NoRow
  <2> QED  BY <2>1 DEF Row
<1>3. (IF Exists(old) THEN old.status ELSE NotStarted) \in Statuses
  BY DEF Exists, Row, Statuses, NotStarted
<1>4. (Exists(old) /\ old.suppressed) \in BOOLEAN
  BY Zenon
<1> QED  BY <1>1, <1>3, <1>4 DEF ItemOf, Row

\* A lookup finds a row or none.
LEMMA LookupType ==
  ASSUME TypeOK, NEW f \in Findings
  PROVE  Lookup(f) \in Row \cup {NoRow}
<1>1. cache.row \in Row \cup {NoRow}
  BY DEF TypeOK, NoCache
<1> QED  BY <1>1 DEF Lookup, TypeOK

\* A finished call.
LEMMA DoneType ==
  ASSUME NEW result \in Results
  PROVE  Done(result) \in Task /\ Done(result).pc = result
BY Blank DEF Done, Task

-----------------------------------------------------------------------------
(***************************************************************************)
(* The filters.                                                            *)
(***************************************************************************)

\* What a configuration is meant to do is what the filters do, when the units of the
\* account are known; without units they only let more through.
LEMMA PassesWanted ==
  ASSUME NEW f \in Findings, NEW config
  PROVE  /\ Passes(AccountOf[f], TagsOf[f], config, UnitsOf[AccountOf[f]]) <=> Wanted(f, config)
         /\ Wanted(f, config) => Passes(AccountOf[f], TagsOf[f], config, {})
         /\ ~NeedsUnits(AccountOf[f], config) =>
              (Passes(AccountOf[f], TagsOf[f], config, {}) <=> Wanted(f, config))
<1> DEFINE a == AccountOf[f]
<1>1. ApplyAccountFilter(a, config) <=> Admits(config.account, {a})
  BY DEF ApplyAccountFilter, Admits, ApplyGenericFilter
<1>2. ApplyUnitFilter(UnitsOf[a], config) <=> Admits(config.unit, UnitsOf[a])
  BY DEF ApplyUnitFilter, Admits, ApplyGenericFilter
<1>3. ApplyUnitFilter({}, config)
  BY DEF ApplyUnitFilter
<1>4. ApplyTagFilter(TagsOf[f], config) <=> Admits(config.tag, TagsOf[f])
  BY DEF ApplyTagFilter, Admits, ApplyGenericFilter
<1>5. ~NeedsUnits(a, config) => ~ApplyAccountFilter(a, config) \/ Admits(config.unit, UnitsOf[a])
  BY DEF NeedsUnits, Admits
<1> QED  BY <1>1, <1>2, <1>3, <1>4, <1>5 DEF Passes, Wanted

\* Everyone wants what the default configuration is asked about.
LEMMA DefaultWanted ==
  ASSUME NEW f \in Findings
  PROVE  Wanted(f, DefaultConfig)
BY DEF Wanted, Admits, IsFilterDisabled, DefaultConfig

\* A finding is dropped only by a configuration that does not want it, and goes on only
\* under one that does, or without the units it was judged by.
LEMMA JudgedSound ==
  ASSUME NEW f \in Findings, NEW seen \in Snapshot, NEW config, NEW parents,
         \/ parents = UnitsOf[AccountOf[f]]
         \/ parents = {}
  PROVE  LET t == Judged(f, seen, config, parents)
         IN  /\ t \in Task
             /\ t.pc \in {"filtered", "success", "old"}
             /\ t.pc = "filtered" => ~Wanted(f, config)
             /\ t.pc = "old" /\ ~Wanted(f, config) =>
                  parents = {} /\ UnitsOf[AccountOf[f]] # {} /\ NeedsUnits(AccountOf[f], config)
<1> DEFINE t == Judged(f, seen, config, parents)
<1>1. CASE ~Passes(AccountOf[f], TagsOf[f], config, parents)
  <2>1. t = Done("filtered")
    BY <1>1 DEF Judged
  <2> QED  BY <1>1, <2>1, DoneType, PassesWanted DEF Results
<1>2. CASE Passes(AccountOf[f], TagsOf[f], config, parents) /\ seen.kind = "closed"
  <2>1. t = Done("success")
    BY <1>2 DEF Judged
  <2> QED  BY <2>1, DoneType DEF Results
<1>3. CASE Passes(AccountOf[f], TagsOf[f], config, parents) /\ seen.kind # "closed"
  <2>1. t = [NoTask EXCEPT !.pc = "old", !.seen = seen]
    BY <1>3 DEF Judged
  <2>2. t \in Task /\ t.pc = "old"
    BY <2>1, Blank DEF Task, Calls
  <2>3. parents = UnitsOf[AccountOf[f]] => Wanted(f, config)
    BY <1>3, PassesWanted
  <2>4. parents = {} /\ ~NeedsUnits(AccountOf[f], config) => Wanted(f, config)
    BY <1>3, PassesWanted
  <2> QED  BY <2>2, <2>3, <2>4
<1> QED  BY <1>1, <1>2, <1>3

\* The same once the configuration is there and the cached units are consulted.
LEMMA ConfiguredSound ==
  ASSUME TypeOK, CachesSound, NEW f \in Findings, NEW seen \in Snapshot,
         NEW config \in Configs \cup {DefaultConfig},
         config \in inForce \/ (misled /\ config = DefaultConfig)
  PROVE  LET t == Configured(f, seen, config)
         IN  /\ t \in Task
             /\ t.pc \in {"units", "filtered", "success", "old"}
             /\ t.pc = "units" => t.config = config
             /\ t.pc = "filtered" => ~Wanted(f, config)
             /\ t.pc = "old" => misled \/ Wanted(f, config)
<1> DEFINE a == AccountOf[f]
           t == Configured(f, seen, config)
<1>1. a \in Accounts
  BY SynchronizationAssumption
<1>2. CASE ~NeedsUnits(a, config)
  <2>1. t = Judged(f, seen, config, {})
    BY <1>2 DEF Configured
  <2> QED  BY <1>2, <2>1, JudgedSound
<1>3. CASE NeedsUnits(a, config) /\ units[a] # Unset
  <2>1. t = Judged(f, seen, config, units[a])
    BY <1>3 DEF Configured
  <2>2. units[a] = UnitsOf[a] \/ (misled /\ units[a] = {})
    BY <1>1, <1>3 DEF CachesSound
  <2>3. CASE units[a] = UnitsOf[a]
    <3>1. t = Judged(f, seen, config, UnitsOf[a])
      BY <2>1, <2>3
    <3> QED  BY <3>1, JudgedSound
  <2>4. CASE misled /\ units[a] = {}
    <3>1. t = Judged(f, seen, config, {})
      BY <2>1, <2>4
    <3> QED  BY <2>4, <3>1, JudgedSound
  <2> QED  BY <2>2, <2>3, <2>4
<1>4. CASE NeedsUnits(a, config) /\ units[a] = Unset
  <2>1. t = [NoTask EXCEPT !.pc = "units", !.seen = seen, !.config = config]
    BY <1>4 DEF Configured
  <2> QED  BY <2>1, Blank DEF Task, Calls
<1> QED  BY <1>2, <1>3, <1>4

\* And from the beginning of a call.
LEMMA BeginSound ==
  ASSUME TypeOK, CachesSound, NEW f \in Findings, NEW seen \in Snapshot
  PROVE  LET t == Begin(f, seen)
         IN  /\ t \in Task
             /\ t.pc \in {"config", "units", "filtered", "success", "old"}
             /\ t.pc = "units" => t.config \in inForce
             /\ t.pc = "filtered" => ~AlwaysWanted(f)
             /\ t.pc = "old" => misled \/ ~NeverWanted(f)
<1>1. CASE params = Unset
  <2>1. Begin(f, seen) = [NoTask EXCEPT !.pc = "config", !.seen = seen]
    BY <1>1 DEF Begin
  <2> QED  BY <2>1, Blank DEF Task, Calls
<1>2. CASE params # Unset
  <2>1. params \in inForce /\ params \in Configs
    BY <1>2 DEF CachesSound, TypeOK
  <2>2. Begin(f, seen) = Configured(f, seen, params)
    BY <1>2 DEF Begin
  <2> QED  BY <2>1, <2>2, ConfiguredSound DEF AlwaysWanted, NeverWanted
<1> QED  BY <1>1, <1>2

-----------------------------------------------------------------------------
(***************************************************************************)
(* What steps keep.                                                        *)
(***************************************************************************)

\* A call that moves on keeps all calls sound if it is itself.
LEMMA CallStep ==
  ASSUME Inv, NEW f \in Findings, task[f].pc \in Calls,
         NEW t \in Task, task' = [task EXCEPT ![f] = t],
         UNCHANGED <<run, inForce>>, misled => misled',
         t.pc = "units" => t.config \in inForce \/ (misled' /\ t.config = DefaultConfig),
         t.pc = "filtered" => ~AlwaysWanted(f),
         t.pc \in {"old", "exists", "put", "create"} => misled' \/ ~NeverWanted(f)
  PROVE  (\A g \in Findings : Sound(g)') /\ task' \in [Findings -> Task]
<1>1. task \in [Findings -> Task]
  BY DEF Inv, TypeOK
<1>2. task'[f] = t /\ (\A g \in Findings : g # f => task'[g] = task[g])
      /\ task' \in [Findings -> Task]
  BY <1>1
<1>3. run'.state = "on"
  BY DEF Inv, Sound, Calls
<1>4. \A g \in Findings : (AlwaysWanted(g)' <=> AlwaysWanted(g)) /\ (NeverWanted(g)' <=> NeverWanted(g))
  BY DEF AlwaysWanted, NeverWanted, Wanted
<1>5. Sound(f)'
  BY <1>2, <1>3, <1>4 DEF Sound
<1>6. ASSUME NEW g \in Findings, g # f
      PROVE  Sound(g)'
  <2>1. Sound(g)
    BY DEF Inv
  <2> QED  BY <1>2, <1>3, <1>4, <1>6, <2>1 DEF Sound
<1> QED  BY <1>2, <1>5, <1>6

\* A step that leaves the calls alone keeps them sound, if no invocation with calls ends
\* and no configuration is forgotten.
LEMMA QuietStep ==
  ASSUME Inv, UNCHANGED <<task, misled>>, inForce \subseteq inForce',
         run'.state = run.state \/ Tasks = {}
  PROVE  \A f \in Findings : Sound(f)'
<1> TAKE f \in Findings
<1>1. Sound(f)
  BY DEF Inv
<1>2. AlwaysWanted(f)' => AlwaysWanted(f)
  BY DEF AlwaysWanted, Wanted
<1>3. NeverWanted(f)' => NeverWanted(f)
  BY DEF NeverWanted, Wanted
<1>4. run'.state = run.state \/ task[f].pc = "none"
  BY DEF Tasks
<1>5. task[f].config = task'[f].config /\ task[f].pc = task'[f].pc
  OBVIOUS
<1> QED  BY <1>1, <1>2, <1>3, <1>4, <1>5 DEF Sound

\* So does one that ends all calls.
LEMMA NoCalls ==
  ASSUME task' = [f \in Findings |-> NoTask]
  PROVE  \A f \in Findings : Sound(f)'
BY Blank DEF Sound

\* The caches stay sound while they and the container stay.
LEMMA CachesKept ==
  ASSUME CachesSound, UNCHANGED <<params, units, misled>>, inForce \subseteq inForce'
  PROVE  CachesSound'
BY DEF CachesSound

-----------------------------------------------------------------------------
(***************************************************************************)
(* Time, Security Hub and the users.                                       *)
(***************************************************************************)

\* Days until a row expires, and days of the period.
LEMMA Days ==
  /\ \A n \in 0 .. Never : n \in 1 .. TtlDays => n - 1 \in 0 .. Never
  /\ 0 \in 0 .. Never /\ TtlDays \in 0 .. Never /\ Never \in 0 .. Never
  /\ 0 \in 0 .. SyncPeriod - 1
  /\ \A n \in 0 .. SyncPeriod - 1 : (n + 1) % SyncPeriod \in 0 .. SyncPeriod - 1
<1>1. TtlDays \in Nat /\ SyncPeriod \in Nat /\ SyncPeriod > 0
  BY SynchronizationAssumption
<1>2. \A n \in 0 .. SyncPeriod - 1 : (n + 1) % SyncPeriod \in 0 .. SyncPeriod - 1
  BY <1>1
<1> QED  BY <1>1, <1>2 DEF Never

LEMMA InitInv == Init => Inv
<1> SUFFICES ASSUME Init PROVE Inv
  OBVIOUS
<1>1. TypeOK
  <2>1. FilterTypeOK
    BY DEF Init, FilterInit, FilterTypeOK
  <2>2. run \in Run
    BY Blank, SynchronizationAssumption DEF Init, Triggered, NoRun, Run
  <2>3. hub \in [Findings -> Snapshot] /\ rows \in [Findings -> Row \cup {NoRow}]
        /\ expire \in [Findings -> 0 .. Never] /\ task \in [Findings -> Task]
    BY Blank, Days, TableAssumption DEF Init, Snapshot
  <2>4. written \subseteq Findings /\ phase \in 0 .. SyncPeriod - 1 /\ touched \subseteq Findings
        /\ ssm \in inForce /\ inForce \subseteq Configs
    BY Days DEF Init, FilterInit
  <2>5. misled \in BOOLEAN /\ cache = NoCache /\ draft = NoDraft
    BY DEF Init
  <2> QED  BY <2>1, <2>2, <2>3, <2>4, <2>5 DEF TypeOK
<1>2. run.state = "due" => run.attempt < MaxAttempts
  BY SynchronizationAssumption DEF Init, Triggered, NoRun
<1>3. CachesSound
  BY DEF Init, FilterInit, CachesSound
<1>4. \A f \in Findings : Sound(f)
  BY Blank DEF Init, Sound
<1> QED  BY <1>1, <1>2, <1>3, <1>4 DEF Inv

LEMMA TickStep == Inv /\ Tick => Inv'
<1> SUFFICES ASSUME Inv, Tick PROVE Inv'
  OBVIOUS
<1>1. UNCHANGED <<hub, rows, task, cache, draft, writes, faults, touched, misled, inForce,
                  ssm, params, units>>
  BY DEF Tick, containerVars, filterVars
<1>2. run' \in Run /\ (run'.state = "due" => run'.attempt < MaxAttempts)
  BY Blank, SynchronizationAssumption DEF Tick, Inv, TypeOK, NoRun, Run
<1>3. TypeOK'
  <2>1. phase' \in 0 .. SyncPeriod - 1
    BY Days DEF Tick, Inv, TypeOK
  <2>2. expire' \in [Findings -> 0 .. Never]
    BY Days DEF Tick, Inv, TypeOK
  <2>3. written' \subseteq Findings
    BY DEF Tick, Inv, TypeOK
  <2> QED  BY <1>1, <1>2, <2>1, <2>2, <2>3 DEF Inv, TypeOK, FilterTypeOK
<1>4. Tasks = {}
  BY DEF Tick, Inv, Sound, Tasks
<1>5. (\A f \in Findings : Sound(f)') /\ CachesSound'
  BY <1>1, <1>4, QuietStep, CachesKept DEF Inv
<1> QED  BY <1>2, <1>3, <1>5 DEF Inv

LEMMA ExpireStep == ASSUME NEW f \in Findings PROVE Inv /\ Expire(f) => Inv'
<1> SUFFICES ASSUME Inv, Expire(f) PROVE Inv'
  OBVIOUS
<1>1. UNCHANGED <<hub, expire, written, phase, run, task, cache, draft, faults, touched, misled,
                  inForce, ssm, params, units>>
  BY DEF Expire, containerVars, filterVars
<1>2. rows' \in [Findings -> Row \cup {NoRow}]
  BY DEF Expire, Inv, TypeOK
<1>3. TypeOK'
  BY <1>1, <1>2 DEF Inv, TypeOK, FilterTypeOK
<1>4. (\A g \in Findings : Sound(g)') /\ CachesSound'
  BY <1>1, QuietStep, CachesKept DEF Inv
<1> QED  BY <1>1, <1>3, <1>4 DEF Inv

LEMMA ImportStep ==
  ASSUME NEW f \in Findings, NEW kind \in {"failing", "closed"}
  PROVE  Inv /\ Import(f, kind) => Inv'
<1> SUFFICES ASSUME Inv, Import(f, kind) PROVE Inv'
  OBVIOUS
<1>1. UNCHANGED <<rows, expire, written, phase, task, cache, draft, faults, touched, misled,
                  inForce, ssm, params, units>>
  BY DEF Import, tableVars, containerVars, filterVars
<1>2. hub' \in [Findings -> Snapshot]
  <2>1. hub[f].version + 1 \in 0 .. MaxVersion
    BY TableAssumption DEF Import, Inv, TypeOK, Snapshot
  <2>2. [version |-> hub[f].version + 1, kind |-> kind] \in Snapshot
    BY <2>1 DEF Snapshot
  <2> QED  BY <2>2 DEF Import, Inv, TypeOK
<1>3. run' \in Run /\ run'.state = run.state /\ run'.attempt = run.attempt
  BY DEF Import, Inv, TypeOK, Run
<1>4. TypeOK'
  BY <1>1, <1>2, <1>3 DEF Inv, TypeOK, FilterTypeOK
<1>5. (\A g \in Findings : Sound(g)') /\ CachesSound'
  BY <1>1, <1>3, QuietStep, CachesKept DEF Inv
<1> QED  BY <1>3, <1>4, <1>5 DEF Inv

LEMMA EventStep == ASSUME NEW f \in Findings PROVE Inv /\ Event(f) => Inv'
<1> SUFFICES ASSUME Inv, Event(f) PROVE Inv'
  OBVIOUS
<1>1. UNCHANGED <<hub, phase, run, task, cache, draft, faults, touched, misled,
                  inForce, ssm, params, units>>
  BY DEF Event, containerVars, filterVars
<1>2. rows' \in [Findings -> Row \cup {NoRow}] /\ expire' \in [Findings -> 0 .. Never]
      /\ written' \subseteq Findings
  <2>1. ItemOf(hub[f], rows[f]) \in Row
    BY ItemType DEF Inv, TypeOK
  <2>2. CASE hub[f].kind = "closed"
    BY <2>2 DEF Event, Inv, TypeOK
  <2>3. CASE hub[f].kind # "closed"
    BY <2>1, <2>3, Days DEF Event, Inv, TypeOK
  <2> QED  BY <2>2, <2>3
<1>3. TypeOK'
  BY <1>1, <1>2 DEF Inv, TypeOK, FilterTypeOK
<1>4. (\A g \in Findings : Sound(g)') /\ CachesSound'
  BY <1>1, QuietStep, CachesKept DEF Inv
<1> QED  BY <1>1, <1>3, <1>4 DEF Inv

LEMMA UserReadStep == ASSUME NEW f \in Findings PROVE Inv /\ UserRead(f) => Inv'
<1> SUFFICES ASSUME Inv, UserRead(f) PROVE Inv'
  OBVIOUS
<1>1. UNCHANGED <<hub, rows, expire, written, phase, run, task, cache, faults, touched, misled,
                  inForce, ssm, params, units>>
  BY DEF UserRead, tableVars, containerVars, filterVars
<1>2. draft' \in [finding: Findings, row: Row, expire: 0 .. Never]
  BY DEF UserRead, Inv, TypeOK, Exists
<1>3. TypeOK'
  BY <1>1, <1>2 DEF Inv, TypeOK, FilterTypeOK
<1>4. (\A g \in Findings : Sound(g)') /\ CachesSound'
  BY <1>1, QuietStep, CachesKept DEF Inv
<1> QED  BY <1>1, <1>3, <1>4 DEF Inv

LEMMA UserSuppressStep == Inv /\ UserSuppress => Inv'
<1> SUFFICES ASSUME Inv, UserSuppress PROVE Inv'
  OBVIOUS
<1>1. UNCHANGED <<hub, phase, run, task, cache, faults, misled, inForce, ssm, params, units>>
  BY DEF UserSuppress, containerVars, filterVars
<1>2. draft \in [finding: Findings, row: Row, expire: 0 .. Never]
  BY DEF UserSuppress, Inv, TypeOK
<1>3. [draft.row EXCEPT !.suppressed = TRUE] \in Row
  BY <1>2 DEF Row
<1>4. rows' \in [Findings -> Row \cup {NoRow}] /\ expire' \in [Findings -> 0 .. Never]
      /\ written' \subseteq Findings /\ touched' \subseteq Findings /\ draft' = NoDraft
  BY <1>2, <1>3 DEF UserSuppress, Inv, TypeOK
<1>5. TypeOK'
  BY <1>1, <1>4 DEF Inv, TypeOK, FilterTypeOK, NoDraft
<1>6. (\A g \in Findings : Sound(g)') /\ CachesSound'
  BY <1>1, QuietStep, CachesKept DEF Inv
<1> QED  BY <1>1, <1>5, <1>6 DEF Inv

LEMMA ConfigureStep == ASSUME NEW config \in Configs PROVE Inv /\ Configure(config) => Inv'
<1> SUFFICES ASSUME Inv, Configure(config) PROVE Inv'
  OBVIOUS
<1>1. UNCHANGED <<hub, rows, expire, written, phase, run, task, cache, draft, faults, touched,
                  misled, params, units>>
  BY DEF Configure, SetParameters, tableVars
<1>2. ssm' = config /\ inForce' = inForce \cup {config}
  BY DEF Configure, SetParameters
<1>3. TypeOK'
  BY <1>1, <1>2 DEF Inv, TypeOK, FilterTypeOK
<1>4. (\A g \in Findings : Sound(g)') /\ CachesSound'
  BY <1>1, <1>2, QuietStep, CachesKept DEF Inv
<1> QED  BY <1>1, <1>3, <1>4 DEF Inv

-----------------------------------------------------------------------------
(***************************************************************************)
(* The invocation.                                                         *)
(***************************************************************************)

\* A new container has forgotten everything, and what misled it.
LEMMA NewContainerStep ==
  ASSUME TypeOK, NewContainer
  PROVE  /\ CachesSound' /\ FilterTypeOK' /\ misled' \in BOOLEAN
         /\ ssm' \in inForce' /\ inForce' \subseteq Configs
BY DEF TypeOK, FilterTypeOK, NewContainer, ForgetCaches, CachesSound

\* A failed invocation waits for another try or is given up.
LEMMA AfterFailureType ==
  ASSUME Inv
  PROVE  /\ AfterFailure \in Run /\ AfterFailure.state # "on"
         /\ AfterFailure.state = "due" => AfterFailure.attempt < MaxAttempts
<1>1. CASE run.attempt < MaxAttempts
  <2>1. AfterFailure = [NoRun EXCEPT !.state = "due", !.attempt = run.attempt]
    BY <1>1 DEF AfterFailure
  <2>2. run.attempt \in 0 .. MaxAttempts
    BY DEF Inv, TypeOK, Run
  <2> QED  BY <1>1, <2>1, <2>2, Blank DEF Run
<1>2. CASE ~(run.attempt < MaxAttempts)
  <2>1. AfterFailure = NoRun
    BY <1>2 DEF AfterFailure
  <2> QED  BY <2>1, Blank DEF NoRun
<1> QED  BY <1>1, <1>2

LEMMA InvokeStep == ASSUME NEW kept \in BOOLEAN PROVE Inv /\ Invoke(kept) => Inv'
<1> SUFFICES ASSUME Inv, Invoke(kept) PROVE Inv'
  OBVIOUS
<1>1. UNCHANGED <<hub, rows, expire, written, phase, task, draft, faults>>
      /\ cache' = NoCache /\ touched' = {}
  BY DEF Invoke, tableVars, FreshCache
<1>2. run' \in Run /\ run'.state = "on"
  <2>1. run.attempt + 1 \in 0 .. MaxAttempts
    BY SynchronizationAssumption DEF Invoke, Inv, TypeOK, Run
  <2>2. InChunk(1) \in SUBSET Findings /\ 1 \in 0 .. Chunks
    BY SynchronizationAssumption DEF InChunk
  <2> QED  BY <2>1, <2>2 DEF Invoke, Inv, TypeOK, Run
<1>3. \A f \in Findings : task[f].pc = "none"
  BY DEF Invoke, Inv, Sound
<1>4. \A f \in Findings : Sound(f)'
  BY <1>1, <1>3 DEF Sound
<1>5. CachesSound' /\ FilterTypeOK' /\ misled' \in BOOLEAN
      /\ ssm' \in inForce' /\ inForce' \subseteq Configs
  <2>1. CASE kept
    <3>1. UNCHANGED <<misled, inForce, ssm, params, units>>
      BY <2>1 DEF Invoke, containerVars, filterVars
    <3> QED  BY <3>1, CachesKept DEF Inv, TypeOK, FilterTypeOK
  <2>2. CASE ~kept
    BY <2>2, NewContainerStep DEF Invoke, Inv
  <2> QED  BY <2>1, <2>2
<1>6. TypeOK'
  BY <1>1, <1>2, <1>5 DEF Inv, TypeOK, NoCache
<1> QED  BY <1>2, <1>4, <1>5, <1>6 DEF Inv

LEMMA GetPageStep ==
  ASSUME NEW findings \in SUBSET run.todo
  PROVE  Inv /\ GetPage(findings) => Inv'
<1> SUFFICES ASSUME Inv, GetPage(findings) PROVE Inv'
  OBVIOUS
<1>1. UNCHANGED <<hub, rows, expire, written, phase, task, cache, draft, faults, touched, misled,
                  inForce, ssm, params, units>>
  BY DEF GetPage, tableVars, containerVars, filterVars
<1>2. run' \in Run /\ run'.state = run.state /\ run'.attempt = run.attempt
  <2>1. {[finding |-> f, seen |-> hub[f]] : f \in findings}
          \in SUBSET [finding: Findings, seen: Snapshot]
    BY DEF Inv, TypeOK, Run
  <2> QED  BY <2>1 DEF GetPage, Inv, TypeOK, Run
<1>3. TypeOK'
  BY <1>1, <1>2 DEF Inv, TypeOK, FilterTypeOK
<1>4. (\A g \in Findings : Sound(g)') /\ CachesSound'
  BY <1>1, <1>2, QuietStep, CachesKept DEF Inv
<1> QED  BY <1>2, <1>3, <1>4 DEF Inv

LEMMA NextChunkStep == Inv /\ NextChunk => Inv'
<1> SUFFICES ASSUME Inv, NextChunk PROVE Inv'
  OBVIOUS
<1>1. UNCHANGED <<hub, rows, expire, written, phase, task, cache, draft, faults, touched, misled,
                  inForce, ssm, params, units>>
  BY DEF NextChunk, tableVars, containerVars, filterVars
<1>2. run' \in Run /\ run'.state # "due"
  <2>1. CASE run.chunk < Chunks
    <3>1. InChunk(run.chunk + 1) \in SUBSET Findings
      BY DEF InChunk
    <3>2. run.chunk + 1 \in 0 .. Chunks
      BY <2>1, SynchronizationAssumption DEF Inv, TypeOK, Run
    <3> QED  BY <2>1, <3>1, <3>2 DEF NextChunk, Inv, TypeOK, Run
  <2>2. CASE ~(run.chunk < Chunks)
    BY <2>2, Blank DEF NextChunk, NoRun
  <2> QED  BY <2>1, <2>2
<1>3. Tasks = {}
  BY DEF NextChunk
<1>4. TypeOK'
  BY <1>1, <1>2 DEF Inv, TypeOK, FilterTypeOK
<1>5. (\A g \in Findings : Sound(g)') /\ CachesSound'
  BY <1>1, <1>3, QuietStep, CachesKept DEF Inv
<1> QED  BY <1>2, <1>4, <1>5 DEF Inv

LEMMA GetPageFailsStep == Inv /\ GetPageFails => Inv'
<1> SUFFICES ASSUME Inv, GetPageFails PROVE Inv'
  OBVIOUS
<1>1. UNCHANGED <<hub, rows, expire, written, phase, task, cache, draft, touched, misled,
                  inForce, ssm, params, units>>
  BY DEF GetPageFails, tableVars, containerVars, filterVars
<1>2. run' \in Run /\ (run'.state = "due" => run'.attempt < MaxAttempts)
  BY AfterFailureType DEF GetPageFails
<1>3. Tasks = {}
  BY DEF GetPageFails
<1>4. TypeOK'
  BY <1>1, <1>2 DEF Inv, TypeOK, FilterTypeOK
<1>5. (\A g \in Findings : Sound(g)') /\ CachesSound'
  BY <1>1, <1>3, QuietStep, CachesKept DEF Inv
<1> QED  BY <1>2, <1>4, <1>5 DEF Inv

LEMMA CrashStep == Inv /\ Crash => Inv'
<1> SUFFICES ASSUME Inv, Crash PROVE Inv'
  OBVIOUS
<1>1. UNCHANGED <<hub, rows, expire, written, phase, cache, draft, touched>>
  BY DEF Crash, tableVars
<1>2. run' \in Run /\ (run'.state = "due" => run'.attempt < MaxAttempts)
  BY AfterFailureType DEF Crash
<1>3. task' = [f \in Findings |-> NoTask]
  BY DEF Crash
<1>4. CachesSound' /\ FilterTypeOK' /\ misled' \in BOOLEAN
      /\ ssm' \in inForce' /\ inForce' \subseteq Configs
  BY NewContainerStep DEF Crash, Inv
<1>5. TypeOK'
  BY <1>1, <1>2, <1>3, <1>4, Blank DEF Inv, TypeOK
<1> QED  BY <1>2, <1>3, <1>4, <1>5, NoCalls DEF Inv

LEMMA EndBatchStep == Inv /\ EndBatch => Inv'
<1> SUFFICES ASSUME Inv, EndBatch PROVE Inv'
  OBVIOUS
<1>1. UNCHANGED <<hub, rows, expire, written, phase, run, cache, draft, faults, touched, misled,
                  inForce, ssm, params, units>>
  BY DEF EndBatch, tableVars, containerVars, filterVars
<1>2. task' = [f \in Findings |-> NoTask]
  BY DEF EndBatch
<1>3. TypeOK'
  BY <1>1, <1>2, Blank DEF Inv, TypeOK, FilterTypeOK
<1>4. (\A g \in Findings : Sound(g)') /\ CachesSound'
  BY <1>1, <1>2, NoCalls, CachesKept DEF Inv
<1> QED  BY <1>1, <1>3, <1>4 DEF Inv

LEMMA StartBatchStep ==
  ASSUME NEW batch \in SUBSET run.page
  PROVE  Inv /\ StartBatch(batch) => Inv'
<1> SUFFICES ASSUME Inv, StartBatch(batch) PROVE Inv'
  OBVIOUS
<1>1. UNCHANGED <<hub, rows, expire, written, phase, cache, draft, faults, touched, misled,
                  inForce, ssm, params, units>>
  BY DEF StartBatch, tableVars, containerVars, filterVars
<1>2. run' \in Run /\ run'.state = "on" /\ run.state = "on"
  BY DEF StartBatch, Inv, TypeOK, Run
<1>3. ASSUME NEW f \in Findings
      PROVE  task'[f] = NoTask \/ \E seen \in Snapshot : task'[f] = Begin(f, seen)
  <2>1. CASE \E b \in batch : b.finding = f
    <3> DEFINE b == CHOOSE c \in batch : c.finding = f
    <3>1. b \in batch
      BY <2>1
    <3>2. b.seen \in Snapshot
      BY <3>1 DEF Inv, TypeOK, Run
    <3>3. task'[f] = Begin(f, b.seen)
      BY <2>1 DEF StartBatch
    <3> QED  BY <3>2, <3>3
  <2>2. CASE ~ \E b \in batch : b.finding = f
    BY <2>2 DEF StartBatch
  <2> QED  BY <2>1, <2>2
<1>4. ASSUME NEW f \in Findings
      PROVE  task'[f] \in Task /\ Sound(f)'
  <2>1. CASE task'[f] = NoTask
    BY <1>2, <2>1, Blank DEF Sound
  <2>2. CASE task'[f] # NoTask
    <3>1. PICK seen \in Snapshot : task'[f] = Begin(f, seen)
      BY <1>3, <2>2
    <3>2. /\ task'[f] \in Task
          /\ task'[f].pc \in {"config", "units", "filtered", "success", "old"}
          /\ task'[f].pc = "units" => task'[f].config \in inForce
          /\ task'[f].pc = "filtered" => ~AlwaysWanted(f)
          /\ task'[f].pc = "old" => misled \/ ~NeverWanted(f)
      BY <3>1, BeginSound DEF Inv
    <3>3. (AlwaysWanted(f)' <=> AlwaysWanted(f)) /\ (NeverWanted(f)' <=> NeverWanted(f))
      BY <1>1 DEF AlwaysWanted, NeverWanted, Wanted
    <3> QED  BY <1>1, <1>2, <3>2, <3>3 DEF Sound
  <2> QED  BY <2>1, <2>2
<1>5. task' \in [Findings -> Task]
  <2>1. DOMAIN task' = Findings /\ task' = [f \in Findings |-> task'[f]]
    BY DEF StartBatch
  <2> QED  BY <1>4, <2>1
<1>6. TypeOK'
  BY <1>1, <1>2, <1>5 DEF Inv, TypeOK, FilterTypeOK
<1> QED  BY <1>1, <1>2, <1>4, <1>6, CachesKept DEF Inv

-----------------------------------------------------------------------------
(***************************************************************************)
(* The calls.                                                              *)
(***************************************************************************)

\* A failing call misleads the container, an answer does not clear it.
LEMMA AnsweredStep ==
  ASSUME TypeOK, NEW ok \in BOOLEAN, Answered(ok)
  PROVE  misled' \in BOOLEAN /\ (misled => misled') /\ (ok => misled' = misled) /\ (~ok => misled')
BY DEF Answered, Fault, TypeOK

LEMMA ConfigReadStep ==
  ASSUME NEW f \in Findings, NEW ok \in BOOLEAN
  PROVE  Inv /\ ConfigRead(f, ok) => Inv'
<1> SUFFICES ASSUME Inv, ConfigRead(f, ok) PROVE Inv'
  OBVIOUS
<1>1. UNCHANGED <<hub, rows, expire, written, phase, run, cache, draft, touched, inForce, ssm, units>>
  BY DEF ConfigRead, LoadParameters, tableVars
<1>2. misled' \in BOOLEAN /\ (misled => misled') /\ (~ok => misled')
  BY AnsweredStep DEF ConfigRead, Inv
<1>3. params' \in inForce \cup {Unset} /\ params' \in Configs \cup {Unset}
  BY DEF ConfigRead, LoadParameters, Inv, TypeOK, FilterTypeOK, CachesSound
<1>4. CachesSound'
  BY <1>1, <1>2, <1>3 DEF Inv, CachesSound
<1> DEFINE seen == task[f].seen
           t == Configured(f, seen, LoadedConfig(ok))
<1>5. seen \in Snapshot
  BY DEF Inv, TypeOK, Task
<1>6. /\ t \in Task
      /\ t.pc = "units" => t.config \in inForce
      /\ t.pc = "filtered" => ~AlwaysWanted(f)
      /\ t.pc \in {"old", "exists", "put", "create"} => misled' \/ ~NeverWanted(f)
  <2>1. CASE ok
    <3>1. t = Configured(f, seen, ssm) /\ ssm \in inForce /\ ssm \in Configs
      BY <2>1 DEF LoadedConfig, Inv, TypeOK
    <3>2. /\ t \in Task
          /\ t.pc \in {"units", "filtered", "success", "old"}
          /\ t.pc = "units" => t.config = ssm
          /\ t.pc = "filtered" => ~Wanted(f, ssm)
          /\ t.pc = "old" => misled \/ Wanted(f, ssm)
      BY <1>5, <3>1, ConfiguredSound DEF Inv
    <3> QED  BY <1>2, <3>1, <3>2 DEF AlwaysWanted, NeverWanted
  <2>2. CASE ~ok
    <3>1. ~NeedsUnits(AccountOf[f], DefaultConfig)
      BY DEF NeedsUnits, IsFilterDisabled, DefaultConfig
    <3>2. t = Judged(f, seen, DefaultConfig, {})
      BY <2>2, <3>1 DEF LoadedConfig, Configured
    <3>3. /\ t \in Task
          /\ t.pc \in {"filtered", "success", "old"}
          /\ t.pc = "filtered" => ~Wanted(f, DefaultConfig)
      BY <1>5, <3>2, JudgedSound
    <3> QED  BY <1>2, <2>2, <3>3, DefaultWanted
  <2> QED  BY <2>1, <2>2
<1>7. task[f].pc \in Calls /\ task' = [task EXCEPT ![f] = t]
  BY DEF ConfigRead, Calls
<1> HIDE DEF t
<1>8. (\A g \in Findings : Sound(g)') /\ task' \in [Findings -> Task]
  BY <1>1, <1>2, <1>6, <1>7, CallStep
<1>9. TypeOK'
  BY <1>1, <1>2, <1>3, <1>8 DEF Inv, TypeOK, FilterTypeOK
<1> QED  BY <1>1, <1>4, <1>8, <1>9 DEF Inv

LEMMA UnitsReadStep ==
  ASSUME NEW f \in Findings, NEW ok \in BOOLEAN
  PROVE  Inv /\ UnitsRead(f, ok) => Inv'
<1> SUFFICES ASSUME Inv, UnitsRead(f, ok) PROVE Inv'
  OBVIOUS
<1> DEFINE a == AccountOf[f]
           found == FoundUnits(a, ok)
           config == task[f].config
           seen == task[f].seen
           t == Judged(f, seen, config, found)
<1>1. UNCHANGED <<hub, rows, expire, written, phase, run, cache, draft, touched, inForce, ssm, params>>
  BY DEF UnitsRead, FindUnits, tableVars
<1>2. misled' \in BOOLEAN /\ (misled => misled') /\ (~ok => misled')
  BY AnsweredStep DEF UnitsRead, Inv
<1>3. a \in Accounts /\ UnitsOf[a] \in SUBSET Units
  BY SynchronizationAssumption, FilterAssumption
<1>4. (found = UnitsOf[a] \/ (found = {} /\ misled')) /\ found \in SUBSET Units
  BY <1>2, <1>3 DEF FoundUnits
<1>5. units' = [units EXCEPT ![a] = found]
  BY DEF UnitsRead, FindUnits
<1>6. CachesSound'
  BY <1>1, <1>2, <1>4, <1>5 DEF Inv, TypeOK, FilterTypeOK, CachesSound
<1>7. FilterTypeOK'
  BY <1>1, <1>4, <1>5 DEF Inv, TypeOK, FilterTypeOK
<1>8. seen \in Snapshot /\ task[f].pc = "units" /\ task[f].pc \in Calls
  BY DEF UnitsRead, Inv, TypeOK, Task, Calls
<1>9. config \in inForce \/ (misled /\ config = DefaultConfig)
  BY <1>8 DEF Inv, Sound
<1>10. /\ t \in Task
       /\ t.pc \in {"filtered", "success", "old"}
       /\ t.pc = "filtered" => ~Wanted(f, config)
       /\ t.pc = "old" /\ ~Wanted(f, config) => found = {} /\ UnitsOf[a] # {}
  BY <1>4, <1>8, JudgedSound
<1>11. t.pc = "filtered" => ~AlwaysWanted(f)
  BY <1>9, <1>10, DefaultWanted DEF AlwaysWanted
<1>12. t.pc = "old" => misled' \/ ~NeverWanted(f)
  BY <1>2, <1>4, <1>9, <1>10 DEF NeverWanted
<1>13. task' = [task EXCEPT ![f] = t]
  BY DEF UnitsRead
<1> HIDE DEF t
<1>14. (\A g \in Findings : Sound(g)') /\ task' \in [Findings -> Task]
  BY <1>1, <1>2, <1>8, <1>10, <1>11, <1>12, <1>13, CallStep
<1>15. TypeOK'
  BY <1>1, <1>2, <1>7, <1>14 DEF Inv, TypeOK
<1> QED  BY <1>1, <1>6, <1>14, <1>15 DEF Inv

\* A lookup of the row keeps the type of the cached row.
LEMMA ReadsType ==
  ASSUME TypeOK, NEW f \in Findings, NEW item, Reads(f, item)
  PROVE  /\ item \in Row \cup {NoRow}
         /\ cache' = NoCache \/ cache' \in [finding: Findings, row: Row]
         /\ touched' \subseteq Findings
<1>1. Lookup(f) \in Row \cup {NoRow}
  BY LookupType
<1>2. item \in Row \cup {NoRow}
  BY <1>1 DEF Reads
<1>3. cache' = cache \/ (Exists(item) /\ cache' = [finding |-> f, row |-> item])
  BY DEF Reads
<1>4. cache' = NoCache \/ cache' \in [finding: Findings, row: Row]
  BY <1>2, <1>3 DEF TypeOK, Exists
<1>5. touched' \subseteq Findings
  BY DEF Reads, TypeOK
<1> QED  BY <1>2, <1>4, <1>5

LEMMA OldStep ==
  ASSUME NEW f \in Findings, NEW item
  PROVE  Inv /\ Old(f, item) => Inv'
<1> SUFFICES ASSUME Inv, Old(f, item) PROVE Inv'
  OBVIOUS
<1> DEFINE t == [task[f] EXCEPT !.pc = "exists", !.row = ItemOf(task[f].seen, item)]
<1>1. UNCHANGED <<hub, rows, expire, written, phase, run, draft, misled, inForce, ssm, params, units>>
  BY DEF Old, tableVars, containerVars, filterVars
<1>2. /\ item \in Row \cup {NoRow}
      /\ cache' = NoCache \/ cache' \in [finding: Findings, row: Row]
      /\ touched' \subseteq Findings
  BY ReadsType DEF Old, Inv
<1>3. task[f] \in Task /\ task[f].pc = "old"
  BY DEF Old, Inv, TypeOK
<1>4. ItemOf(task[f].seen, item) \in Row
  BY <1>2, <1>3, ItemType DEF Task
<1>5. t \in Task /\ t.pc = "exists"
  BY <1>3, <1>4 DEF Task, Calls
<1>6. task' = [task EXCEPT ![f] = t] /\ task[f].pc \in Calls
  BY <1>3 DEF Old, Inv, TypeOK, Calls
<1>7. misled \/ ~NeverWanted(f)
  BY <1>3 DEF Inv, Sound
<1> HIDE DEF t
<1>8. (\A g \in Findings : Sound(g)') /\ task' \in [Findings -> Task]
  BY <1>1, <1>5, <1>6, <1>7, CallStep
<1>9. TypeOK'
  BY <1>1, <1>2, <1>8 DEF Inv, TypeOK, FilterTypeOK, NoCache
<1> QED  BY <1>1, <1>8, <1>9, CachesKept DEF Inv

LEMMA ExistsStep ==
  ASSUME NEW f \in Findings, NEW item
  PROVE  Inv /\ ExistsCall(f, item) => Inv'
<1> SUFFICES ASSUME Inv, ExistsCall(f, item) PROVE Inv'
  OBVIOUS
<1> DEFINE t == [task[f] EXCEPT !.pc = IF Exists(item) THEN "put" ELSE "create"]
<1>1. UNCHANGED <<hub, rows, expire, written, phase, run, draft, misled, inForce, ssm, params, units>>
  BY DEF ExistsCall, tableVars, containerVars, filterVars
<1>2. /\ cache' = NoCache \/ cache' \in [finding: Findings, row: Row]
      /\ touched' \subseteq Findings
  BY ReadsType DEF ExistsCall, Inv
<1>3. task[f] \in Task /\ task[f].pc = "exists"
  BY DEF ExistsCall, Inv, TypeOK
<1>4. t \in Task /\ t.pc \in {"put", "create"}
  BY <1>3 DEF Task, Calls
<1>5. task' = [task EXCEPT ![f] = t] /\ task[f].pc \in Calls
  BY <1>3 DEF ExistsCall, Calls
<1>6. misled \/ ~NeverWanted(f)
  BY <1>3 DEF Inv, Sound
<1> HIDE DEF t
<1>7. (\A g \in Findings : Sound(g)') /\ task' \in [Findings -> Task]
  BY <1>1, <1>4, <1>5, <1>6, CallStep
<1>8. TypeOK'
  BY <1>1, <1>2, <1>7 DEF Inv, TypeOK, FilterTypeOK, NoCache
<1> QED  BY <1>1, <1>7, <1>8, CachesKept DEF Inv

LEMMA WriteStep == ASSUME NEW f \in Findings PROVE Inv /\ Write(f) => Inv'
<1> SUFFICES ASSUME Inv, Write(f) PROVE Inv'
  OBVIOUS
<1>1. UNCHANGED <<hub, phase, run, cache, draft, faults, touched, misled, inForce, ssm, params, units>>
  BY DEF Write, containerVars, filterVars
<1>2. task[f] \in Task /\ task[f].pc \in {"put", "create"} /\ task[f].pc \in Calls
  BY DEF Write, Inv, TypeOK, Calls
<1>3. ExpireAfter(f) \in 0 .. Never
  BY Days DEF ExpireAfter, Inv, TypeOK
<1>4. rows' \in [Findings -> Row \cup {NoRow}] /\ expire' \in [Findings -> 0 .. Never]
      /\ written' \subseteq Findings
  <2>1. task[f].row \in Row
    BY <1>2 DEF Task
  <2>2. CASE WriteAllowed(f)
    BY <1>3, <2>1, <2>2 DEF Write, Inv, TypeOK
  <2>3. CASE ~WriteAllowed(f)
    BY <2>3 DEF Write, tableVars, Inv, TypeOK
  <2> QED  BY <2>2, <2>3
<1>5. PICK result \in {"success", "failed"} : task' = [task EXCEPT ![f] = Done(result)]
  BY DEF Write
<1>6. Done(result) \in Task /\ Done(result).pc = result
  BY DoneType DEF Results
<1>7. (\A g \in Findings : Sound(g)') /\ task' \in [Findings -> Task]
  BY <1>1, <1>2, <1>5, <1>6, CallStep
<1>8. TypeOK'
  BY <1>1, <1>4, <1>7 DEF Inv, TypeOK, FilterTypeOK
<1> QED  BY <1>1, <1>7, <1>8, CachesKept DEF Inv

LEMMA WriteFailsStep == ASSUME NEW f \in Findings PROVE Inv /\ WriteFails(f) => Inv'
<1> SUFFICES ASSUME Inv, WriteFails(f) PROVE Inv'
  OBVIOUS
<1> DEFINE t == IF task[f].again THEN Done("error")
                ELSE [NoTask EXCEPT !.pc = "old", !.seen = task[f].seen, !.again = TRUE]
<1>1. UNCHANGED <<hub, rows, expire, written, phase, run, cache, draft, touched, misled, inForce,
                  ssm, params, units>>
  BY DEF WriteFails, tableVars, containerVars, filterVars
<1>2. task[f] \in Task /\ task[f].pc \in {"put", "create"} /\ task[f].pc \in Calls
  BY DEF WriteFails, Inv, TypeOK, Calls
<1>3. t \in Task /\ t.pc \in {"error", "old"}
  BY <1>2, Blank, DoneType DEF Task, Results, Calls
<1>4. task' = [task EXCEPT ![f] = t]
  BY DEF WriteFails
<1>5. misled \/ ~NeverWanted(f)
  BY <1>2 DEF Inv, Sound
<1> HIDE DEF t
<1>6. (\A g \in Findings : Sound(g)') /\ task' \in [Findings -> Task]
  BY <1>1, <1>2, <1>3, <1>4, <1>5, CallStep
<1>7. TypeOK'
  BY <1>1, <1>6 DEF Inv, TypeOK, FilterTypeOK
<1> QED  BY <1>1, <1>6, <1>7, CachesKept DEF Inv

-----------------------------------------------------------------------------
\* Every step keeps the invariant.
LEMMA NextInv == Inv /\ [Next]_vars => Inv'
<1> SUFFICES ASSUME Inv, [Next]_vars PROVE Inv'
  OBVIOUS
<1>1. CASE Tick
  BY <1>1, TickStep
<1>2. ASSUME NEW f \in Findings, Expire(f) \/ Event(f) \/ UserRead(f)
      PROVE  Inv'
  BY <1>2, ExpireStep, EventStep, UserReadStep
<1>3. ASSUME NEW f \in Findings, Process(f)
      PROVE  Inv'
  BY <1>3, ConfigReadStep, UnitsReadStep, OldStep, ExistsStep, WriteStep, WriteFailsStep
     DEF Process
<1>4. ASSUME NEW f \in Findings, NEW kind \in {"failing", "closed"}, Import(f, kind)
      PROVE  Inv'
  BY <1>4, ImportStep
<1>5. CASE UserSuppress
  BY <1>5, UserSuppressStep
<1>6. ASSUME NEW config \in Configs, Configure(config)
      PROVE  Inv'
  BY <1>6, ConfigureStep
<1>7. CASE Advance
  BY <1>7, InvokeStep, GetPageStep, NextChunkStep, StartBatchStep, EndBatchStep DEF Advance
<1>8. CASE GetPageFails \/ Crash
  BY <1>8, GetPageFailsStep, CrashStep
<1>9. CASE UNCHANGED vars
  <2>1. UNCHANGED <<hub, rows, expire, written, phase, run, task, cache, draft, faults, touched,
                    misled, inForce, ssm, params, units>>
    BY <1>9 DEF vars, tableVars, filterVars
  <2>2. TypeOK'
    BY <2>1 DEF Inv, TypeOK, FilterTypeOK
  <2>3. (\A g \in Findings : Sound(g)') /\ CachesSound'
    BY <2>1, QuietStep, CachesKept DEF Inv
  <2> QED  BY <2>1, <2>2, <2>3 DEF Inv
<1> QED  BY <1>1, <1>2, <1>3, <1>4, <1>5, <1>6, <1>7, <1>8, <1>9 DEF Next

LEMMA SpecInv == Spec => []Inv
BY InitInv, NextInv, PTL DEF Spec

\* Rows, calls, caches and the container's configurations keep their types.
THEOREM TypesOK == Spec => []TypeOK
<1>1. Inv => TypeOK
  BY DEF Inv
<1> QED  BY <1>1, SpecInv, PTL

\* Whatever errors are answered and cached, a finding is dropped only if some configuration
\* in force since the container started rejects it (filterUtils.ts fails open).
THEOREM WantedNotDropped == Spec => []NeverDropped
<1>1. Inv => NeverDropped
  BY DEF Inv, Sound, NeverDropped
<1> QED  BY <1>1, SpecInv, PTL

\* And one that every such configuration rejects goes on only after a filter call of this
\* container has failed: stale caches alone never let a finding through.
THEOREM UnwantedNeedsError == Spec => []OnlyErrorsLetThrough
<1>1. Inv => OnlyErrorsLetThrough
  BY DEF Inv, Sound, OnlyErrorsLetThrough
<1> QED  BY <1>1, SpecInv, PTL

-----------------------------------------------------------------------------
(***************************************************************************)
(* Suppressions.                                                           *)
(***************************************************************************)
\* Every finding is handled once: it is in the chunk, the page or the batch at hand.
Placed ==
  /\ run.state # "on" => run.page = {}
  /\ run.state = "on" =>
       /\ \A f \in run.todo : ChunkOf[f] = run.chunk /\ task[f].pc = "none"
       /\ \A b \in run.page : ChunkOf[b.finding] = run.chunk /\ b.finding \notin run.todo
                              /\ task[b.finding].pc = "none"
                              /\ \A c \in run.page : c.finding = b.finding => c = b
       /\ \A f \in Findings : task[f].pc # "none" => ChunkOf[f] = run.chunk

\* The invocation has still to write the finding.
Pending(f) ==
  /\ run.state = "on"
  /\ \/ f \in run.todo \/ (\E b \in run.page : b.finding = f)
     \/ ChunkOf[f] > run.chunk \/ task[f].pc \in Calls

\* A suppression older than the invocation is in the cached row and in the row that will
\* be written.
Held(f) ==
  rows[f].suppressed /\ f \notin touched =>
    /\ Pending(f) /\ cache.finding = f => cache.row.suppressed
    /\ task[f].pc \in {"exists", "put"} => task[f].row.suppressed

KeptInv == Inv /\ Placed /\ \A f \in Findings : Held(f)

-----------------------------------------------------------------------------
(***************************************************************************)
(* Steps that leave the calls and the cached row alone.                    *)
(***************************************************************************)

\* A failed invocation leaves no page.
LEMMA AfterFailureEmpty ==
  ASSUME Inv
  PROVE  AfterFailure.state # "on" /\ AfterFailure.page = {}
BY AfterFailureType DEF AfterFailure, NoRun

\* If the invocation, unless it ends, has no more to do than before, and rows become
\* suppressed only where a user is noted, everything stays in its place.
LEMMA WorldStep ==
  ASSUME KeptInv, UNCHANGED <<task, cache>>, touched \subseteq touched',
         \/ run'.state # "on" /\ run'.page = {}
         \/ /\ run'.state = run.state /\ run'.chunk = run.chunk
            /\ run'.todo \subseteq run.todo /\ run'.page = run.page,
         \A f \in Findings : rows'[f].suppressed => rows[f].suppressed \/ f \in touched'
  PROVE  Placed' /\ \A f \in Findings : Held(f)'
<1>1. Placed'
  BY DEF KeptInv, Placed
<1>2. ASSUME NEW f \in Findings
      PROVE  Held(f)'
  <2>1. Pending(f)' => Pending(f)
    BY DEF Pending
  <2>2. Held(f)
    BY DEF KeptInv
  <2> QED  BY <2>1, <2>2 DEF Held
<1> QED  BY <1>1, <1>2

\* Every step of the world outside is one.
LEMMA OutsideStep ==
  ASSUME KeptInv,
         \/ Tick \/ UserSuppress \/ GetPageFails \/ UNCHANGED vars
         \/ \E f \in Findings : Expire(f) \/ Event(f) \/ UserRead(f)
         \/ \E f \in Findings, kind \in {"failing", "closed"} : Import(f, kind)
         \/ \E config \in Configs : Configure(config)
  PROVE  Placed' /\ \A f \in Findings : Held(f)'
<1>1. TypeOK /\ rows \in [Findings -> Row \cup {NoRow}]
  BY DEF KeptInv, Inv, TypeOK
<1>2. ASSUME UNCHANGED <<rows, task, cache, touched>>,
             \/ run'.state # "on" /\ run'.page = {}
             \/ /\ run'.state = run.state /\ run'.chunk = run.chunk
                /\ run'.todo \subseteq run.todo /\ run'.page = run.page
      PROVE  Placed' /\ \A f \in Findings : Held(f)'
  BY <1>2, WorldStep
<1>3. CASE Tick
  <2>1. UNCHANGED <<rows, task, cache, touched>>
    BY <1>3 DEF Tick
  <2>2. run'.state # "on" /\ run'.page = {}
    BY <1>3 DEF Tick, NoRun, KeptInv, Placed
  <2> QED  BY <1>2, <2>1, <2>2
<1>4. CASE UserSuppress
  <2>1. UNCHANGED <<run, task, cache>> /\ touched' = touched \cup {draft.finding}
    BY <1>4 DEF UserSuppress
  <2>2. \A f \in Findings : rows'[f].suppressed => rows[f].suppressed \/ f \in touched'
    BY <1>1, <1>4, <2>1 DEF UserSuppress
  <2> QED  BY <2>1, <2>2, WorldStep
<1>5. CASE GetPageFails
  <2>1. UNCHANGED <<rows, task, cache, touched>>
    BY <1>5 DEF GetPageFails, tableVars
  <2>2. run'.state # "on" /\ run'.page = {}
    BY <1>5, AfterFailureEmpty DEF GetPageFails, KeptInv
  <2> QED  BY <1>2, <2>1, <2>2
<1>6. CASE UNCHANGED vars
  BY <1>2, <1>6 DEF vars, tableVars
<1>7. ASSUME NEW f \in Findings, Expire(f) PROVE Placed' /\ \A g \in Findings : Held(g)'
  <2>1. UNCHANGED <<run, task, cache, touched>>
    BY <1>7 DEF Expire
  <2>2. \A g \in Findings : rows'[g].suppressed => rows[g].suppressed
    BY <1>1, <1>7 DEF Expire, NoRow
  <2> QED  BY <2>1, <2>2, WorldStep
<1>8. ASSUME NEW f \in Findings, Event(f) PROVE Placed' /\ \A g \in Findings : Held(g)'
  <2>1. UNCHANGED <<run, task, cache, touched>>
    BY <1>8 DEF Event
  <2>2. rows' = [rows EXCEPT ![f] = NoRow] \/ rows' = [rows EXCEPT ![f] = ItemOf(hub[f], rows[f])]
    BY <1>8 DEF Event
  <2>3. \A g \in Findings : rows'[g].suppressed => rows[g].suppressed
    <3>1. ItemOf(hub[f], rows[f]).suppressed => rows[f].suppressed
      BY DEF ItemOf
    <3>2. ~NoRow.suppressed
      BY DEF NoRow
    <3> QED  BY <1>1, <2>2, <3>1, <3>2
  <2> QED  BY <2>1, <2>3, WorldStep
<1>9. ASSUME NEW f \in Findings, UserRead(f) PROVE Placed' /\ \A g \in Findings : Held(g)'
  <2>1. UNCHANGED <<rows, run, task, cache, touched>>
    BY <1>9 DEF UserRead, tableVars
  <2> QED  BY <1>2, <2>1
<1>10. ASSUME NEW f \in Findings, NEW kind \in {"failing", "closed"}, Import(f, kind)
       PROVE  Placed' /\ \A g \in Findings : Held(g)'
  <2>1. UNCHANGED <<rows, task, cache, touched>>
    BY <1>10 DEF Import, tableVars
  <2>2. run'.state = run.state /\ run'.chunk = run.chunk
        /\ run'.todo \subseteq run.todo /\ run'.page = run.page
    BY <1>1, <1>10 DEF Import, TypeOK, Run
  <2> QED  BY <1>2, <2>1, <2>2
<1>11. ASSUME NEW config \in Configs, Configure(config)
       PROVE  Placed' /\ \A g \in Findings : Held(g)'
  <2>1. UNCHANGED <<rows, run, task, cache, touched>>
    BY <1>11 DEF Configure, tableVars
  <2> QED  BY <1>2, <2>1
<1> QED  BY <1>3, <1>4, <1>5, <1>6, <1>7, <1>8, <1>9, <1>10, <1>11

-----------------------------------------------------------------------------
(***************************************************************************)
(* The invocation.                                                         *)
(***************************************************************************)

LEMMA InvokePlaces ==
  ASSUME KeptInv, NEW kept \in BOOLEAN, Invoke(kept)
  PROVE  Placed' /\ \A f \in Findings : Held(f)'
<1>1. \A f \in Findings : task'[f].pc = "none"
  BY DEF Invoke, KeptInv, Inv, Sound
<1>2. cache' = NoCache
  BY DEF Invoke, FreshCache
<1>3. \A f \in Findings : Held(f)'
  BY <1>1, <1>2, SynchronizationAssumption DEF Held, NoCache
<1>4. Placed'
  <2>1. run'.todo = InChunk(1) /\ run'.chunk = 1
    BY DEF Invoke, KeptInv, Inv, TypeOK, Run
  <2>2. run'.page = {} /\ run'.state = "on"
    BY DEF Invoke, KeptInv, Inv, TypeOK, Run, Placed
  <2> QED  BY <1>1, <2>1, <2>2 DEF Placed, InChunk
<1> QED  BY <1>3, <1>4

\* A page takes its findings from the chunk.
LEMMA GetPagePlaces ==
  ASSUME KeptInv, NEW findings \in SUBSET run.todo, GetPage(findings)
  PROVE  Placed' /\ \A f \in Findings : Held(f)'
<1>1. UNCHANGED <<rows, task, cache, touched>> /\ run.state = "on" /\ run.page = {}
  BY DEF GetPage, tableVars
<1>2. /\ run'.state = run.state /\ run'.chunk = run.chunk
      /\ run'.todo = run.todo \ findings
      /\ run'.page = {[finding |-> f, seen |-> hub[f]] : f \in findings}
  BY DEF GetPage, KeptInv, Inv, TypeOK, Run
<1>3. Placed'
  BY <1>1, <1>2 DEF KeptInv, Placed
<1>4. ASSUME NEW f \in Findings PROVE Held(f)'
  <2>1. Pending(f)' => Pending(f)
    BY <1>1, <1>2 DEF Pending
  <2> QED  BY <1>1, <2>1 DEF KeptInv, Held
<1> QED  BY <1>3, <1>4

\* The next chunk has findings that none of those before had.
LEMMA NextChunkPlaces ==
  ASSUME KeptInv, NextChunk
  PROVE  Placed' /\ \A f \in Findings : Held(f)'
<1>1. UNCHANGED <<rows, task, cache, touched>> /\ run.state = "on" /\ run.page = {}
  BY DEF NextChunk, tableVars
<1>2. \A f \in Findings : task[f].pc = "none"
  BY DEF NextChunk, Tasks
<1>3. CASE run'.state # "on"
  <2>1. run'.page = {}
    BY <1>3 DEF NextChunk, NoRun, KeptInv, Inv, TypeOK, Run
  <2> QED  BY <1>1, <1>3, <2>1, WorldStep
<1>4. CASE run'.state = "on"
  <2>1. /\ run'.chunk = run.chunk + 1 /\ run'.page = {}
        /\ run'.todo = InChunk(run.chunk + 1)
    BY <1>1, <1>4 DEF NextChunk, NoRun, KeptInv, Inv, TypeOK, Run
  <2>2. Placed'
    BY <1>1, <1>2, <2>1 DEF Placed, InChunk
  <2>3. ASSUME NEW f \in Findings PROVE Held(f)'
    <3>1. run.chunk \in Nat /\ ChunkOf[f] \in Nat
      BY SynchronizationAssumption DEF KeptInv, Inv, TypeOK, Run
    <3>2. Pending(f)' => Pending(f)
      BY <1>1, <1>2, <2>1, <3>1 DEF Pending, InChunk, Calls
    <3> QED  BY <1>1, <3>2 DEF KeptInv, Held
  <2> QED  BY <2>2, <2>3
<1> QED  BY <1>3, <1>4

\* A crash or the end of a batch leaves no call.
LEMMA NoCallsPlaces ==
  ASSUME KeptInv, Crash \/ EndBatch
  PROVE  Placed' /\ \A f \in Findings : Held(f)'
<1>1. UNCHANGED <<rows, cache, touched>> /\ \A f \in Findings : task'[f].pc = "none"
  BY Blank DEF Crash, EndBatch, tableVars
<1>2. (run'.state # "on" /\ run'.page = {}) \/ run' = run
  BY AfterFailureEmpty DEF Crash, EndBatch, KeptInv
<1>3. Placed'
  BY <1>1, <1>2 DEF KeptInv, Placed, Inv, TypeOK, Run
<1>4. ASSUME NEW f \in Findings PROVE Held(f)'
  <2>1. Pending(f)' => Pending(f)
    BY <1>1, <1>2 DEF Pending, Calls
  <2> QED  BY <1>1, <2>1 DEF KeptInv, Held
<1> QED  BY <1>3, <1>4

\* A batch takes its findings from the page.
LEMMA StartBatchPlaces ==
  ASSUME KeptInv, NEW batch \in SUBSET run.page, StartBatch(batch)
  PROVE  Placed' /\ \A f \in Findings : Held(f)'
<1>1. UNCHANGED <<rows, cache, touched>> /\ run.state = "on"
      /\ \A f \in Findings : task[f].pc = "none"
  BY DEF StartBatch, tableVars, Tasks
<1>2. /\ run'.state = "on" /\ run'.chunk = run.chunk
      /\ run'.todo = run.todo /\ run'.page = run.page \ batch
  BY DEF StartBatch, KeptInv, Inv, TypeOK, Run
<1>3. \A f \in Findings : task'[f].pc # "none" => \E b \in batch : b.finding = f
  BY Blank DEF StartBatch
<1>4. ASSUME NEW f \in Findings, \E b \in batch : b.finding = f
      PROVE  task'[f].pc \notin {"exists", "put"}
  <2> DEFINE b == CHOOSE c \in batch : c.finding = f
  <2>1. b \in batch /\ b.seen \in Snapshot
    BY <1>4 DEF KeptInv, Inv, TypeOK, Run
  <2>2. task'[f] = Begin(f, b.seen)
    BY <1>4 DEF StartBatch
  <2> HIDE DEF b
  <2> QED  BY <2>1, <2>2, BeginSound DEF KeptInv, Inv
<1>5. ASSUME NEW f \in Findings PROVE Held(f)'
  <2>1. Pending(f)' => Pending(f)
    BY <1>1, <1>2, <1>3 DEF Pending, Calls
  <2>2. task'[f].pc \notin {"exists", "put"}
    BY <1>3, <1>4
  <2> QED  BY <1>1, <2>1, <2>2 DEF KeptInv, Held
<1>6. Placed'
  <2>1. \A b \in run.page : ChunkOf[b.finding] = run.chunk /\ b.finding \notin run.todo
                           /\ \A c \in run.page : c.finding = b.finding => c = b
    BY <1>1 DEF KeptInv, Placed
  <2>2. \A b \in run.page : b.finding \in Findings
    BY DEF KeptInv, Inv, TypeOK, Run
  <2>3. \A f \in run.todo : f \in Findings /\ ChunkOf[f] = run.chunk /\ task'[f].pc = "none"
    BY <1>1, <1>3, <2>1 DEF KeptInv, Placed, Inv, TypeOK, Run
  <2>4. \A b \in run'.page : task'[b.finding].pc = "none"
    BY <1>2, <1>3, <2>1, <2>2
  <2>5. \A f \in Findings : task'[f].pc # "none" => ChunkOf[f] = run.chunk
    BY <1>3, <2>1
  <2> QED  BY <1>2, <2>1, <2>3, <2>4, <2>5 DEF Placed
<1> QED  BY <1>5, <1>6

-----------------------------------------------------------------------------
(***************************************************************************)
(* The calls.                                                              *)
(***************************************************************************)

\* A call that moves on stays where it is, and nothing becomes pending.
LEMMA CallPlaced ==
  ASSUME KeptInv, NEW f \in Findings, task[f].pc \in Calls,
         NEW t, task' = [task EXCEPT ![f] = t], run' = run
  PROVE  /\ Placed' /\ \A g \in Findings : Pending(g)' => Pending(g)
         /\ task'[f] = t /\ \A g \in Findings : g # f => task'[g] = task[g]
         /\ f \notin run.todo /\ (\A b \in run.page : b.finding # f)
         /\ ChunkOf[f] = run.chunk /\ Pending(f)
<1>1. task \in [Findings -> Task]
  BY DEF KeptInv, Inv, TypeOK
<1>2. task'[f] = t /\ \A g \in Findings : g # f => task'[g] = task[g]
  BY <1>1
<1>3. run.state = "on" /\ task[f].pc # "none"
  BY DEF KeptInv, Inv, Sound, Calls
<1>4. f \notin run.todo /\ (\A b \in run.page : b.finding # f) /\ ChunkOf[f] = run.chunk
  BY <1>3 DEF KeptInv, Placed
<1>5. (\A b \in run.page : b.finding \in Findings) /\ run.todo \subseteq Findings
  BY DEF KeptInv, Inv, TypeOK, Run
<1>6. Placed'
  BY <1>2, <1>3, <1>4, <1>5 DEF KeptInv, Placed
<1>7. Pending(f)
  BY <1>3 DEF Pending
<1>8. ASSUME NEW g \in Findings, Pending(g)' PROVE Pending(g)
  <2>1. CASE g = f
    BY <1>7, <2>1
  <2>2. CASE g # f
    BY <1>2, <1>8, <2>2 DEF Pending
  <2> QED  BY <2>1, <2>2
<1> QED  BY <1>2, <1>4, <1>6, <1>7, <1>8

\* Calls that neither read nor write the row.
LEMMA OtherCallPlaces ==
  ASSUME KeptInv, NEW f \in Findings,
         (\E ok \in BOOLEAN : ConfigRead(f, ok) \/ UnitsRead(f, ok)) \/ WriteFails(f)
  PROVE  Placed' /\ \A g \in Findings : Held(g)'
<1>1. UNCHANGED <<rows, run, cache, touched>> /\ task[f].pc \in Calls
  BY DEF ConfigRead, UnitsRead, WriteFails, tableVars, Calls
<1>2. PICK t : task' = [task EXCEPT ![f] = t] /\ t.pc \notin {"exists", "put"}
  <2>1. task[f].seen \in Snapshot /\ task[f].config \in Configs \cup {DefaultConfig}
    BY DEF KeptInv, Inv, TypeOK, Task
  <2>2. ASSUME NEW ok \in BOOLEAN, ConfigRead(f, ok)
        PROVE  Configured(f, task[f].seen, LoadedConfig(ok)).pc \notin {"exists", "put"}
    <3> DEFINE config == LoadedConfig(ok)
    <3>1. \A parents : (parents = {} \/ parents = UnitsOf[AccountOf[f]]) =>
            Judged(f, task[f].seen, config, parents).pc \notin {"exists", "put"}
      BY <2>1, JudgedSound
    <3>2. units[AccountOf[f]] \in {Unset, {}, UnitsOf[AccountOf[f]]}
      BY SynchronizationAssumption DEF KeptInv, Inv, CachesSound
    <3>3. [NoTask EXCEPT !.pc = "units", !.seen = task[f].seen, !.config = config].pc = "units"
      BY DEF NoTask
    <3> HIDE DEF config
    <3> QED  BY <3>1, <3>2, <3>3 DEF Configured, config
  <2>3. ASSUME NEW ok \in BOOLEAN, UnitsRead(f, ok)
        PROVE  Judged(f, task[f].seen, task[f].config, FoundUnits(AccountOf[f], ok)).pc
                 \notin {"exists", "put"}
    BY <2>1, JudgedSound DEF FoundUnits
  <2>4. Done("error").pc \notin {"exists", "put"}
    BY DoneType DEF Results
  <2>5. [NoTask EXCEPT !.pc = "old", !.seen = task[f].seen, !.again = TRUE].pc = "old"
    BY DEF NoTask
  <2> QED  BY <2>2, <2>3, <2>4, <2>5 DEF ConfigRead, UnitsRead, WriteFails
<1>3. /\ Placed' /\ \A g \in Findings : Pending(g)' => Pending(g)
      /\ task'[f] = t /\ \A g \in Findings : g # f => task'[g] = task[g]
  BY <1>1, <1>2, CallPlaced
<1>4. ASSUME NEW g \in Findings PROVE Held(g)'
  BY <1>1, <1>2, <1>3 DEF KeptInv, Held
<1> QED  BY <1>3, <1>4

\* A row that is suppressed, and was before the invocation, is read as suppressed.
LEMMA ReadsHeld ==
  ASSUME KeptInv, NEW f \in Findings, NEW item, Reads(f, item), task[f].pc \in Calls,
         rows[f].suppressed, f \notin touched', Pending(f)
  PROVE  /\ Exists(item) /\ item.suppressed
         /\ cache'.finding = f => cache'.row.suppressed
<1>1. item = Lookup(f) /\ f \notin touched
  BY DEF Reads
<1>2. cache.finding = f => cache.row.suppressed
  BY <1>1 DEF KeptInv, Held
<1>3. item.suppressed
  BY <1>1, <1>2 DEF Lookup
<1>4. Exists(item)
  BY <1>3 DEF Exists, NoRow
<1>5. cache' = [finding |-> f, row |-> item]
  BY <1>1, <1>4 DEF Reads
<1> QED  BY <1>3, <1>4, <1>5

\* The cached row of another finding is not replaced by a lookup but by this one's.
LEMMA ReadsOthers ==
  ASSUME NEW f, NEW item, Reads(f, item), NEW g, g # f, cache'.finding = g
  PROVE  cache' = cache
BY DEF Reads

LEMMA LookupPlaces ==
  ASSUME KeptInv, NEW f \in Findings, NEW item, Old(f, item) \/ ExistsCall(f, item)
  PROVE  Placed' /\ \A g \in Findings : Held(g)'
<1>1. UNCHANGED <<rows, run>> /\ task[f].pc \in {"old", "exists"} /\ task[f].pc \in Calls
      /\ Reads(f, item) /\ touched \subseteq touched'
  BY DEF Old, ExistsCall, Reads, tableVars, Calls
<1>2. task[f] \in Task
  BY DEF KeptInv, Inv, TypeOK
<1>3. PICK t : /\ task' = [task EXCEPT ![f] = t]
               /\ t.row = (IF task[f].pc = "old" THEN ItemOf(task[f].seen, item) ELSE task[f].row)
  <2> DEFINE read == [task[f] EXCEPT !.pc = "exists", !.row = ItemOf(task[f].seen, item)]
             next == [task[f] EXCEPT !.pc = IF Exists(item) THEN "put" ELSE "create"]
  <2>1. read.row = ItemOf(task[f].seen, item) /\ next.row = task[f].row
    BY <1>2 DEF Task
  <2>2. Old(f, item) => task[f].pc = "old" /\ task' = [task EXCEPT ![f] = read]
    BY DEF Old
  <2>3. ExistsCall(f, item) => task[f].pc = "exists" /\ task' = [task EXCEPT ![f] = next]
    BY DEF ExistsCall
  <2> HIDE DEF read, next
  <2> QED  BY <2>1, <2>2, <2>3
<1>4. /\ Placed' /\ (\A g \in Findings : Pending(g)' => Pending(g)) /\ Pending(f)
      /\ task'[f] = t /\ \A g \in Findings : g # f => task'[g] = task[g]
  BY <1>1, <1>3, CallPlaced
<1>5. ASSUME NEW g \in Findings, g # f PROVE Held(g)'
  <2>1. cache'.finding = g => cache' = cache
    BY <1>1, <1>5, ReadsOthers
  <2>2. Held(g)
    BY DEF KeptInv
  <2> QED  BY <1>1, <1>4, <1>5, <2>1, <2>2 DEF Held
<1>6. ASSUME rows[f].suppressed, f \notin touched'
      PROVE  (cache'.finding = f => cache'.row.suppressed) /\ t.row.suppressed
  <2>1. Exists(item) /\ item.suppressed /\ (cache'.finding = f => cache'.row.suppressed)
    BY <1>1, <1>4, <1>6, ReadsHeld
  <2>2. ItemOf(task[f].seen, item).suppressed
    BY <2>1 DEF ItemOf
  <2>3. task[f].pc = "exists" => task[f].row.suppressed
    BY <1>1, <1>6 DEF KeptInv, Held
  <2> QED  BY <1>1, <1>3, <2>1, <2>2, <2>3
<1>7. Held(f)'
  BY <1>1, <1>4, <1>6 DEF Held
<1> QED  BY <1>4, <1>5, <1>7

LEMMA WritePlaces ==
  ASSUME KeptInv, NEW f \in Findings, Write(f)
  PROVE  Placed' /\ \A g \in Findings : Held(g)'
<1>1. UNCHANGED <<run, cache, touched>> /\ task[f].pc \in Calls
  BY DEF Write, Calls
<1>2. PICK result \in {"success", "failed"} : task' = [task EXCEPT ![f] = Done(result)]
  BY DEF Write
<1>3. Done(result).pc = result
  BY DoneType DEF Results
<1>4. /\ Placed' /\ \A g \in Findings : Pending(g)' => Pending(g)
      /\ task'[f] = Done(result) /\ \A g \in Findings : g # f => task'[g] = task[g]
      /\ f \notin run.todo /\ (\A b \in run.page : b.finding # f)
      /\ ChunkOf[f] = run.chunk
  BY <1>1, <1>2, CallPlaced
<1>5. \A g \in Findings : g # f => rows'[g] = rows[g]
  <2>1. rows' = rows \/ rows' = [rows EXCEPT ![f] = task[f].row]
    BY DEF Write, tableVars
  <2> QED  BY <2>1 DEF KeptInv, Inv, TypeOK
<1>6. Held(f)'
  <2>1. ~Pending(f)'
    <3>1. ~(ChunkOf[f] > run.chunk)
      BY <1>4, SynchronizationAssumption DEF KeptInv, Inv, TypeOK, Run
    <3> QED  BY <1>1, <1>3, <1>4, <3>1 DEF Pending, Calls
  <2> QED  BY <1>3, <1>4, <2>1 DEF Held
<1>7. ASSUME NEW g \in Findings, g # f PROVE Held(g)'
  BY <1>1, <1>4, <1>5, <1>7 DEF KeptInv, Held
<1> QED  BY <1>4, <1>6, <1>7

-----------------------------------------------------------------------------
\* The invariant behind the suppressions.
LEMMA SpecKept == Spec => []KeptInv
<1>1. Init => KeptInv
  <2> SUFFICES ASSUME Init PROVE KeptInv
    OBVIOUS
  <2>1. run.state # "on" /\ run.page = {} /\ cache = NoCache
    BY DEF Init, Triggered, NoRun
  <2>2. \A f \in Findings : Held(f)
    BY Blank, SynchronizationAssumption DEF Init, Held, NoRow
  <2> QED  BY <2>1, <2>2, InitInv DEF KeptInv, Placed
<1>2. KeptInv /\ [Next]_vars => KeptInv'
  <2> SUFFICES ASSUME KeptInv, [Next]_vars PROVE KeptInv'
    OBVIOUS
  <2>1. Inv'
    BY NextInv DEF KeptInv
  <2>2. Placed' /\ \A f \in Findings : Held(f)'
    <3>1. ASSUME NEW f \in Findings, Process(f)
          PROVE  Placed' /\ \A g \in Findings : Held(g)'
      BY <3>1, OtherCallPlaces, LookupPlaces, WritePlaces DEF Process
    <3>2. CASE Advance
      BY <3>2, InvokePlaces, GetPagePlaces, NextChunkPlaces, StartBatchPlaces, NoCallsPlaces
         DEF Advance
    <3>3. CASE Crash
      BY <3>3, NoCallsPlaces
    <3> QED  BY <3>1, <3>2, <3>3, OutsideStep DEF Next
  <2> QED  BY <2>1, <2>2 DEF KeptInv
<1> QED  BY <1>1, <1>2, PTL DEF Spec

\* Only these steps write rows.
LEMMA RowWrites ==
  ASSUME [Next]_vars
  PROVE  \/ UNCHANGED rows
         \/ UserSuppress
         \/ \E f \in Findings : Expire(f) \/ Event(f) \/ Write(f)
<1>1. ASSUME NEW f \in Findings, Process(f), ~Write(f)
      PROVE  UNCHANGED rows
  BY <1>1 DEF Process, ConfigRead, UnitsRead, Old, ExistsCall, WriteFails, tableVars
<1>2. Advance \/ GetPageFails \/ Crash \/ Tick => UNCHANGED rows
  BY DEF Advance, Invoke, GetPage, NextChunk, StartBatch, EndBatch, GetPageFails, Crash, Tick,
         tableVars
<1>3. ASSUME NEW f \in Findings, UserRead(f) \/ \E kind \in {"failing", "closed"} : Import(f, kind)
      PROVE  UNCHANGED rows
  BY <1>3 DEF UserRead, Import, tableVars
<1>4. ASSUME NEW config \in Configs, Configure(config)
      PROVE  UNCHANGED rows
  BY <1>4 DEF Configure, tableVars
<1>5. UNCHANGED vars => UNCHANGED rows
  BY DEF vars, tableVars
<1> QED  BY <1>1, <1>2, <1>3, <1>4, <1>5 DEF Next

\* No write of an event or of the synchronization replaces a row by one of an older version
\* (the conditions of putIfNewer and createIfNotExists).
THEOREM RowsAdvance == Spec => NoRollback
<1>1. Inv /\ [Next]_vars =>
        [\A f \in Findings :
           (Exists(rows[f]) /\ Exists(rows'[f]) /\ rows'[f].version < rows[f].version)
             => draft.finding = f /\ draft' = NoDraft]_vars
  <2> SUFFICES ASSUME Inv, [Next]_vars, NEW f \in Findings,
                      Exists(rows[f]), Exists(rows'[f]), rows'[f].version < rows[f].version
               PROVE  draft.finding = f /\ draft' = NoDraft
    OBVIOUS
  <2>1. rows \in [Findings -> Row \cup {NoRow}] /\ task \in [Findings -> Task]
        /\ hub \in [Findings -> Snapshot]
    BY DEF Inv, TypeOK
  <2>2. rows[f].version \in 0 .. MaxVersion
    BY <2>1 DEF Row, Exists
  <2>3. ~UNCHANGED rows
    BY <2>2, TableAssumption
  <2>4. CASE UserSuppress
    BY <2>1, <2>2, <2>4, TableAssumption DEF UserSuppress
  <2>5. ASSUME NEW g \in Findings, Expire(g) PROVE FALSE
    BY <2>1, <2>2, <2>5, TableAssumption DEF Expire, Exists
  <2>6. ASSUME NEW g \in Findings, Event(g) PROVE FALSE
    <3>1. ItemOf(hub[g], rows[g]).version \in 0 .. MaxVersion
      BY <2>1, ItemType DEF Snapshot
    <3>2. g = f
      BY <2>1, <2>2, <2>6, TableAssumption DEF Event
    <3>3. IsNewer(rows[f], rows'[f]) /\ rows'[f] = ItemOf(hub[g], rows[g])
      BY <2>1, <2>6, <3>2 DEF Event, Exists
    <3> QED  BY <2>2, <3>1, <3>3, TableAssumption DEF IsNewer
  <2>7. ASSUME NEW g \in Findings, Write(g) PROVE FALSE
    <3>1. task[g].row.version \in 0 .. MaxVersion
      BY <2>1 DEF Task, Row
    <3>2. WriteAllowed(g) /\ rows' = [rows EXCEPT ![g] = task[g].row]
      BY <2>3, <2>7 DEF Write, tableVars
    <3>3. g = f
      BY <2>1, <2>2, <3>2, TableAssumption
    <3>4. IsNewer(rows[f], rows'[f])
      BY <2>1, <3>2, <3>3 DEF WriteAllowed
    <3> QED  BY <2>1, <2>2, <3>1, <3>2, <3>3, <3>4, TableAssumption DEF IsNewer
  <2> QED  BY <2>3, <2>4, <2>5, <2>6, <2>7, RowWrites
<1> QED  BY <1>1, SpecInv, PTL DEF Spec, NoRollback

\* The synchronization takes back a suppression only if it was made, or a read of the row
\* failed, while this invocation ran (findingDataService.ts:168-173).
THEOREM SuppressionsHold == Spec => SuppressionsKept
<1>1. KeptInv /\ [Next]_vars =>
        [\A f \in Findings :
           (rows[f].suppressed /\ Exists(rows'[f]) /\ ~rows'[f].suppressed) => f \in touched]_vars
  <2> SUFFICES ASSUME KeptInv, [Next]_vars, NEW f \in Findings,
                      rows[f].suppressed, Exists(rows'[f]), ~rows'[f].suppressed, f \notin touched
               PROVE  FALSE
    OBVIOUS
  <2>1. rows \in [Findings -> Row \cup {NoRow}] /\ Exists(rows[f])
    BY DEF KeptInv, Inv, TypeOK, Exists, NoRow
  <2>2. ~UNCHANGED rows
    OBVIOUS
  <2>3. CASE UserSuppress
    BY <2>1, <2>3 DEF UserSuppress
  <2>4. ASSUME NEW g \in Findings, Expire(g) PROVE FALSE
    BY <2>1, <2>4 DEF Expire, Exists
  <2>5. ASSUME NEW g \in Findings, Event(g) PROVE FALSE
    <3>1. ItemOf(hub[f], rows[f]).suppressed
      BY <2>1 DEF ItemOf
    <3> QED  BY <2>1, <2>5, <3>1 DEF Event, Exists
  <2>6. ASSUME NEW g \in Findings, Write(g) PROVE FALSE
    <3>1. WriteAllowed(g) /\ rows' = [rows EXCEPT ![g] = task[g].row]
      BY <2>2, <2>6 DEF Write, tableVars
    <3>2. g = f /\ rows'[f] = task[f].row
      BY <2>1, <3>1
    <3>3. task[f].pc = "put"
      BY <2>1, <2>6, <3>1, <3>2 DEF Write, WriteAllowed
    <3> QED  BY <3>2, <3>3 DEF KeptInv, Held
  <2> QED  BY <2>2, <2>3, <2>4, <2>5, <2>6, RowWrites
<1> QED  BY <1>1, SpecKept, PTL DEF Spec, SuppressionsKept
=============================================================================
