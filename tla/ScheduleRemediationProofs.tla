---------------------- MODULE ScheduleRemediationProofs ----------------------
(***************************************************************************)
(* Proofs about ScheduleRemediation: its type invariant, and the spacing   *)
(* of the times it hands out, for any number of executions, pairs,         *)
(* environments, retries and receives, and whatever stale reads return.    *)
(***************************************************************************)
EXTENDS ScheduleRemediation, FiniteSetTheorems, TLAPS

\* An idle environment's record is an invocation (NoInvocation).
LEMMA NoInvocationType == NoInvocation \in Invocation /\ NoInvocation.pc = Idle
<1>1. \E m \in Messages : TRUE
  <2>1. PICK e \in Executions : TRUE
    BY SchedulerAssumption
  <2>2. <<e, 1>> \in Messages
    BY SchedulerAssumption DEF Messages
  <2>3. QED
    BY <2>2
<1>2. (CHOOSE m \in Messages : TRUE) \in Messages
  BY <1>1
<1>3. QED
  BY <1>2 DEF NoInvocation, Invocation, Idle, Slots

\* The next slot is a number, and not before the current time (NextSlot).
LEMMA NextSlotType ==
  ASSUME NEW found \in Nat, NEW current \in Nat, clock \in Nat
  PROVE  NextSlot(found, current) \in Nat
BY SchedulerAssumption DEF NextSlot

\* A failing task keeps the types of its two variables (TaskFails).
LEMMA TaskFailsType ==
  ASSUME TypeOK, NEW e \in Executions, TaskFails(e)
  PROVE  /\ task' \in [Executions -> {"ready", "waiting", "scheduled", "failed", "aborted"}]
         /\ attempt' \in [Executions -> 1 .. MaxAttempts]
BY SchedulerAssumption DEF TypeOK, TaskFails

\* The fields of an environment's invocation.
LEMMA WorkerFields ==
  ASSUME TypeOK, NEW w \in Workers
  PROVE  /\ worker[w].msg \in Messages
         /\ worker[w].msg[1] \in Executions
         /\ PairOfWorker(w) \in Pairs
         /\ worker[w].current \in Nat
         /\ worker[w].found \in Slots
         /\ worker[w].new \in Nat
<1>1. worker[w] \in Invocation
  BY DEF TypeOK
<1>2. worker[w].msg \in Messages /\ worker[w].msg[1] \in Executions
  BY <1>1 DEF Invocation, Messages
<1>3. PairOfWorker(w) \in Pairs
  BY <1>2, SchedulerAssumption DEF PairOfWorker
<1>4. QED
  BY <1>1, <1>2, <1>3 DEF Invocation

\* An assignment to the program counter and the new slot of an invocation.
LEMMA SetPcNewType ==
  ASSUME NEW w \in Workers, worker \in [Workers -> Invocation], NEW slot \in Nat,
         NEW pc \in {Idle, Read, Decide, Put, Reply, Fail, Return},
         worker' = [worker EXCEPT ![w].pc = pc, ![w].new = slot]
  PROVE  worker' \in [Workers -> Invocation]
<1> DEFINE next == [worker[w] EXCEPT !.pc = pc, !.new = slot]
<1>1. worker[w] \in Invocation
  OBVIOUS
<1>2. next \in Invocation
  BY <1>1 DEF Invocation
<1>3. worker' = [worker EXCEPT ![w] = next]
  OBVIOUS
<1> HIDE DEF next
<1>4. QED
  BY <1>2, <1>3

\* No step of the scheduler or of its environment breaks a type.
LEMMA TypeStep == TypeOK /\ [Next]_vars => TypeOK'
<1> SUFFICES ASSUME TypeOK, [Next]_vars PROVE TypeOK'
  OBVIOUS
<1> USE SchedulerAssumption
<1>1. ASSUME NEW e \in Executions, SendTaskToken(e) PROVE TypeOK'
  <2>1. <<e, attempt[e]>> \in Messages
    BY DEF TypeOK, Messages
  <2>2. QED
    BY <1>1, <2>1 DEF TypeOK, SendTaskToken
<1>2. ASSUME NEW e \in Executions, SendTaskTokenFails(e) PROVE TypeOK'
  BY <1>2, TaskFailsType DEF TypeOK, SendTaskTokenFails
<1>3. ASSUME NEW e \in Executions, AbortExecution(e) PROVE TypeOK'
  BY <1>3 DEF TypeOK, AbortExecution
<1>4. ASSUME NEW w \in Workers, NEW m \in Messages, Receive(w, m) PROVE TypeOK'
  BY <1>4 DEF TypeOK, Receive, Invocation, Read, Slots
<1>5. ASSUME NEW w \in Workers, NEW pc \in {Idle, Read, Decide, Put, Reply, Fail, Return}, Goto(w, pc)
      PROVE worker' \in [Workers -> Invocation]
  BY <1>5 DEF TypeOK, Goto, Invocation
<1>6. ASSUME NEW w \in Workers, GetItem(w) PROVE TypeOK'
  <2>1. item[PairOfWorker(w)] \in Slots /\ stale[PairOfWorker(w)] \subseteq Slots
    BY WorkerFields DEF TypeOK
  <2>2. PICK value \in Slots, missed \in BOOLEAN :
          worker' = [worker EXCEPT ![w].pc = Decide, ![w].found = value, ![w].missed = missed]
    BY <1>6, <2>1 DEF GetItem
  <2>3. worker' \in [Workers -> Invocation]
    <3> DEFINE next == [worker[w] EXCEPT !.pc = Decide, !.found = value, !.missed = missed]
    <3>1. worker[w] \in Invocation
      BY DEF TypeOK
    <3>2. next \in Invocation
      BY <3>1 DEF Invocation
    <3>3. worker' = [worker EXCEPT ![w] = next]
      BY <2>2
    <3> HIDE DEF next
    <3>4. QED
      BY <3>2, <3>3 DEF TypeOK
  <2>4. QED
    BY <1>6, <2>3 DEF TypeOK, GetItem
<1>7. ASSUME NEW w \in Workers, ComputeSlot(w) PROVE TypeOK'
  <2>1. worker[w].found \in Nat /\ worker[w].current \in Nat
    BY <1>7, WorkerFields DEF ComputeSlot, Slots
  <2>2. NextSlot(worker[w].found, worker[w].current) \in Nat
    BY <2>1, NextSlotType DEF TypeOK
  <2>3. worker' \in [Workers -> Invocation]
    <3> DEFINE slot == NextSlot(worker[w].found, worker[w].current)
    <3>1. slot \in Nat /\ worker' = [worker EXCEPT ![w].pc = Put, ![w].new = slot]
      BY <1>7, <2>2 DEF ComputeSlot
    <3>2. Put \in {Idle, Read, Decide, Put, Reply, Fail, Return}
      OBVIOUS
    <3> HIDE DEF slot
    <3>3. QED
      BY <3>1, <3>2, SetPcNewType DEF TypeOK
  <2>4. QED
    BY <1>7, <2>3 DEF TypeOK, ComputeSlot
<1>8. ASSUME NEW w \in Workers, NEW slot \in Nat, WriteSlot(w, slot),
             era' \in [Pairs -> Nat], UNCHANGED eraOf
      PROVE  TypeOK'
  <2>1. item' \in [Pairs -> Slots] /\ stale' \in [Pairs -> SUBSET Slots]
    <3>1. PICK p \in Pairs : p = PairOfWorker(w)
      BY WorkerFields
    <3>2. item' = [item EXCEPT ![p] = slot] /\ stale' = [stale EXCEPT ![p] = @ \cup {item[p]}]
      BY <1>8, <3>1 DEF WriteSlot, Write
    <3>3. QED
      BY <3>2 DEF TypeOK, Slots
  <2>2. worker' \in [Workers -> Invocation]
    <3>1. PICK pc \in {Reply, Fail} : worker' = [worker EXCEPT ![w].pc = pc, ![w].new = slot]
      BY <1>8 DEF WriteSlot
    <3>2. pc \in {Idle, Read, Decide, Put, Reply, Fail, Return}
      OBVIOUS
    <3>3. QED
      BY <3>1, <3>2, SetPcNewType DEF TypeOK
  <2>3. QED
    BY <1>8, <2>1, <2>2 DEF TypeOK, WriteSlot
<1>9. ASSUME NEW w \in Workers, PutInitial(w) \/ PutItem(w) PROVE TypeOK'
  <2>1. era' \in [Pairs -> Nat] /\ UNCHANGED eraOf
    <3>1. PICK p \in Pairs : p = PairOfWorker(w)
      BY WorkerFields
    <3>2. era' = [era EXCEPT ![p] = @ + 1] \/ era' = [era EXCEPT ![p] = @] \/ era' = era
      BY <1>9, <3>1 DEF PutInitial, PutItem
    <3>3. UNCHANGED eraOf
      BY <1>9 DEF PutInitial, PutItem
    <3>4. QED
      BY <3>2, <3>3 DEF TypeOK
  <2>2. QED
    BY <1>8, <1>9, <2>1, WorkerFields DEF PutInitial, PutItem
<1>10. ASSUME NEW w \in Workers, PutItemRejected(w) \/ CallFails(w) \/ SendSuccessRejected(w) PROVE TypeOK'
  <2>1. Goto(w, Fail)
    BY <1>10 DEF PutItemRejected, CallFails, SendSuccessRejected
  <2>2. worker' \in [Workers -> Invocation]
    BY <1>5, <2>1
  <2>3. QED
    BY <1>10, <2>2 DEF TypeOK, PutItemRejected, CallFails, SendSuccessRejected
<1>11. ASSUME NEW w \in Workers, SendSuccess(w) PROVE TypeOK'
  <2>1. worker' \in [Workers -> Invocation]
    BY <1>5, <1>11 DEF SendSuccess
  <2>2. planned' \in [Executions -> Slots]
    BY <1>11, WorkerFields DEF TypeOK, SendSuccess, Slots
  <2>3. task' \in [Executions -> {"ready", "waiting", "scheduled", "failed", "aborted"}]
    BY <1>11 DEF TypeOK, SendSuccess
  <2>4. eraOf' \in [Executions -> Nat] /\ UNCHANGED era
    BY <1>11, WorkerFields DEF TypeOK, SendSuccess
  <2>5. QED
    BY <1>11, <2>1, <2>2, <2>3, <2>4 DEF TypeOK, SendSuccess
<1>12. ASSUME NEW w \in Workers, SendFailure(w) PROVE TypeOK'
  <2>1. worker' \in [Workers -> Invocation]
    BY <1>5, <1>12 DEF SendFailure
  <2>2. QED
    BY <1>12, <2>1, TaskFailsType, WorkerFields DEF TypeOK, SendFailure
<1>13. ASSUME NEW w \in Workers, MessageReturns(w) PROVE TypeOK'
  BY <1>13, NoInvocationType, WorkerFields DEF TypeOK, MessageReturns
<1>14. ASSUME NEW w \in Workers, DeleteMessage(w) PROVE TypeOK'
  BY <1>14, NoInvocationType, WorkerFields DEF TypeOK, DeleteMessage
<1>15. ASSUME NEW m \in Messages, Redeliver(m) PROVE TypeOK'
  BY <1>15 DEF TypeOK, Redeliver
<1>16. ASSUME NEW p \in Pairs, Expire(p) \/ Converge(p) PROVE TypeOK'
  <2>1. CASE Expire(p)
    BY <2>1 DEF TypeOK, Expire, Write, Slots
  <2>2. CASE Converge(p)
    BY <2>2 DEF TypeOK, Converge
  <2>3. QED
    BY <1>16, <2>1, <2>2
<1>17. CASE Tick
  BY <1>17 DEF TypeOK, Tick
<1>18. CASE UNCHANGED vars
  BY <1>18 DEF TypeOK, vars
<1>19. ASSUME NEW w \in Workers, Handle(w) \/ CallFails(w) \/ Crash(w) PROVE TypeOK'
  BY <1>6, <1>7, <1>9, <1>10, <1>11, <1>12, <1>13, <1>14, <1>19
     DEF Handle, SendFailureRejected, Crash
<1>20. QED
  BY <1>1, <1>2, <1>3, <1>4, <1>15, <1>16, <1>17, <1>18, <1>19 DEF Next

\* The type invariant of the scheduler holds in every reachable state.
THEOREM TypeCorrect == Spec => []TypeOK
<1>1. Init => TypeOK
  BY SchedulerAssumption, NoInvocationType DEF Init, TypeOK, Slots
<1>2. QED
  BY <1>1, TypeStep, PTL DEF Spec

-----------------------------------------------------------------------------
(***************************************************************************)
(* Spacing of the times handed out.                                        *)
(***************************************************************************)

\* reservedConcurrentExecutions 1: at most one environment runs an invocation.
OneInvocation == \A v, w \in Workers : Busy(v) /\ Busy(w) => v = w

\* An invocation's reading of the clock is at most MaxLag old.
ReadingFresh ==
  \A w \in Workers :
    Busy(w) => worker[w].current <= clock /\ clock <= worker[w].current + MaxLag

\* Only an execution whose task succeeded has a time.
PlannedScheduled == \A e \in Executions : planned[e] # NoItem => task[e] = "scheduled"

\* The executions of a pair whose times the table still stands for.
Remembered(p) == {e \in Promised(p) : eraOf[e] = era[p]}

\* What invocation w knows of the times the table stands for: having read no item
\* it has missed one or there is none; a slot computed from the item that is still
\* there, and a slot about to be promised, are SlotGap after all of them, and the
\* latter is covered by the table (the local variables of lambda_handler).
SlotAfterPromises(w) ==
  LET inv == worker[w]
      p == PairOfWorker(w)
  IN  /\ inv.pc = Decide /\ inv.found = NoItem => inv.missed \/ item[p] = NoItem
      /\ inv.pc = Put =>
           /\ inv.found # NoItem
           /\ inv.new >= inv.found + SlotGap
      /\ inv.pc = Reply =>
           /\ \A e \in Remembered(p) : planned[e] + SlotGap <= inv.new
           /\ IF item[p] = NoItem THEN inv.new + WaitThreshold < clock ELSE inv.new <= item[p]

\* No execution was given its time in an era to come.
ErasOrdered == \A p \in Pairs : \A e \in Promised(p) : eraOf[e] <= era[p]

\* The inductive strengthening of SlotsSpaced and PromisesCovered.
SlotsInductive ==
  /\ ErasOrdered
  /\ OneInvocation
  /\ ReadingFresh
  /\ PlannedScheduled
  /\ \A w \in Workers : SlotAfterPromises(w)
  /\ SlotsSpaced
  /\ PromisesCovered

\* SlotGap is a number of seconds (MaxLag is at most WaitThreshold + 1).
LEMMA SlotGapType == SlotGap \in Nat /\ SlotGap <= WaitThreshold
BY SchedulerAssumption DEF SlotGap

\* An execution that was told a time, and the type of that time.
LEMMA PromisedType ==
  ASSUME TypeOK, NEW p, NEW e \in Promised(p)
  PROVE  e \in Executions /\ PairOf[e] = p /\ planned[e] # NoItem /\ planned[e] \in Nat
BY DEF TypeOK, Slots, Promised

\* Steps that tell nobody a time and overwrite no item unseen keep what concerns times only.
LEMMA TimesKept ==
  ASSUME SlotsInductive, UNCHANGED <<planned, era, eraOf>>
  PROVE  /\ \A p : Promised(p)' = Promised(p) /\ Remembered(p)' = Remembered(p)
         /\ ErasOrdered' /\ SlotsSpaced'
<1>1. \A p : Promised(p)' = Promised(p)
  BY DEF Promised
<1>2. \A p : Remembered(p)' = Remembered(p)
  BY <1>1 DEF Remembered
<1>3. ErasOrdered'
  BY <1>1 DEF SlotsInductive, ErasOrdered
<1>4. SlotsSpaced'
  BY <1>1 DEF SlotsInductive, SlotsSpaced, SlotGap
<1>5. QED
  BY <1>1, <1>2, <1>3, <1>4

\* A step of one invocation that leaves table, times and clock alone keeps the
\* invariant if what this invocation knows stays right.
LEMMA InvocationStep ==
  ASSUME TypeOK, SlotsInductive, NEW w \in Workers, NEW r,
         worker' = [worker EXCEPT ![w] = r],
         \A v \in Workers : Busy(v) => v = w,
         r.pc # Idle => r.current <= clock /\ clock <= r.current + MaxLag,
         UNCHANGED <<clock, item, planned, era, eraOf>>,
         PlannedScheduled',
         SlotAfterPromises(w)'
  PROVE  SlotsInductive'
<1>1. \A v \in Workers : v # w => worker'[v] = worker[v] /\ worker[v].pc = Idle
  BY DEF TypeOK, Busy
<1>2. worker'[w] = r
  BY DEF TypeOK
<1>3. ErasOrdered' /\ SlotsSpaced' /\ \A p : Promised(p)' = Promised(p)
  BY TimesKept
<1>4. PromisesCovered'
  BY <1>3 DEF SlotsInductive, PromisesCovered
<1>5. OneInvocation'
  BY <1>1 DEF OneInvocation, Busy
<1>6. ReadingFresh'
  BY <1>1, <1>2 DEF ReadingFresh, Busy
<1>7. ASSUME NEW v \in Workers PROVE SlotAfterPromises(v)'
  <2>1. CASE v = w
    BY <2>1
  <2>2. CASE v # w
    <3>1. worker'[v].pc = Idle
      BY <1>1, <2>2
    <3>2. QED
      BY <3>1 DEF SlotAfterPromises, Idle, Decide, Put, Reply
  <2>3. QED
    BY <2>1, <2>2
<1>8. QED
  BY <1>3, <1>4, <1>5, <1>6, <1>7 DEF SlotsInductive

\* A step that leaves table, times, clock and invocations alone keeps it.
LEMMA QuietStep ==
  ASSUME TypeOK, SlotsInductive, UNCHANGED <<clock, item, planned, worker, era, eraOf>>,
         PlannedScheduled'
  PROVE  SlotsInductive'
<1>1. ErasOrdered' /\ SlotsSpaced' /\ \A p : Promised(p)' = Promised(p) /\ Remembered(p)' = Remembered(p)
  BY TimesKept
<1>2. PromisesCovered' /\ OneInvocation' /\ ReadingFresh'
  BY <1>1 DEF SlotsInductive, PromisesCovered, OneInvocation, ReadingFresh, Busy
<1>3. \A w \in Workers : SlotAfterPromises(w)'
  BY <1>1 DEF SlotsInductive, SlotAfterPromises, PairOfWorker, SlotGap
<1>4. QED
  BY <1>1, <1>2, <1>3 DEF SlotsInductive

\* An invocation in progress is the only one.
LEMMA OnlyInvocation ==
  ASSUME SlotsInductive, NEW w \in Workers, Busy(w)
  PROVE  /\ \A v \in Workers : Busy(v) => v = w
         /\ worker[w].current <= clock /\ clock <= worker[w].current + MaxLag
         /\ SlotAfterPromises(w)
BY DEF SlotsInductive, OneInvocation, ReadingFresh

\* The tasks that have been answered stay answered (TaskFails).
LEMMA FailKeepsPlanned ==
  ASSUME TypeOK, SlotsInductive, NEW e \in Executions, task[e] # "scheduled", TaskFails(e),
         UNCHANGED planned
  PROVE  PlannedScheduled'
BY DEF TypeOK, SlotsInductive, PlannedScheduled, TaskFails

\* The slot after the one found is SlotGap after it: the arithmetic of the two
\* clock readings (NextSlot).
LEMMA NextSlotSpaced ==
  ASSUME NEW found \in Nat, NEW current \in Nat, clock \in Nat, clock <= current + MaxLag
  PROVE  found + SlotGap <= NextSlot(found, current)
BY SchedulerAssumption DEF SlotGap, NextSlot

\* A slot lies SlotGap after every time of its pair and of an era.
SlotClear(p, n, slot) == \A e \in Promised(p) : eraOf[e] = n => planned[e] + SlotGap <= slot

\* The write of a slot that lies SlotGap after every time the table stands for
\* afterwards keeps the invariant (PutInitial, PutItem).
LEMMA WriteStep ==
  ASSUME TypeOK, SlotsInductive, NEW w \in Workers, Busy(w), NEW slot \in Nat, WriteSlot(w, slot),
         UNCHANGED eraOf, NEW p \in Pairs, p = PairOfWorker(w),
         NEW n \in Nat, era[p] <= n, era' = [era EXCEPT ![p] = n],
         SlotClear(p, n, slot)
  PROVE  SlotsInductive'
<1> USE DEF Idle, Read, Decide, Put, Reply, Fail, Return
<1>1. PICK pc \in {Reply, Fail} : worker' = [worker EXCEPT ![w].pc = pc, ![w].new = slot]
  BY DEF WriteSlot
<1>a. PICK r : r = [worker[w] EXCEPT !.pc = pc, !.new = slot]
  OBVIOUS
<1>2. worker' = [worker EXCEPT ![w] = r] /\ worker'[w] = r
  BY <1>1, <1>a DEF TypeOK
<1>3. r.pc = pc /\ r.new = slot /\ r.current = worker[w].current /\ r.msg = worker[w].msg
  BY <1>a DEF TypeOK, Invocation
<1>4. /\ \A v \in Workers : Busy(v) => v = w
      /\ worker[w].current <= clock /\ clock <= worker[w].current + MaxLag
  BY OnlyInvocation
<1>5. UNCHANGED <<clock, planned, task>>
  BY DEF WriteSlot
<1>6. /\ item'[p] = slot /\ slot # NoItem /\ era'[p] = n
      /\ \A q \in Pairs : q # p => item'[q] = item[q] /\ era'[q] = era[q]
  BY SchedulerAssumption DEF WriteSlot, Write, TypeOK
<1>7. \A q : Promised(q)' = Promised(q)
  BY <1>5 DEF Promised
<1>8. PairOfWorker(w)' = p
  BY <1>2, <1>3 DEF PairOfWorker
<1>9. SlotAfterPromises(w)'
  <2>1. \A e \in Remembered(p)' : planned[e] + SlotGap <= slot
    BY <1>6, <1>7 DEF Remembered, SlotClear
  <2>2. QED
    BY <1>2, <1>3, <1>5, <1>6, <1>8, <2>1 DEF SlotAfterPromises, SlotGap
<1>10. PlannedScheduled'
  BY <1>5 DEF SlotsInductive, PlannedScheduled
<1>11. SlotsSpaced'
  BY <1>5, <1>7 DEF SlotsInductive, SlotsSpaced, SlotGap
<1>12. ErasOrdered'
  <2> SUFFICES ASSUME NEW q \in Pairs, NEW e \in Promised(q) PROVE eraOf[e] <= era'[q]
    BY <1>7 DEF ErasOrdered
  <2>1. eraOf[e] <= era[q] /\ e \in Executions
    BY DEF SlotsInductive, ErasOrdered, Promised
  <2>2. eraOf[e] \in Nat /\ era[q] \in Nat
    BY <2>1 DEF TypeOK
  <2>3. QED
    BY <1>6, <2>1, <2>2
<1>13. PromisesCovered'
  <2> SUFFICES ASSUME NEW q \in Pairs, NEW e \in Promised(q), eraOf[e] = era'[q]
               PROVE  IF item'[q] = NoItem THEN planned[e] + WaitThreshold < clock
                                           ELSE planned[e] <= item'[q]
    BY <1>5, <1>7 DEF PromisesCovered
  <2>1. CASE q = p
    <3>1. planned[e] + SlotGap <= slot
      BY <1>6, <2>1 DEF SlotClear
    <3>2. planned[e] <= slot
      BY <3>1, PromisedType, SlotGapType
    <3>3. QED
      BY <1>6, <2>1, <3>2
  <2>2. CASE q # p
    BY <1>6, <2>2 DEF SlotsInductive, PromisesCovered
  <2>3. QED
    BY <2>1, <2>2
<1>14. \A v \in Workers : v # w => worker'[v] = worker[v] /\ worker[v].pc = Idle
  BY <1>2, <1>4 DEF TypeOK, Busy
<1>15. OneInvocation' /\ ReadingFresh'
  BY <1>2, <1>3, <1>4, <1>5, <1>14 DEF OneInvocation, ReadingFresh, Busy
<1>16. \A v \in Workers : SlotAfterPromises(v)'
  BY <1>9, <1>14 DEF SlotAfterPromises
<1>17. QED
  BY <1>10, <1>11, <1>12, <1>13, <1>15, <1>16 DEF SlotsInductive

\* No step breaks the invariant: one invocation at a time, which writes the table
\* before it promises and whose write is conditional unless it has read no item.
LEMMA SlotsStep ==
  ASSUME TypeOK, SlotsInductive, [Next]_vars
  PROVE  SlotsInductive'
<1> USE DEF Idle, Read, Decide, Put, Reply, Fail, Return
<1>a. PlannedScheduled /\ SlotsSpaced /\ PromisesCovered /\ ErasOrdered
  BY DEF SlotsInductive
<1>1. ASSUME NEW e \in Executions, SendTaskToken(e) \/ AbortExecution(e) PROVE SlotsInductive'
  <2>1. PlannedScheduled'
    BY <1>a, <1>1 DEF PlannedScheduled, SendTaskToken, AbortExecution, TypeOK
  <2>2. QED
    BY <1>1, <2>1, QuietStep DEF SendTaskToken, AbortExecution
<1>2. ASSUME NEW e \in Executions, SendTaskTokenFails(e) PROVE SlotsInductive'
  <2>1. PlannedScheduled'
    BY <1>2, FailKeepsPlanned DEF SendTaskTokenFails
  <2>2. QED
    BY <1>2, <2>1, QuietStep DEF SendTaskTokenFails
<1>3. ASSUME NEW m \in Messages, Redeliver(m) PROVE SlotsInductive'
  <2>1. PlannedScheduled'
    BY <1>a, <1>3 DEF PlannedScheduled, Redeliver
  <2>2. QED
    BY <1>3, <2>1, QuietStep DEF Redeliver
<1>4. ASSUME NEW w \in Workers, NEW m \in Messages, Receive(w, m) PROVE SlotsInductive'
  <2>a. PICK r : r = [pc |-> Read, msg |-> m, current |-> clock, found |-> NoItem, new |-> 0,
                      missed |-> FALSE]
    OBVIOUS
  <2>1. worker' = [worker EXCEPT ![w] = r] /\ worker'[w] = r
    BY <1>4, <2>a DEF Receive, TypeOK
  <2>2. SlotAfterPromises(w)'
    BY <2>a, <2>1 DEF SlotAfterPromises
  <2>3. r.current <= clock /\ clock <= r.current + MaxLag
    BY <2>a, SchedulerAssumption DEF TypeOK
  <2>4. PlannedScheduled'
    BY <1>a, <1>4 DEF PlannedScheduled, Receive
  <2>5. \A v \in Workers : Busy(v) => v = w
    BY <1>4 DEF Receive
  <2>6. UNCHANGED <<clock, item, planned, era, eraOf>>
    BY <1>4 DEF Receive
  <2>7. QED
    BY <2>1, <2>2, <2>3, <2>4, <2>5, <2>6, InvocationStep
<1>5. ASSUME NEW w \in Workers, GetItem(w) PROVE SlotsInductive'
  <2>a. PICK p : p = PairOfWorker(w)
    OBVIOUS
  <2>1. PICK value, missed :
          /\ missed = (value = NoItem /\ item[p] # NoItem)
          /\ worker' = [worker EXCEPT ![w].pc = Decide, ![w].found = value, ![w].missed = missed]
    BY <1>5, <2>a DEF GetItem
  <2>b. PICK r : r = [worker[w] EXCEPT !.pc = Decide, !.found = value, !.missed = missed]
    OBVIOUS
  <2>2. worker' = [worker EXCEPT ![w] = r] /\ worker'[w] = r
    BY <2>1, <2>b DEF TypeOK
  <2>3. /\ r.pc = Decide /\ r.found = value /\ r.missed = missed
        /\ r.current = worker[w].current /\ r.msg = worker[w].msg
    BY <2>b DEF TypeOK, Invocation
  <2>4. /\ \A v \in Workers : Busy(v) => v = w
        /\ worker[w].current <= clock /\ clock <= worker[w].current + MaxLag
    BY <1>5, OnlyInvocation DEF GetItem, Busy
  <2>5. UNCHANGED <<clock, item, planned, task, era, eraOf>>
    BY <1>5 DEF GetItem
  <2>6. PairOfWorker(w)' = p
    BY <2>a, <2>2, <2>3 DEF PairOfWorker
  <2>7. SlotAfterPromises(w)'
    BY <2>1, <2>2, <2>3, <2>5, <2>6 DEF SlotAfterPromises
  <2>8. PlannedScheduled'
    BY <1>a, <2>5 DEF PlannedScheduled
  <2>9. QED
    BY <2>2, <2>3, <2>4, <2>5, <2>7, <2>8, InvocationStep
<1>6. ASSUME NEW w \in Workers, ComputeSlot(w) PROVE SlotsInductive'
  <2>a. PICK slot : slot = NextSlot(worker[w].found, worker[w].current)
    OBVIOUS
  <2>b. PICK r : r = [worker[w] EXCEPT !.pc = Put, !.new = slot]
    OBVIOUS
  <2>1. worker' = [worker EXCEPT ![w] = r] /\ worker'[w] = r
    BY <1>6, <2>a, <2>b DEF ComputeSlot, TypeOK
  <2>2. /\ r.pc = Put /\ r.new = slot /\ r.found = worker[w].found
        /\ r.current = worker[w].current /\ r.msg = worker[w].msg
    BY <2>b DEF TypeOK, Invocation
  <2>3. /\ \A v \in Workers : Busy(v) => v = w
        /\ worker[w].current <= clock /\ clock <= worker[w].current + MaxLag
    BY <1>6, OnlyInvocation DEF ComputeSlot, Busy
  <2>4. UNCHANGED <<clock, item, planned, task, era, eraOf>>
    BY <1>6 DEF ComputeSlot
  <2>5. worker[w].current \in Nat /\ clock \in Nat /\ worker[w].found \in Nat /\ worker[w].found # NoItem
    BY <1>6, WorkerFields DEF TypeOK, ComputeSlot, Slots
  <2>6. worker[w].found + SlotGap <= slot /\ slot \in Nat
    BY <2>3, <2>5, <2>a, NextSlotSpaced, NextSlotType
  <2>7. r.new >= r.found + SlotGap
    BY <2>2, <2>5, <2>6, SlotGapType
  <2>8. SlotAfterPromises(w)'
    BY <2>1, <2>2, <2>5, <2>7 DEF SlotAfterPromises, SlotGap
  <2>9. PlannedScheduled'
    BY <1>a, <2>4 DEF PlannedScheduled
  <2>10. QED
    BY <2>1, <2>2, <2>3, <2>4, <2>8, <2>9, InvocationStep
<1>7. ASSUME NEW w \in Workers, PutInitial(w) PROVE SlotsInductive'
  <2>a. PICK p \in Pairs : p = PairOfWorker(w)
    BY WorkerFields
  <2>b. PICK slot \in Nat : slot = worker[w].current
    BY WorkerFields
  <2>1. /\ worker[w].pc = Decide /\ worker[w].found = NoItem /\ Busy(w)
        /\ WriteSlot(w, slot) /\ UNCHANGED eraOf
    BY <1>7, <2>b DEF PutInitial, Busy
  <2>2. /\ worker[w].missed \/ item[p] = NoItem
        /\ worker[w].current <= clock /\ clock <= worker[w].current + MaxLag
    BY <2>a, <2>b, <2>1, OnlyInvocation DEF SlotAfterPromises
  <2>3. CASE worker[w].missed /\ item[p] # NoItem
    <3>a. PICK n \in Nat : n = era[p] + 1 /\ era[p] <= n
      BY DEF TypeOK
    <3>1. era' = [era EXCEPT ![p] = n]
      BY <1>7, <2>3, <2>a, <3>a DEF PutInitial
    <3>2. SlotClear(p, n, slot)
      BY <1>a, <3>a DEF ErasOrdered, Promised, TypeOK, SlotClear
    <3>3. QED
      BY <2>a, <2>b, <2>1, <3>a, <3>1, <3>2, WriteStep
  <2>4. CASE item[p] = NoItem
    <3>a. PICK n \in Nat : n = era[p] /\ era[p] <= n
      BY DEF TypeOK
    <3>1. era' = [era EXCEPT ![p] = n]
      BY <1>7, <2>4, <2>a, <3>a DEF PutInitial
    <3>2. SlotClear(p, n, slot)
      <4> SUFFICES ASSUME NEW e \in Promised(p), eraOf[e] = n
                   PROVE  planned[e] + SlotGap <= slot
        BY DEF SlotClear
      <4>1. planned[e] + WaitThreshold < clock
        BY <1>a, <2>4, <3>a DEF PromisesCovered
      <4>2. planned[e] \in Nat /\ clock \in Nat
        BY PromisedType DEF TypeOK
      <4>3. QED
        BY <2>b, <2>2, <4>1, <4>2, SchedulerAssumption DEF SlotGap
    <3>3. QED
      BY <2>a, <2>b, <2>1, <3>a, <3>1, <3>2, WriteStep
  <2>5. QED
    BY <2>2, <2>3, <2>4
<1>8. ASSUME NEW w \in Workers, PutItem(w) PROVE SlotsInductive'
  <2>a. PICK p \in Pairs : p = PairOfWorker(w)
    BY WorkerFields
  <2>b. PICK slot \in Nat : slot = worker[w].new
    BY WorkerFields
  <2>c. PICK n \in Nat : n = era[p] /\ era[p] <= n
    BY DEF TypeOK
  <2>1. /\ worker[w].pc = Put /\ Busy(w) /\ item[p] = worker[w].found
        /\ WriteSlot(w, slot) /\ UNCHANGED eraOf
        /\ worker[w].found \in Slots
    BY <1>8, <2>a, <2>b, WorkerFields DEF PutItem, Busy
  <2>2. worker[w].found # NoItem /\ slot >= worker[w].found + SlotGap
    BY <2>b, <2>1, OnlyInvocation DEF SlotAfterPromises
  <2>3. era' = [era EXCEPT ![p] = n]
    BY <1>8, <2>c DEF PutItem, TypeOK
  <2>4. SlotClear(p, n, slot)
    <3> SUFFICES ASSUME NEW e \in Promised(p), eraOf[e] = n
                 PROVE  planned[e] + SlotGap <= slot
      BY DEF SlotClear
    <3>1. planned[e] <= worker[w].found
      BY <1>a, <2>c, <2>1, <2>2 DEF PromisesCovered
    <3>2. planned[e] \in Nat /\ worker[w].found \in Nat
      BY <2>1, <2>2, PromisedType DEF Slots
    <3>3. QED
      BY <2>1, <2>2, <3>1, <3>2, SlotGapType
  <2>5. QED
    BY <2>a, <2>b, <2>c, <2>1, <2>3, <2>4, WriteStep
<1>9. ASSUME NEW w \in Workers, NEW pc \in {Fail, Return}, Goto(w, pc), Busy(w),
             UNCHANGED <<clock, item, planned, era, eraOf>>, PlannedScheduled'
      PROVE SlotsInductive'
  <2>a. PICK r : r = [worker[w] EXCEPT !.pc = pc]
    OBVIOUS
  <2>1. worker' = [worker EXCEPT ![w] = r] /\ worker'[w] = r
    BY <1>9, <2>a DEF Goto, TypeOK
  <2>2. r.pc = pc /\ r.current = worker[w].current
    BY <2>a DEF TypeOK, Invocation
  <2>3. /\ \A v \in Workers : Busy(v) => v = w
        /\ worker[w].current <= clock /\ clock <= worker[w].current + MaxLag
    BY <1>9, OnlyInvocation
  <2>4. SlotAfterPromises(w)'
    BY <2>1, <2>2 DEF SlotAfterPromises
  <2>5. QED
    BY <1>9, <2>1, <2>2, <2>3, <2>4, InvocationStep
<1>10. ASSUME NEW w \in Workers, PutItemRejected(w) \/ CallFails(w) \/ SendSuccessRejected(w)
       PROVE SlotsInductive'
  <2>1. Goto(w, Fail) /\ Busy(w) /\ UNCHANGED <<clock, item, planned, task, era, eraOf>>
    BY <1>10 DEF PutItemRejected, CallFails, SendSuccessRejected, Busy
  <2>2. PlannedScheduled'
    BY <1>a, <2>1 DEF PlannedScheduled
  <2>3. QED
    BY <1>9, <2>1, <2>2
<1>11. ASSUME NEW w \in Workers, SendFailure(w) PROVE SlotsInductive'
  <2>1. Goto(w, Return) /\ Busy(w) /\ UNCHANGED <<clock, item, planned, era, eraOf>>
    BY <1>11 DEF SendFailure, Busy
  <2>2. PlannedScheduled'
    BY <1>11, WorkerFields, FailKeepsPlanned DEF SendFailure, LiveToken
  <2>3. QED
    BY <1>9, <2>1, <2>2
<1>12. ASSUME NEW w \in Workers, MessageReturns(w) \/ DeleteMessage(w), Busy(w) PROVE SlotsInductive'
  <2>1. /\ worker' = [worker EXCEPT ![w] = NoInvocation] /\ worker'[w] = NoInvocation
        /\ UNCHANGED <<clock, item, planned, task, era, eraOf>>
    BY <1>12 DEF MessageReturns, DeleteMessage, TypeOK
  <2>2. SlotAfterPromises(w)'
    BY <2>1, NoInvocationType DEF SlotAfterPromises
  <2>3. PlannedScheduled'
    BY <1>a, <2>1 DEF PlannedScheduled
  <2>4. \A v \in Workers : Busy(v) => v = w
    BY <1>12, OnlyInvocation
  <2>5. QED
    BY <2>1, <2>2, <2>3, <2>4, NoInvocationType, InvocationStep
<1>13. ASSUME NEW w \in Workers, SendSuccess(w) PROVE SlotsInductive'
  <2>a. PICK f \in Executions, new \in Nat, p \in Pairs :
          f = worker[w].msg[1] /\ new = worker[w].new /\ p = PairOfWorker(w) /\ PairOf[f] = p
    BY WorkerFields DEF PairOfWorker
  <2>1. /\ task' = [task EXCEPT ![f] = "scheduled"] /\ planned' = [planned EXCEPT ![f] = new]
        /\ eraOf' = [eraOf EXCEPT ![f] = era[p]]
        /\ task[f] = "waiting" /\ worker[w].pc = Reply
        /\ UNCHANGED <<clock, item, era>>
    BY <1>13, <2>a DEF SendSuccess, LiveToken
  <2>2. new # NoItem
    BY SchedulerAssumption
  <2>3. /\ \A v \in Workers : Busy(v) => v = w
        /\ worker[w].current <= clock /\ clock <= worker[w].current + MaxLag
        /\ SlotAfterPromises(w)
    BY <2>1, OnlyInvocation DEF Busy
  <2>4. PICK pc \in {Return, Fail} : worker' = [worker EXCEPT ![w].pc = pc]
    BY <1>13 DEF SendSuccess, Goto
  <2>5. /\ worker'[w].pc = pc /\ worker'[w].current = worker[w].current
        /\ \A v \in Workers : v # w => worker'[v] = worker[v] /\ worker[v].pc = Idle
    BY <2>3, <2>4 DEF TypeOK, Busy, Invocation
  <2>6. /\ planned'[f] = new /\ task'[f] = "scheduled" /\ eraOf'[f] = era[p]
        /\ \A e \in Executions :
             e # f => planned'[e] = planned[e] /\ task'[e] = task[e] /\ eraOf'[e] = eraOf[e]
        /\ planned[f] = NoItem
    BY <1>a, <2>1 DEF TypeOK, PlannedScheduled
  <2>7. PlannedScheduled'
    BY <1>a, <2>1, <2>6 DEF PlannedScheduled
  <2>8. OneInvocation' /\ ReadingFresh' /\ \A v \in Workers : SlotAfterPromises(v)'
    BY <2>1, <2>3, <2>5 DEF OneInvocation, ReadingFresh, SlotAfterPromises, Busy
  <2>9. \A e \in Promised(p) : eraOf[e] = era[p] => planned[e] + SlotGap <= new
    BY <2>a, <2>1, <2>3 DEF SlotAfterPromises, Remembered
  <2>10. \A q \in Pairs : \A e \in Promised(q)' :
           \/ e = f /\ q = p
           \/ e # f /\ e \in Promised(q) /\ planned'[e] = planned[e] /\ eraOf'[e] = eraOf[e]
    BY <2>a, <2>6 DEF Promised
  <2>11. ErasOrdered'
    BY <1>a, <2>1, <2>6, <2>10 DEF ErasOrdered, TypeOK
  <2>12. SlotsSpaced'
    <3> SUFFICES ASSUME NEW q \in Pairs, NEW e \in Promised(q)', NEW g \in Promised(q)', e # g,
                        eraOf'[e] = eraOf'[g]
                 PROVE  \/ planned'[e] - planned'[g] >= SlotGap
                        \/ planned'[g] - planned'[e] >= SlotGap
      BY DEF SlotsSpaced, SlotGap
    <3>1. ASSUME NEW h \in Promised(p), eraOf[h] = era[p]
          PROVE  new - planned[h] >= SlotGap
      BY <2>9, <3>1, PromisedType, SlotGapType
    <3>2. CASE e = f
      BY <2>6, <2>10, <3>1, <3>2
    <3>3. CASE g = f
      BY <2>6, <2>10, <3>1, <3>3
    <3>4. CASE e # f /\ g # f
      BY <1>a, <2>10, <3>4 DEF SlotsSpaced
    <3>5. QED
      BY <3>2, <3>3, <3>4
  <2>13. PromisesCovered'
    <3>1. IF item[p] = NoItem THEN new + WaitThreshold < clock ELSE new <= item[p]
      BY <2>a, <2>1, <2>3 DEF SlotAfterPromises
    <3> SUFFICES ASSUME NEW q \in Pairs, NEW e \in Promised(q)', eraOf'[e] = era[q]
                 PROVE  IF item[q] = NoItem THEN planned'[e] + WaitThreshold < clock
                                            ELSE planned'[e] <= item[q]
      BY <2>1 DEF PromisesCovered
    <3>2. CASE e = f
      BY <2>6, <2>10, <3>1, <3>2
    <3>3. CASE e # f
      BY <1>a, <2>10, <3>3 DEF PromisesCovered
    <3>4. QED
      BY <3>2, <3>3
  <2>14. QED
    BY <2>7, <2>8, <2>11, <2>12, <2>13 DEF SlotsInductive
<1>14. ASSUME NEW p \in Pairs, Expire(p) PROVE SlotsInductive'
  <2>1. /\ item[p] # NoItem /\ item[p] + WaitThreshold < clock /\ item[p] \in Nat
        /\ item' = [item EXCEPT ![p] = NoItem] /\ item'[p] = NoItem
        /\ \A q \in Pairs : q # p => item'[q] = item[q]
        /\ UNCHANGED <<clock, planned, task, worker, era, eraOf>>
    BY <1>14 DEF Expire, Write, TypeOK, Slots
  <2>2. ErasOrdered' /\ SlotsSpaced' /\ \A q : Promised(q)' = Promised(q) /\ Remembered(q)' = Remembered(q)
    BY <2>1, TimesKept
  <2>3. PlannedScheduled' /\ OneInvocation' /\ ReadingFresh'
    BY <2>1 DEF SlotsInductive, PlannedScheduled, OneInvocation, ReadingFresh, Busy
  <2>4. PromisesCovered'
    <3> SUFFICES ASSUME NEW e \in Promised(p), eraOf[e] = era[p]
                 PROVE  planned[e] + WaitThreshold < clock
      BY <1>a, <2>1, <2>2 DEF PromisesCovered
    <3>1. planned[e] <= item[p]
      BY <1>a, <2>1 DEF PromisesCovered
    <3>2. QED
      BY <2>1, <3>1, PromisedType, SchedulerAssumption DEF TypeOK
  <2>5. ASSUME NEW v \in Workers PROVE SlotAfterPromises(v)'
    <3>1. SlotAfterPromises(v)
      BY DEF SlotsInductive
    <3>2. PairOfWorker(v)' = PairOfWorker(v) /\ PairOfWorker(v) \in Pairs
      BY <2>1, WorkerFields DEF PairOfWorker
    <3>3. worker[v].new \in Nat
      BY WorkerFields
    <3>4. worker[v].pc = Reply => IF item'[PairOfWorker(v)] = NoItem
                                  THEN worker[v].new + WaitThreshold < clock
                                  ELSE worker[v].new <= item'[PairOfWorker(v)]
      <4> SUFFICES ASSUME worker[v].pc = Reply, PairOfWorker(v) = p
                   PROVE  worker[v].new + WaitThreshold < clock
        BY <2>1, <3>1, <3>2 DEF SlotAfterPromises
      <4>1. worker[v].new <= item[p]
        BY <2>1, <3>1 DEF SlotAfterPromises
      <4>2. QED
        BY <2>1, <3>3, <4>1, SchedulerAssumption DEF TypeOK
    <3>5. item[PairOfWorker(v)] = NoItem => item'[PairOfWorker(v)] = NoItem
      BY <2>1, <3>2
    <3>6. QED
      BY <2>1, <2>2, <3>1, <3>2, <3>4, <3>5 DEF SlotAfterPromises, SlotGap
  <2>6. QED
    BY <2>2, <2>3, <2>4, <2>5 DEF SlotsInductive
<1>15. ASSUME NEW p \in Pairs, Converge(p) PROVE SlotsInductive'
  <2>1. PlannedScheduled'
    BY <1>a, <1>15 DEF PlannedScheduled, Converge
  <2>2. QED
    BY <1>15, <2>1, QuietStep DEF Converge
<1>16. CASE Tick
  <2>1. clock' = clock + 1 /\ UNCHANGED <<item, planned, task, worker, era, eraOf>>
    BY <1>16 DEF Tick
  <2>2. ErasOrdered' /\ SlotsSpaced' /\ \A q : Promised(q)' = Promised(q) /\ Remembered(q)' = Remembered(q)
    BY <2>1, TimesKept
  <2>3. PlannedScheduled' /\ OneInvocation'
    BY <2>1 DEF SlotsInductive, PlannedScheduled, OneInvocation, Busy
  <2>4. ReadingFresh'
    <3> SUFFICES ASSUME NEW w \in Workers, Busy(w)
                 PROVE  worker[w].current <= clock + 1 /\ clock + 1 <= worker[w].current + MaxLag
      BY <2>1 DEF ReadingFresh, Busy
    <3>1. clock - worker[w].current < MaxLag /\ worker[w].current <= clock
      BY <1>16, OnlyInvocation DEF Tick
    <3>2. QED
      BY <3>1, WorkerFields, SchedulerAssumption DEF TypeOK
  <2>5. PromisesCovered'
    <3>1. \A p \in Pairs : \A e \in Promised(p) :
            planned[e] + WaitThreshold < clock => planned[e] + WaitThreshold < clock + 1
      BY PromisedType, SchedulerAssumption DEF TypeOK
    <3>2. QED
      BY <1>a, <2>1, <2>2, <3>1 DEF PromisesCovered
  <2>6. ASSUME NEW v \in Workers PROVE SlotAfterPromises(v)'
    <3>1. SlotAfterPromises(v)
      BY DEF SlotsInductive
    <3>2. worker[v].new + WaitThreshold < clock => worker[v].new + WaitThreshold < clock'
      BY <2>1, WorkerFields, SchedulerAssumption DEF TypeOK
    <3>3. PairOfWorker(v)' = PairOfWorker(v)
      BY <2>1 DEF PairOfWorker
    <3>4. QED
      BY <2>1, <2>2, <3>1, <3>2, <3>3 DEF SlotAfterPromises, SlotGap
  <2>7. QED
    BY <2>2, <2>3, <2>4, <2>5, <2>6 DEF SlotsInductive
<1>17. CASE UNCHANGED vars
  <2>1. PlannedScheduled'
    BY <1>a, <1>17 DEF PlannedScheduled, vars
  <2>2. QED
    BY <1>17, <2>1, QuietStep DEF vars
<1>18. ASSUME NEW w \in Workers, Handle(w) \/ CallFails(w) \/ Crash(w) PROVE SlotsInductive'
  <2>1. CASE SendFailureRejected(w) \/ Crash(w) \/ DeleteMessage(w)
    BY <1>12, <2>1 DEF SendFailureRejected, Crash, DeleteMessage, Busy
  <2>2. QED
    BY <1>5, <1>6, <1>7, <1>8, <1>10, <1>11, <1>13, <1>18, <2>1 DEF Handle
<1>19. QED
  BY <1>1, <1>2, <1>3, <1>4, <1>14, <1>15, <1>16, <1>17, <1>18 DEF Next

\* The inductive invariant of the slots holds, whatever the reads return.
LEMMA SlotsHold == Spec => []SlotsInductive
<1>1. Init => SlotsInductive
  <2> SUFFICES ASSUME Init PROVE SlotsInductive
    OBVIOUS
  <2>1. \A p : Promised(p) = {}
    BY DEF Init, Promised
  <2>2. \A w \in Workers : worker[w].pc = Idle
    BY NoInvocationType DEF Init
  <2>3. PlannedScheduled
    BY DEF Init, PlannedScheduled
  <2>4. QED
    BY <2>1, <2>2, <2>3
       DEF SlotsInductive, ErasOrdered, OneInvocation, ReadingFresh, SlotAfterPromises,
           SlotsSpaced, PromisesCovered, Busy, Idle, Decide, Put, Reply
<1>2. TypeOK /\ SlotsInductive /\ [Next]_vars => SlotsInductive'
  BY SlotsStep
<1>3. QED
  BY <1>1, <1>2, TypeCorrect, PTL DEF Spec

\* Two executions of one account and region are told times at least SlotGap apart,
\* unless a first put overwrote an item unseen between them.
THEOREM Spacing == Spec => []SlotsSpaced
<1>1. SlotsInductive => SlotsSpaced
  BY DEF SlotsInductive
<1>2. QED
  BY <1>1, SlotsHold, PTL

\* Every time an execution was told stays covered by the table, until a first put
\* overwrites the item unseen.
THEOREM Coverage == Spec => []PromisesCovered
<1>1. SlotsInductive => PromisesCovered
  BY DEF SlotsInductive
<1>2. QED
  BY <1>1, SlotsHold, PTL

\* Executions that start within SlotGap seconds belong to different eras, so there
\* are no more of them than eras.
LEMMA OnePerEra ==
  ASSUME TypeOK, SlotsInductive
  PROVE  StaleReadsCost
<1> SUFFICES ASSUME NEW e \in Executions, planned[e] # NoItem
             PROVE  Cardinality(StartingWith(e)) <= 1 + era[PairOf[e]]
  BY DEF StaleReadsCost
<1>a. PICK p \in Pairs : p = PairOf[e]
  BY SchedulerAssumption
<1>b. PICK S : S = StartingWith(e)
  OBVIOUS
<1>c. PICK n \in Nat : n = era[p]
  BY DEF TypeOK
<1>1. /\ \A f \in S : f \in Promised(p) /\ planned[f] - planned[e] \in 0 .. (SlotGap - 1)
      /\ planned[e] \in Nat
  BY <1>a, <1>b DEF StartingWith, TypeOK, Slots
<1>2. \A f \in S : eraOf[f] \in 0 .. n
  <2> SUFFICES ASSUME NEW f \in S PROVE eraOf[f] \in 0 .. n
    OBVIOUS
  <2>1. f \in Executions /\ f \in Promised(p)
    BY <1>1 DEF Promised
  <2>2. eraOf[f] \in Nat /\ eraOf[f] <= n
    BY <1>c, <2>1 DEF TypeOK, SlotsInductive, ErasOrdered
  <2>3. QED
    BY <2>2
<1>3. ASSUME NEW f \in S, NEW g \in S, eraOf[f] = eraOf[g] PROVE f = g
  <2> SUFFICES ASSUME f # g PROVE FALSE
    OBVIOUS
  <2>1. \/ planned[f] - planned[g] >= SlotGap
        \/ planned[g] - planned[f] >= SlotGap
    BY <1>1, <1>3 DEF SlotsInductive, SlotsSpaced
  <2>2. planned[f] \in Nat /\ planned[g] \in Nat
    BY <1>1, PromisedType
  <2>3. /\ 0 <= planned[f] - planned[e] /\ planned[f] - planned[e] <= SlotGap - 1
        /\ 0 <= planned[g] - planned[e] /\ planned[g] - planned[e] <= SlotGap - 1
    BY <1>1, <2>2, SlotGapType
  <2>4. QED
    BY <1>1, <2>1, <2>2, <2>3, SlotGapType
<1>d. PICK h : h = [f \in S |-> eraOf[f]]
  OBVIOUS
<1>4. h \in Injection(S, 0 .. n)
  BY <1>2, <1>3, <1>d DEF Injection, IsInjective
<1>5. IsFiniteSet(0 .. n) /\ Cardinality(0 .. n) = n + 1
  BY FS_Interval
<1>6. Cardinality(S) <= n + 1
  BY <1>4, <1>5, FS_Injection
<1>7. QED
  BY <1>6, <1>a, <1>b, <1>c

\* In any SlotGap seconds one execution of an account and region starts, and one
\* more for every first put that has overwritten an item unseen.
THEOREM StaleReadsBounded == Spec => []StaleReadsCost
<1>1. TypeOK /\ SlotsInductive => StaleReadsCost
  BY OnePerEra
<1>2. QED
  BY <1>1, SlotsHold, TypeCorrect, PTL

-----------------------------------------------------------------------------
(***************************************************************************)
(* How long a burst waits, however stale the reads.                        *)
(***************************************************************************)

\* The latest time a pair's executions may have been told.
Bound(p) == clock + WaitThreshold * Cardinality(Receipts(p))

\* An invocation that has not reserved its slot yet has its own wait left below the
\* bound; the slot it computes may use it up.
KnownBound(inv) ==
  LET p == PairOf[inv.msg[1]] IN
  /\ inv.pc \in {Read, Decide, Put} =>
       \A t \in ({item[p], inv.found} \cup stale[p]) : t # NoItem => t + WaitThreshold <= Bound(p)
  /\ inv.pc \in {Put, Reply} => inv.new <= Bound(p)

\* The inductive strengthening of BurstBounded.
BurstInv ==
  /\ OneInvocation
  /\ ReadingFresh
  /\ \A p \in Pairs : IsFiniteSet(Receipts(p))
  /\ \A p \in Pairs : \A t \in ({item[p]} \cup stale[p]) : t # NoItem => t <= Bound(p)
  /\ \A w \in Workers : KnownBound(worker[w])
  /\ BurstBounded

\* The bound is a number.
LEMMA BoundType ==
  ASSUME TypeOK, NEW p \in Pairs, IsFiniteSet(Receipts(p))
  PROVE  /\ Bound(p) \in Nat
         /\ clock <= Bound(p)
<1>1. Cardinality(Receipts(p)) \in Nat /\ clock \in Nat /\ WaitThreshold \in Nat
  BY FS_CardinalityType, SchedulerAssumption DEF TypeOK
<1>2. WaitThreshold * Cardinality(Receipts(p)) \in Nat
  BY <1>1
<1>3. QED
  BY <1>1, <1>2 DEF Bound

\* Steps that receive nothing and do not wait leave it alone.
LEMMA BoundKept ==
  ASSUME UNCHANGED <<clock, receives>>, NEW p \in Pairs
  PROVE  Bound(p)' = Bound(p) /\ Receipts(p)' = Receipts(p)
BY DEF Bound, Receipts

\* A receive is one more for its pair.
LEMMA BoundReceive ==
  ASSUME TypeOK, NEW m \in Messages, receives' = [receives EXCEPT ![m] = @ + 1], clock' = clock,
         NEW p \in Pairs, IsFiniteSet(Receipts(p))
  PROVE  /\ IsFiniteSet(Receipts(p))'
         /\ p = PairOf[m[1]] => Bound(p)' = Bound(p) + WaitThreshold
         /\ p # PairOf[m[1]] => Bound(p)' = Bound(p)
<1>1. /\ receives \in [Messages -> Nat] /\ receives'[m] = receives[m] + 1
      /\ \A k \in Messages : k # m => receives'[k] = receives[k]
  BY DEF TypeOK
<1>2. CASE p = PairOf[m[1]]
  <2> DEFINE new == <<m, receives[m] + 1>>
  <2>1. Receipts(p)' = Receipts(p) \cup {new}
    <3>1. 1 .. (receives[m] + 1) = (1 .. receives[m]) \cup {receives[m] + 1}
      BY <1>1
    <3>2. {m} \X (1 .. (receives[m] + 1)) = ({m} \X (1 .. receives[m])) \cup {new}
      BY <3>1
    <3>3. \A x : x \in Receipts(p) <=> \E k \in Messages : PairOf[k[1]] = p /\ x \in {k} \X (1 .. receives[k])
      BY DEF Receipts
    <3>4. \A x : x \in Receipts(p)' <=> \E k \in Messages : PairOf[k[1]] = p /\ x \in {k} \X (1 .. receives'[k])
      BY DEF Receipts
    <3>5. \A k \in Messages : k # m => {k} \X (1 .. receives'[k]) = {k} \X (1 .. receives[k])
      BY <1>1
    <3>6. {m} \X (1 .. receives'[m]) = ({m} \X (1 .. receives[m])) \cup {new}
      BY <1>1, <3>2
    <3> HIDE DEF new
    <3>7. QED
      BY <1>2, <3>3, <3>4, <3>5, <3>6
  <2>2. new \notin Receipts(p)
    BY <1>1 DEF Receipts
  <2>3. IsFiniteSet(Receipts(p)') /\ Cardinality(Receipts(p)') = Cardinality(Receipts(p)) + 1
    BY <2>1, <2>2, FS_AddElement
  <2>4. Cardinality(Receipts(p)) \in Nat /\ clock \in Nat /\ WaitThreshold \in Nat
    BY FS_CardinalityType, SchedulerAssumption DEF TypeOK
  <2>5. WaitThreshold * (Cardinality(Receipts(p)) + 1) = WaitThreshold * Cardinality(Receipts(p)) + WaitThreshold
    BY <2>4
  <2>6. QED
    BY <1>2, <2>3, <2>4, <2>5 DEF Bound
<1>3. CASE p # PairOf[m[1]]
  <2>1. \A k \in Messages : PairOf[k[1]] = p => receives'[k] = receives[k]
    BY <1>1, <1>3
  <2>2. Receipts(p)' = Receipts(p)
    BY <2>1 DEF Receipts
  <2>3. QED
    BY <1>3, <2>2 DEF Bound
<1>4. QED
  BY <1>2, <1>3

\* The slot computed from one that is a wait below the bound.
LEMMA NextSlotBounded ==
  ASSUME NEW found \in Nat, NEW current \in Nat, NEW bound \in Nat, clock \in Nat,
         current <= clock, clock <= bound, found + WaitThreshold <= bound
  PROVE  NextSlot(found, current) <= bound
BY SchedulerAssumption DEF NextSlot

\* A step of one invocation, which may write the table and promise a time: it receives
\* nothing, and what it writes and promises is within the bound.
LEMMA BurstInvocationStep ==
  ASSUME TypeOK, BurstInv, NEW w \in Workers, NEW r, Busy(w),
         worker' = [worker EXCEPT ![w] = r],
         r.pc # Idle => r.current = worker[w].current,
         UNCHANGED <<clock, receives>>,
         \A p \in Pairs : \A t \in ({item'[p]} \cup stale'[p]) : t # NoItem => t <= Bound(p),
         KnownBound(r)',
         \A e \in Executions : planned'[e] # NoItem => planned'[e] <= Bound(PairOf[e])
  PROVE  BurstInv'
<1>1. \A p \in Pairs : Bound(p)' = Bound(p) /\ Receipts(p)' = Receipts(p)
  BY BoundKept
<1>2. \A v \in Workers : Busy(v) => v = w
  BY DEF BurstInv, OneInvocation
<1>3. \A v \in Workers : v # w => worker'[v] = worker[v] /\ worker'[v].pc = Idle
  BY <1>2 DEF TypeOK, Busy
<1>4. worker'[w] = r
  BY DEF TypeOK
<1>5. OneInvocation'
  BY <1>3 DEF OneInvocation, Busy
<1>6. ReadingFresh'
  BY <1>3, <1>4 DEF ReadingFresh, Busy, BurstInv
<1>7. ASSUME NEW v \in Workers PROVE KnownBound(worker[v])'
  <2>1. CASE v = w
    BY <1>4, <2>1 DEF KnownBound
  <2>2. CASE v # w
    BY <1>3, <2>2 DEF KnownBound, Idle, Read, Decide, Put, Reply
  <2>3. QED
    BY <2>1, <2>2
<1>8. BurstBounded'
  BY <1>1, SchedulerAssumption DEF BurstBounded, Bound
<1>9. QED
  BY <1>1, <1>5, <1>6, <1>7, <1>8 DEF BurstInv

\* No step breaks it.
LEMMA BurstStep ==
  ASSUME TypeOK, TypeOK', BurstInv, [Next]_vars
  PROVE  BurstInv'
<1> USE DEF Idle, Read, Decide, Put, Reply, Fail, Return
<1>a. /\ clock \in Nat /\ worker \in [Workers -> Invocation] /\ planned \in [Executions -> Slots]
      /\ item \in [Pairs -> Slots] /\ stale \in [Pairs -> SUBSET Slots]
      /\ WaitThreshold \in Nat /\ MaxLag \in Nat
      /\ \A e \in Executions : PairOf[e] \in Pairs
  BY SchedulerAssumption DEF TypeOK
<1>b. /\ \A p \in Pairs : Bound(p) \in Nat /\ clock <= Bound(p)
      /\ \A p \in Pairs : \A t \in ({item[p]} \cup stale[p]) : t # NoItem => t \in Nat /\ t <= Bound(p)
      /\ \A e \in Executions : planned[e] # NoItem => planned[e] <= Bound(PairOf[e])
      /\ \A w \in Workers : KnownBound(worker[w])
      /\ \A v, w \in Workers : Busy(v) /\ Busy(w) => v = w
      /\ \A w \in Workers : Busy(w) => worker[w].current <= clock
  BY <1>a, BoundType DEF BurstInv, BurstBounded, Bound, OneInvocation, ReadingFresh, Slots
<1>c. ASSUME UNCHANGED <<clock, item, stale, receives, planned, worker>>
      PROVE  BurstInv'
  BY <1>c, BoundKept DEF BurstInv, BurstBounded, OneInvocation, ReadingFresh, KnownBound, Busy, Bound, Receipts
<1>1. ASSUME NEW e \in Executions, SendTaskToken(e) \/ SendTaskTokenFails(e) \/ AbortExecution(e)
      PROVE  BurstInv'
  BY <1>1, <1>c DEF SendTaskToken, SendTaskTokenFails, AbortExecution
<1>2. ASSUME NEW w \in Workers, NEW r \in Invocation, Busy(w), worker' = [worker EXCEPT ![w] = r],
             r.pc \in {Idle, Fail, Return}, r.pc # Idle => r.current = worker[w].current,
             UNCHANGED <<clock, item, stale, receives, planned>>
      PROVE  BurstInv'
  <2>1. KnownBound(r)'
    BY <1>2 DEF KnownBound
  <2>2. QED
    BY <1>2, <1>b, <2>1, BurstInvocationStep
<1>3. ASSUME NEW w \in Workers, GetItem(w)
      PROVE  BurstInv'
  <2>a. PICK p \in Pairs : p = PairOfWorker(w)
    BY WorkerFields
  <2>1. PICK value \in ({item[p]} \cup stale[p]), missed \in BOOLEAN :
          /\ missed = (value = NoItem /\ item[p] # NoItem)
          /\ worker' = [worker EXCEPT ![w].pc = Decide, ![w].found = value, ![w].missed = missed]
    BY <1>3, <2>a DEF GetItem
  <2>b. PICK r : r = [worker[w] EXCEPT !.pc = Decide, !.found = value, !.missed = missed]
    OBVIOUS
  <2>2. /\ r.pc = Decide /\ r.current = worker[w].current /\ r.msg = worker[w].msg /\ r.found = value
        /\ Busy(w) /\ worker[w].pc = Read
        /\ UNCHANGED <<clock, item, stale, receives, planned>>
    BY <1>3, <1>a, <2>b, WorkerFields DEF GetItem, Busy, Invocation
  <2>3. worker' = [worker EXCEPT ![w] = r]
    BY <2>1, <2>b
  <2>4. KnownBound(r)'
    <3>1. Bound(p)' = Bound(p)
      BY <2>2, BoundKept
    <3>2. \A t \in ({item[p], value} \cup stale[p]) : t # NoItem => t + WaitThreshold <= Bound(p)
      BY <1>b, <2>a, <2>2 DEF KnownBound, PairOfWorker
    <3>3. p = PairOf[worker[w].msg[1]]
      BY <2>a DEF PairOfWorker
    <3>4. QED
      BY <2>2, <3>1, <3>2, <3>3 DEF KnownBound
  <2>5. QED
    BY <2>2, <2>3, <2>4, <1>b, BurstInvocationStep
<1>4. ASSUME NEW w \in Workers, ComputeSlot(w)
      PROVE  BurstInv'
  <2>a. PICK p \in Pairs : p = PairOfWorker(w)
    BY WorkerFields
  <2>b. PICK slot : slot = NextSlot(worker[w].found, worker[w].current)
    OBVIOUS
  <2>c. PICK r : r = [worker[w] EXCEPT !.pc = Put, !.new = slot]
    OBVIOUS
  <2>1. /\ worker' = [worker EXCEPT ![w] = r]
        /\ Busy(w) /\ worker[w].pc = Decide
        /\ worker[w].found \in Nat /\ worker[w].current \in Nat
        /\ UNCHANGED <<clock, item, stale, receives, planned>>
    BY <1>4, <1>a, <2>b, <2>c, WorkerFields DEF ComputeSlot, Busy, Slots
  <2>2. /\ r.pc = Put /\ r.current = worker[w].current /\ r.msg = worker[w].msg
        /\ r.found = worker[w].found /\ r.new = slot
    BY <1>a, <2>c DEF Invocation
  <2>3. \A t \in ({item[p], worker[w].found} \cup stale[p]) : t # NoItem => t + WaitThreshold <= Bound(p)
    BY <1>b, <2>a, <2>1 DEF KnownBound, PairOfWorker
  <2>4. slot <= Bound(p)
    <3>1. worker[w].found + WaitThreshold <= Bound(p) /\ worker[w].current <= clock
      BY <1>b, <2>1, <2>3, SchedulerAssumption
    <3>2. QED
      BY <1>a, <1>b, <2>b, <2>1, <3>1, NextSlotBounded
  <2>5. p = PairOf[worker[w].msg[1]] /\ Bound(p)' = Bound(p)
    BY <2>a, <2>1, BoundKept DEF PairOfWorker
  <2>6. KnownBound(r)'
    BY <2>1, <2>2, <2>3, <2>4, <2>5 DEF KnownBound
  <2>7. QED
    BY <2>1, <2>2, <2>6, <1>b, BurstInvocationStep
<1>5. ASSUME NEW w \in Workers, PutInitial(w) \/ PutItem(w)
      PROVE  BurstInv'
  <2>a. PICK p \in Pairs : p = PairOfWorker(w)
    BY WorkerFields
  <2>1. PICK slot \in Nat, pc \in {Reply, Fail} :
          /\ Write(p, slot)
          /\ worker' = [worker EXCEPT ![w] = [worker[w] EXCEPT !.pc = pc, !.new = slot]]
          /\ slot <= Bound(p)
    <3>1. CASE PutInitial(w)
      <4>1. Busy(w) /\ worker[w].current \in Nat
        BY <3>1, WorkerFields DEF PutInitial, Busy
      <4>2. worker[w].current <= Bound(p)
        BY <1>a, <1>b, <4>1
      <4>3. QED
        BY <2>a, <3>1, <4>1, <4>2 DEF PutInitial, WriteSlot
    <3>2. CASE PutItem(w)
      <4>1. Busy(w) /\ worker[w].new \in Nat /\ worker[w].pc = Put
        BY <3>2, WorkerFields DEF PutItem, Busy
      <4>2. worker[w].new <= Bound(p)
        BY <1>b, <2>a, <4>1 DEF KnownBound, PairOfWorker
      <4>3. QED
        BY <2>a, <3>2, <4>1, <4>2 DEF PutItem, WriteSlot
    <3>3. QED
      BY <1>5, <3>1, <3>2
  <2>b. PICK r : r = [worker[w] EXCEPT !.pc = pc, !.new = slot]
    OBVIOUS
  <2>2. /\ worker' = [worker EXCEPT ![w] = r]
        /\ r.pc = pc /\ r.current = worker[w].current /\ r.msg = worker[w].msg /\ r.new = slot
        /\ Busy(w)
        /\ UNCHANGED <<clock, receives, planned>>
    BY <1>5, <2>1, <1>a, <2>b, WorkerFields DEF PutInitial, PutItem, WriteSlot, Busy, Invocation
  <2>3. p = PairOf[worker[w].msg[1]] /\ Bound(p)' = Bound(p)
    BY <2>a, <2>2, BoundKept DEF PairOfWorker
  <2>4. KnownBound(r)'
    BY <2>1, <2>2, <2>3 DEF KnownBound
  <2>5. \A q \in Pairs : \A t \in ({item'[q]} \cup stale'[q]) : t # NoItem => t <= Bound(q)
    BY <1>a, <1>b, <2>1, <2>2 DEF Write
  <2>6. QED
    BY <2>2, <2>4, <2>5, <1>b, BurstInvocationStep
<1>6. ASSUME NEW w \in Workers, SendSuccess(w)
      PROVE  BurstInv'
  <2>a. PICK e \in Executions : e = worker[w].msg[1]
    BY WorkerFields
  <2>1. PICK pc \in {Return, Fail} : worker' = [worker EXCEPT ![w] = [worker[w] EXCEPT !.pc = pc]]
    BY <1>6 DEF SendSuccess, Goto
  <2>b. PICK r : r = [worker[w] EXCEPT !.pc = pc]
    OBVIOUS
  <2>2. /\ worker' = [worker EXCEPT ![w] = r]
        /\ r.pc = pc /\ r.current = worker[w].current
        /\ Busy(w) /\ worker[w].pc = Reply
        /\ planned' = [planned EXCEPT ![e] = worker[w].new]
        /\ UNCHANGED <<clock, item, stale, receives>>
    BY <1>6, <2>1, <1>a, <2>a, <2>b, WorkerFields DEF SendSuccess, Busy, Invocation
  <2>3. worker[w].new <= Bound(PairOf[e])
    BY <1>b, <2>a, <2>2 DEF KnownBound
  <2>4. KnownBound(r)'
    BY <2>2 DEF KnownBound
  <2>5. \A f \in Executions : planned'[f] # NoItem => planned'[f] <= Bound(PairOf[f])
    BY <1>a, <1>b, <2>2, <2>3
  <2>6. QED
    BY <2>2, <2>4, <2>5, <1>b, BurstInvocationStep
<1>7. ASSUME NEW w \in Workers,
             \/ PutItemRejected(w) \/ SendSuccessRejected(w) \/ SendFailure(w) \/ CallFails(w)
      PROVE  BurstInv'
  <2>1. PICK pc \in {Fail, Return} : worker' = [worker EXCEPT ![w] = [worker[w] EXCEPT !.pc = pc]]
    BY <1>7 DEF PutItemRejected, SendSuccessRejected, SendFailure, CallFails, Goto
  <2>a. PICK r : r = [worker[w] EXCEPT !.pc = pc]
    OBVIOUS
  <2>2. /\ r \in Invocation /\ r.pc = pc /\ r.current = worker[w].current
        /\ Busy(w) /\ UNCHANGED <<clock, item, stale, receives, planned>>
    BY <1>7, <1>a, <2>a DEF PutItemRejected, SendSuccessRejected, SendFailure, CallFails, Busy, Invocation
  <2>3. worker' = [worker EXCEPT ![w] = r]
    BY <2>1, <2>a
  <2>4. QED
    BY <1>2, <2>2, <2>3
<1>8. ASSUME NEW w \in Workers, SendFailureRejected(w) \/ Crash(w) \/ DeleteMessage(w)
      PROVE  BurstInv'
  <2>1. Busy(w) /\ worker' = [worker EXCEPT ![w] = NoInvocation]
        /\ UNCHANGED <<clock, item, stale, receives, planned>>
    BY <1>8 DEF SendFailureRejected, Crash, DeleteMessage, MessageReturns, Busy
  <2>2. QED
    BY <1>2, <2>1, NoInvocationType
<1>9. ASSUME NEW w \in Workers, NEW m \in Messages, Receive(w, m)
      PROVE  BurstInv'
  <2> DEFINE p == PairOf[m[1]]
  <2>a. PICK r : r = [pc |-> Read, msg |-> m, current |-> clock, found |-> NoItem, new |-> 0,
                    missed |-> FALSE]
    OBVIOUS
  <2>1. /\ \A v \in Workers : ~Busy(v)
        /\ worker' = [worker EXCEPT ![w] = r]
        /\ receives' = [receives EXCEPT ![m] = @ + 1]
        /\ UNCHANGED <<clock, item, stale, planned>>
    BY <1>9, <2>a DEF Receive
  <2>2. \A q \in Pairs : /\ IsFiniteSet(Receipts(q))'
                         /\ q = p => Bound(q)' = Bound(q) + WaitThreshold
                         /\ q # p => Bound(q)' = Bound(q)
    BY <2>1, BoundReceive DEF BurstInv
  <2>3. p \in Pairs
    BY <1>a DEF Messages
  <2>4. \A q \in Pairs : Bound(q) <= Bound(q)'
    BY <1>a, <1>b, <2>2
  <2>5. \A t \in ({item'[p], r.found} \cup stale'[p]) : t # NoItem => t + WaitThreshold <= Bound(p)'
    BY <1>a, <1>b, <2>a, <2>1, <2>2, <2>3
  <2>6. KnownBound(r)'
    BY <2>a, <2>5 DEF KnownBound
  <2>7. /\ worker'[w] = r /\ r.current = clock
        /\ \A v \in Workers : v # w => worker'[v] = worker[v] /\ worker'[v].pc = Idle
    BY <1>a, <2>a, <2>1 DEF Busy
  <2> HIDE DEF p
  <2>8. OneInvocation'
    BY <2>7 DEF OneInvocation, Busy
  <2>9. ReadingFresh'
    BY <1>a, <2>1, <2>7 DEF ReadingFresh, Busy
  <2>10. ASSUME NEW v \in Workers PROVE KnownBound(worker[v])'
    <3>1. CASE v = w
      BY <2>6, <2>7, <3>1 DEF KnownBound
    <3>2. CASE v # w
      BY <2>7, <3>2 DEF KnownBound
    <3>3. QED
      BY <3>1, <3>2
  <2>11. \A q \in Pairs : \A t \in ({item'[q]} \cup stale'[q]) : t # NoItem => t <= Bound(q)'
    <3> SUFFICES ASSUME NEW q \in Pairs, NEW t \in ({item[q]} \cup stale[q]), t # NoItem
                 PROVE  t <= Bound(q)'
      BY <2>1
    <3>1. t \in Nat /\ t <= Bound(q) /\ Bound(q) \in Nat
      BY <1>b
    <3>2. Bound(q)' = Bound(q) \/ Bound(q)' = Bound(q) + WaitThreshold
      BY <2>2
    <3>3. QED
      BY <1>a, <3>1, <3>2
  <2>12. \A e \in Executions : planned'[e] # NoItem => planned'[e] <= Bound(PairOf[e])'
    <3> SUFFICES ASSUME NEW e \in Executions, planned[e] # NoItem
                 PROVE  planned[e] <= Bound(PairOf[e])'
      BY <2>1
    <3>1. planned[e] \in Nat /\ planned[e] <= Bound(PairOf[e]) /\ Bound(PairOf[e]) \in Nat
      BY <1>a, <1>b DEF Slots
    <3>2. Bound(PairOf[e])' = Bound(PairOf[e]) \/ Bound(PairOf[e])' = Bound(PairOf[e]) + WaitThreshold
      BY <1>a, <2>2
    <3>3. QED
      BY <1>a, <3>1, <3>2
  <2>13. BurstBounded'
    BY <2>12 DEF BurstBounded, Bound
  <2>14. QED
    BY <2>2, <2>8, <2>9, <2>10, <2>11, <2>13 DEF BurstInv
<1>10. ASSUME NEW m \in Messages, Redeliver(m)
       PROVE  BurstInv'
  BY <1>10, <1>c DEF Redeliver
<1>11. ASSUME NEW p \in Pairs, Expire(p) \/ Converge(p)
       PROVE  BurstInv'
  <2>1. /\ UNCHANGED <<clock, receives, planned, worker>>
        /\ \A q \in Pairs : \A t \in ({item'[q]} \cup stale'[q]) : t \in ({item[q], NoItem} \cup stale[q])
    BY <1>11, <1>a DEF Expire, Converge, Write
  <2>2. \A q \in Pairs : Bound(q)' = Bound(q) /\ Receipts(q)' = Receipts(q)
    BY <2>1, BoundKept
  <2>3. ASSUME NEW w \in Workers PROVE KnownBound(worker[w])'
    <3>1. KnownBound(worker[w]) /\ worker'[w] = worker[w] /\ PairOf[worker[w].msg[1]] \in Pairs
      BY <1>b, <2>1, WorkerFields, SchedulerAssumption
    <3>2. QED
      BY <2>1, <2>2, <3>1 DEF KnownBound
  <2>4. OneInvocation' /\ ReadingFresh' /\ BurstBounded'
    BY <1>a, <1>b, <2>1, <2>2 DEF BurstInv, OneInvocation, ReadingFresh, Busy, BurstBounded, Bound
  <2>5. \A q \in Pairs : \A t \in ({item'[q]} \cup stale'[q]) : t # NoItem => t <= Bound(q)'
    BY <1>b, <2>1, <2>2
  <2>6. QED
    BY <2>2, <2>3, <2>4, <2>5 DEF BurstInv
<1>12. CASE Tick
  <2>1. /\ clock' = clock + 1 /\ UNCHANGED <<item, stale, receives, planned, worker>>
        /\ \A w \in Workers : Busy(w) => clock - worker[w].current < MaxLag
    BY <1>12 DEF Tick
  <2>2. \A q \in Pairs : Bound(q)' = Bound(q) + 1 /\ Receipts(q)' = Receipts(q)
    <3> SUFFICES ASSUME NEW q \in Pairs PROVE Bound(q)' = Bound(q) + 1 /\ Receipts(q)' = Receipts(q)
      OBVIOUS
    <3>1. Receipts(q)' = Receipts(q) /\ Cardinality(Receipts(q)) \in Nat
      BY <2>1, FS_CardinalityType DEF Receipts, BurstInv
    <3>2. WaitThreshold * Cardinality(Receipts(q)) \in Nat
      BY <1>a, <3>1
    <3>3. QED
      BY <1>a, <2>1, <3>1, <3>2 DEF Bound
  <2>3. ASSUME NEW w \in Workers PROVE KnownBound(worker[w])'
    <3> DEFINE q == PairOf[worker[w].msg[1]]
    <3>1. /\ KnownBound(worker[w]) /\ worker'[w] = worker[w] /\ q \in Pairs
          /\ worker[w].found \in Slots /\ worker[w].new \in Nat
      BY <1>b, <2>1, WorkerFields, SchedulerAssumption
    <3>2. \A t \in Nat : t + WaitThreshold <= Bound(q) => t + WaitThreshold <= Bound(q)'
      BY <1>a, <1>b, <2>2, <3>1
    <3>3. worker[w].new <= Bound(q) => worker[w].new <= Bound(q)'
      BY <1>b, <2>2, <3>1
    <3>4. \A t \in ({item[q], worker[w].found} \cup stale[q]) : t # NoItem => t \in Nat
      BY <1>b, <3>1 DEF Slots
    <3>5. item'[q] = item[q] /\ stale'[q] = stale[q]
      BY <2>1
    <3> HIDE DEF q
    <3>6. QED
      BY <3>1, <3>2, <3>3, <3>4, <3>5 DEF KnownBound, q
  <2>4. ReadingFresh'
    BY <1>a, <1>b, <2>1, WorkerFields DEF ReadingFresh, BurstInv, Busy
  <2>5. \A q \in Pairs : \A t \in ({item'[q]} \cup stale'[q]) : t # NoItem => t <= Bound(q)'
    BY <1>b, <2>1, <2>2
  <2>6. \A e \in Executions : planned'[e] # NoItem => planned'[e] <= Bound(PairOf[e])'
    BY <1>a, <1>b, <2>1, <2>2 DEF Slots
  <2>7. OneInvocation'
    BY <1>b, <2>1 DEF OneInvocation, Busy
  <2>8. QED
    BY <2>2, <2>3, <2>4, <2>5, <2>6, <2>7 DEF BurstInv, BurstBounded, Bound
<1>13. CASE UNCHANGED vars
  BY <1>13, <1>c DEF vars
<1>14. QED
  BY <1>1, <1>3, <1>4, <1>5, <1>6, <1>7, <1>8, <1>9, <1>10, <1>11, <1>12, <1>13 DEF Next, Handle

\* Nobody is told to wait longer than WaitThreshold for every message received so far for
\* the same account and region, even when reads are stale: a slot that a failed
\* invocation has reserved costs one wait and no more.
THEOREM BurstsAreBounded == Spec => []BurstBounded
<1>1. Init => BurstInv
  <2> SUFFICES ASSUME Init PROVE BurstInv
    OBVIOUS
  <2>1. \A p \in Pairs : Receipts(p) = {}
    BY DEF Init, Receipts
  <2>2. \A w \in Workers : worker[w].pc = Idle
    BY NoInvocationType DEF Init
  <2>3. \A p \in Pairs : item[p] = NoItem /\ stale[p] = {}
    BY DEF Init
  <2>4. \A e \in Executions : planned[e] = NoItem
    BY DEF Init
  <2>5. QED
    BY <2>1, <2>2, <2>3, <2>4, FS_EmptySet
       DEF BurstInv, OneInvocation, ReadingFresh, Busy, KnownBound, BurstBounded,
           Idle, Read, Decide, Put, Reply
<1>2. TypeOK /\ TypeOK' /\ BurstInv /\ [Next]_vars => BurstInv'
  BY BurstStep
<1>3. BurstInv => BurstBounded
  BY DEF BurstInv
<1>4. QED
  BY <1>1, <1>2, <1>3, TypeCorrect, PTL DEF Spec
=============================================================================
