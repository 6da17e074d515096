------------------------- MODULE ExecutionLoopProofs -------------------------
(***************************************************************************)
(* Theorems about ExecutionLoop, for any jobs, triggers, timezones,        *)
(* policies, number of slots and sequence of API calls.                    *)
(***************************************************************************)
EXTENDS ExecutionLoop, FiniteSetTheorems, TLAPS

-----------------------------------------------------------------------------
(***************************************************************************)
(* The heap as a bag.                                                      *)
(***************************************************************************)
\* Bag addition and removal of single copies, on bags of heap entries.
LEMMA AddToBag ==
    ASSUME NEW B, IsABag(B), NEW S
    PROVE  /\ IsABag(B (+) SetToBag(S))
           /\ BagToSet(B (+) SetToBag(S)) = BagToSet(B) \cup S
  BY DEF IsABag, BagToSet, SetToBag, (+)

LEMMA RemoveFromBag ==
    ASSUME NEW B, IsABag(B), NEW x
    PROVE  /\ IsABag(B (-) SetToBag({x}))
           /\ BagToSet(B (-) SetToBag({x})) \subseteq BagToSet(B)
           /\ BagToSet(B) \ {x} \subseteq BagToSet(B (-) SetToBag({x}))
  BY DEF IsABag, BagToSet, SetToBag, (-)

\* What _peek_valid leaves of the heap: less, but every live entry.
LEMMA PeekKeepsLive ==
    ASSUME SchedulingTypeOK
    PROVE  /\ IsABag(Peeked)
           /\ BagToSet(Peeked) \subseteq BagToSet(queue)
           /\ LiveEntries \subseteq BagToSet(Peeked)
<1>1. ASSUME NEW e \in Entry
      PROVE  ~Before(e, e)
  <2>1. e.when \in Nat /\ e.generation \in Nat /\ e.job \in Nat /\ e.attempt \in Nat
    BY JobsAssumption DEF Entry
  <2>2. QED
    BY <2>1 DEF Before
<1>2. QED
  BY <1>1 DEF SchedulingTypeOK, Peeked, IsABag, BagToSet, LiveEntries

LEMMA PopKeepsLive ==
    ASSUME SchedulingTypeOK, NEW e
    PROVE  /\ IsABag(Popped(e))
           /\ BagToSet(Popped(e)) \subseteq BagToSet(queue)
           /\ LiveEntries \ {e} \subseteq BagToSet(Popped(e))
  BY PeekKeepsLive, RemoveFromBag DEF Popped

\* What is pushed on the heap, and the heap after it.
LEMMA NextEntriesType ==
    ASSUME now \in Time, NEW j \in Jobs, NEW attempt \in Nat, NEW generation \in Nat
    PROVE  /\ NextEntries(j, attempt, generation) \subseteq Entry
           /\ \A e \in NextEntries(j, attempt, generation) :
                e.job = j /\ e.generation = generation
  BY OccurrenceAssumption DEF NextEntries, Entry, NoTime

LEMMA RetryEntriesType ==
    ASSUME now \in Time, generations \in [Jobs -> Nat], NEW j \in Jobs, NEW attempt \in Nat
    PROVE  /\ RetryEntries(j, attempt) \subseteq Entry
           /\ \A e \in RetryEntries(j, attempt) :
                e.job = j /\ e.generation = CurrentGeneration(j)
<1>1. CurrentGeneration(j) \in Nat
  BY DEF CurrentGeneration
<1>2. \/ RetryEntries(j, attempt) = NextEntries(j, attempt + 1, CurrentGeneration(j))
      \/ RetryEntries(j, attempt) = NextEntries(j, 1, CurrentGeneration(j))
      \/ /\ RetryPolicy[j].retryInterval \in Nat
         /\ RetryEntries(j, attempt) =
              {[when |-> now + RetryPolicy[j].retryInterval,
                generation |-> CurrentGeneration(j), job |-> j,
                attempt |-> attempt + 1]}
  BY PolicyAssumption DEF RetryEntries
<1>3. QED
  BY <1>1, <1>2, NextEntriesType DEF Entry, Time

LEMMA PushType ==
    ASSUME SchedulingTypeOK, NEW S, S \subseteq Entry, Push(S)
    PROVE  /\ IsABag(queue')
           /\ BagToSet(queue') = BagToSet(queue) \cup S
           /\ BagToSet(queue') \subseteq Entry
  BY AddToBag DEF Push, SchedulingTypeOK

LEMMA RefreshType ==
    ASSUME SchedulingTypeOK, now \in Time,
           NEW S, S \subseteq Jobs, NEW gone, RefreshAfterDeleting(S, gone)
    PROVE  /\ IsABag(queue') /\ BagToSet(queue') \subseteq Entry
           /\ generations' \in [Jobs -> Nat]
           /\ active' \subseteq Jobs
           /\ lastRefresh' \in [Jobs -> Int]
           /\ signalled' \in {signalled, signalled \cup Waiting}
<1> DEFINE gens == [j \in Jobs |-> IF j \in gone THEN 0 ELSE generations[j]]
           Pushed == UNION {NextEntries(j, 1, gens[j] + 1) : j \in S}
<1>1. gens \in [Jobs -> Nat]
  BY DEF SchedulingTypeOK
<1>2. Pushed \subseteq Entry
  <2>1. \A j \in S : NextEntries(j, 1, gens[j] + 1) \subseteq Entry
    BY <1>1, NextEntriesType
  <2>2. QED
    BY <2>1
<1>3. Push(Pushed)
  BY DEF RefreshAfterDeleting
<1>4. IsABag(queue') /\ BagToSet(queue') \subseteq Entry
  BY <1>2, <1>3, PushType
<1>5. generations' \in [Jobs -> Nat]
  BY <1>1 DEF RefreshAfterDeleting
<1>6. active' \subseteq Jobs
  BY DEF RefreshAfterDeleting, SchedulingTypeOK
<1>7. \A j \in Jobs : LocalDate(j, now) \in Int
  BY DayAssumption DEF LocalDate, Time
<1>8. lastRefresh' \in [Jobs -> Int]
  BY <1>7 DEF RefreshAfterDeleting, SchedulingTypeOK, NoTime
<1>9. signalled' \in {signalled, signalled \cup Waiting}
  BY <1>3 DEF Push, WakeIf, SetWake
<1>10. QED
  BY <1>4, <1>5, <1>6, <1>8, <1>9

-----------------------------------------------------------------------------
(***************************************************************************)
(* Type correctness.  Outside of the TaskGroup no coroutine exists, so that *)
(* run() creates its coroutines while none waits on the event.             *)
(***************************************************************************)
RunStages ==
    /\ runPc # "running" => \A c \in Coroutines : pc[c] \in {"none", "done"}
    /\ runPc \in {"cancelled", "raised"} => "cancel_gather" \in ApiCalls

Typed == TypeOK /\ RunStages

\* The steps from one stage of run()'s end to the next.
Unwind == RunGathers \/ RunReturns \/ RunRaises \/ CancelGather

\* A task's step from one await to the next keeps every type.
LEMMA TaskStepTyped ==
    ASSUME Typed, NEW t \in TaskIds, Execute(t)
    PROVE  Typed'
<1> USE DEF Typed, TypeOK
<1> DEFINE Rec == [job: Jobs, attempt: Nat, status: Status]
<1>1. /\ tasks[t] \in Task
      /\ UNCHANGED <<now, running, pc, waitFor, registry, generations, active, lastRefresh, runPc>>
  BY DEF Execute, TaskStep, StartRemoved, StartMissed, StartConditions,
         ConditionsPass, ConditionsFail, JobSucceeds, JobFails, JobCancelled,
         CancelledIn, CancelledByGather,
         InPhase, UnchangedByTasks, ExecutionTypeOK
<1>2. /\ tasks[t].job \in Jobs /\ tasks[t].attempt \in Nat
      /\ tasks[t].generation \in Nat /\ tasks[t].scheduledFor \in Nat
  BY <1>1 DEF Task
<1>3. CurrentGeneration(tasks[t].job) \in Nat
  BY <1>2 DEF CurrentGeneration, SchedulingTypeOK
<1>4. ASSUME NEW status \in Status, Record(t, status)
      PROVE  history' \in Seq(Rec)
  <2> DEFINE rec == [job |-> tasks[t].job, attempt |-> tasks[t].attempt, status |-> status]
             longer == Append(history, rec)
  <2>1. rec \in Rec /\ history \in Seq(Rec)
    BY <1>2 DEF ExecutionTypeOK
  <2>2. longer \in Seq(Rec) /\ longer # <<>>
    BY <2>1
  <2> HIDE DEF Rec, longer
  <2>3. Tail(longer) \in Seq(Rec)
    BY <2>2
  <2>4. history' = longer \/ history' = Tail(longer)
    BY <1>4 DEF Record, longer
  <2>5. QED
    BY <2>2, <2>3, <2>4
<1>5. ASSUME EndTask(t)
      PROVE  /\ tasks' \in [TaskIds -> Task \cup {NoTask}]
             /\ available' \in 0 .. MaxConcurrency
  BY <1>5, ConcurrencyAssumption DEF EndTask, Released, ExecutionTypeOK
<1>6. /\ queue' = queue \/ \E S : S \subseteq Entry /\ Push(S)
      /\ signalled' = signalled \/ signalled' = signalled \cup Waiting
  <2>1. \A attempt \in Nat, generation \in Nat :
          NextEntries(tasks[t].job, attempt, generation) \subseteq Entry
    BY <1>2, NextEntriesType DEF SleepTypeOK
  <2>2. RetryEntries(tasks[t].job, tasks[t].attempt) \subseteq Entry
    BY <1>2, RetryEntriesType DEF SleepTypeOK, SchedulingTypeOK
  <2>3. ASSUME NEW S, Push(S)
        PROVE  signalled' = signalled \/ signalled' = signalled \cup Waiting
    BY <2>3 DEF Push, WakeIf, SetWake
  <2>4. CASE StartMissed(t)
    BY <1>3, <2>1, <2>3, <2>4 DEF StartMissed
  <2>5. CASE ConditionsFail(t)
    BY <1>2, <2>1, <2>3, <2>5 DEF ConditionsFail
  <2>6. CASE JobSucceeds(t)
    BY <1>2, <2>1, <2>3, <2>6 DEF JobSucceeds
  <2>7. CASE JobFails(t)
    BY <1>2, <2>1, <2>2, <2>3, <2>7 DEF JobFails
  <2>8. CASE StartRemoved(t) \/ StartConditions(t) \/ ConditionsPass(t)
        \/ JobCancelled(t) \/ CancelledByGather(t)
    BY <2>8 DEF StartRemoved, StartConditions, ConditionsPass, JobCancelled,
                CancelledIn, CancelledByGather
  <2>9. QED
    BY <2>4, <2>5, <2>6, <2>7, <2>8 DEF Execute, TaskStep
<1>7. SleepTypeOK' /\ RunStages' /\ runPc' \in RunPCs
  BY <1>1, <1>6 DEF SleepTypeOK, Waiting, RunStages
<1>8. SchedulingTypeOK'
  BY <1>1, <1>6, PushType DEF SchedulingTypeOK
<1>9. ExecutionTypeOK'
  <2>1. CASE StartConditions(t)
    BY <1>1, <1>2, <1>3, <2>1 DEF StartConditions, ExecutionTypeOK, Task
  <2>2. CASE ConditionsPass(t)
    BY <1>1, <1>2, <2>2 DEF ConditionsPass, ExecutionTypeOK, Task
  <2>3. CASE EndTask(t) /\ (history' = history \/ \E s \in Status : Record(t, s))
    BY <1>4, <1>5, <2>3 DEF ExecutionTypeOK
  <2>4. QED
    BY <2>1, <2>2, <2>3
    DEF Execute, TaskStep, StartRemoved, StartMissed, ConditionsFail,
        JobSucceeds, JobFails, JobCancelled, CancelledIn, CancelledByGather, Status
<1>10. QED
  BY <1>7, <1>8, <1>9

\* A suspended coroutine that goes on keeps its types, whatever it waited for.
LEMMA SuspendedTyped ==
    ASSUME SleepTypeOK, RunStages, NEW c \in Coroutines,
           Suspended(c), runPc' = runPc
    PROVE  SleepTypeOK' /\ RunStages'
<1>1. /\ pc[c] \notin {"none", "done"}
      /\ UNCHANGED <<now, running>>
      /\ signalled' \subseteq signalled
      /\ pc' = [pc EXCEPT ![c] = pc'[c]] \/ pc' = pc
      /\ pc'[c] \in PCs
      /\ waitFor' = [waitFor EXCEPT ![c] = NoTime] \/ waitFor' = waitFor
  <2>1. pc \in [Coroutines -> PCs]
    BY DEF SleepTypeOK
  <2>2. CASE StartCoroutine(c)
    BY <2>1, <2>2 DEF StartCoroutine, Goto, PCs, Holding
  <2>3. CASE WakeFromSleep(c)
    BY <2>1, <2>3 DEF WakeFromSleep, Goto, PCs, Holding
  <2>4. CASE ReturnFromWait(c)
    BY <2>1, <2>4 DEF ReturnFromWait, Goto, PCs, Holding
  <2>5. CASE WaitAgain(c)
    BY <2>1, <2>5 DEF WaitAgain, PCs, Holding
  <2>6. QED
    BY <2>2, <2>3, <2>4, <2>5 DEF Suspended
<1>2. \A d \in Coroutines : d # c => pc'[d] = pc[d]
  BY <1>1 DEF SleepTypeOK
<1>3. pc' \in [Coroutines -> PCs] /\ waitFor' \in [Coroutines -> Nat \cup {NoTime}]
  BY <1>1 DEF SleepTypeOK
<1>4. signalled' \subseteq Waiting'
  <2>1. signalled' \subseteq signalled /\ (pc' # pc => c \notin signalled')
    <3>1. CASE StartCoroutine(c)
      BY <3>1 DEF StartCoroutine, SleepTypeOK, Waiting
    <3>2. CASE WakeFromSleep(c) \/ ReturnFromWait(c) \/ WaitAgain(c)
      BY <3>2 DEF WakeFromSleep, ReturnFromWait, WaitAgain
    <3>3. QED
      BY <3>1, <3>2 DEF Suspended
  <2>2. QED
    BY <1>2, <2>1 DEF SleepTypeOK, Waiting
<1>5. RunStages'
  BY <1>1 DEF RunStages
<1>6. QED
  BY <1>1, <1>3, <1>4, <1>5 DEF SleepTypeOK

\* The steps of a coroutine that leave the scheduler's state alone.
LEMMA CoroutineStepTyped ==
    ASSUME Typed, NEW c \in Coroutines,
           Suspended(c) \/ LoopEnds(c) \/ QueueDeadline \/ QueueGivesUp
             \/ MidnightSleeps \/ MidnightWaits \/ MidnightProceeds \/ MidnightBreaks
    PROVE  Typed'
<1> USE DEF Typed, TypeOK
<1>1. UNCHANGED <<now, registry, schedulingVars, executionVars, runPc>>
  BY DEF Suspended, StartCoroutine, WakeFromSleep, ReturnFromWait, WaitAgain,
         LoopEnds, QueueDeadline, QueueGivesUp, MidnightSleeps, MidnightWaits,
         MidnightProceeds, MidnightBreaks, EnterSleep, EnterWait
<1>2. SchedulingTypeOK' /\ ExecutionTypeOK' /\ runPc' \in RunPCs
  BY <1>1 DEF schedulingVars, executionVars, SchedulingTypeOK, ExecutionTypeOK
<1>3. SleepTypeOK' /\ RunStages'
  <2> USE DEF SleepTypeOK, RunStages, Waiting, Goto, Coroutines, PCs, Holding
  <2>1. CASE Suspended(c)
    BY <1>1, <2>1, SuspendedTyped
  <2>2. CASE LoopEnds(c) \/ QueueGivesUp \/ MidnightProceeds \/ MidnightBreaks
    BY <2>2 DEF LoopEnds, QueueGivesUp, MidnightProceeds, MidnightBreaks, AtTop
  <2>3. CASE QueueDeadline
    BY <2>3 DEF QueueDeadline, SetWake, AtTop
  <2>4. CASE MidnightSleeps
    BY <2>4 DEF MidnightSleeps, EnterSleep, AtTop
  <2>5. CASE MidnightWaits
    <3>1. PICK j \in Registered : /\ IsNextRefresh(NextMidnight(j, now))
                                  /\ EnterWait("midnight", NextMidnight(j, now))
      BY <2>5 DEF MidnightWaits
    <3>2. NextMidnight(j, now) \in Nat
      <4>1. j \in Jobs /\ Offset[j] \in Nat /\ now \in Nat
        BY DayAssumption DEF Registered, Time
      <4>2. DayLength * ((now + Offset[j]) \div DayLength + 1) >= Offset[j]
        <5>1. /\ now + Offset[j] \in Nat /\ DayLength \in Nat /\ DayLength > 0
          BY <4>1, DayAssumption
        <5>2. (now + Offset[j]) \div DayLength \in Nat
          BY <5>1
        <5>3. now + Offset[j] < DayLength * ((now + Offset[j]) \div DayLength + 1)
          BY <5>1
        <5>4. QED
          BY <4>1, <5>1, <5>2, <5>3
      <4>3. QED
        BY <4>1, <4>2, DayAssumption DEF NextMidnight, LocalDate
    <3>3. QED
      BY <2>5, <3>1, <3>2 DEF MidnightWaits, EnterWait, AtTop
  <2>6. QED
    BY <2>1, <2>2, <2>3, <2>4, <2>5
<1>4. QED
  BY <1>2, <1>3

\* Those that schedule jobs.
LEMMA RefreshingStepTyped ==
    ASSUME Typed,
           QueuePopulate \/ MidnightRefreshes \/ SyncRegistry
             \/ (\E j \in Jobs : RefreshJob(j)) \/ Run
    PROVE  Typed'
<1> USE DEF Typed, TypeOK
<1>1. \E S, gone : S \subseteq Jobs /\ RefreshAfterDeleting(S, gone)
  BY DEF QueuePopulate, MidnightRefreshes, SyncRegistry, RefreshJob, Run,
         PopulateMissing, PopulateAll, RefreshDueJobs, Refresh, Registered,
         DueForRefresh
<1>2. UNCHANGED <<now, waitFor, registry, executionVars>>
  BY DEF QueuePopulate, MidnightRefreshes, SyncRegistry, RefreshJob, Run
<1>3. SchedulingTypeOK' /\ signalled' \in {signalled, signalled \cup Waiting}
  BY <1>1, <1>2, RefreshType DEF SchedulingTypeOK, SleepTypeOK
<1>4. ExecutionTypeOK'
  BY <1>2 DEF executionVars, ExecutionTypeOK
<1>5. SleepTypeOK' /\ RunStages' /\ runPc' \in RunPCs
  <2> USE DEF SleepTypeOK, RunStages, Waiting, Goto, Coroutines, PCs, Holding
  <2>1. CASE QueuePopulate
    BY <1>2, <1>3, <2>1 DEF QueuePopulate, AtTop
  <2>2. CASE MidnightRefreshes
    BY <1>2, <1>3, <2>2 DEF MidnightRefreshes
  <2>3. CASE SyncRegistry \/ \E j \in Jobs : RefreshJob(j)
    BY <1>2, <1>3, <2>3 DEF SyncRegistry, RefreshJob
  <2>4. CASE Run
    <3>1. Waiting = {}
      BY <2>4 DEF Run, Ended
    <3>2. QED
      BY <1>2, <1>3, <2>4, <3>1 DEF Run, RunPCs
  <2>5. QED
    BY <2>1, <2>2, <2>3, <2>4
<1>6. QED
  BY <1>3, <1>4, <1>5

\* Those that look at the heap.
LEMMA PeekingStepTyped ==
    ASSUME Typed,
           QueueEmpty \/ QueueEarly \/ QueueBlocks \/ QueueReleases \/ PeekNext
    PROVE  Typed'
<1> USE DEF Typed, TypeOK
<1>1. /\ queue' = Peeked
      /\ UNCHANGED <<now, running, registry, generations, active, lastRefresh, executionVars, runPc>>
  BY DEF QueueEmpty, QueueEarly, QueueBlocks, QueueReleases, PeekNext,
         EnterSleep, EnterWait, sleepVars
<1>2. SchedulingTypeOK'
  BY <1>1, PeekKeepsLive DEF SchedulingTypeOK
<1>3. ExecutionTypeOK' /\ runPc' \in RunPCs
  BY <1>1 DEF executionVars, ExecutionTypeOK
<1>4. SleepTypeOK' /\ RunStages'
  <2> USE DEF SleepTypeOK, RunStages, Waiting, Goto, Coroutines, PCs, Holding
  <2>1. CASE QueueEmpty
    BY <1>1, <2>1 DEF QueueEmpty, EnterSleep
  <2>2. CASE QueueEarly
    <3>1. PICK e \in LiveEntries : EnterWait("queue", e.when)
      BY <2>2 DEF QueueEarly
    <3>2. e.when \in Nat
      BY DEF LiveEntries, SchedulingTypeOK, Entry
    <3>3. QED
      BY <1>1, <2>2, <3>1, <3>2 DEF QueueEarly, EnterWait
  <2>3. CASE QueueBlocks \/ QueueReleases
    BY <1>1, <2>3 DEF QueueBlocks, QueueReleases
  <2>4. CASE PeekNext
    BY <1>1, <2>4 DEF PeekNext, sleepVars
  <2>5. QED
    BY <2>1, <2>2, <2>3, <2>4
<1>5. QED
  BY <1>2, <1>3, <1>4

LEMMA LaunchTyped == Typed /\ QueueLaunch => Typed'
<1> SUFFICES ASSUME Typed, QueueLaunch PROVE Typed'
  OBVIOUS
<1> USE DEF Typed, TypeOK
<1>1. PICK e \in LiveEntries : queue' = Popped(e) /\ Spawn(e)
  BY DEF QueueLaunch
<1>2. e \in Entry
  BY DEF LiveEntries, SchedulingTypeOK
<1>3. SchedulingTypeOK'
  BY <1>1, PopKeepsLive DEF QueueLaunch, SchedulingTypeOK
<1>4. ExecutionTypeOK'
  <2>1. NewTask(e) \in Task
    BY <1>2 DEF NewTask, Task, Entry
  <2>2. tasks' \in [TaskIds -> Task \cup {NoTask}]
    BY <1>1, <2>1 DEF Spawn, ExecutionTypeOK
  <2>3. available' \in 0 .. MaxConcurrency
    BY ConcurrencyAssumption DEF QueueLaunch, HasSlot, ExecutionTypeOK
  <2>4. QED
    BY <2>2, <2>3 DEF QueueLaunch, ExecutionTypeOK
<1>5. SleepTypeOK' /\ RunStages' /\ runPc' \in RunPCs
  BY DEF QueueLaunch, HasSlot, SleepTypeOK, RunStages, Waiting, Goto,
         Coroutines, PCs, Holding
<1>6. QED
  BY <1>3, <1>4, <1>5

\* The remaining steps: time, the end of a run, stop, cancellation, registry.
LEMMA OtherStepTyped ==
    ASSUME Typed, Advance \/ Unwind \/ Stop \/ CancelRun \/ RegistryCall
    PROVE  Typed'
<1> USE DEF Typed, TypeOK
<1>1. UNCHANGED <<schedulingVars, executionVars>>
  BY DEF Advance, RunReturns, Unwind, RunGathers, RunRaises, CancelGather, Unwinds,
         Stop, CancelRun, RegistryCall, Register, Remove, Clear
<1>2. SchedulingTypeOK' /\ ExecutionTypeOK'
  <2>1. registry' \in [Jobs -> {"new", "registered", "removed"}]
    BY DEF Advance, Tick, RunReturns, Unwind, RunGathers, RunRaises, CancelGather,
           Unwinds, Stop, CancelRun, RegistryCall, Register,
           Remove, Clear, SchedulingTypeOK
  <2>2. QED
    BY <1>1, <2>1 DEF schedulingVars, executionVars, SchedulingTypeOK, ExecutionTypeOK
<1>3. SleepTypeOK' /\ RunStages' /\ runPc' \in RunPCs
  <2> USE DEF SleepTypeOK, RunStages, Waiting, Coroutines, PCs, Holding
  <2>1. CASE Advance
    BY <2>1, MaxTimeAssumption DEF Advance, Tick, Time
  <2>2. CASE Unwind
    BY <2>2 DEF Unwind, RunReturns, RunGathers, RunRaises, CancelGather, Unwinds,
                CoroutinesDone, RunPCs
  <2>3. CASE Stop
    BY <2>3 DEF Stop, SetWake
  <2>4. CASE CancelRun
    BY <2>4 DEF CancelRun
  <2>5. CASE RegistryCall
    BY <2>5 DEF RegistryCall, Register, Remove, Clear, sleepVars
  <2>6. QED
    BY <2>1, <2>2, <2>3, <2>4, <2>5
<1>4. QED
  BY <1>2, <1>3

LEMMA InitTyped == Init => Typed
<1> SUFFICES ASSUME Init PROVE Typed
  OBVIOUS
<1> USE DEF Init
<1>1. SleepTypeOK /\ RunStages
  <2>1. now \in Time
    BY MaxTimeAssumption DEF SleepInit, Time
  <2>2. pc \in [Coroutines -> PCs] /\ \A c \in Coroutines : pc[c] = "none"
    BY DEF SleepInit, PCs
  <2>3. waitFor \in [Coroutines -> Nat \cup {NoTime}]
    BY DEF SleepInit
  <2>4. QED
    BY <2>1, <2>2, <2>3 DEF SleepInit, SleepTypeOK, RunStages
<1>2. SchedulingTypeOK
  BY JobsAssumption
  DEF SchedulingInit, SchedulingTypeOK, NoTime, EmptyBag, SetToBag, IsABag, BagToSet
<1>3. ExecutionTypeOK
  BY ConcurrencyAssumption DEF ExecutionInit, ExecutionTypeOK
<1>4. QED
  BY <1>1, <1>2, <1>3 DEF Typed, TypeOK, RunPCs

LEMMA NextTyped == Typed /\ [Next]_vars => Typed'
<1> SUFFICES ASSUME Typed, [Next]_vars PROVE Typed'
  OBVIOUS
<1>1. CASE UNCHANGED vars
  BY <1>1 DEF vars, sleepVars, registryVars, schedulingVars, executionVars, Typed,
              TypeOK, SleepTypeOK, SchedulingTypeOK, ExecutionTypeOK,
              RunStages, Waiting
<1>2. CASE QueueStep
  BY <1>2, CoroutineStepTyped, RefreshingStepTyped, PeekingStepTyped, LaunchTyped
  DEF QueueStep, Coroutines
<1>3. CASE MidnightStep
  BY <1>3, CoroutineStepTyped, RefreshingStepTyped DEF MidnightStep, Coroutines
<1>4. CASE ApiStep
  BY <1>4, OtherStepTyped, RefreshingStepTyped, PeekingStepTyped DEF ApiStep, Unwind
<1>5. CASE Run
  BY <1>5, RefreshingStepTyped
<1>6. CASE Unwind \/ Advance
  BY <1>6, OtherStepTyped
<1>7. CASE \E t \in TaskIds : Execute(t)
  BY <1>7, TaskStepTyped
<1>8. QED
  BY <1>1, <1>2, <1>3, <1>4, <1>5, <1>6, <1>7 DEF Next, RunStep, Unwind

LEMMA AlwaysTyped == Spec => []Typed
  BY InitTyped, NextTyped, PTL DEF Spec

\* Every variable keeps the type the code gives it, whatever the jobs do and
\* the API is called with.
THEOREM TypeCorrect == Spec => []TypeOK
<1>1. Typed => TypeOK
  BY DEF Typed
<1>2. QED
  BY <1>1, AlwaysTyped, PTL

-----------------------------------------------------------------------------
(***************************************************************************)
(* Concurrency slots.                                                      *)
(***************************************************************************)
LEMMA OthersKeepTasks ==
    ASSUME [Next]_vars, ~QueueLaunch, \A t \in TaskIds : ~Execute(t)
    PROVE  UNCHANGED executionVars
  BY DEF Next, RunStep, vars, QueueStep, MidnightStep, ApiStep, Suspended, LoopEnds,
         QueueDeadline, QueuePopulate, QueueEmpty, QueueEarly, QueueBlocks,
         QueueReleases, QueueGivesUp, MidnightSleeps, MidnightWaits,
         MidnightProceeds, MidnightRefreshes, MidnightBreaks, Run, RunReturns,
         Unwind, RunGathers, RunRaises, CancelGather, Unwinds,
         Stop, CancelRun, RefreshJob, SyncRegistry, PeekNext, RegistryCall, Advance

\* A task's step either leaves the set of tasks and the slots alone or ends it.
LEMMA TaskEffect ==
    ASSUME Typed, NEW t \in TaskIds, Execute(t)
    PROVE  /\ t \in Inflight
           /\ \/ EndTask(t)
              \/ Inflight' = Inflight /\ available' = available
<1>1. t \in Inflight
  BY DEF Execute, TaskStep, StartRemoved, StartMissed, StartConditions,
         ConditionsPass, ConditionsFail, JobSucceeds, JobFails, JobCancelled,
         CancelledIn, CancelledByGather,
         InPhase, Inflight
<1>2. CASE StartConditions(t) \/ ConditionsPass(t)
  <2>1. tasks \in [TaskIds -> Task \cup {NoTask}] /\ tasks[t] \in Task
    BY <1>1 DEF Typed, TypeOK, ExecutionTypeOK, Inflight
  <2>2. tasks'[t].phase \in {"conditions", "job"} /\ available' = available
    BY <1>2, <2>1 DEF StartConditions, ConditionsPass, Task
  <2>3. tasks'[t] # NoTask
    BY <2>2 DEF NoTask
  <2>4. \A u \in TaskIds \ {t} : tasks'[u] = tasks[u]
    BY <1>2, <2>1 DEF StartConditions, ConditionsPass
  <2>5. QED
    BY <1>1, <2>2, <2>3, <2>4 DEF Inflight
<1>3. QED
  BY <1>1, <1>2
  DEF Execute, TaskStep, StartRemoved, StartMissed, ConditionsFail, JobSucceeds,
      JobFails, JobCancelled, CancelledIn, CancelledByGather

LEMMA InflightFinite == IsFiniteSet(Inflight) /\ Cardinality(Inflight) \in Nat
  BY TaskIdsAssumption, FS_Subset, FS_CardinalityType DEF Inflight

\* There is a task id for a launch: it has a slot, so fewer than MaxConcurrency
\* tasks are in flight.
LEMMA LaunchFindsTaskId ==
    ASSUME Typed, SlotsConserved, QueueLaunch
    PROVE  \E e \in LiveEntries, t \in TaskIds \ Inflight :
             /\ IsHead(e) /\ e.when <= now /\ queue' = Popped(e)
             /\ tasks' = [tasks EXCEPT ![t] = NewTask(e)]
<1>1. PICK e \in LiveEntries : IsHead(e) /\ e.when <= now /\ queue' = Popped(e) /\ Spawn(e)
  BY DEF QueueLaunch
<1>2. Cardinality(Inflight) < MaxConcurrency
  BY InflightFinite, ConcurrencyAssumption
  DEF QueueLaunch, HasSlot, SlotsConserved, Typed, TypeOK, ExecutionTypeOK
<1>3. Inflight # TaskIds
  BY <1>2, InflightFinite, TaskIdsAssumption, ConcurrencyAssumption, FS_CardinalityType
<1>4. \E t \in TaskIds : tasks[t] = NoTask
  BY <1>3 DEF Inflight
<1>5. QED
  BY <1>1, <1>4 DEF Spawn, Inflight

LEMMA NextConserves == Typed /\ SlotsConserved /\ [Next]_vars => SlotsConserved'
<1> SUFFICES ASSUME Typed, SlotsConserved, [Next]_vars PROVE SlotsConserved'
  OBVIOUS
<1> USE InflightFinite
<1>1. CASE QueueLaunch
  <2>1. PICK e \in LiveEntries, t \in TaskIds \ Inflight :
               tasks' = [tasks EXCEPT ![t] = NewTask(e)]
    BY <1>1, LaunchFindsTaskId
  <2>2. Inflight' = Inflight \cup {t}
    BY <2>1 DEF Inflight, NewTask, NoTask, Typed, TypeOK, ExecutionTypeOK
  <2>3. Cardinality(Inflight') = Cardinality(Inflight) + 1
    BY <2>1, <2>2, FS_AddElement
  <2>4. available' = available - 1
    BY <1>1 DEF QueueLaunch
  <2>5. QED
    BY <2>3, <2>4, ConcurrencyAssumption
    DEF SlotsConserved, Typed, TypeOK, ExecutionTypeOK
<1>2. CASE \E t \in TaskIds : Execute(t)
  <2>1. PICK t \in TaskIds : Execute(t)
    BY <1>2
  <2>2. t \in Inflight
    BY <2>1, TaskEffect
  <2>3. CASE Inflight' = Inflight /\ available' = available
    BY <2>3 DEF SlotsConserved
  <2>4. CASE EndTask(t)
    <3>1. Inflight' = Inflight \ {t}
      BY <2>4 DEF EndTask, Inflight, Typed, TypeOK, ExecutionTypeOK
    <3>2. Cardinality(Inflight') = Cardinality(Inflight) - 1
      BY <2>2, <3>1, FS_RemoveElement
    <3>3. Cardinality(Inflight') \in Nat
      BY <2>2, <3>1, FS_RemoveElement, FS_CardinalityType
    <3>4. available < MaxConcurrency
      BY <3>2, <3>3, ConcurrencyAssumption
      DEF SlotsConserved, Typed, TypeOK, ExecutionTypeOK
    <3>5. QED
      BY <2>4, <3>2, <3>4, ConcurrencyAssumption
      DEF EndTask, Released, SlotsConserved, Typed, TypeOK, ExecutionTypeOK
  <2>5. QED
    BY <2>1, <2>3, <2>4, TaskEffect
<1>3. CASE ~QueueLaunch /\ \A t \in TaskIds : ~Execute(t)
  <2>1. UNCHANGED <<tasks, available>>
    BY <1>3, OthersKeepTasks DEF executionVars
  <2>2. QED
    BY <2>1 DEF SlotsConserved, Inflight
<1>4. QED
  BY <1>1, <1>2, <1>3

LEMMA InitConserves == Init => SlotsConserved
<1> SUFFICES ASSUME Init PROVE SlotsConserved
  OBVIOUS
<1>1. Inflight = {} /\ available = MaxConcurrency
  BY DEF Init, ExecutionInit, Inflight
<1>2. QED
  BY <1>1, FS_EmptySet, ConcurrencyAssumption DEF SlotsConserved

\* For any number of slots and tasks: on every path a task can end by, it gives
\* back exactly the slot it took.
THEOREM SlotsAlwaysConserved == Spec => []SlotsConserved
  BY InitConserves, NextConserves, AlwaysTyped, PTL DEF Spec

-----------------------------------------------------------------------------
(***************************************************************************)
(* Generations.  What a step does to the scheduler's state is one of six   *)
(* things.                                                                 *)
(***************************************************************************)
\* Jobs are refreshed, and removed jobs forgotten.
Refreshes(S, gone) ==
    /\ S \subseteq Registered
    /\ gone = {} \/ gone = active \ Registered
    /\ RefreshAfterDeleting(S, gone)
    /\ UNCHANGED <<now, registry, executionVars>>

\* Stale entries are dropped.
Peeks ==
    /\ queue' = Peeked
    /\ UNCHANGED <<now, registry, generations, active, lastRefresh, executionVars>>

\* The registry changes: a job is registered or jobs are removed.
Registers ==
    /\ registry' \in [Jobs -> {"new", "registered", "removed"}]
    /\ \A j \in Jobs : \/ registry'[j] = registry[j]
                       \/ registry[j] = "new" /\ registry'[j] = "registered"
                       \/ registry[j] = "registered" /\ registry'[j] = "removed"
    /\ UNCHANGED <<now, schedulingVars, executionVars>>

Idles == UNCHANGED <<registry, schedulingVars, executionVars>>

LEMMA StepEffects ==
    ASSUME Typed, [Next]_vars
    PROVE  \/ \E S, gone : Refreshes(S, gone)
           \/ Peeks \/ Registers \/ Idles
           \/ QueueLaunch
           \/ \E t \in TaskIds : Execute(t)
<1>1. CASE UNCHANGED vars
  BY <1>1 DEF vars, registryVars, Idles
<1>2. CASE QueuePopulate \/ SyncRegistry
  BY <1>2 DEF QueuePopulate, SyncRegistry, PopulateMissing, Refreshes
<1>3. CASE MidnightRefreshes \/ Run \/ \E j \in Jobs : RefreshJob(j)
  <2>1. \E S : S \subseteq Registered /\ RefreshAfterDeleting(S, {})
    BY <1>3 DEF MidnightRefreshes, Run, RefreshJob, Found, RefreshDueJobs, PopulateAll,
                Refresh, DueForRefresh
  <2>2. QED
    BY <1>3, <2>1 DEF MidnightRefreshes, Run, RefreshJob, Refreshes
<1>4. CASE QueueEmpty \/ QueueEarly \/ QueueBlocks \/ QueueReleases \/ PeekNext
  BY <1>4 DEF QueueEmpty, QueueEarly, QueueBlocks, QueueReleases, PeekNext,
              EnterSleep, EnterWait, sleepVars, Peeks
<1>5. CASE RegistryCall
  BY <1>5 DEF RegistryCall, Register, Remove, Clear, Registered, Registers,
              sleepVars, Typed, TypeOK, SchedulingTypeOK
<1>6. CASE \/ \E c \in Coroutines : Suspended(c) \/ LoopEnds(c)
           \/ QueueDeadline \/ QueueGivesUp \/ MidnightSleeps \/ MidnightWaits
           \/ MidnightProceeds \/ MidnightBreaks
           \/ Stop \/ CancelRun \/ Unwind \/ Advance
  BY <1>6 DEF Suspended, LoopEnds, QueueDeadline, QueueGivesUp, MidnightSleeps,
              MidnightWaits, MidnightProceeds, MidnightBreaks, Stop, CancelRun,
              RunReturns, Unwind, RunGathers, RunRaises, CancelGather, Unwinds,
              Advance, Idles
<1>7. QED
  BY <1>1, <1>2, <1>3, <1>4, <1>5, <1>6
  DEF Next, RunStep, Unwind, QueueStep, MidnightStep, ApiStep, Coroutines

\* The heap and the generations after a refresh.
LEMMA RefreshEffect ==
    ASSUME Typed, GenerationsBound, NEW S, NEW gone, Refreshes(S, gone)
    PROVE  /\ S \subseteq Jobs
           /\ active' = (active \ gone) \cup S
           /\ \A j \in Jobs : j \in gone => registry[j] = "removed" /\ j \notin S
           /\ \A j \in Jobs : generations'[j] = IF j \in S THEN generations[j] + 1
                                                ELSE IF j \in gone THEN 0
                                                ELSE generations[j]
           /\ BagToSet(queue') = BagToSet(queue) \cup
                UNION {NextEntries(j, 1, generations[j] + 1) : j \in S}
<1> USE DEF Typed, TypeOK
<1>1. S \subseteq Jobs
  BY DEF Refreshes, Registered
<1>2. active' = (active \ gone) \cup S
  BY DEF Refreshes, RefreshAfterDeleting
<1>3. \A j \in Jobs : j \in gone => registry[j] = "removed" /\ j \notin S
  BY DEF Refreshes, Registered, GenerationsBound, SchedulingTypeOK
<1> DEFINE gens == [j \in Jobs |-> IF j \in gone THEN 0 ELSE generations[j]]
<1>4. \A j \in S : gens[j] = generations[j]
  BY <1>1, <1>3
<1>5. \A j \in Jobs : generations'[j] = IF j \in S THEN generations[j] + 1
                                        ELSE IF j \in gone THEN 0
                                        ELSE generations[j]
  BY <1>4 DEF Refreshes, RefreshAfterDeleting
<1>6. UNION {NextEntries(j, 1, gens[j] + 1) : j \in S}
        = UNION {NextEntries(j, 1, generations[j] + 1) : j \in S}
  BY <1>4
<1>7. Push(UNION {NextEntries(j, 1, gens[j] + 1) : j \in S})
  BY DEF Refreshes, RefreshAfterDeleting
<1>8. BagToSet(queue') = BagToSet(queue) \cup
         UNION {NextEntries(j, 1, generations[j] + 1) : j \in S}
  BY <1>6, <1>7, AddToBag DEF Push, SchedulingTypeOK
<1>9. QED
  BY <1>1, <1>2, <1>3, <1>5, <1>8

\* What a task pushes when it ends: entries of its own job, with the
\* generation it started with or the current one.
LEMMA TaskPushes ==
    ASSUME Typed, NEW t \in TaskIds, Execute(t)
    PROVE  /\ UNCHANGED <<now, registry, generations, active, lastRefresh>>
           /\ IsABag(queue')
           /\ BagToSet(queue) \subseteq BagToSet(queue')
           /\ \A e \in BagToSet(queue') \ BagToSet(queue) :
                /\ e.job = tasks[t].job
                /\ e.generation \in {tasks[t].generation, CurrentGeneration(tasks[t].job)}
<1> USE DEF Typed, TypeOK
<1>1. /\ tasks[t].job \in Jobs /\ tasks[t].attempt \in Nat
      /\ tasks[t].generation \in Nat
      /\ CurrentGeneration(tasks[t].job) \in Nat
      /\ now \in Time /\ generations \in [Jobs -> Nat]
  BY TaskEffect DEF Inflight, ExecutionTypeOK, Task, CurrentGeneration,
                    SchedulingTypeOK, SleepTypeOK
<1>2. UNCHANGED <<now, registry, generations, active, lastRefresh>>
  BY DEF Execute, TaskStep, StartRemoved, StartMissed, StartConditions,
         ConditionsPass, ConditionsFail, JobSucceeds, JobFails, JobCancelled,
         CancelledIn, CancelledByGather,
         UnchangedByTasks
<1> DEFINE Own(S) == \A e \in S : /\ e.job = tasks[t].job
                                  /\ e.generation \in {tasks[t].generation,
                                                       CurrentGeneration(tasks[t].job)}
<1>3. queue' = queue \/ \E S : Push(S) /\ Own(S)
  <2>1. \A attempt \in Nat, generation \in {tasks[t].generation, CurrentGeneration(tasks[t].job)} :
          Own(NextEntries(tasks[t].job, attempt, generation))
    BY <1>1, NextEntriesType
  <2>2. Own(RetryEntries(tasks[t].job, tasks[t].attempt))
    BY <1>1, RetryEntriesType
  <2> HIDE DEF Own
  <2>3. CASE StartMissed(t)
    BY <2>1, <2>3 DEF StartMissed
  <2>4. CASE ConditionsFail(t)
    BY <2>1, <2>4 DEF ConditionsFail
  <2>5. CASE JobSucceeds(t)
    BY <2>1, <2>5 DEF JobSucceeds
  <2>6. CASE JobFails(t)
    BY <2>1, <2>2, <2>6 DEF JobFails
  <2>7. CASE StartRemoved(t) \/ StartConditions(t) \/ ConditionsPass(t)
        \/ JobCancelled(t) \/ CancelledByGather(t)
    BY <2>7 DEF StartRemoved, StartConditions, ConditionsPass, JobCancelled,
                CancelledIn, CancelledByGather
  <2>8. QED
    BY <2>3, <2>4, <2>5, <2>6, <2>7 DEF Execute, TaskStep
<1>4. ASSUME NEW S, Push(S), Own(S)
      PROVE  /\ IsABag(queue') /\ BagToSet(queue) \subseteq BagToSet(queue')
             /\ Own(BagToSet(queue') \ BagToSet(queue))
  BY <1>4, AddToBag DEF Push, SchedulingTypeOK
<1>5. QED
  BY <1>2, <1>3, <1>4 DEF SchedulingTypeOK

\* The task a step leaves behind in a slot: the one that was there, a step
\* further, or the one just launched.
LEMMA TasksAfter ==
    ASSUME Typed, NEW t \in TaskIds, Execute(t)
    PROVE  \A u \in Inflight' :
             /\ u \in Inflight
             /\ tasks'[u].job = tasks[u].job
             /\ \/ tasks'[u] = tasks[u]
                \/ /\ u = t
                   /\ tasks[u].phase = "created"
                   /\ tasks[u].job \in Registered
                   /\ tasks'[u].generation = CurrentGeneration(tasks[u].job)
                   /\ tasks'[u].phase = "conditions"
                \/ /\ u = t
                   /\ tasks[u].phase = "conditions"
                   /\ tasks'[u].phase = "job"
                   /\ tasks'[u].generation = tasks[u].generation
<1> USE DEF Typed, TypeOK, ExecutionTypeOK
<1>1. t \in Inflight /\ tasks[t] \in Task
  BY TaskEffect DEF Inflight
<1>2. CASE StartConditions(t)
  <2>1. tasks'[t] = [tasks[t] EXCEPT !.phase = "conditions",
                                     !.generation = CurrentGeneration(tasks[t].job)]
    BY <1>2 DEF StartConditions
  <2>2. /\ tasks'[t].job = tasks[t].job
        /\ tasks'[t].phase = "conditions"
        /\ tasks'[t].generation = CurrentGeneration(tasks[t].job)
    BY <1>1, <2>1 DEF Task
  <2>3. QED
    BY <1>1, <1>2, <2>2 DEF StartConditions, InPhase, Inflight, Found
<1>3. CASE ConditionsPass(t)
  <2>1. tasks'[t] = [tasks[t] EXCEPT !.phase = "job"]
    BY <1>3 DEF ConditionsPass
  <2>2. /\ tasks'[t].job = tasks[t].job
        /\ tasks'[t].phase = "job"
        /\ tasks'[t].generation = tasks[t].generation
    BY <1>1, <2>1 DEF Task
  <2>3. QED
    BY <1>1, <1>3, <2>2 DEF ConditionsPass, InPhase, Inflight
<1>4. CASE EndTask(t)
  BY <1>1, <1>4 DEF EndTask, Inflight
<1>5. QED
  BY <1>2, <1>3, <1>4
  DEF Execute, TaskStep, StartRemoved, StartMissed, ConditionsFail, JobSucceeds,
      JobFails, JobCancelled, CancelledIn, CancelledByGather

LEMMA NextBoundsGenerations ==
    Typed /\ SlotsConserved /\ GenerationsBound /\ [Next]_vars => GenerationsBound'
<1> SUFFICES ASSUME Typed, SlotsConserved, GenerationsBound, [Next]_vars
             PROVE  GenerationsBound'
  OBVIOUS
<1>a. /\ generations \in [Jobs -> Nat] /\ active \subseteq Jobs
      /\ registry \in [Jobs -> {"new", "registered", "removed"}]
      /\ \A e \in BagToSet(queue) : e \in Entry /\ e.job \in Jobs /\ e.generation \in Nat
      /\ \A t \in Inflight : tasks[t].job \in Jobs /\ tasks[t].generation \in Nat
  BY DEF Typed, TypeOK, SchedulingTypeOK, ExecutionTypeOK, Entry, Task, Inflight
<1>1. CASE \E S, gone : Refreshes(S, gone)
  <2>1. PICK S, gone : Refreshes(S, gone)
    BY <1>1
  <2>2. registry' = registry /\ tasks' = tasks
    BY <2>1 DEF Refreshes, executionVars
  <2>3. ASSUME NEW j \in Jobs, NEW g \in Nat, Known(j, g)
        PROVE  Known(j, g)'
    BY <1>a, <2>1, <2>2, <2>3, RefreshEffect DEF Known
  <2>4. \A j \in Jobs : /\ j \in active' <=> generations'[j] > 0
                        /\ j \in active' => registry'[j] # "new"
    BY <1>a, <2>1, <2>2, RefreshEffect DEF GenerationsBound, Refreshes, Registered
  <2>5. ASSUME NEW e \in BagToSet(queue') PROVE Known(e.job, e.generation)'
    <3>1. CASE e \in BagToSet(queue)
      BY <1>a, <2>3, <3>1 DEF GenerationsBound
    <3>2. CASE \E j \in S : e \in NextEntries(j, 1, generations[j] + 1)
      <4>1. PICK j \in S : e \in NextEntries(j, 1, generations[j] + 1)
        BY <3>2
      <4>2. e.job = j /\ e.generation = generations[j] + 1 /\ j \in Jobs
        BY <1>a, <2>1, <4>1, RefreshEffect DEF NextEntries
      <4>3. j \in active' /\ generations'[j] = generations[j] + 1
        BY <2>1, <4>1, <4>2, RefreshEffect
      <4>4. QED
        BY <1>a, <4>2, <4>3 DEF Known
    <3>3. QED
      BY <2>1, <3>1, <3>2, RefreshEffect
  <2>6. ASSUME NEW t \in Inflight' PROVE Known(tasks[t].job, tasks[t].generation)'
    BY <1>a, <2>2, <2>3, <2>6 DEF GenerationsBound, Inflight
  <2>7. QED
    BY <2>4, <2>5, <2>6 DEF GenerationsBound
<1>2. CASE Peeks
  <2>1. BagToSet(queue') \subseteq BagToSet(queue)
    BY <1>2, PeekKeepsLive DEF Peeks, Typed, TypeOK
  <2>2. QED
    BY <1>2, <2>1 DEF Peeks, executionVars, GenerationsBound, Known, Inflight
<1>3. CASE Registers
  <2>1. \A j \in Jobs : registry[j] = "removed" => registry'[j] = "removed"
    BY <1>3 DEF Registers
  <2>2. UNCHANGED <<queue, generations, active, tasks>>
    BY <1>3 DEF Registers, schedulingVars, executionVars
  <2>3. \A j \in Jobs : registry'[j] = "new" => registry[j] = "new"
    BY <1>3 DEF Registers
  <2>4. QED
    BY <1>a, <2>1, <2>2, <2>3 DEF GenerationsBound, Known, Inflight
<1>4. CASE Idles
  BY <1>4 DEF Idles, schedulingVars, executionVars, GenerationsBound, Known, Inflight
<1>5. CASE QueueLaunch
  <2>1. PICK e \in LiveEntries, t \in TaskIds \ Inflight :
            queue' = Popped(e) /\ tasks' = [tasks EXCEPT ![t] = NewTask(e)]
    BY <1>5, LaunchFindsTaskId
  <2>2. BagToSet(queue') \subseteq BagToSet(queue)
    BY <2>1, PopKeepsLive DEF Typed, TypeOK
  <2>3. e.job \in Jobs /\ Known(e.job, 0)
    BY <1>a DEF LiveEntries, GenerationsBound, Known
  <2>4. \A u \in Inflight' : \/ u \in Inflight /\ tasks'[u] = tasks[u]
                             \/ u = t /\ tasks'[u].job = e.job /\ tasks'[u].generation = 0
    BY <2>1 DEF Inflight, NewTask, Typed, TypeOK, ExecutionTypeOK
  <2>5. UNCHANGED <<registry, generations, active>>
    BY <1>5 DEF QueueLaunch
  <2>6. QED
    BY <2>2, <2>3, <2>4, <2>5 DEF GenerationsBound, Known
<1>6. CASE \E t \in TaskIds : Execute(t)
  <2>1. PICK t \in TaskIds : Execute(t)
    BY <1>6
  <2>2. UNCHANGED <<registry, generations, active>>
    BY <2>1, TaskPushes
  <2>3. \A u \in Inflight : Known(tasks[u].job, CurrentGeneration(tasks[u].job))
    BY <1>a DEF GenerationsBound, Known, CurrentGeneration
  <2>4. ASSUME NEW e \in BagToSet(queue') PROVE Known(e.job, e.generation)
    BY <2>1, <2>3, <2>4, TaskPushes, TaskEffect DEF GenerationsBound
  <2>5. ASSUME NEW u \in Inflight' PROVE Known(tasks'[u].job, tasks'[u].generation)
    BY <2>1, <2>3, <2>5, TasksAfter DEF GenerationsBound
  <2>6. QED
    BY <2>2, <2>4, <2>5 DEF GenerationsBound, Known
<1>7. QED
  BY <1>1, <1>2, <1>3, <1>4, <1>5, <1>6, StepEffects

\* No entry and no task carries a generation from the future.
THEOREM GenerationsAlwaysBound == Spec => []GenerationsBound
<1>1. Init => GenerationsBound
  BY DEF Init, SchedulingInit, ExecutionInit, GenerationsBound, EmptyBag, SetToBag,
         BagToSet, Inflight
<1>2. QED
  BY <1>1, NextBoundsGenerations, AlwaysTyped, SlotsAlwaysConserved, PTL DEF Spec

\* A stale entry stays stale: bumps go up from a generation no entry exceeds,
\* and a job whose generation is forgotten never returns to the registry.
LEMMA StaleStep ==
    ASSUME Typed, GenerationsBound, [Next]_vars,
           NEW e \in BagToSet(queue), ~Live(e)
    PROVE  ~Live(e)'
<1>1. /\ e.job \in Jobs /\ e.generation \in Nat
      /\ generations \in [Jobs -> Nat]
      /\ Known(e.job, e.generation)
  BY DEF Typed, TypeOK, SchedulingTypeOK, Entry, GenerationsBound
<1>2. CASE \E S, gone : Refreshes(S, gone)
  <2>1. PICK S, gone : Refreshes(S, gone)
    BY <1>2
  <2>2. registry' = registry /\ Registered' = Registered
    BY <2>1 DEF Refreshes, Registered
  <2>3. CASE e.job \notin Found
    BY <2>2, <2>3 DEF Live, Found
  <2>4. CASE e.job \in Found
    <3>1. e.generation < generations[e.job]
      BY <1>1, <2>4 DEF Live, Found, Known, Registered
    <3>2. generations'[e.job] >= generations[e.job]
      BY <1>1, <2>1, <2>4, RefreshEffect DEF Registered, Found
    <3>3. generations'[e.job] \in Nat
      BY <1>1, NextTyped DEF Typed, TypeOK, SchedulingTypeOK
    <3>4. QED
      BY <1>1, <3>1, <3>2, <3>3 DEF Live
  <2>5. QED
    BY <2>3, <2>4
<1>3. CASE Registers
  <2>1. CASE registry[e.job] = "removed"
    BY <1>1, <1>3, <2>1 DEF Registers, Live, Found, Registered
  <2>2. CASE PersistentRegistry
    BY <2>2 DEF Live, Found
  <2>3. CASE registry[e.job] # "removed" /\ ~PersistentRegistry
    <3>1. registry[e.job] = "registered"
      BY <1>1, <2>3 DEF Known, GenerationsBound, Typed, TypeOK, SchedulingTypeOK
    <3>2. generations'[e.job] # e.generation
      BY <1>1, <1>3, <2>3, <3>1 DEF Registers, schedulingVars, Live, Found, Registered
    <3>3. QED
      BY <3>2 DEF Live
  <2>4. QED
    BY <2>1, <2>2, <2>3
<1>4. CASE UNCHANGED <<registry, generations>>
  BY <1>4 DEF Live, Found, Registered
<1>5. QED
  <2>1. Peeks \/ Idles \/ QueueLaunch => UNCHANGED <<registry, generations>>
    BY DEF Peeks, Idles, schedulingVars, QueueLaunch
  <2>2. \A t \in TaskIds : Execute(t) => UNCHANGED <<registry, generations>>
    BY TaskPushes
  <2>3. QED
    BY <1>2, <1>3, <1>4, <2>1, <2>2, StepEffects

THEOREM StaleEntriesStayStale == Spec => StaleStaysStale
<1>1. Typed /\ GenerationsBound /\ [Next]_vars
        => [\A e \in BagToSet(queue) : ~Live(e) => ~Live(e)']_vars
  BY StaleStep
<1>2. QED
  BY <1>1, AlwaysTyped, GenerationsAlwaysBound, PTL DEF Spec, StaleStaysStale

-----------------------------------------------------------------------------
(***************************************************************************)
(* No job is lost.  With the generations bound NoJobLost is inductive: the *)
(* step that consumes a carrier of a job creates another.                  *)
(***************************************************************************)
LEMMA NextLosesNoJob ==
    ASSUME Typed, SlotsConserved, GenerationsBound, NoJobLost, ReliableJobs, [Next]_vars,
           NEW j \in active', j \in Registered'
    PROVE  Carried(j)'
<1>a. /\ generations \in [Jobs -> Nat] /\ active \subseteq Jobs /\ now \in Time
      /\ \A e \in BagToSet(queue) : e \in Entry /\ e.job \in Jobs /\ e.generation \in Nat
      /\ \A t \in Inflight : tasks[t] \in Task /\ tasks[t].job \in Jobs
      /\ j \in Jobs
  BY NextTyped DEF Typed, TypeOK, SchedulingTypeOK, SleepTypeOK, ExecutionTypeOK,
                   Entry, Task, Inflight
<1>b. ASSUME j \in active, j \in Registered PROVE Carried(j)
  BY <1>b DEF NoJobLost, JobsAreCarried
\* Steps that keep the generation of j keep its carriers if they keep its live
\* entries and tasks.
<1>c. ASSUME j \in active, j \in Registered,
             generations'[j] = generations[j],
             \A e \in LiveEntries : e.job = j => e \in BagToSet(queue'),
             UNCHANGED tasks
      PROVE  Carried(j)'
  BY <1>a, <1>b, <1>c DEF Carried, LiveEntries, Live, Found, Inflight
<1>1. CASE \E S, gone : Refreshes(S, gone)
  <2>1. PICK S, gone : Refreshes(S, gone)
    BY <1>1
  <2>2. Registered' = Registered /\ tasks' = tasks
    BY <2>1 DEF Refreshes, Registered, executionVars
  <2>3. CASE j \in S
    <3>1. PICK e \in NextEntries(j, 1, generations[j] + 1) : TRUE
      BY <1>a, ReliableJobs DEF ReliableJobs, NextEntries
    <3>2. e.job = j /\ e.generation = generations[j] + 1
      BY <3>1 DEF NextEntries
    <3>3. e \in BagToSet(queue') /\ generations'[j] = generations[j] + 1
      BY <1>a, <2>1, <2>3, <3>1, RefreshEffect
    <3>4. QED
      BY <2>2, <3>2, <3>3, ReliableJobs DEF ReliableJobs, Carried, LiveEntries, Live, Found
  <2>4. CASE j \notin S
    <3>1. j \in active /\ j \notin gone /\ generations'[j] = generations[j]
      BY <1>a, <2>1, <2>2, <2>4, RefreshEffect DEF Registered
    <3>2. BagToSet(queue) \subseteq BagToSet(queue')
      BY <2>1, RefreshEffect
    <3>3. QED
      BY <1>c, <2>2, <3>1, <3>2 DEF LiveEntries
  <2>5. QED
    BY <2>3, <2>4
<1>2. CASE Peeks
  BY <1>2, <1>c, PeekKeepsLive
  DEF Peeks, executionVars, Registered, Typed, TypeOK
<1>3. CASE Registers
  <2>1. /\ UNCHANGED <<queue, generations, active, tasks>>
        /\ j \in Registered
    BY <1>3, <1>a DEF Registers, schedulingVars, executionVars, Registered, GenerationsBound
  <2>2. QED
    BY <1>c, <2>1 DEF LiveEntries
<1>4. CASE Idles
  BY <1>4, <1>c DEF Idles, schedulingVars, executionVars, Registered, LiveEntries
<1>5. CASE QueueLaunch
  <2>1. PICK e \in LiveEntries, t \in TaskIds \ Inflight :
            queue' = Popped(e) /\ tasks' = [tasks EXCEPT ![t] = NewTask(e)]
    BY <1>5, LaunchFindsTaskId
  <2>2. UNCHANGED <<registry, generations, active>>
    BY <1>5 DEF QueueLaunch
  <2>3. tasks'[t] = NewTask(e) /\ \A u \in Inflight : tasks'[u] = tasks[u]
    BY <2>1 DEF Typed, TypeOK, ExecutionTypeOK, Inflight
  <2>4. NewTask(e).job = e.job /\ NewTask(e).phase = "created" /\ NewTask(e) # NoTask
    BY DEF NewTask, NoTask
  <2>5. t \in Inflight' /\ Inflight \subseteq Inflight'
    BY <2>3, <2>4 DEF Inflight
  <2>6. CASE e.job = j
    BY <2>3, <2>4, <2>5, <2>6 DEF Carried
  <2>7. CASE e.job # j
    <3>1. \A f \in LiveEntries : f.job = j => f \in BagToSet(queue')
      BY <2>1, <2>7, PopKeepsLive DEF Typed, TypeOK
    <3>2. Carried(j)
      BY <1>b, <2>2 DEF Registered
    <3>3. QED
      BY <2>2, <2>3, <2>5, <3>1, <3>2 DEF Carried, LiveEntries, Live, Found, Registered
  <2>8. QED
    BY <2>6, <2>7
<1>6. CASE \E t \in TaskIds : Execute(t)
  <2>1. PICK t \in TaskIds : Execute(t)
    BY <1>6
  <2>2. /\ UNCHANGED <<now, registry, generations, active>>
        /\ Registered' = Registered
        /\ BagToSet(queue) \subseteq BagToSet(queue')
    BY <2>1, TaskPushes DEF Registered
  <2>3. CurrentGeneration(j) = generations[j]
    BY <1>a, <2>2 DEF CurrentGeneration, GenerationsBound
  <2>4. Carried(j)
    BY <1>b, <2>2
  <2>5. CASE \E e \in LiveEntries : e.job = j
    BY <2>2, <2>5 DEF Carried, LiveEntries, Live, Found
  <2>6. ASSUME NEW u \in Inflight, tasks[u].job = j,
               tasks[u].phase = "created" \/ tasks[u].generation = generations[j]
        PROVE  Carried(j)'
    <3>1. CASE u # t
      <4>1. tasks'[u] = tasks[u]
        BY <2>1, <3>1 DEF Execute, TaskStep, StartRemoved, StartMissed,
           StartConditions, ConditionsPass, ConditionsFail, JobSucceeds, JobFails,
           JobCancelled, CancelledIn, CancelledByGather, EndTask, Typed, TypeOK,
           ExecutionTypeOK, Inflight
      <4>2. QED
        BY <2>2, <2>6, <4>1 DEF Carried, Inflight
    <3>2. CASE u = t /\ StartConditions(t)
      <4>1. /\ tasks'[t].job = j /\ tasks'[t].generation = generations[j]
            /\ t \in Inflight'
        BY <1>a, <2>3, <2>6, <3>2, TaskEffect
        DEF StartConditions, Task, Inflight, NoTask, Typed, TypeOK, ExecutionTypeOK
      <4>2. QED
        BY <2>2, <4>1 DEF Carried
    <3>3. CASE u = t /\ ConditionsPass(t)
      <4>1. /\ tasks[t].phase # "created"
            /\ tasks'[t] = [tasks[t] EXCEPT !.phase = "job"]
        BY <1>a, <3>3 DEF ConditionsPass, InPhase, Typed, TypeOK, ExecutionTypeOK
      <4>2. /\ tasks'[t].job = j /\ tasks'[t].generation = generations[j]
            /\ tasks'[t].phase = "job"
        BY <1>a, <2>6, <3>3, <4>1 DEF Task
      <4>3. t \in Inflight'
        BY <4>2 DEF Inflight, NoTask
      <4>4. QED
        BY <2>2, <4>2, <4>3 DEF Carried
    <3>4. CASE u = t /\ EndTask(t)
      <4>1. \E e \in BagToSet(queue') : e.job = j /\ e.generation = generations[j]
        <5>1. tasks[t].attempt \in Nat
          BY <1>a, <2>6, <3>4 DEF Task
        <5>2. \A attempt \in Nat : \E e \in NextEntries(j, attempt, generations[j]) :
                e.job = j /\ e.generation = generations[j]
          BY <1>a, ReliableJobs DEF ReliableJobs, NextEntries
        <5>3. \E e \in RetryEntries(j, tasks[t].attempt) :
                e.job = j /\ e.generation = generations[j]
          <6>1. \/ \E attempt \in Nat :
                    RetryEntries(j, tasks[t].attempt) = NextEntries(j, attempt, generations[j])
                \/ RetryEntries(j, tasks[t].attempt) =
                     {[when |-> now + RetryPolicy[j].retryInterval,
                       generation |-> generations[j], job |-> j,
                       attempt |-> tasks[t].attempt + 1]}
            BY <2>3, <5>1 DEF RetryEntries
          <6>2. CASE \E attempt \in Nat :
                    RetryEntries(j, tasks[t].attempt) = NextEntries(j, attempt, generations[j])
            BY <5>2, <6>2
          <6>3. CASE RetryEntries(j, tasks[t].attempt) =
                     {[when |-> now + RetryPolicy[j].retryInterval,
                       generation |-> generations[j], job |-> j,
                       attempt |-> tasks[t].attempt + 1]}
            <7> DEFINE retry == [when |-> now + RetryPolicy[j].retryInterval,
                                 generation |-> generations[j], job |-> j,
                                 attempt |-> tasks[t].attempt + 1]
            <7>1. retry \in RetryEntries(j, tasks[t].attempt)
              BY <6>3
            <7>2. retry.job = j /\ retry.generation = generations[j]
              OBVIOUS
            <7>3. QED
              BY <7>1, <7>2
          <6>4. QED
            BY <6>1, <6>2, <6>3
        <5>4. \A S : Push(S) => S \subseteq BagToSet(queue')
          BY AddToBag DEF Push, Typed, TypeOK, SchedulingTypeOK
        <5>5. CASE StartMissed(t)
          BY <2>3, <2>6, <3>4, <5>2, <5>4, <5>5 DEF StartMissed
        <5>6. CASE ConditionsFail(t)
          BY <2>6, <3>4, <5>2, <5>4, <5>6 DEF ConditionsFail, InPhase
        <5>7. CASE JobSucceeds(t)
          BY <2>6, <3>4, <5>2, <5>4, <5>7 DEF JobSucceeds, InPhase
        <5>8. CASE JobFails(t)
          BY <2>6, <3>4, <5>2, <5>3, <5>4, <5>8 DEF JobFails, InPhase
        <5>9. ~StartRemoved(t) /\ ~JobCancelled(t) /\ ~CancelledByGather(t)
          BY <2>2, <2>6, <3>4, ReliableJobs DEF StartRemoved, Found, JobCancelled,
             CancelledByGather, Typed, RunStages, ReliableJobs
        <5>10. ~StartConditions(t) /\ ~ConditionsPass(t)
          BY <1>a, <2>6, <3>4 DEF StartConditions, ConditionsPass, EndTask, Task, NoTask,
             Typed, TypeOK, ExecutionTypeOK
        <5>11. QED
          BY <2>1, <5>5, <5>6, <5>7, <5>8, <5>9, <5>10 DEF Execute, TaskStep
      <4>2. QED
        BY <2>2, <4>1, ReliableJobs DEF ReliableJobs, Carried, LiveEntries, Live, Found
    <3>5. QED
      BY <2>1, <3>1, <3>2, <3>3, <3>4
      DEF Execute, TaskStep, StartRemoved, StartMissed, ConditionsFail, JobSucceeds,
          JobFails, JobCancelled, CancelledIn, CancelledByGather
  <2>7. QED
    BY <2>4, <2>5, <2>6 DEF Carried
<1>7. QED
  BY <1>1, <1>2, <1>3, <1>4, <1>5, <1>6, StepEffects

\* Whatever refreshes, recalibrations, failures, removals and API calls
\* interleave, an active job always has an entry or a task to carry it on.
THEOREM NoJobIsLost == Spec => []NoJobLost
<1>1. Init => NoJobLost
  BY DEF Init, SchedulingInit, NoJobLost, JobsAreCarried
<1>2. Typed /\ SlotsConserved /\ GenerationsBound /\ NoJobLost /\ [Next]_vars => NoJobLost'
  <2> SUFFICES ASSUME Typed, SlotsConserved, GenerationsBound, NoJobLost, [Next]_vars,
                      ReliableJobs, NEW j \in active' \cap Registered'
               PROVE  Carried(j)'
    BY DEF NoJobLost, JobsAreCarried, ReliableJobs
  <2> QED
    BY NextLosesNoJob
<1>3. QED
  BY <1>1, <1>2, AlwaysTyped, SlotsAlwaysConserved, GenerationsAlwaysBound, PTL DEF Spec

-----------------------------------------------------------------------------
(***************************************************************************)
(* The end of a run.                                                       *)
(***************************************************************************)
\* Between two runs no task is in flight, as run() leaves its last stage when
\* they have ended; and unless it was cancelled in the TaskGroup, the queue loop
\* has ended only because running was cleared.
EndInv ==
    /\ Ended => Inflight = {}
    /\ runPc = "idle" => ~running
    /\ "cancel" \notin ApiCalls /\ pc["queue"] \in {"none", "done"} => ~running

\* What the steps other than those of run() do to its program counter and flag.
LEMMA RunKept ==
    ASSUME Typed, [Next]_vars, ~Run, ~Unwind
    PROVE  runPc' = runPc /\ (running' => running)
<1> USE DEF Suspended, StartCoroutine, WakeFromSleep, ReturnFromWait, WaitAgain,
            LoopEnds, EnterSleep, EnterWait, sleepVars
<1>1. CASE QueueStep
  BY <1>1 DEF QueueStep, QueueDeadline, QueuePopulate, QueueEmpty, QueueEarly,
              QueueBlocks, QueueLaunch, QueueReleases, QueueGivesUp
<1>2. CASE MidnightStep
  BY <1>2 DEF MidnightStep, MidnightSleeps, MidnightWaits, MidnightProceeds,
              MidnightRefreshes, MidnightBreaks
<1>3. CASE ApiStep
  <2>1. CASE Stop
    BY <2>1 DEF Stop
  <2>2. CASE CancelRun \/ SyncRegistry
    BY <2>2 DEF CancelRun, SyncRegistry
  <2>3. CASE \E j \in Jobs : RefreshJob(j)
    BY <2>3 DEF RefreshJob
  <2>4. CASE PeekNext \/ RegistryCall
    BY <2>4 DEF PeekNext, RegistryCall, Register, Remove, Clear
  <2>5. QED
    BY <1>3, <2>1, <2>2, <2>3, <2>4 DEF ApiStep, Unwind
<1>4. CASE \E t \in TaskIds : Execute(t)
  BY <1>4 DEF Execute, TaskStep, StartRemoved, StartMissed, StartConditions,
              ConditionsPass, ConditionsFail, JobSucceeds, JobFails, JobCancelled,
              CancelledIn, CancelledByGather, UnchangedByTasks
<1>5. CASE Advance \/ UNCHANGED vars
  BY <1>5 DEF Advance, Tick, vars
<1>6. QED
  BY <1>1, <1>2, <1>3, <1>4, <1>5 DEF Next, RunStep, Unwind

\* The queue coroutine ends only when running is false, or by cancellation.
LEMMA QueueEnds ==
    ASSUME Typed, [Next]_vars, "cancel" \notin ApiCalls, ~Run,
           pc'["queue"] \in {"none", "done"}, pc["queue"] \notin {"none", "done"}
    PROVE  ~running'
  BY DEF Next, RunStep, Unwind, vars, sleepVars, QueueStep, MidnightStep, ApiStep,
         Suspended, StartCoroutine, WakeFromSleep, ReturnFromWait, WaitAgain, LoopEnds,
         QueueDeadline, QueuePopulate, QueueEmpty, QueueEarly, QueueBlocks,
         QueueLaunch, QueueReleases, QueueGivesUp, MidnightSleeps, MidnightWaits,
         MidnightProceeds, MidnightRefreshes, MidnightBreaks, EnterSleep, EnterWait,
         Stop, CancelRun, RefreshJob, SyncRegistry, PeekNext, RegistryCall, Register,
         Remove, Clear, Advance, Tick, Execute, TaskStep, StartRemoved, StartMissed,
         StartConditions, ConditionsPass, ConditionsFail, JobSucceeds, JobFails,
         JobCancelled, CancelledIn, CancelledByGather, UnchangedByTasks,
         RunGathers, RunReturns, RunRaises, CancelGather, Unwinds, Goto,
         Typed, TypeOK, SleepTypeOK, Coroutines

LEMMA NextEnds == Typed /\ EndInv /\ [Next]_vars => EndInv'
<1> SUFFICES ASSUME Typed, EndInv, [Next]_vars PROVE EndInv'
  OBVIOUS
<1>1. CASE Run
  BY <1>1 DEF Run, Ended, EndInv, Typed, TypeOK, SleepTypeOK, Coroutines
<1>2. CASE Unwind
  BY <1>2 DEF Unwind, RunGathers, RunReturns, RunRaises, CancelGather, Unwinds,
              Ended, EndInv, executionVars, Inflight
<1>3. CASE ~Run /\ ~Unwind
  <2>1. runPc' = runPc /\ (running' => running)
    BY <1>3, RunKept
  <2>2. ASSUME Ended PROVE Inflight' = {}
    <3>1. ~QueueLaunch
      BY <2>2 DEF Ended, QueueLaunch, HasSlot, Typed, RunStages, Coroutines
    <3>2. \A t \in TaskIds : ~Execute(t)
      BY <2>2, TaskEffect DEF EndInv
    <3>3. QED
      BY <2>2, <3>1, <3>2, OthersKeepTasks DEF executionVars, EndInv, Inflight
  <2>3. QED
    BY <1>3, <2>1, <2>2, QueueEnds DEF EndInv, Ended
<1>4. QED
  BY <1>1, <1>2, <1>3

\* However a run ends, also by cancellation of its gather, it leaves no task and
\* all slots free; it does not look as if it went on unless it was cancelled
\* twice; and with reliable jobs the heap has an entry of every job.
THEOREM RunsReturnGracefully == Spec => []GracefulReturn
<1>1. Init => EndInv
  BY DEF Init, SleepInit, ExecutionInit, EndInv, Inflight
<1>2. Spec => []EndInv
  BY <1>1, NextEnds, AlwaysTyped, PTL DEF Spec
<1>3. Typed /\ SlotsConserved /\ EndInv /\ NoJobLost => GracefulReturn
  <2> SUFFICES ASSUME Typed, SlotsConserved, EndInv, NoJobLost, Ended
               PROVE  /\ Inflight = {}
                      /\ available = MaxConcurrency
                      /\ running => runPc = "raised" /\ "cancel" \in ApiCalls
                      /\ ReliableJobs => \A j \in active \cap Registered :
                                            \E e \in LiveEntries : e.job = j
    BY DEF GracefulReturn
  <2>1. Inflight = {}
    BY DEF EndInv
  <2>2. available = MaxConcurrency
    BY <2>1, FS_EmptySet, ConcurrencyAssumption
    DEF SlotsConserved, Typed, TypeOK, ExecutionTypeOK
  <2>3. running => runPc = "raised" /\ "cancel" \in ApiCalls
    BY DEF EndInv, Ended, Typed, RunStages, Coroutines
  <2>4. ReliableJobs => \A j \in active \cap Registered : \E e \in LiveEntries : e.job = j
    BY <2>1 DEF NoJobLost, JobsAreCarried, Carried
  <2>5. QED
    BY <2>1, <2>2, <2>3, <2>4
<1>4. QED
  BY <1>2, <1>3, AlwaysTyped, SlotsAlwaysConserved, NoJobIsLost, PTL
=============================================================================
