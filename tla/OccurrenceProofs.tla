-------------------------- MODULE OccurrenceProofs ---------------------------
(***************************************************************************)
(* More theorems about ExecutionLoop, about the occurrences of one job:    *)
(* how many attempts an occurrence gets, that a midnight is made up for,   *)
(* that occurrences form one chain and that a retry follows the failure it *)
(* retries.                                                                *)
(***************************************************************************)
EXTENDS ExecutionLoopProofs

-----------------------------------------------------------------------------
(***************************************************************************)
(* Attempts.  AttemptsBounded looks at live entries; it is inductive when  *)
(* it is said of stale ones too, for a task may have been launched from    *)
(* an entry that is stale by now.                                          *)
(***************************************************************************)
Allowed(j, attempt) ==
    RetryPolicy[j].maxAttempts >= 0 =>
        attempt = 1 \/ attempt <= RetryPolicy[j].maxAttempts

AllAttemptsAllowed ==
    /\ \A e \in BagToSet(queue) : Allowed(e.job, e.attempt)
    /\ \A t \in Inflight : Allowed(tasks[t].job, tasks[t].attempt)

\* _schedule_next hands its attempt on; _schedule_retry counts up to the last.
LEMMA NextKeepsAttempt ==
    ASSUME NEW j \in Jobs, NEW attempt, NEW generation,
           NEW e \in NextEntries(j, attempt, generation)
    PROVE  e.job = j /\ e.attempt = attempt
  BY DEF NextEntries

LEMMA RetryIsAllowed ==
    ASSUME NEW j \in Jobs, NEW attempt \in Nat, RetryPolicy[j] # NoPolicy,
           NEW e \in RetryEntries(j, attempt)
    PROVE  Allowed(e.job, e.attempt)
<1>1. RetryPolicy[j].maxAttempts \in Nat \cup {NoTime}
  BY PolicyAssumption
<1>2. CASE Exhausted(RetryPolicy[j], attempt)
  <2>1. e \in NextEntries(j, 1, CurrentGeneration(j))
    BY <1>2 DEF RetryEntries
  <2>2. QED
    BY <2>1, NextKeepsAttempt DEF Allowed
<1>3. CASE ~Exhausted(RetryPolicy[j], attempt)
  <2>1. e.job = j /\ e.attempt = attempt + 1
    <3>1. CASE RetryPolicy[j].retryInterval = NoTime
      <4>1. e \in NextEntries(j, attempt + 1, CurrentGeneration(j))
        BY <1>3, <3>1 DEF RetryEntries
      <4>2. QED
        BY <4>1, NextKeepsAttempt
    <3>2. CASE RetryPolicy[j].retryInterval # NoTime
      <4>1. e = [when |-> now + RetryPolicy[j].retryInterval,
                 generation |-> CurrentGeneration(j), job |-> j,
                 attempt |-> attempt + 1]
        BY <1>3, <3>2 DEF RetryEntries
      <4>2. QED
        BY <4>1
    <3>3. QED
      BY <3>1, <3>2
  <2>2. RetryPolicy[j].maxAttempts >= 0 => attempt + 1 <= RetryPolicy[j].maxAttempts
    BY <1>1, <1>3 DEF Exhausted, NoTime
  <2>3. QED
    BY <2>1, <2>2 DEF Allowed
<1>4. QED
  BY <1>2, <1>3

\* What a task pushes when it ends has an attempt its policy allows.
LEMMA TaskPushesAllowed ==
    ASSUME Typed, NEW t \in TaskIds, Execute(t),
           NEW e \in BagToSet(queue'), e \notin BagToSet(queue)
    PROVE  Allowed(e.job, e.attempt)
<1>1. tasks[t].job \in Jobs /\ tasks[t].attempt \in Nat
  BY TaskEffect DEF Inflight, Task, Typed, TypeOK, ExecutionTypeOK
<1>2. ASSUME NEW S, Push(S) PROVE e \in S
  BY <1>2, AddToBag DEF Push, Typed, TypeOK, SchedulingTypeOK
<1>3. ASSUME NEW generation, Push(NextEntries(tasks[t].job, 1, generation))
      PROVE  Allowed(e.job, e.attempt)
  <2>1. e \in NextEntries(tasks[t].job, 1, generation)
    BY <1>2, <1>3
  <2>2. QED
    BY <1>1, <2>1, NextKeepsAttempt DEF Allowed
<1>4. CASE StartMissed(t)
  BY <1>3, <1>4 DEF StartMissed
<1>5. CASE ConditionsFail(t)
  BY <1>3, <1>5 DEF ConditionsFail
<1>6. CASE JobSucceeds(t)
  BY <1>3, <1>6 DEF JobSucceeds
<1>7. CASE JobFails(t)
  <2>1. CASE RetryPolicy[tasks[t].job] = NoPolicy
    BY <1>3, <1>7, <2>1 DEF JobFails
  <2>2. CASE RetryPolicy[tasks[t].job] # NoPolicy
    <3>1. e \in RetryEntries(tasks[t].job, tasks[t].attempt)
      BY <1>2, <1>7, <2>2 DEF JobFails
    <3>2. QED
      BY <1>1, <2>2, <3>1, RetryIsAllowed
  <2>3. QED
    BY <2>1, <2>2
<1>8. CASE StartRemoved(t) \/ StartConditions(t) \/ ConditionsPass(t)
        \/ JobCancelled(t) \/ CancelledByGather(t)
  BY <1>8 DEF StartRemoved, StartConditions, ConditionsPass, JobCancelled,
              CancelledIn, CancelledByGather
<1>9. QED
  BY <1>4, <1>5, <1>6, <1>7, <1>8 DEF Execute, TaskStep

\* A task keeps its attempt from launch to end.
LEMMA TasksKeepAttempt ==
    ASSUME Typed, NEW t \in TaskIds, Execute(t), NEW u \in Inflight'
    PROVE  /\ u \in Inflight
           /\ tasks'[u].job = tasks[u].job
           /\ tasks'[u].attempt = tasks[u].attempt
<1>1. u \in Inflight /\ tasks'[u].job = tasks[u].job
  BY TasksAfter
<1>2. tasks \in [TaskIds -> Task \cup {NoTask}] /\ tasks[u] \in Task
  BY <1>1 DEF Inflight, Typed, TypeOK, ExecutionTypeOK
<1>3. CASE StartConditions(t)
  <2>1. tasks'[u] = tasks[u] \/
        tasks'[u] = [tasks[u] EXCEPT !.phase = "conditions",
                                     !.generation = CurrentGeneration(tasks[t].job)]
    BY <1>1, <1>2, <1>3 DEF StartConditions, Inflight
  <2>2. QED
    BY <1>1, <1>2, <2>1 DEF Task
<1>4. CASE ConditionsPass(t)
  <2>1. tasks'[u] = tasks[u] \/ tasks'[u] = [tasks[u] EXCEPT !.phase = "job"]
    BY <1>1, <1>2, <1>4 DEF ConditionsPass, Inflight
  <2>2. QED
    BY <1>1, <1>2, <2>1 DEF Task
<1>5. CASE EndTask(t)
  BY <1>1, <1>2, <1>5 DEF EndTask, Inflight
<1>6. QED
  BY <1>1, <1>3, <1>4, <1>5
  DEF Execute, TaskStep, StartRemoved, StartMissed, ConditionsFail, JobSucceeds,
      JobFails, JobCancelled, CancelledIn, CancelledByGather

LEMMA NextKeepsAttemptsAllowed ==
    Typed /\ SlotsConserved /\ GenerationsBound /\ AllAttemptsAllowed /\ [Next]_vars
        => AllAttemptsAllowed'
<1> SUFFICES ASSUME Typed, SlotsConserved, GenerationsBound, AllAttemptsAllowed,
                    [Next]_vars
             PROVE  AllAttemptsAllowed'
  OBVIOUS
<1>a. ASSUME BagToSet(queue') \subseteq BagToSet(queue), UNCHANGED tasks
      PROVE  AllAttemptsAllowed'
  BY <1>a DEF AllAttemptsAllowed, Allowed, Inflight
<1>1. CASE \E S, gone : Refreshes(S, gone)
  <2>1. PICK S, gone : Refreshes(S, gone)
    BY <1>1
  <2>2. tasks' = tasks
    BY <2>1 DEF Refreshes, executionVars
  <2>3. ASSUME NEW e \in BagToSet(queue') PROVE Allowed(e.job, e.attempt)
    <3>1. CASE e \in BagToSet(queue)
      BY <3>1 DEF AllAttemptsAllowed
    <3>2. CASE e \notin BagToSet(queue)
      <4>1. PICK j \in S : e \in NextEntries(j, 1, generations[j] + 1)
        BY <2>1, <2>3, <3>2, RefreshEffect
      <4>2. j \in Jobs
        BY <2>1, RefreshEffect
      <4>3. QED
        BY <4>1, <4>2, NextKeepsAttempt DEF Allowed
    <3>3. QED
      BY <3>1, <3>2
  <2>4. QED
    BY <2>2, <2>3 DEF AllAttemptsAllowed, Allowed, Inflight
<1>2. CASE Peeks
  BY <1>2, <1>a, PeekKeepsLive DEF Peeks, executionVars, Typed, TypeOK
<1>3. CASE Registers \/ Idles
  BY <1>3, <1>a DEF Registers, Idles, schedulingVars, executionVars
<1>4. CASE QueueLaunch
  <2>1. PICK e \in LiveEntries, t \in TaskIds \ Inflight :
            queue' = Popped(e) /\ tasks' = [tasks EXCEPT ![t] = NewTask(e)]
    BY <1>4, LaunchFindsTaskId
  <2>2. BagToSet(queue') \subseteq BagToSet(queue)
    BY <2>1, PopKeepsLive DEF Typed, TypeOK
  <2>3. Allowed(e.job, e.attempt)
    BY DEF LiveEntries, AllAttemptsAllowed
  <2>4. \A u \in Inflight' : \/ u \in Inflight /\ tasks'[u] = tasks[u]
                             \/ /\ u = t
                                /\ tasks'[u].job = e.job
                                /\ tasks'[u].attempt = e.attempt
    BY <2>1 DEF Inflight, NewTask, Typed, TypeOK, ExecutionTypeOK
  <2>5. QED
    BY <2>2, <2>3, <2>4 DEF AllAttemptsAllowed, Allowed
<1>5. CASE \E t \in TaskIds : Execute(t)
  <2>1. PICK t \in TaskIds : Execute(t)
    BY <1>5
  <2>2. ASSUME NEW e \in BagToSet(queue') PROVE Allowed(e.job, e.attempt)
    BY <2>1, <2>2, TaskPushesAllowed DEF AllAttemptsAllowed
  <2>3. ASSUME NEW u \in Inflight' PROVE Allowed(tasks'[u].job, tasks'[u].attempt)
    BY <2>1, <2>3, TasksKeepAttempt DEF AllAttemptsAllowed
  <2>4. QED
    BY <2>2, <2>3 DEF AllAttemptsAllowed, Allowed
<1>6. QED
  BY <1>1, <1>2, <1>3, <1>4, <1>5, StepEffects

\* No occurrence gets more attempts than its policy's max_attempts, for any
\* policy and whatever recalibrations and calls come between the attempts.
THEOREM AttemptsAreBounded == Spec => []AttemptsBounded
<1>1. Init => AllAttemptsAllowed
  BY DEF Init, SchedulingInit, ExecutionInit, AllAttemptsAllowed, EmptyBag, SetToBag,
         BagToSet, Inflight
<1>2. AllAttemptsAllowed => AttemptsBounded
  BY DEF AllAttemptsAllowed, AttemptsBounded, Allowed, LiveEntries
<1>3. QED
  BY <1>1, <1>2, NextKeepsAttemptsAllowed, AlwaysTyped, SlotsAlwaysConserved,
     GenerationsAlwaysBound, PTL DEF Spec

-----------------------------------------------------------------------------
(***************************************************************************)
(* Midnights.  A job that the midnight loop does not know of when it       *)
(* starts to wait may pass one local midnight, never two: the wait is at   *)
(* most a day long.                                                        *)
(***************************************************************************)
WaitsADayAtMost ==
    pc["midnight"] = "wait" /\ now < waitFor["midnight"] =>
        /\ waitFor["midnight"] <= now + DayLength
        /\ \A j \in active \cap Registered :
            /\ lastRefresh[j] <= LocalDate(j, now)
            /\ waitFor["midnight"] < DayLength * (lastRefresh[j] + 2) - Offset[j]

LEMMA LaterDay ==
    ASSUME NEW m \in Int, NEW n \in Int, m < n
    PROVE  DayLength * (m + 1) <= DayLength * n
<1>1. PICK k \in Nat : n = m + 1 + k
  <2>1. n - (m + 1) \in Nat
    OBVIOUS
  <2>2. QED
    BY <2>1
<1>2. DayLength * n = DayLength * (m + 1) + DayLength * k /\ DayLength * k >= 0
  BY DayAssumption, <1>1
<1>3. DayLength * (m + 1) \in Int /\ DayLength * k \in Int
  BY DayAssumption, <1>1
<1>4. QED
  BY <1>2, <1>3

\* A time lies in its local date.
LEMMA DateBounds ==
    ASSUME NEW j \in Jobs, NEW t \in Nat
    PROVE  /\ LocalDate(j, t) \in Int /\ Offset[j] \in Nat
           /\ DayLength * LocalDate(j, t) <= t + Offset[j]
           /\ t + Offset[j] < DayLength * (LocalDate(j, t) + 1)
<1> DEFINE local == t + Offset[j]
<1>1. local \in Nat /\ Offset[j] \in Nat /\ DayLength \in Nat \ {0}
  BY DayAssumption
<1> HIDE DEF local
<1>2. /\ local \div DayLength \in Int
      /\ DayLength * (local \div DayLength) <= local
      /\ local < DayLength * (local \div DayLength + 1)
  BY <1>1
<1>3. QED
  BY <1>1, <1>2 DEF LocalDate, local

LEMMA LocalDateGrows ==
    ASSUME NEW j \in Jobs, NEW t \in Nat
    PROVE  LocalDate(j, t) <= LocalDate(j, t + 1)
<1> DEFINE date == LocalDate(j, t)
           later == LocalDate(j, t + 1)
<1>1. /\ date \in Int /\ later \in Int /\ Offset[j] \in Nat
      /\ DayLength * date <= t + Offset[j]
      /\ t + 1 + Offset[j] < DayLength * (later + 1)
  BY DateBounds, t + 1 \in Nat
<1> HIDE DEF date, later
<1>2. ASSUME later < date PROVE FALSE
  <2>1. DayLength * (later + 1) <= DayLength * date
    BY <1>1, <1>2, LaterDay
  <2>2. DayLength * (later + 1) \in Int /\ DayLength * date \in Int
    BY <1>1, DayAssumption
  <2>3. QED
    BY <1>1, <2>1, <2>2
<1>3. date <= later
  BY <1>1, <1>2
<1>4. QED
  BY <1>3 DEF date, later

\* How the midnight loop comes to wait, and for what.
LEMMA MidnightWaiting ==
    ASSUME Typed, [Next]_vars, pc'["midnight"] = "wait"
    PROVE  \/ MidnightWaits
           \/ /\ pc["midnight"] = "wait"
              /\ waitFor'["midnight"] = waitFor["midnight"]
              /\ now' = now \/ Advance
<1> USE DEF Coroutines
<1>a. /\ pc \in [Coroutines -> PCs] /\ waitFor \in [Coroutines -> Nat \cup {NoTime}]
      /\ \A l : Goto("queue", l) => pc'["midnight"] = pc["midnight"]
      /\ \A l : Goto("midnight", l) => pc'["midnight"] = l
  BY DEF Typed, TypeOK, SleepTypeOK, Goto
<1>1. CASE QueueStep
  BY <1>1, <1>a
  DEF QueueStep, Suspended, StartCoroutine, WakeFromSleep, ReturnFromWait,
      WaitAgain, LoopEnds, QueueDeadline, QueuePopulate, QueueEmpty, QueueEarly,
      EnterSleep, EnterWait, QueueBlocks, QueueLaunch, QueueReleases, QueueGivesUp
<1>2. CASE MidnightStep
  BY <1>2, <1>a
  DEF MidnightStep, Suspended, StartCoroutine, WakeFromSleep, ReturnFromWait,
      WaitAgain, LoopEnds, MidnightSleeps, MidnightProceeds, EnterSleep,
      MidnightRefreshes, MidnightBreaks
<1>3. CASE Run
  BY <1>3 DEF Run
<1>4. CASE ApiStep
  BY <1>4, <1>a DEF ApiStep, Stop, CancelRun, SyncRegistry, PeekNext, RegistryCall,
     RefreshJob, Register, Remove, Clear, CancelGather, Unwinds, sleepVars
<1>5. CASE \E t \in TaskIds : Execute(t)
  BY <1>5 DEF Execute, TaskStep, StartRemoved, StartMissed, StartConditions,
              ConditionsPass, ConditionsFail, JobSucceeds, JobFails, JobCancelled,
              CancelledIn, CancelledByGather,
              UnchangedByTasks
<1>6. CASE Unwind \/ Advance \/ UNCHANGED vars
  BY <1>6 DEF RunReturns, Unwind, RunGathers, RunRaises, CancelGather, Unwinds,
              Advance, Tick, vars, sleepVars
<1>7. QED
  BY <1>1, <1>2, <1>3, <1>4, <1>5, <1>6 DEF Next, RunStep, Unwind

\* A job that is active and registered after a step has been refreshed in it, or
\* was active and registered already, with the same last refresh.
LEMMA RefreshedOrKept ==
    ASSUME Typed, GenerationsBound, [Next]_vars,
           NEW j \in active' \cap Registered'
    PROVE  \/ lastRefresh'[j] = LocalDate(j, now)
           \/ j \in active \cap Registered /\ lastRefresh'[j] = lastRefresh[j]
<1>1. CASE \E S, gone : Refreshes(S, gone)
  <2>1. PICK S, gone : Refreshes(S, gone)
    BY <1>1
  <2>2. j \in Jobs /\ j \in Registered /\ active' = (active \ gone) \cup S
    BY <2>1, RefreshEffect DEF Refreshes, Registered, registryVars
  <2>3. /\ j \in S => lastRefresh'[j] = LocalDate(j, now)
        /\ j \notin S /\ j \notin gone => lastRefresh'[j] = lastRefresh[j]
    BY <2>1, <2>2 DEF Refreshes, RefreshAfterDeleting
  <2>4. QED
    BY <2>2, <2>3
<1>2. CASE Registers
  <2>1. UNCHANGED <<active, lastRefresh>> /\ j \in Jobs
    BY <1>2 DEF Registers, Register, Remove, Clear, schedulingVars, Registered
  <2>2. registry[j] # "new"
    BY <2>1 DEF GenerationsBound
  <2>3. j \in Registered
    BY <1>2, <2>1, <2>2 DEF Registers, Register, Remove, Clear, Registered, Typed,
                            TypeOK, SchedulingTypeOK
  <2>4. QED
    BY <2>1, <2>3
<1>3. CASE \E t \in TaskIds : Execute(t)
  BY <1>3, TaskPushes DEF Registered
<1>4. CASE Peeks \/ Idles \/ QueueLaunch
  BY <1>4 DEF Peeks, Idles, QueueLaunch, schedulingVars, registryVars, Registered
<1>5. QED
  BY <1>1, <1>2, <1>3, <1>4, StepEffects

LEMMA NextWaitsADayAtMost ==
    ASSUME Typed, GenerationsBound, WaitsADayAtMost, [Next]_vars
    PROVE  WaitsADayAtMost'
<1> DEFINE W == waitFor'["midnight"]
<1> SUFFICES ASSUME pc'["midnight"] = "wait", now' < W
             PROVE  /\ W <= now' + DayLength
                    /\ \A j \in active' \cap Registered' :
                        /\ lastRefresh'[j] <= LocalDate(j, now')
                        /\ W < DayLength * (lastRefresh'[j] + 2) - Offset[j]
  BY DEF WaitsADayAtMost, LocalDate
<1>a. /\ now \in Nat /\ now' \in Nat /\ DayLength \in Nat \ {0}
      /\ waitFor \in [Coroutines -> Nat \cup {NoTime}]
      /\ W \in Int /\ lastRefresh \in [Jobs -> Int]
  BY NextTyped, DayAssumption
  DEF Typed, TypeOK, SleepTypeOK, SchedulingTypeOK, Time, Coroutines, NoTime
<1>1. CASE MidnightWaits
  <2>1. /\ UNCHANGED <<now, active, registry, lastRefresh>> /\ DueForRefresh = {}
        /\ \E k \in Registered : IsNextRefresh(NextMidnight(k, now)) /\ W = NextMidnight(k, now)
    BY <1>1, <1>a DEF MidnightWaits, EnterWait, schedulingVars, Coroutines
  <2>2. W <= now + DayLength
    <3>1. PICK k \in Registered : W = NextMidnight(k, now)
      BY <2>1
    <3>2. /\ LocalDate(k, now) \in Int /\ Offset[k] \in Nat
          /\ DayLength * LocalDate(k, now) <= now + Offset[k]
      BY <1>a, DateBounds DEF Registered
    <3>3. DayLength * (LocalDate(k, now) + 1) = DayLength * LocalDate(k, now) + DayLength
      BY <1>a, <3>2
    <3>4. QED
      BY <1>a, <3>1, <3>2, <3>3 DEF NextMidnight
  <2>3. ASSUME NEW j \in Registered
        PROVE  /\ lastRefresh[j] = LocalDate(j, now)
               /\ W < DayLength * (lastRefresh[j] + 2) - Offset[j]
    <3>1. lastRefresh[j] = LocalDate(j, now) /\ W <= NextMidnight(j, now)
      BY <2>1 DEF DueForRefresh, IsNextRefresh
    <3>2. LocalDate(j, now) \in Int /\ Offset[j] \in Nat
      BY <1>a, DateBounds DEF Registered
    <3>3. /\ DayLength * (lastRefresh[j] + 2) = DayLength * (LocalDate(j, now) + 1) + DayLength
          /\ DayLength * (LocalDate(j, now) + 1) \in Int
      BY <1>a, <3>1, <3>2
    <3>4. QED
      BY <1>a, <3>1, <3>2, <3>3 DEF NextMidnight
  <2>4. QED
    BY <2>1, <2>2, <2>3, <1>a DEF Registered
<1>2. CASE ~MidnightWaits
  <2>1. /\ pc["midnight"] = "wait" /\ W = waitFor["midnight"]
        /\ now' = now \/ Advance
    BY <1>2, MidnightWaiting
  <2>2. now' \in {now, now + 1} /\ now < W
    BY <1>a, <2>1 DEF Advance, Tick
  <2>3. W <= now + DayLength
    BY <2>1, <2>2 DEF WaitsADayAtMost
  <2>4. ASSUME NEW j \in active' \cap Registered'
        PROVE  /\ lastRefresh'[j] <= LocalDate(j, now')
               /\ W < DayLength * (lastRefresh'[j] + 2) - Offset[j]
    <3>1. j \in Jobs
      BY DEF Registered
    <3>2. /\ LocalDate(j, now) \in Int /\ Offset[j] \in Nat
          /\ now + Offset[j] < DayLength * (LocalDate(j, now) + 1)
      BY <1>a, <3>1, DateBounds
    <3>3. LocalDate(j, now) <= LocalDate(j, now') /\ LocalDate(j, now') \in Int
      BY <1>a, <2>2, <3>1, <3>2, LocalDateGrows, DateBounds
    <3>4. CASE lastRefresh'[j] = LocalDate(j, now)
      <4>1. /\ DayLength * (LocalDate(j, now) + 2)
                 = DayLength * (LocalDate(j, now) + 1) + DayLength
            /\ DayLength * (LocalDate(j, now) + 1) \in Int
        BY <1>a, <3>2
      <4>2. QED
        BY <1>a, <2>3, <3>2, <3>3, <3>4, <4>1
    <3>5. CASE j \in active \cap Registered /\ lastRefresh'[j] = lastRefresh[j]
      <4>1. /\ lastRefresh[j] <= LocalDate(j, now) /\ lastRefresh[j] \in Int
            /\ W < DayLength * (lastRefresh[j] + 2) - Offset[j]
        BY <1>a, <2>1, <2>2, <3>1, <3>5 DEF WaitsADayAtMost
      <4>2. QED
        BY <3>2, <3>3, <3>5, <4>1
    <3>6. QED
      BY <3>4, <3>5, RefreshedOrKept
  <2>5. QED
    BY <1>a, <2>2, <2>3, <2>4
<1>3. QED
  BY <1>1, <1>2

\* A midnight that the midnight loop sleeps over, for a job it did not know of
\* when it went to sleep, is made up for before the next one: for any
\* timezones, length of the day, triggers and API calls, no job that is
\* registered is ever two local dates behind while the loop waits.
THEOREM MissedMidnightsAlwaysMadeUp == Spec => []MissedMidnightsAreMadeUp
<1>1. Init => WaitsADayAtMost
  BY DEF Init, SleepInit, WaitsADayAtMost, Coroutines
<1>2. Typed /\ GenerationsBound /\ WaitsADayAtMost /\ [Next]_vars => WaitsADayAtMost'
  BY NextWaitsADayAtMost
<1>3. Typed /\ WaitsADayAtMost => MissedMidnightsAreMadeUp
  <2> DEFINE W == waitFor["midnight"]
  <2> SUFFICES ASSUME Typed, WaitsADayAtMost, pc["midnight"] = "wait", now < W,
                      NEW j \in active \cap Registered
               PROVE  \/ lastRefresh[j] = LocalDate(j, now)
                      \/ /\ lastRefresh[j] = LocalDate(j, now) - 1
                         /\ W < NextMidnight(j, now)
    BY DEF MissedMidnightsAreMadeUp
  <2> DEFINE date == LocalDate(j, now)
             last == lastRefresh[j]
  <2>1. /\ now \in Nat /\ W \in Int /\ last \in Int /\ j \in Jobs
        /\ DayLength \in Nat \ {0}
    BY DayAssumption DEF Typed, TypeOK, SleepTypeOK, SchedulingTypeOK, Time,
                         Registered, Coroutines, NoTime
  <2>2. /\ date \in Int /\ Offset[j] \in Nat
        /\ DayLength * date <= now + Offset[j]
    BY <2>1, DateBounds
  <2>3. last <= date /\ W < DayLength * (last + 2) - Offset[j]
    BY DEF WaitsADayAtMost
  <2> HIDE DEF date, last
  <2>4. /\ DayLength * date \in Int /\ DayLength * (last + 2) \in Int
    BY <2>1, <2>2
  <2>5. DayLength * date < DayLength * (last + 2)
    BY <2>1, <2>2, <2>3, <2>4
  <2>6. ASSUME last + 1 < date PROVE FALSE
    <3>1. DayLength * (last + 2) <= DayLength * date
      BY <2>1, <2>2, <2>6, LaterDay, last + 1 \in Int, last + 1 + 1 = last + 2
    <3>2. QED
      BY <2>4, <2>5, <3>1
  <2>7. last = date \/ (last = date - 1 /\ last + 2 = date + 1)
    BY <2>1, <2>2, <2>3, <2>6
  <2>8. NextMidnight(j, now) = DayLength * (date + 1) - Offset[j]
    BY DEF NextMidnight, date
  <2>9. last = date \/ (last = date - 1 /\ W < NextMidnight(j, now))
    BY <2>3, <2>7, <2>8
  <2>10. QED
    BY <2>9 DEF date, last
<1>4. QED
  BY <1>1, <1>2, <1>3, AlwaysTyped, GenerationsAlwaysBound, PTL DEF Spec

-----------------------------------------------------------------------------
(***************************************************************************)
(* Chains.  Where nothing refreshes a job but its first scheduling, an     *)
(* execution of it and the entry of the next are links of one chain.       *)
(***************************************************************************)
\* Nobody else carries j: one entry, a single copy of it, or one task.
OneCarrier(j) ==
    /\ \A e, f \in LiveEntries : e.job = j /\ f.job = j => e = f
    /\ \A e \in LiveEntries : e.job = j => queue[e] = 1
    /\ \A t, u \in Inflight : tasks[t].job = j /\ tasks[u].job = j => t = u
    /\ \A e \in LiveEntries, t \in Inflight : e.job = j => tasks[t].job # j

OneCarrierEach == \A j \in Registered : OneCarrier(j)

\* The midnight loop is never started.
NoMidnight == pc["midnight"] \in {"none", "done"}

-----------------------------------------------------------------------------
(***************************************************************************)
(* Copies of an entry in the heap.                                         *)
(***************************************************************************)
LEMMA CountAfterAdding ==
    ASSUME NEW B, IsABag(B), NEW S, NEW x \in BagToSet(B (+) SetToBag(S))
    PROVE  /\ x \in BagToSet(B) /\ x \notin S => (B (+) SetToBag(S))[x] = B[x]
           /\ x \notin BagToSet(B) => (B (+) SetToBag(S))[x] = 1
  BY DEF IsABag, BagToSet, SetToBag, (+)

LEMMA CountAfterRemoving ==
    ASSUME NEW B, IsABag(B), NEW x, NEW y \in BagToSet(B (-) SetToBag({x}))
    PROVE  /\ y # x => (B (-) SetToBag({x}))[y] = B[y]
           /\ x \in BagToSet(B) /\ B[x] = 1 => y # x
  BY DEF IsABag, BagToSet, SetToBag, (-)

LEMMA CountAfterPeeking ==
    ASSUME NEW x \in BagToSet(Peeked)
    PROVE  Peeked[x] = queue[x]
  BY DEF Peeked, BagToSet

-----------------------------------------------------------------------------
\* A job whose carriers are among those it had keeps at most one.
KeepsEntries(j) ==
    \A e \in LiveEntries' : e.job = j => e \in LiveEntries /\ queue'[e] = queue[e]
KeepsTasks(j) ==
    \A t \in Inflight' : tasks'[t].job = j => t \in Inflight /\ tasks[t].job = j

LEMMA NoNewCarrier ==
    ASSUME NEW j, OneCarrier(j), KeepsEntries(j), KeepsTasks(j)
    PROVE  OneCarrier(j)'
  BY DEF OneCarrier, KeepsEntries, KeepsTasks

\* A registered job never scheduled has neither entries nor tasks.
LEMMA NoCarrierBefore ==
    ASSUME GenerationsBound, NEW j \in Jobs, registry[j] # "removed", j \notin active
    PROVE  /\ \A e \in BagToSet(queue) : e.job # j
           /\ \A t \in Inflight : tasks[t].job # j
  BY DEF GenerationsBound, Known

\* A task that ends pushes at most one entry, of its own job.
LEMMA TaskPushesOne ==
    ASSUME NEW t \in TaskIds, Execute(t)
    PROVE  \/ queue' = queue
           \/ /\ EndTask(t)
              /\ \E S : /\ queue' = queue (+) SetToBag(S)
                        /\ \A e \in S : e.job = tasks[t].job
                        /\ \A e, f \in S : e = f
<1> DEFINE One(S) == /\ \A e \in S : e.job = tasks[t].job
                     /\ \A e, f \in S : e = f
<1>1. \A attempt, generation : One(NextEntries(tasks[t].job, attempt, generation))
  BY DEF NextEntries
<1>2. One(RetryEntries(tasks[t].job, tasks[t].attempt))
  <2>1. \/ \E attempt : RetryEntries(tasks[t].job, tasks[t].attempt)
              = NextEntries(tasks[t].job, attempt, CurrentGeneration(tasks[t].job))
        \/ RetryEntries(tasks[t].job, tasks[t].attempt) = {}
        \/ RetryEntries(tasks[t].job, tasks[t].attempt) =
              {[when |-> now + RetryPolicy[tasks[t].job].retryInterval,
                generation |-> CurrentGeneration(tasks[t].job),
                job |-> tasks[t].job, attempt |-> tasks[t].attempt + 1]}
    BY DEF RetryEntries
  <2>2. QED
    BY <1>1, <2>1
<1> HIDE DEF One
<1>3. CASE StartMissed(t)
  BY <1>1, <1>3 DEF StartMissed, Push, One
<1>4. CASE ConditionsFail(t)
  BY <1>1, <1>4 DEF ConditionsFail, Push, One
<1>5. CASE JobSucceeds(t)
  BY <1>1, <1>5 DEF JobSucceeds, Push, One
<1>6. CASE JobFails(t)
  BY <1>1, <1>2, <1>6 DEF JobFails, Push, One
<1>7. CASE StartRemoved(t) \/ StartConditions(t) \/ ConditionsPass(t)
        \/ JobCancelled(t) \/ CancelledByGather(t)
  BY <1>7 DEF StartRemoved, StartConditions, ConditionsPass, JobCancelled,
              CancelledIn, CancelledByGather
<1>8. QED
  BY <1>3, <1>4, <1>5, <1>6, <1>7 DEF Execute, TaskStep

-----------------------------------------------------------------------------
LEMMA NextWithoutMidnight ==
    ASSUME ~MidnightRecalibration, Typed, NoMidnight, [Next]_vars
    PROVE  NoMidnight' /\ ~MidnightRefreshes
<1> USE DEF NoMidnight, Coroutines
<1>1. ~MidnightStep
  BY DEF MidnightStep, Suspended, StartCoroutine, WakeFromSleep, ReturnFromWait,
         WaitAgain, LoopEnds, AtTop, MidnightSleeps, MidnightWaits, MidnightProceeds,
         MidnightRefreshes, MidnightBreaks
<1>2. CASE QueueStep
  <2>1. \A l : Goto("queue", l) => pc'["midnight"] = pc["midnight"]
    BY DEF Goto, Typed, TypeOK, SleepTypeOK
  <2>2. QED
    BY <1>2, <2>1
    DEF QueueStep, Suspended, StartCoroutine, WakeFromSleep, ReturnFromWait,
        WaitAgain, LoopEnds, QueueDeadline, QueuePopulate, QueueEmpty, QueueEarly,
        EnterSleep, EnterWait, QueueBlocks, QueueLaunch, QueueReleases, QueueGivesUp,
        MidnightRefreshes
<1>3. CASE Run
  BY <1>3 DEF Run, MidnightRefreshes
<1>4. CASE ApiStep
  BY <1>4 DEF ApiStep, Stop, CancelRun, SyncRegistry, PeekNext, RegistryCall, RefreshJob,
              Register, Remove, Clear, CancelGather, Unwinds, sleepVars,
              MidnightRefreshes
<1>5. CASE \E t \in TaskIds : Execute(t)
  BY <1>5 DEF Execute, TaskStep, StartRemoved, StartMissed, StartConditions,
              ConditionsPass, ConditionsFail, JobSucceeds, JobFails, JobCancelled,
              CancelledIn, CancelledByGather,
              UnchangedByTasks, MidnightRefreshes
<1>6. CASE Unwind \/ Advance \/ UNCHANGED vars
  BY <1>6 DEF RunReturns, Unwind, RunGathers, RunRaises, CancelGather, Unwinds,
              Advance, Tick, vars, sleepVars, MidnightRefreshes
<1>7. QED
  BY <1>1, <1>2, <1>3, <1>4, <1>5, <1>6 DEF Next, RunStep, Unwind

\* What remains of the refreshes: jobs are scheduled that are not yet.
LEMMA OnlyNewJobs ==
    ASSUME "refresh_job" \notin ApiCalls, ~MidnightRefreshes, Typed, [Next]_vars
    PROVE  \/ \E S, gone : Refreshes(S, gone) /\ S \cap active = {}
           \/ Peeks \/ Registers \/ Idles
           \/ QueueLaunch
           \/ \E t \in TaskIds : Execute(t)
<1>1. CASE QueuePopulate \/ SyncRegistry
  <2>1. Refreshes(Registered \ active, active \ Registered)
    BY <1>1 DEF QueuePopulate, SyncRegistry, PopulateMissing, Refreshes
  <2>2. QED
    BY <2>1
<1>2. CASE Run
  <2>1. Refreshes(Registered \ active, {})
    BY <1>2 DEF Run, PopulateAll, Refresh, Refreshes
  <2>2. QED
    BY <2>1
<1>3. CASE ~QueuePopulate /\ ~SyncRegistry /\ ~Run
  <2>1. CASE UNCHANGED vars
    BY <2>1 DEF vars, registryVars, Idles
  <2>2. CASE QueueEmpty \/ QueueEarly \/ QueueBlocks \/ QueueReleases \/ PeekNext
    BY <2>2 DEF QueueEmpty, QueueEarly, QueueBlocks, QueueReleases, PeekNext,
                EnterSleep, EnterWait, sleepVars, Peeks
  <2>3. CASE RegistryCall
    BY <2>3 DEF RegistryCall, Register, Remove, Clear, Registered, Registers,
                sleepVars, Typed, TypeOK, SchedulingTypeOK
  <2>4. CASE \/ \E c \in Coroutines : Suspended(c) \/ LoopEnds(c)
             \/ QueueDeadline \/ QueueGivesUp \/ MidnightSleeps \/ MidnightWaits
             \/ MidnightProceeds \/ MidnightBreaks
             \/ Stop \/ CancelRun \/ Unwind \/ Advance
    BY <2>4 DEF Suspended, LoopEnds, QueueDeadline, QueueGivesUp, MidnightSleeps,
                MidnightWaits, MidnightProceeds, MidnightBreaks, Stop, CancelRun,
                RunReturns, Unwind, RunGathers, RunRaises, CancelGather, Unwinds,
                Advance, Idles
  <2>5. \A j \in Jobs : ~RefreshJob(j)
    BY DEF RefreshJob
  <2>6. QED
    BY <1>3, <2>1, <2>2, <2>3, <2>4, <2>5
    DEF Next, RunStep, Unwind, QueueStep, MidnightStep, ApiStep, Coroutines
<1>4. QED
  BY <1>1, <1>2, <1>3

LEMMA NextKeepsOneCarrier ==
    ASSUME Typed, SlotsConserved, GenerationsBound, OneCarrierEach, [Next]_vars,
           "refresh_job" \notin ApiCalls, ~MidnightRefreshes,
           NEW j \in Registered'
    PROVE  OneCarrier(j)'
<1>a. /\ j \in Jobs /\ IsABag(queue)
      /\ generations \in [Jobs -> Nat] /\ active \subseteq Jobs
      /\ tasks \in [TaskIds -> Task \cup {NoTask}]
  BY DEF Registered, Typed, TypeOK, SchedulingTypeOK, ExecutionTypeOK
<1>b. j \in Registered => OneCarrier(j)
  BY DEF OneCarrierEach
<1>1. CASE \E S, gone : Refreshes(S, gone) /\ S \cap active = {}
  <2>1. PICK S, gone : Refreshes(S, gone) /\ S \cap active = {}
    BY <1>1
  <2>2. /\ registry' = registry /\ tasks' = tasks /\ Found' = Found
        /\ j \in Registered
    BY <2>1 DEF Refreshes, Registered, Found, executionVars
  <2>3. KeepsTasks(j)
    BY <2>2 DEF KeepsTasks, Inflight
  <2> DEFINE gens == [k \in Jobs |-> IF k \in gone THEN 0 ELSE generations[k]]
             New == UNION {NextEntries(k, 1, gens[k] + 1) : k \in S}
  <2>4. queue' = queue (+) SetToBag(New)
    BY <2>1 DEF Refreshes, RefreshAfterDeleting, Push
  <2>a. \A e \in New : \E k \in S : e \in NextEntries(k, 1, gens[k] + 1)
    OBVIOUS
  <2> HIDE DEF gens, New
  <2>b. ASSUME NEW k, NEW e \in NextEntries(k, 1, gens[k] + 1)
        PROVE  /\ e.job = k
               /\ \A f \in NextEntries(k, 1, gens[k] + 1) : e = f
    BY DEF NextEntries
  <2>5. ASSUME NEW e \in New PROVE e.job \in S
    <3>1. PICK k \in S : e \in NextEntries(k, 1, gens[k] + 1)
      BY <2>a
    <3>2. QED
      BY <2>b, <3>1
  <2>6. ASSUME NEW e \in New, NEW f \in New, e.job = f.job PROVE e = f
    <3>1. PICK k \in S : e \in NextEntries(k, 1, gens[k] + 1)
      BY <2>a
    <3>2. PICK l \in S : f \in NextEntries(l, 1, gens[l] + 1)
      BY <2>a
    <3>3. k = l
      BY <2>b, <2>6, <3>1, <3>2
    <3>4. QED
      BY <2>b, <3>1, <3>2, <3>3
  <2>7. CASE j \in S
    <3>1. /\ \A e \in BagToSet(queue) : e.job # j
          /\ \A t \in Inflight : tasks[t].job # j
      BY <1>a, <2>1, <2>2, <2>7, NoCarrierBefore DEF Registered
    <3>2. \A e \in BagToSet(queue') : e.job = j => e \in New /\ queue'[e] = 1
      BY <1>a, <2>4, <3>1, AddToBag, CountAfterAdding
    <3>3. \A t \in Inflight' : tasks'[t].job # j
      BY <2>2, <3>1 DEF Inflight
    <3>4. QED
      BY <2>6, <3>2, <3>3 DEF OneCarrier, LiveEntries
  <2>8. CASE j \notin S
    <3>1. generations'[j] = generations[j]
      BY <1>a, <2>1, <2>2, <2>8, RefreshEffect DEF Registered
    <3>2. ASSUME NEW e \in LiveEntries', e.job = j
          PROVE  e \in LiveEntries /\ queue'[e] = queue[e]
      <4>1. e \in BagToSet(queue') /\ e \notin New
        BY <2>5, <2>8, <3>2 DEF LiveEntries
      <4>2. e \in BagToSet(queue) /\ queue'[e] = queue[e]
        BY <1>a, <2>4, <4>1, AddToBag, CountAfterAdding
      <4>3. Live(e)
        BY <2>2, <3>1, <3>2 DEF LiveEntries, Live
      <4>4. QED
        BY <4>2, <4>3 DEF LiveEntries
    <3>3. QED
      BY <1>b, <2>2, <2>3, <3>2, NoNewCarrier DEF KeepsEntries
  <2>9. QED
    BY <2>7, <2>8
<1>2. CASE Peeks
  <2>1. UNCHANGED <<registry, generations, tasks>> /\ queue' = Peeked
    BY <1>2 DEF Peeks, executionVars
  <2>2. BagToSet(queue') \subseteq BagToSet(queue)
        /\ \A e \in BagToSet(queue') : queue'[e] = queue[e]
    BY <2>1, PeekKeepsLive, CountAfterPeeking DEF Typed, TypeOK
  <2>3. KeepsEntries(j) /\ KeepsTasks(j)
    BY <2>1, <2>2 DEF KeepsEntries, KeepsTasks, LiveEntries, Live, Found, Registered,
                      Inflight
  <2>4. QED
    BY <1>b, <2>1, <2>3, NoNewCarrier DEF Registered
<1>3. CASE Registers
  <2>1. UNCHANGED <<queue, generations, tasks>>
    BY <1>3 DEF Registers, schedulingVars, executionVars
  <2>2. CASE j \in Registered
    <3>1. KeepsEntries(j) /\ KeepsTasks(j)
      BY <2>1, <2>2 DEF KeepsEntries, KeepsTasks, LiveEntries, Live, Found, Inflight
    <3>2. QED
      BY <1>b, <2>2, <3>1, NoNewCarrier
  <2>3. CASE j \notin Registered
    <3>1. registry[j] = "new" /\ j \notin active
      BY <1>3, <1>a, <2>3 DEF Registers, Registered, GenerationsBound
    <3>2. /\ \A e \in BagToSet(queue) : e.job # j
          /\ \A t \in Inflight : tasks[t].job # j
      BY <1>a, <3>1, NoCarrierBefore
    <3>3. QED
      BY <2>1, <3>2 DEF OneCarrier, LiveEntries, Inflight
  <2>4. QED
    BY <2>2, <2>3
<1>4. CASE Idles
  <2>1. UNCHANGED <<registry, queue, generations, tasks>>
    BY <1>4 DEF Idles, schedulingVars, executionVars
  <2>2. KeepsEntries(j) /\ KeepsTasks(j)
    BY <2>1 DEF KeepsEntries, KeepsTasks, LiveEntries, Live, Found, Registered, Inflight
  <2>3. QED
    BY <1>b, <2>1, <2>2, NoNewCarrier DEF Registered
<1>5. CASE QueueLaunch
  <2>1. PICK e \in LiveEntries, t \in TaskIds \ Inflight :
            queue' = Popped(e) /\ tasks' = [tasks EXCEPT ![t] = NewTask(e)]
    BY <1>5, LaunchFindsTaskId
  <2>2. UNCHANGED <<registry, generations>> /\ j \in Registered
    BY <1>5 DEF QueueLaunch, Registered
  <2>3. /\ \A u \in Inflight' : \/ u \in Inflight /\ tasks'[u] = tasks[u]
                                \/ u = t
        /\ tasks'[t].job = e.job
    BY <1>a, <2>1 DEF Inflight, NewTask
  <2>4. IsABag(Peeked) /\ LiveEntries \subseteq BagToSet(Peeked)
        /\ BagToSet(Peeked) \subseteq BagToSet(queue)
    BY PeekKeepsLive DEF Typed, TypeOK
  <2>5. ASSUME NEW f \in LiveEntries'
        PROVE  /\ f \in LiveEntries
               /\ f # e => queue'[f] = queue[f]
               /\ queue[e] = 1 => f # e
    <3>1. f \in BagToSet(Peeked (-) SetToBag({e})) /\ f \in BagToSet(Peeked)
      BY <2>1, <2>4, RemoveFromBag DEF LiveEntries, Popped
    <3>2. f \in LiveEntries
      BY <2>2, <2>4, <3>1 DEF LiveEntries, Live, Found, Registered
    <3>3. Peeked[f] = queue[f] /\ Peeked[e] = queue[e]
      BY <2>4, <3>1, CountAfterPeeking
    <3>4. QED
      BY <2>1, <2>4, <3>1, <3>2, <3>3, CountAfterRemoving DEF Popped
  <2>6. CASE e.job = j
    <3>1. queue[e] = 1 /\ (\A f \in LiveEntries : f.job = j => f = e)
          /\ \A u \in Inflight : tasks[u].job # j
      BY <1>b, <2>2, <2>6 DEF OneCarrier
    <3>2. \A f \in LiveEntries' : f.job # j
      BY <2>5, <3>1
    <3>3. \A u \in Inflight' : tasks'[u].job = j => u = t
      BY <2>3, <3>1
    <3>4. QED
      BY <3>2, <3>3 DEF OneCarrier
  <2>7. CASE e.job # j
    <3>1. KeepsEntries(j)
      BY <2>5, <2>7 DEF KeepsEntries
    <3>2. KeepsTasks(j)
      BY <2>3, <2>7 DEF KeepsTasks
    <3>3. QED
      BY <1>b, <2>2, <3>1, <3>2, NoNewCarrier
  <2>8. QED
    BY <2>6, <2>7
<1>6. CASE \E t \in TaskIds : Execute(t)
  <2>1. PICK t \in TaskIds : Execute(t)
    BY <1>6
  <2>2. UNCHANGED <<registry, generations>> /\ j \in Registered /\ t \in Inflight
    BY <2>1, TaskPushes, TaskEffect DEF Registered
  <2>3. KeepsTasks(j)
    BY <2>1, TasksAfter DEF KeepsTasks
  <2>4. CASE queue' = queue
    <3>1. KeepsEntries(j)
      BY <2>2, <2>4 DEF KeepsEntries, LiveEntries, Live, Found, Registered
    <3>2. QED
      BY <1>b, <2>2, <2>3, <3>1, NoNewCarrier
  <2>5. ASSUME EndTask(t), NEW S, queue' = queue (+) SetToBag(S),
               \A e \in S : e.job = tasks[t].job, \A e, f \in S : e = f
        PROVE  OneCarrier(j)'
    <3>1. ASSUME NEW e \in LiveEntries', e.job = j
          PROVE  \/ e \in LiveEntries /\ (e \notin S => queue'[e] = queue[e])
                 \/ e \in S /\ queue'[e] = 1
      <4>1. e \in BagToSet(queue') /\ Live(e)
        BY <2>2, <3>1 DEF LiveEntries, Live, Found, Registered
      <4>2. e \in BagToSet(queue) \/ e \in S
        BY <1>a, <2>5, <4>1, AddToBag
      <4>3. CASE e \in BagToSet(queue)
        BY <1>a, <2>5, <4>1, <4>3, CountAfterAdding DEF LiveEntries
      <4>4. CASE e \notin BagToSet(queue)
        BY <1>a, <2>5, <4>1, <4>2, <4>4, CountAfterAdding
      <4>5. QED
        BY <4>3, <4>4
    <3>2. CASE tasks[t].job = j
      <4>1. (\A e \in LiveEntries : e.job # j) /\ \A u \in Inflight : tasks[u].job = j => u = t
        BY <1>b, <2>2, <3>2 DEF OneCarrier
      <4>2. \A e \in LiveEntries' : e.job = j => e \in S /\ queue'[e] = 1
        BY <3>1, <4>1
      <4>3. t \notin Inflight'
        BY <1>a, <2>1, <2>5 DEF EndTask, Inflight
      <4>4. \A u \in Inflight' : tasks'[u].job # j
        BY <2>3, <4>1, <4>3 DEF KeepsTasks
      <4>5. QED
        BY <2>5, <4>2, <4>4 DEF OneCarrier
    <3>3. CASE tasks[t].job # j
      <4>1. KeepsEntries(j)
        BY <2>5, <3>1, <3>3 DEF KeepsEntries
      <4>2. QED
        BY <1>b, <2>2, <2>3, <4>1, NoNewCarrier
    <3>4. QED
      BY <3>2, <3>3
  <2>6. QED
    BY <2>1, <2>4, <2>5, TaskPushesOne
<1>7. QED
  BY <1>1, <1>2, <1>3, <1>4, <1>5, <1>6, OnlyNewJobs

-----------------------------------------------------------------------------
LEMMA OneCarrierIsChain ==
    ASSUME OneCarrierEach
    PROVE  SingleChain
<1> SUFFICES ASSUME NEW j \in Registered
             PROVE  /\ Cardinality(Chain(j).entries) + Cardinality(Chain(j).tasks) <= 1
                    /\ \A e \in Chain(j).entries : queue[e] = 1
  BY DEF SingleChain
<1> DEFINE entries == {e \in LiveEntries : e.job = j}
           execs == {t \in Inflight : tasks[t].job = j}
<1>1. Chain(j).entries = entries /\ Chain(j).tasks = execs
  BY DEF Chain
<1>2. OneCarrier(j)
  BY DEF OneCarrierEach
<1>3. entries = {} \/ \E e : entries = {e}
  BY <1>2 DEF OneCarrier
<1>4. execs = {} \/ \E t : execs = {t}
  BY <1>2 DEF OneCarrier
<1>5. entries = {} \/ execs = {}
  BY <1>2 DEF OneCarrier
<1>6. \A e \in entries : queue[e] = 1
  BY <1>2 DEF OneCarrier
<1> HIDE DEF entries, execs
<1>7. \A x : Cardinality({x}) = 1
  BY FS_Singleton
<1>8. Cardinality({}) = 0
  BY FS_EmptySet
<1>9. Cardinality(entries) + Cardinality(execs) <= 1
  <2>1. /\ Cardinality(entries) = 0 \/ Cardinality(entries) = 1
        /\ Cardinality(execs) = 0 \/ Cardinality(execs) = 1
    BY <1>3, <1>4, <1>7, <1>8
  <2>2. Cardinality(entries) = 0 \/ Cardinality(execs) = 0
    BY <1>5, <1>8
  <2>3. QED
    BY <2>1, <2>2
<1>10. QED
  BY <1>1, <1>6, <1>9

LEMMA AlwaysOneCarrier ==
    ASSUME ~MidnightRecalibration, "refresh_job" \notin ApiCalls
    PROVE  Spec => []OneCarrierEach
<1>1. Init => NoMidnight /\ OneCarrierEach
  BY DEF Init, SleepInit, SchedulingInit, ExecutionInit, NoMidnight, Coroutines,
         OneCarrierEach, OneCarrier, LiveEntries, EmptyBag, SetToBag, BagToSet, Inflight
<1>2. Typed /\ SlotsConserved /\ GenerationsBound /\ NoMidnight /\ OneCarrierEach
        /\ [Next]_vars => NoMidnight' /\ OneCarrierEach'
  BY NextWithoutMidnight, NextKeepsOneCarrier DEF OneCarrierEach
<1>3. QED
  BY <1>1, <1>2, AlwaysTyped, SlotsAlwaysConserved, GenerationsAlwaysBound, PTL
  DEF Spec

\* Without recalibration and refresh_job a registered job has one entry or one
\* execution, however registrations, removals, failures, retries, skipped
\* occurrences and restarts of run() interleave: it never overlaps itself.
THEOREM JobsRunInChains ==
    ASSUME ~MidnightRecalibration, "refresh_job" \notin ApiCalls
    PROVE  Spec => []SingleChain
<1>1. OneCarrierEach => SingleChain
  BY OneCarrierIsChain
<1>2. QED
  BY <1>1, AlwaysOneCarrier, PTL

-----------------------------------------------------------------------------
(***************************************************************************)
(* Retries.  RetriesFollowFailures speaks of the history; what makes it    *)
(* inductive is that each link of a chain, entry or task, follows the      *)
(* last record of its job, and that there is one link at a time.           *)
(***************************************************************************)
\* Among the first n records, the last of job j is the failure of the attempt
\* before `attempt`, unless j has no record there.
RecordsOf(j, n) == {k \in 1 .. n : history[k].job = j}
FollowsFailure(j, n, attempt) ==
    attempt > 1 =>
        \/ RecordsOf(j, n) = {}
        \/ \E k \in RecordsOf(j, n) :
            /\ \A l \in RecordsOf(j, n) : l <= k
            /\ history[k].status = "error"
            /\ history[k].attempt = attempt - 1

\* A removed job, too, has one task at most.
OneTaskEach ==
    \A t, u \in Inflight : tasks[t].job = tasks[u].job => t = u
LinksFollow ==
    /\ \A e \in LiveEntries : FollowsFailure(e.job, Len(history), e.attempt)
    /\ \A t \in Inflight : FollowsFailure(tasks[t].job, Len(history), tasks[t].attempt)
HistoryFollows ==
    \A i \in 1 .. Len(history) : FollowsFailure(history[i].job, i - 1, history[i].attempt)
RetryInv == OneTaskEach /\ LinksFollow /\ HistoryFollows

-----------------------------------------------------------------------------
\* A record of job j is appended, and the first `drop` records are dropped.
Appended(drop, record) ==
    /\ Len(history') = Len(history) + 1 - drop
    /\ \A k \in 1 .. Len(history') :
          history'[k] = IF k + drop <= Len(history) THEN history[k + drop] ELSE record

Recorded == [job: Jobs, attempt: Nat, status: Status]

LEMMA RecordAppends ==
    ASSUME Typed, NEW t \in Inflight, NEW status \in Status, Record(t, status)
    PROVE  \E drop \in {0, 1} :
              Appended(drop, [job |-> tasks[t].job, attempt |-> tasks[t].attempt,
                              status |-> status])
<1> DEFINE record == [job |-> tasks[t].job, attempt |-> tasks[t].attempt,
                      status |-> status]
           longer == Append(history, record)
<1>1. history \in Seq(Recorded) /\ record \in Recorded
  BY DEF Typed, TypeOK, ExecutionTypeOK, Inflight, Task, Recorded
<1>2. history' = longer \/ history' = Tail(longer)
  BY DEF Record
<1> HIDE DEF record
<1>3. /\ longer \in Seq(Recorded) /\ Len(longer) = Len(history) + 1 /\ Len(history) \in Nat
      /\ \A k \in 1 .. Len(longer) :
            longer[k] = IF k <= Len(history) THEN history[k] ELSE record
  BY <1>1
<1> HIDE DEF longer
<1>4. /\ longer # <<>>
      /\ Len(Tail(longer)) = Len(longer) - 1
      /\ \A k \in 1 .. Len(longer) - 1 : Tail(longer)[k] = longer[k + 1]
  BY <1>3
<1>5. CASE history' = longer
  BY <1>3, <1>5 DEF Appended, record
<1>6. CASE history' = Tail(longer)
  <2>1. Appended(1, record)
    BY <1>3, <1>4, <1>6 DEF Appended
  <2>2. QED
    BY <2>1 DEF record
<1>7. QED
  BY <1>2, <1>5, <1>6

\* The records of a job after that: the old ones that are left, ...
LEMMA RecordsMove ==
    ASSUME Typed, NEW drop \in {0, 1}, NEW record, Appended(drop, record),
           NEW j, NEW n \in 0 .. Len(history)
    PROVE  /\ n - drop \in Int
           /\ \A k \in RecordsOf(j, n - drop)' :
                 /\ k \in Nat /\ k + drop \in RecordsOf(j, n)
                 /\ history'[k] = history[k + drop]
           /\ \A k \in RecordsOf(j, n) :
                 k - drop >= 1 => /\ k - drop \in RecordsOf(j, n - drop)'
                                  /\ history'[k - drop] = history[k]
<1>1. Len(history) \in Nat
  BY DEF Typed, TypeOK, ExecutionTypeOK
<1>2. n \in Nat /\ n <= Len(history)
  BY <1>1
<1>3. n - drop \in Int /\ n - drop <= Len(history')
  BY <1>1, <1>2 DEF Appended
<1>4. ASSUME NEW k \in RecordsOf(j, n - drop)'
      PROVE  /\ k \in Nat /\ k + drop \in RecordsOf(j, n)
             /\ history'[k] = history[k + drop]
  <2>1. k \in 1 .. (n - drop) /\ history'[k].job = j
    BY <1>4 DEF RecordsOf
  <2>2. k \in 1 .. Len(history') /\ k + drop <= Len(history) /\ k + drop \in 1 .. n
    BY <1>1, <1>2, <1>3, <2>1 DEF Appended
  <2>3. history'[k] = history[k + drop]
    BY <2>2 DEF Appended
  <2>4. QED
    BY <2>1, <2>2, <2>3 DEF RecordsOf
<1>5. ASSUME NEW k \in RecordsOf(j, n), k - drop >= 1
      PROVE  /\ k - drop \in RecordsOf(j, n - drop)'
             /\ history'[k - drop] = history[k]
  <2>1. k \in 1 .. n /\ history[k].job = j
    BY DEF RecordsOf
  <2>2. PICK m : m = k - drop
    OBVIOUS
  <2>3. /\ m \in 1 .. (n - drop) /\ m \in 1 .. Len(history')
        /\ m + drop = k /\ k <= Len(history)
    BY <1>1, <1>2, <1>3, <1>5, <2>1, <2>2
  <2>4. history'[m] = history[k]
    BY <2>3 DEF Appended
  <2>5. m \in RecordsOf(j, n - drop)'
    BY <2>1, <2>3, <2>4 DEF RecordsOf
  <2>6. QED
    BY <2>2, <2>4, <2>5
<1>6. QED
  BY <1>3, <1>4, <1>5

LEMMA FollowsStill ==
    ASSUME Typed, NEW drop \in {0, 1}, NEW record, Appended(drop, record),
           NEW j, NEW n \in 0 .. Len(history), NEW attempt \in Nat,
           FollowsFailure(j, n, attempt)
    PROVE  FollowsFailure(j, n - drop, attempt)'
<1> SUFFICES ASSUME attempt > 1, RecordsOf(j, n - drop)' # {}
             PROVE  \E k \in RecordsOf(j, n - drop)' :
                      /\ \A l \in RecordsOf(j, n - drop)' : l <= k
                      /\ history'[k].status = "error"
                      /\ history'[k].attempt = attempt - 1
  BY DEF FollowsFailure
<1>1. /\ \A k \in RecordsOf(j, n - drop)' :
            /\ k \in Nat /\ k >= 1 /\ k + drop \in RecordsOf(j, n)
      /\ \A k \in RecordsOf(j, n) :
            k - drop >= 1 => /\ k - drop \in RecordsOf(j, n - drop)'
                             /\ history'[k - drop] = history[k]
      /\ \A k \in RecordsOf(j, n) : k \in Nat
  <2>1. \A k \in RecordsOf(j, n - drop)' : k \in 1 .. (n - drop)
    BY DEF RecordsOf
  <2>2. \A k \in RecordsOf(j, n) : k \in 1 .. n
    BY DEF RecordsOf
  <2>3. n \in Int /\ n - drop \in Int
    BY DEF Typed, TypeOK, ExecutionTypeOK
  <2>4. QED
    BY <2>1, <2>2, <2>3, RecordsMove
<1>2. PICK k \in RecordsOf(j, n) : /\ \A l \in RecordsOf(j, n) : l <= k
                                   /\ history[k].status = "error"
                                   /\ history[k].attempt = attempt - 1
  BY <1>1 DEF FollowsFailure
<1>3. k - drop >= 1
  BY <1>1, <1>2
<1>4. \A l \in RecordsOf(j, n - drop)' : l <= k - drop
  BY <1>1, <1>2
<1>5. QED
  BY <1>1, <1>2, <1>3, <1>4

\* ... for other jobs nothing more, and for that job its new record, the last.
LEMMA FollowsLastOfOthers ==
    ASSUME Typed, NEW drop \in {0, 1}, NEW record, Appended(drop, record),
           NEW j, j # record.job, NEW attempt \in Nat,
           FollowsFailure(j, Len(history), attempt)
    PROVE  FollowsFailure(j, Len(history), attempt)'
<1>1. PICK n \in Nat : n = Len(history)
  BY DEF Typed, TypeOK, ExecutionTypeOK
<1>2. FollowsFailure(j, n - drop, attempt)'
  BY <1>1, FollowsStill
<1>3. RecordsOf(j, Len(history))' = RecordsOf(j, n - drop)'
  BY <1>1 DEF RecordsOf, Appended
<1>4. QED
  BY <1>2, <1>3 DEF FollowsFailure

LEMMA FollowsNewFailure ==
    ASSUME Typed, NEW drop \in {0, 1}, NEW record, Appended(drop, record),
           record.status = "error", record.attempt \in Nat
    PROVE  FollowsFailure(record.job, Len(history), record.attempt + 1)'
<1>0. Len(history) \in Nat
  BY DEF Typed, TypeOK, ExecutionTypeOK
<1>1. PICK n \in Nat : n = Len(history')
  BY <1>0 DEF Appended
<1>2. CASE n = 0
  BY <1>1, <1>2 DEF FollowsFailure, RecordsOf
<1>3. CASE n > 0
  <2>1. n = Len(history) + 1 - drop /\ Len(history) \in Nat
    BY <1>1 DEF Typed, TypeOK, ExecutionTypeOK, Appended
  <2>2. history'[n] = record
    BY <1>1, <1>3, <2>1 DEF Appended
  <2>3. n \in RecordsOf(record.job, Len(history))'
        /\ \A l \in RecordsOf(record.job, Len(history))' : l <= n
    BY <1>1, <1>3, <2>2 DEF RecordsOf
  <2>4. QED
    BY <2>2, <2>3 DEF FollowsFailure
<1>4. QED
  BY <1>2, <1>3

LEMMA HistoryFollowsStill ==
    ASSUME Typed, NEW drop \in {0, 1}, NEW record \in Recorded, Appended(drop, record),
           HistoryFollows, FollowsFailure(record.job, Len(history), record.attempt)
    PROVE  HistoryFollows'
<1>a. /\ Len(history) \in Nat /\ Len(history') = Len(history) + 1 - drop
      /\ \A k \in 1 .. Len(history) : history[k].attempt \in Nat
  <2>1. history \in Seq(Recorded)
    BY DEF Typed, TypeOK, ExecutionTypeOK, Recorded
  <2>2. \A k \in 1 .. Len(history) : history[k] \in Recorded
    BY <2>1
  <2>3. QED
    BY <2>1, <2>2 DEF Recorded, Appended
<1> SUFFICES ASSUME NEW i \in 1 .. Len(history')
             PROVE  FollowsFailure(history[i].job, i - 1, history[i].attempt)'
  BY DEF HistoryFollows
<1>1. PICK n \in Nat : n = i + drop - 1
  BY <1>a
<1>2. PICK r : r = history'[i]
  OBVIOUS
<1>3. n \in 0 .. Len(history) /\ i - 1 = n - drop
  BY <1>a, <1>1
<1>4. r.attempt \in Nat /\ FollowsFailure(r.job, n, r.attempt)
  <2>1. CASE i + drop <= Len(history)
    <3>1. r = history[n + 1] /\ n + 1 \in 1 .. Len(history) /\ (n + 1) - 1 = n
      BY <1>a, <1>1, <1>2, <2>1 DEF Appended
    <3>2. QED
      BY <1>a, <3>1 DEF HistoryFollows
  <2>2. CASE ~(i + drop <= Len(history))
    <3>1. r = record /\ n = Len(history)
      BY <1>a, <1>1, <1>2, <2>2 DEF Appended
    <3>2. QED
      BY <3>1 DEF Recorded
  <2>3. QED
    BY <2>1, <2>2
<1>5. FollowsFailure(r.job, n - drop, r.attempt)'
  BY <1>3, <1>4, FollowsStill
<1>6. QED
  BY <1>2, <1>3, <1>5

-----------------------------------------------------------------------------
\* What the end of a task records and pushes: an attempt after the first follows
\* the failure that is recorded with it.
LEMMA TaskRecords ==
    ASSUME Typed, NEW t \in TaskIds, Execute(t)
    PROVE  \/ UNCHANGED <<queue, history>>
           \/ /\ EndTask(t)
              /\ \E status \in Status : \E S :
                   /\ Record(t, status)
                   /\ queue' = queue (+) SetToBag(S)
                   /\ \A e \in S :
                        /\ e.job = tasks[t].job
                        /\ \/ e.attempt = 1
                           \/ status = "error" /\ e.attempt = tasks[t].attempt + 1
<1> DEFINE j == tasks[t].job
           Fresh(S) == \A e \in S : e.job = j /\ e.attempt = 1
<1>a. t \in Inflight /\ j \in Jobs
  BY TaskEffect DEF Inflight, Task, Typed, TypeOK, ExecutionTypeOK
<1>1. \A generation : Fresh(NextEntries(j, 1, generation))
  BY <1>a, NextKeepsAttempt
<1>2. \A e \in RetryEntries(j, tasks[t].attempt) :
          e.job = j /\ (e.attempt = 1 \/ e.attempt = tasks[t].attempt + 1)
  <2>1. \/ RetryEntries(j, tasks[t].attempt)
              = NextEntries(j, tasks[t].attempt + 1, CurrentGeneration(j))
        \/ RetryEntries(j, tasks[t].attempt) = NextEntries(j, 1, CurrentGeneration(j))
        \/ RetryEntries(j, tasks[t].attempt) =
              {[when |-> now + RetryPolicy[j].retryInterval,
                generation |-> CurrentGeneration(j),
                job |-> j, attempt |-> tasks[t].attempt + 1]}
    BY DEF RetryEntries
  <2>2. QED
    BY <1>a, <2>1, NextKeepsAttempt
<1> HIDE DEF Fresh
<1>3. CASE StartMissed(t) \/ ConditionsFail(t) \/ JobSucceeds(t)
  <2>1. /\ EndTask(t)
        /\ \E status \in Status : \E S :
              Record(t, status) /\ queue' = queue (+) SetToBag(S) /\ Fresh(S)
    BY <1>1, <1>3 DEF StartMissed, ConditionsFail, JobSucceeds, Push, Status
  <2>2. QED
    BY <2>1 DEF Fresh
<1>4. CASE JobFails(t)
  <2>1. /\ EndTask(t) /\ Record(t, "error")
        /\ \/ \E generation :
                queue' = queue (+) SetToBag(NextEntries(j, 1, generation))
           \/ queue' = queue (+) SetToBag(RetryEntries(j, tasks[t].attempt))
    BY <1>4 DEF JobFails, Push
  <2>2. QED
    BY <1>1, <1>2, <2>1 DEF Fresh, Status
<1>5. CASE StartRemoved(t) \/ StartConditions(t) \/ ConditionsPass(t)
        \/ JobCancelled(t) \/ CancelledByGather(t)
  BY <1>5 DEF StartRemoved, StartConditions, ConditionsPass, JobCancelled,
              CancelledIn, CancelledByGather
<1>6. QED
  BY <1>3, <1>4, <1>5 DEF Execute, TaskStep

\* Links that stay, with a history that stays.
LEMMA SameLinks ==
    ASSUME RetryInv, history' = history,
           \A e \in LiveEntries' : e \in LiveEntries \/ e.attempt = 1,
           \A t \in Inflight' : /\ t \in Inflight
                                /\ tasks'[t].job = tasks[t].job
                                /\ tasks'[t].attempt = tasks[t].attempt
    PROVE  RetryInv'
<1>1. \A j, n, attempt : FollowsFailure(j, n, attempt)' <=> FollowsFailure(j, n, attempt)
  BY DEF FollowsFailure, RecordsOf
<1>2. OneTaskEach'
  BY DEF RetryInv, OneTaskEach
<1>3. LinksFollow'
  <2>1. ASSUME NEW e \in LiveEntries'
        PROVE  FollowsFailure(e.job, Len(history), e.attempt)'
    <3>1. CASE e \in LiveEntries
      BY <3>1 DEF RetryInv, LinksFollow, FollowsFailure, RecordsOf
    <3>2. CASE e.attempt = 1
      BY <3>2 DEF FollowsFailure
    <3>3. QED
      BY <2>1, <3>1, <3>2
  <2>2. ASSUME NEW t \in Inflight'
        PROVE  FollowsFailure(tasks[t].job, Len(history), tasks[t].attempt)'
    <3>1. FollowsFailure(tasks[t].job, Len(history), tasks[t].attempt)
      BY <2>2 DEF RetryInv, LinksFollow
    <3>2. QED
      BY <2>2, <3>1 DEF FollowsFailure, RecordsOf
  <2>3. QED
    BY <2>1, <2>2 DEF LinksFollow
<1>4. HistoryFollows'
  BY DEF RetryInv, HistoryFollows, FollowsFailure, RecordsOf
<1>5. QED
  BY <1>2, <1>3, <1>4 DEF RetryInv

\* A live entry after a step is one before it, or was pushed by the step.
LEMMA LiveBefore ==
    ASSUME Typed, GenerationsBound, [Next]_vars,
           NEW e \in LiveEntries', e \in BagToSet(queue)
    PROVE  e \in LiveEntries
  BY StaleStep DEF LiveEntries

LEMMA NextRetryInv ==
    ASSUME Typed, SlotsConserved, GenerationsBound, OneCarrierEach, RetryInv, [Next]_vars
    PROVE  RetryInv'
<1>a. /\ IsABag(queue) /\ tasks \in [TaskIds -> Task \cup {NoTask}]
      /\ BagToSet(queue) \subseteq Entry
  BY DEF Typed, TypeOK, SchedulingTypeOK, ExecutionTypeOK
<1>1. CASE \E S, gone : Refreshes(S, gone)
  <2>1. PICK S, gone : Refreshes(S, gone)
    BY <1>1
  <2>2. tasks' = tasks /\ history' = history
    BY <2>1 DEF Refreshes, executionVars
  <2>3. ASSUME NEW e \in LiveEntries' PROVE e \in LiveEntries \/ e.attempt = 1
    <3>1. CASE e \in BagToSet(queue)
      BY <3>1, LiveBefore
    <3>2. CASE e \notin BagToSet(queue)
      <4>1. e \in BagToSet(queue')
        BY DEF LiveEntries
      <4>2. PICK j \in S : e \in NextEntries(j, 1, generations[j] + 1)
        BY <2>1, <3>2, <4>1, RefreshEffect
      <4>3. j \in Jobs
        BY <2>1, RefreshEffect
      <4>4. QED
        BY <4>2, <4>3, NextKeepsAttempt
    <3>3. QED
      BY <3>1, <3>2
  <2>4. QED
    BY <2>2, <2>3, SameLinks DEF Inflight
<1>2. CASE Peeks \/ Registers \/ Idles
  <2>1. UNCHANGED <<tasks, history>> /\ BagToSet(queue') \subseteq BagToSet(queue)
    BY <1>2, PeekKeepsLive
    DEF Peeks, Registers, Idles, schedulingVars, executionVars, Typed, TypeOK
  <2>2. \A e \in LiveEntries' : e \in LiveEntries
    BY <2>1, LiveBefore DEF LiveEntries
  <2>3. QED
    BY <2>1, <2>2, SameLinks DEF Inflight
<1>3. CASE QueueLaunch
  <2>1. PICK e \in LiveEntries, t \in TaskIds \ Inflight :
            queue' = Popped(e) /\ tasks' = [tasks EXCEPT ![t] = NewTask(e)]
    BY <1>3, LaunchFindsTaskId
  <2>2. history' = history /\ BagToSet(queue') \subseteq BagToSet(queue)
    BY <1>3, <2>1, PopKeepsLive DEF QueueLaunch, Typed, TypeOK
  <2>3. \A f \in LiveEntries' : f \in LiveEntries
    BY <2>2, LiveBefore DEF LiveEntries
  <2>4. \A u \in Inflight' : \/ u \in Inflight /\ u # t /\ tasks'[u] = tasks[u]
                             \/ u = t
    BY <1>a, <2>1 DEF Inflight
  <2>5. tasks'[t].job = e.job /\ tasks'[t].attempt = e.attempt
    BY <1>a, <2>1 DEF NewTask
  <2>6. e.job \in Registered /\ \A u \in Inflight : tasks[u].job # e.job
    <3>1. e.job \in Registered
      BY DEF LiveEntries, Live, Found
    <3>2. QED
      BY <3>1 DEF OneCarrierEach, OneCarrier
  <2>7. OneTaskEach'
    BY <2>4, <2>5, <2>6 DEF RetryInv, OneTaskEach
  <2>8. LinksFollow' /\ HistoryFollows'
    BY <2>2, <2>3, <2>4, <2>5
    DEF RetryInv, LinksFollow, HistoryFollows, FollowsFailure, RecordsOf
  <2>9. QED
    BY <2>7, <2>8 DEF RetryInv
<1>4. CASE \E t \in TaskIds : Execute(t)
  <2>1. PICK t \in TaskIds : Execute(t)
    BY <1>4
  <2>2. t \in Inflight
    BY <2>1, TaskEffect
  <2>3. \A u \in Inflight' : /\ u \in Inflight
                             /\ tasks'[u].job = tasks[u].job
                             /\ tasks'[u].attempt = tasks[u].attempt
    BY <2>1, TasksKeepAttempt
  <2>4. CASE UNCHANGED <<queue, history>>
    <3>1. \A e \in LiveEntries' : e \in LiveEntries
      BY <2>4, LiveBefore DEF LiveEntries
    <3>2. QED
      BY <2>3, <2>4, <3>1, SameLinks
  <2>5. CASE ~UNCHANGED <<queue, history>>
    <3>1. PICK status, S :
            /\ status \in Status /\ EndTask(t)
            /\ Record(t, status)
            /\ queue' = queue (+) SetToBag(S)
            /\ \A e \in S :
                 /\ e.job = tasks[t].job
                 /\ \/ e.attempt = 1
                    \/ status = "error" /\ e.attempt = tasks[t].attempt + 1
      BY <2>1, <2>5, TaskRecords
    <3> DEFINE record == [job |-> tasks[t].job, attempt |-> tasks[t].attempt,
                          status |-> status]
    <3>2. PICK drop, r : drop \in {0, 1} /\ r = record /\ Appended(drop, r)
      BY <2>2, <3>1, RecordAppends
    <3>3. /\ r \in Recorded /\ r.attempt \in Nat
          /\ r.job = tasks[t].job /\ r.attempt = tasks[t].attempt /\ r.status = status
      BY <1>a, <2>2, <3>1, <3>2 DEF Recorded, Inflight, Task
    <3> HIDE DEF record
    <3>4. ASSUME NEW u \in Inflight' PROVE tasks[u].job # r.job /\ tasks[u].attempt \in Nat
      <4>1. u # t
        BY <1>a, <2>2, <3>1, <3>4 DEF EndTask, Inflight
      <4>2. QED
        BY <1>a, <2>2, <2>3, <3>3, <3>4, <4>1 DEF RetryInv, OneTaskEach, Inflight, Task
    <3>5. ASSUME NEW u \in Inflight'
          PROVE  FollowsFailure(tasks[u].job, Len(history), tasks[u].attempt)'
      <4>0. /\ tasks'[u].job = tasks[u].job
            /\ tasks'[u].attempt = tasks[u].attempt
        BY <2>3, <3>5
      <4>1. PICK j, a : /\ j = tasks[u].job /\ a = tasks[u].attempt
                        /\ j = tasks'[u].job /\ a = tasks'[u].attempt
        BY <4>0
      <4>2. FollowsFailure(j, Len(history), a) /\ j # r.job /\ a \in Nat
        BY <2>3, <3>4, <3>5, <4>1 DEF RetryInv, LinksFollow
      <4>3. FollowsFailure(j, Len(history), a)'
        BY <3>2, <4>2, FollowsLastOfOthers
      <4>4. QED
        BY <4>1, <4>3
    <3>6. ASSUME NEW e \in LiveEntries'
          PROVE  FollowsFailure(e.job, Len(history), e.attempt)'
      <4>1. e \in BagToSet(queue) \/ e \in S
        BY <1>a, <3>1, AddToBag DEF LiveEntries
      <4>2. CASE e \in S
        <5>1. CASE e.attempt = 1
          BY <5>1 DEF FollowsFailure
        <5>2. CASE e.attempt # 1
          <6>1. r.status = "error" /\ e.job = r.job /\ e.attempt = r.attempt + 1
            BY <3>1, <3>3, <4>2, <5>2
          <6>2. QED
            BY <3>2, <3>3, <6>1, FollowsNewFailure
        <5>3. QED
          BY <5>1, <5>2
      <4>3. CASE e \in BagToSet(queue)
        <5>1. e \in LiveEntries /\ e.attempt \in Nat
          BY <1>a, <4>3, LiveBefore DEF Entry
        <5>2. e.job # r.job
          <6>1. e.job \in Registered
            BY <5>1 DEF LiveEntries, Live, Found
          <6>2. QED
            BY <2>2, <3>3, <5>1, <6>1 DEF OneCarrierEach, OneCarrier
        <5>3. FollowsFailure(e.job, Len(history), e.attempt)
          BY <5>1 DEF RetryInv, LinksFollow
        <5>4. QED
          BY <3>2, <5>1, <5>2, <5>3, FollowsLastOfOthers
      <4>4. QED
        BY <4>1, <4>2, <4>3
    <3>7. HistoryFollows'
      <4>1. FollowsFailure(r.job, Len(history), r.attempt)
        BY <2>2, <3>3 DEF RetryInv, LinksFollow
      <4>2. QED
        BY <3>2, <3>3, <4>1, HistoryFollowsStill DEF RetryInv
    <3>8. OneTaskEach'
      BY <2>3 DEF RetryInv, OneTaskEach
    <3>9. QED
      BY <3>5, <3>6, <3>7, <3>8 DEF RetryInv, LinksFollow
  <2>6. QED
    BY <2>4, <2>5
<1>5. QED
  BY <1>1, <1>2, <1>3, <1>4, StepEffects

LEMMA RetryInvIsEnough ==
    ASSUME Typed, RetryInv
    PROVE  RetriesFollowFailures
<1> SUFFICES ASSUME NEW i \in DOMAIN history,
                    history[i].attempt > 1, EarlierRecords(i) # {}
             PROVE  LET k == CHOOSE k \in EarlierRecords(i) :
                               \A l \in EarlierRecords(i) : l <= k
                    IN  /\ history[k].status = "error"
                        /\ history[k].attempt = history[i].attempt - 1
  BY DEF RetriesFollowFailures
<1>1. i \in 1 .. Len(history) /\ EarlierRecords(i) = RecordsOf(history[i].job, i - 1)
  BY DEF Typed, TypeOK, ExecutionTypeOK, EarlierRecords, RecordsOf
<1>2. PICK k \in EarlierRecords(i) : /\ \A l \in EarlierRecords(i) : l <= k
                                     /\ history[k].status = "error"
                                     /\ history[k].attempt = history[i].attempt - 1
  BY <1>1 DEF RetryInv, HistoryFollows, FollowsFailure
<1>3. EarlierRecords(i) \subseteq Int
  BY DEF EarlierRecords
<1>4. \A l \in EarlierRecords(i) : (\A m \in EarlierRecords(i) : m <= l) => l = k
  BY <1>2, <1>3
<1>5. k = CHOOSE l \in EarlierRecords(i) : \A m \in EarlierRecords(i) : m <= l
  BY <1>2, <1>4
<1>6. QED
  BY <1>2, <1>5

\* Without recalibration and refresh_job a retry in the history follows the
\* failure it retries, whatever jobs, tasks and calls come in between, and
\* however short the history is.
THEOREM RetriesAlwaysFollowFailures ==
    ASSUME ~MidnightRecalibration, "refresh_job" \notin ApiCalls
    PROVE  Spec => []RetriesFollowFailures
<1>1. Init => RetryInv
  BY DEF Init, SchedulingInit, ExecutionInit, EmptyBag, SetToBag, BagToSet, Inflight,
         LiveEntries, RetryInv, OneTaskEach, LinksFollow, HistoryFollows
<1>2. Spec => []OneCarrierEach
  BY AlwaysOneCarrier
<1>3. Typed /\ SlotsConserved /\ GenerationsBound /\ OneCarrierEach /\ RetryInv
        /\ [Next]_vars => RetryInv'
  BY NextRetryInv
<1>4. Typed /\ RetryInv => RetriesFollowFailures
  BY RetryInvIsEnough
<1>5. QED
  BY <1>1, <1>2, <1>3, <1>4, AlwaysTyped, SlotsAlwaysConserved, GenerationsAlwaysBound,
     PTL DEF Spec
=============================================================================
