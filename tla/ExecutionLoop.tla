---------------------------- MODULE ExecutionLoop ----------------------------
(***************************************************************************)
(* ExecutionLoop (daemon/loop.py): run() with its two coroutines, the      *)
(* queue loop that launches jobs and the midnight loop that recalibrates   *)
(* them, the tasks in flight, and the public API that other coroutines,    *)
(* and through the registry worker threads, call at any time.              *)
(*                                                                         *)
(* One run() is in progress at a time; it may be called again when it has  *)
(* returned.                                                               *)
(***************************************************************************)
EXTENDS Execution

CONSTANTS
    Until,                  \* run(until=...), NoTime when there is none
    MidnightRecalibration,  \* midnight_recalibration
    ApiCalls,               \* which calls the environment makes
    MaxGeneration           \* refresh_job is called up to this generation

ASSUME LoopAssumption ==
    /\ Until \in Nat \cup {NoTime}
    /\ MidnightRecalibration \in BOOLEAN
    /\ ApiCalls \subseteq {"register", "remove", "clear", "stop", "cancel",
                           "cancel_gather", "refresh_job", "sync_registry", "peek_next"}
    /\ MaxGeneration \in Nat

\* The program counter of run():
\*   "idle"       none in progress    "running"    in the TaskGroup
\*   "gathering"  awaiting the tasks  "cancelled"  the same, after cancellation
\*   "raised"     none in progress, the last one raised out of its gather
VARIABLE runPc

RunPCs == {"idle", "running", "gathering", "cancelled", "raised"}
Ended == runPc \in {"idle", "raised"}

vars == <<sleepVars, registryVars, schedulingVars, executionVars, runPc>>

DeadlinePassed == Until # NoTime /\ now >= Until

-----------------------------------------------------------------------------
\* run(): populate and create the coroutines.
Run ==
    /\ Ended
    /\ runPc' = "running"
    /\ running' = TRUE
    /\ pc' = [c \in Coroutines |-> IF c = "queue" \/ MidnightRecalibration
                                   THEN "start" ELSE "done"]
    /\ PopulateAll
    /\ UNCHANGED <<now, waitFor, registry, executionVars>>

\* The finally clause: run() leaves one stage of it for another.
CoroutinesDone == \A c \in Coroutines : pc[c] = "done"
Unwinds(stages, stage) ==
    /\ runPc \in stages
    /\ runPc' = stage
    /\ UNCHANGED <<now, pc, waitFor, signalled>>
    /\ UNCHANGED <<registry, schedulingVars, executionVars>>

\* It awaits the tasks in flight.  (A task starts before its creator's end gets
\* back to run(): what is ready is resumed in order.)
RunGathers ==
    /\ CoroutinesDone
    /\ Inflight # {}
    /\ \A t \in Inflight : tasks[t].phase # "created"
    /\ Unwinds({"running"}, "gathering")
    /\ UNCHANGED running

\* Variant of RunReturns: the tasks in flight are not gathered.
RunReturnsAtOnce ==
    /\ CoroutinesDone
    /\ Unwinds({"running", "gathering"}, "idle")
    /\ running' = FALSE

RunReturns ==
    /\ CoroutinesDone
    /\ Inflight = {}
    /\ Unwinds({"running", "gathering"}, "idle")
    /\ running' = FALSE

\* gather() was cancelled: when the last task has ended it raises, and the
\* assignment to running is passed over.
RunRaises ==
    /\ Inflight = {}
    /\ Unwinds({"cancelled"}, "raised")
    /\ UNCHANGED running

RunStep == Run \/ RunGathers \/ RunReturns \/ RunRaises

-----------------------------------------------------------------------------
\* _queue_loop.
AtTop(c) == pc[c] = "loop"

LoopEnds(c) ==
    /\ AtTop(c)
    /\ ~running
    /\ Goto(c, "done")
    /\ UNCHANGED <<now, running, waitFor, signalled>>
    /\ UNCHANGED <<registry, schedulingVars, executionVars, runPc>>

QueueDeadline ==
    /\ AtTop("queue")
    /\ running
    /\ DeadlinePassed
    /\ running' = FALSE
    /\ SetWake
    /\ Goto("queue", "done")
    /\ UNCHANGED <<now, waitFor>>
    /\ UNCHANGED <<registry, schedulingVars, executionVars, runPc>>

QueuePopulate ==
    /\ AtTop("queue")
    /\ running
    /\ ~DeadlinePassed
    /\ PopulateMissing
    /\ Goto("queue", "peek")
    /\ UNCHANGED <<now, running, waitFor, registry, executionVars, runPc>>

\* _peek_valid found nothing, or nothing due.
QueueEmpty ==
    /\ pc["queue"] = "peek"
    /\ LiveEntries = {}
    /\ queue' = Peeked
    /\ EnterSleep("queue")
    /\ UNCHANGED <<registry, generations, active, lastRefresh, executionVars, runPc>>

QueueEarly ==
    /\ pc["queue"] = "peek"
    /\ \E e \in LiveEntries : IsHead(e) /\ e.when > now /\ EnterWait("queue", e.when)
    /\ queue' = Peeked
    /\ UNCHANGED <<registry, generations, active, lastRefresh, executionVars, runPc>>

HeadIsDue == \E e \in LiveEntries : IsHead(e) /\ e.when <= now

\* _acquire_concurrency_slot suspends: no slot is free.
QueueBlocks ==
    /\ pc["queue"] = "peek"
    /\ HeadIsDue
    /\ available = 0
    /\ queue' = Peeked
    /\ Goto("queue", "acquire")
    /\ UNCHANGED <<now, running, waitFor, signalled>>
    /\ UNCHANGED <<registry, generations, active, lastRefresh, executionVars, runPc>>

\* It has a slot: at once, or after waiting for it, be it that stop() was
\* called meanwhile.
\* Variant of HasSlot: after the poll the launch goes on without a slot.
HasSlotOrPolled == pc["queue"] = "peek" \/ (pc["queue"] = "acquire" /\ Idle)
HasSlot ==
    /\ available > 0
    /\ pc["queue"] = "peek" \/ (pc["queue"] = "acquire" /\ Idle)

\* The heap is peeked again after the await, and the top popped and launched.
QueueLaunch ==
    /\ HasSlot
    /\ \E e \in LiveEntries :
        /\ IsHead(e)
        /\ e.when <= now
        /\ queue' = Popped(e)
        /\ Spawn(e)
    /\ available' = available - 1
    /\ Goto("queue", "loop")
    /\ UNCHANGED <<now, running, waitFor, signalled>>
    /\ UNCHANGED <<registry, generations, active, lastRefresh, history, runPc>>

\* Nothing is due any more: the slot is released.
QueueReleases ==
    /\ HasSlot
    /\ pc["queue"] = "acquire"
    /\ ~HeadIsDue
    /\ queue' = Peeked
    /\ Goto("queue", "loop")
    /\ UNCHANGED <<now, running, waitFor, signalled>>
    /\ UNCHANGED <<registry, generations, active, lastRefresh, executionVars, runPc>>

\* A poll of the semaphore timed out and stop() was called.
QueueGivesUp ==
    /\ Idle
    /\ pc["queue"] = "acquire"
    /\ ~running
    /\ Goto("queue", "loop")
    /\ UNCHANGED <<now, running, waitFor, signalled>>
    /\ UNCHANGED <<registry, schedulingVars, executionVars, runPc>>

\* The steps the two coroutines take alike.
Suspended(c) ==
    /\ StartCoroutine(c) \/ WakeFromSleep(c) \/ ReturnFromWait(c) \/ WaitAgain(c)
    /\ UNCHANGED <<registry, schedulingVars, executionVars, runPc>>

QueueStep ==
    \/ Suspended("queue") \/ LoopEnds("queue")
    \/ QueueDeadline \/ QueuePopulate
    \/ QueueEmpty \/ QueueEarly \/ QueueBlocks
    \/ QueueLaunch \/ QueueReleases \/ QueueGivesUp

-----------------------------------------------------------------------------
\* _midnight_loop.
MidnightSleeps ==
    /\ AtTop("midnight")
    /\ running
    /\ Registered = {}
    /\ EnterSleep("midnight")
    /\ UNCHANGED <<registry, schedulingVars, executionVars, runPc>>

MidnightWaits ==
    /\ AtTop("midnight")
    /\ running
    /\ DueForRefresh = {}
    /\ \E j \in Registered :
        /\ IsNextRefresh(NextMidnight(j, now))
        /\ EnterWait("midnight", NextMidnight(j, now))
    /\ UNCHANGED <<registry, schedulingVars, executionVars, runPc>>

\* A refresh is due already: no await, and running cannot change.
MidnightProceeds ==
    /\ AtTop("midnight")
    /\ running
    /\ DueForRefresh # {}
    /\ Goto("midnight", "refresh")
    /\ UNCHANGED <<now, running, waitFor, signalled>>
    /\ UNCHANGED <<registry, schedulingVars, executionVars, runPc>>

MidnightRefreshes ==
    /\ pc["midnight"] = "refresh"
    /\ running
    /\ RefreshDueJobs
    /\ Goto("midnight", "loop")
    /\ UNCHANGED <<now, running, waitFor, registry, executionVars, runPc>>

MidnightBreaks ==
    /\ pc["midnight"] = "refresh"
    /\ ~running
    /\ Goto("midnight", "done")
    /\ UNCHANGED <<now, running, waitFor, signalled>>
    /\ UNCHANGED <<registry, schedulingVars, executionVars, runPc>>

MidnightStep ==
    \/ Suspended("midnight") \/ LoopEnds("midnight")
    \/ MidnightSleeps \/ MidnightWaits \/ MidnightProceeds
    \/ MidnightRefreshes \/ MidnightBreaks

-----------------------------------------------------------------------------
\* The public API.
Stop ==
    /\ "stop" \in ApiCalls
    /\ Idle
    /\ running' = FALSE
    /\ SetWake
    /\ UNCHANGED <<now, pc, waitFor>>
    /\ UNCHANGED <<registry, schedulingVars, executionVars, runPc>>

\* The task awaiting run() is cancelled in the TaskGroup, which cancels both
\* coroutines at their awaits (and swallows a second cancellation meanwhile).
CancelRun ==
    /\ "cancel" \in ApiCalls
    /\ Idle
    /\ runPc = "running"
    /\ ~CoroutinesDone
    /\ pc' = [c \in Coroutines |-> "done"]
    /\ waitFor' = [c \in Coroutines |-> NoTime]
    /\ signalled' = {}
    /\ UNCHANGED <<now, running>>
    /\ UNCHANGED <<registry, schedulingVars, executionVars, runPc>>

\* It is cancelled at the gather, which cancels every task it awaits.
CancelGather ==
    /\ "cancel_gather" \in ApiCalls
    /\ Unwinds({"gathering"}, "cancelled")
    /\ UNCHANGED running

RefreshJob(j) ==
    /\ "refresh_job" \in ApiCalls
    /\ Idle
    /\ j \in Found
    /\ generations[j] < MaxGeneration
    /\ Refresh({j})
    /\ UNCHANGED <<now, running, pc, waitFor, registry, executionVars, runPc>>

SyncRegistry ==
    /\ "sync_registry" \in ApiCalls
    /\ Idle
    /\ PopulateMissing
    /\ UNCHANGED <<now, running, pc, waitFor, registry, executionVars, runPc>>

PeekNext ==
    /\ "peek_next" \in ApiCalls
    /\ Idle
    /\ queue' = Peeked
    /\ UNCHANGED <<sleepVars, registry, generations, active, lastRefresh>>
    /\ UNCHANGED <<executionVars, runPc>>

\* FuzzyCron may be called from any thread at any time.
RegistryCall ==
    /\ \/ \E j \in Jobs : "register" \in ApiCalls /\ Register(j)
       \/ \E j \in Jobs : "remove" \in ApiCalls /\ Remove(j)
       \/ "clear" \in ApiCalls /\ Clear
    /\ UNCHANGED <<executionVars, runPc>>

ApiStep ==
    \/ Stop \/ CancelRun \/ CancelGather \/ SyncRegistry \/ PeekNext \/ RegistryCall
    \/ \E j \in Jobs : RefreshJob(j)

-----------------------------------------------------------------------------
\* A task that gather() has cancelled ends at its await, unless the user's
\* condition or job catches the CancelledError and goes on.
CancelledByGather(t) ==
    /\ runPc = "cancelled"
    /\ CancelledIn(t, "conditions") \/ CancelledIn(t, "job")

Execute(t) == (TaskStep(t) \/ CancelledByGather(t)) /\ UNCHANGED runPc

Advance == Tick /\ UNCHANGED <<registry, schedulingVars, executionVars, runPc>>

Init == SleepInit /\ SchedulingInit /\ ExecutionInit /\ runPc = "idle"

Next ==
    \/ RunStep
    \/ QueueStep \/ MidnightStep
    \/ \E t \in TaskIds : Execute(t)
    \/ ApiStep
    \/ Advance

Spec == Init /\ [][Next]_vars

\* The event loop resumes what is ready in the order it became ready, so no
\* coroutine or task is passed over for ever (strong fairness: while another
\* holds the thread it cannot run).  Conditions and jobs end, by default after
\* their timeouts.  Time passes.  Nobody is obliged to call the API.
Fairness ==
    /\ SF_vars(QueueStep)
    /\ SF_vars(MidnightStep)
    /\ \A t \in TaskIds : SF_vars(Execute(t))
    /\ WF_vars(RunGathers \/ RunReturns \/ RunRaises)
    /\ WF_vars(Advance)

FairSpec == Spec /\ Fairness

-----------------------------------------------------------------------------
(***************************************************************************)
(* Properties.                                                             *)
(***************************************************************************)
\* Every variable has the type the code gives it.
TypeOK ==
    /\ SleepTypeOK
    /\ SchedulingTypeOK
    /\ ExecutionTypeOK
    /\ runPc \in RunPCs

\* A slot is free or held by exactly one task, on every path a task can end by
\* (removed job, missed run, failed condition, success, failure, cancellation).
SlotsConserved == available + Cardinality(Inflight) = MaxConcurrency

\* Entries and tasks carry no generation still to come, whatever order
\* refreshes, deletions and late retries happen in; the bookkeeping of their
\* job exists unless the job was removed.
Known(j, generation) ==
    \/ registry[j] = "removed"
    \/ j \in active /\ generation <= generations[j]
GenerationsBound ==
    /\ \A j \in Jobs : /\ j \in active <=> generations[j] > 0
                       /\ j \in active => registry[j] # "new"
    /\ \A e \in BagToSet(queue) : Known(e.job, e.generation)
    /\ \A t \in Inflight : Known(tasks[t].job, tasks[t].generation)

\* A stale entry never comes back to life: no later bump, deletion of the job's
\* bookkeeping or registration makes its generation current again.
StaleStaysStale ==
    [][\A e \in BagToSet(queue) : ~Live(e) => ~Live(e)']_vars

\* Some entry or task will schedule the next occurrence of j: a live entry, or
\* a task that will push with the current generation.
Carried(j) ==
    \/ \E e \in LiveEntries : e.job = j
    \/ \E t \in Inflight :
        /\ tasks[t].job = j
        /\ tasks[t].phase = "created" \/ tasks[t].generation = generations[j]

\* No job is lost: whatever refreshes, recalibrations and retries interleave
\* with its executions, an active job has an entry or a task to carry it on.
\* (Triggers that have no next occurrence, jobs that raise CancelledError and a
\* cancelled gather() do lose jobs, and a PersistentFuzzyCron loses all.)
JobsAreCarried == \A j \in active \cap Registered : Carried(j)
ReliableJobs ==
    /\ ~MayCancel
    /\ "cancel_gather" \notin ApiCalls
    /\ ~PersistentRegistry
    /\ \A j \in Jobs : \A t \in Time : Occurrence[j][t] # NoTime
NoJobLost == ReliableJobs => JobsAreCarried

\* Where nothing refreshes a job but its first scheduling, it never runs
\* concurrently with itself and has one entry at most.
Chain(j) ==
    [entries |-> {e \in LiveEntries : e.job = j},
     tasks |-> {t \in Inflight : tasks[t].job = j}]
SingleChain ==
    \A j \in Registered :
        /\ Cardinality(Chain(j).entries) + Cardinality(Chain(j).tasks) <= 1
        /\ \A e \in Chain(j).entries : queue[e] = 1

\* loop.py:71, "Request graceful shutdown.": however a run ends, by stop(), its
\* deadline or cancellations at any of its awaits, it leaves no task behind and
\* all slots free; the loop says that it is running only if run() was cancelled
\* twice, the second time at its gather; and (without such cancellations, and
\* with the reliable jobs of NoJobLost) every job has an entry, so that the
\* next run() takes it up.
GracefulReturn ==
    Ended =>
        /\ Inflight = {}
        /\ available = MaxConcurrency
        /\ running => runPc = "raised" /\ "cancel" \in ApiCalls
        /\ ReliableJobs =>
            \A j \in active \cap Registered : \E e \in LiveEntries : e.job = j

\* In the history, attempt k + 1 follows a failed attempt k of the same job.
EarlierRecords(i) == {k \in 1 .. i - 1 : history[k].job = history[i].job}
RetriesFollowFailures ==
    \A i \in DOMAIN history :
        history[i].attempt > 1 /\ EarlierRecords(i) # {} =>
            LET k == CHOOSE k \in EarlierRecords(i) :
                        \A l \in EarlierRecords(i) : l <= k
            IN  /\ history[k].status = "error"
                /\ history[k].attempt = history[i].attempt - 1

\* max_attempts bounds the attempts of an occurrence.
AttemptsBounded ==
    \A j \in Jobs : RetryPolicy[j].maxAttempts >= 0 =>
        \A a \in {e.attempt : e \in {f \in LiveEntries : f.job = j}}
                 \cup {tasks[t].attempt : t \in {u \in Inflight : tasks[u].job = j}} :
            a = 1 \/ a <= RetryPolicy[j].maxAttempts

\* stop(), and cancellation at any await, end the run.
StopReturns == (~Ended /\ (~running \/ CoroutinesDone)) ~> Ended

\* A job whose local day has changed is recalibrated, unless the run ends or
\* the job is removed.  (A midnight loop that waits for a time the bounded
\* clock never shows is the clock's doing.)
Recalibrated ==
    \A j \in Jobs :
        (runPc = "running" /\ j \in DueForRefresh /\ waitFor["midnight"] <= MaxTime)
            ~> (runPc # "running" \/ ~running \/ j \notin DueForRefresh)

\* A midnight that the midnight loop sleeps over, as a job registered meanwhile
\* has an earlier one than it waits for, is made up for: it wakes before the next
\* midnight of that job, so that no job is ever two local dates behind.
MissedMidnightsAreMadeUp ==
    pc["midnight"] = "wait" /\ now < waitFor["midnight"] =>
        \A j \in active \cap Registered :
            \/ lastRefresh[j] = LocalDate(j, now)
            \/ /\ lastRefresh[j] = LocalDate(j, now) - 1
               /\ waitFor["midnight"] < NextMidnight(j, now)

(***************************************************************************)
(* What the repository says of the loop, and the code does not do.         *)
(***************************************************************************)
\* sleeping.py:21, "Sleep until *when*, waking early if the loop is
\* signalled.": once the signal is consumed, the queue loop does not go on
\* waiting past an entry that is due earlier.
WakesForEarlierEntry ==
    running /\ pc["queue"] = "wait" /\ "queue" \notin signalled =>
        \A e \in LiveEntries : waitFor["queue"] <= e.when

\* loop.py:146, "Run the daemon until stopped or until an optional deadline.":
\* after the deadline the queue loop is not asleep with time still to sleep.
RunEndsAtDeadline ==
    Until # NoTime /\ now > Until =>
        ~(running /\ pc["queue"] = "wait" /\ now < waitFor["queue"])

\* execution.py:41, "Acquire a concurrency slot while still respecting
\* stop().": no job is launched once stop() has been called.
Launched(t) == tasks[t] = NoTask /\ tasks'[t] # NoTask
NoLaunchAfterStop == [][(\E t \in TaskIds : Launched(t)) => running]_vars

\* loop.py:224, "Recalibrate job schedules at local midnight for each
\* timezone.": while the midnight loop waits, no registered job, however new,
\* passes its local midnight.
MidnightForEveryJob ==
    pc["midnight"] = "wait" /\ now < waitFor["midnight"] =>
        \A j \in active \cap Registered : lastRefresh[j] = LocalDate(j, now)

\* scheduler.py:44, "Policy describing what to do when conditions fail.": a
\* failed condition leaves the job with the retry its policy describes.
FailedConditionsAreRetried ==
    [][\A t \in Inflight : ConditionsFail(t) /\ RetryPolicy[tasks[t].job] # NoPolicy =>
        \E e \in RetryEntries(tasks[t].job, tasks[t].attempt) : e \in BagToSet(queue')]_vars

\* test_daemon.py:297, "assert execution_loop.queue_snapshot == (second,)": a
\* refresh leaves a job one entry; the heap never holds two that are live.
OneLiveEntry ==
    \A e, f \in LiveEntries : e.job = f.job => e = f /\ queue[e] = 1
=============================================================================
