------------------------------ MODULE Execution ------------------------------
(***************************************************************************)
(* ExecutionMixin (daemon/execution.py): the tasks that execute heap       *)
(* entries, the concurrency slots they hold and the history they leave.    *)
(*                                                                         *)
(* A task runs _execute_entry.  Its phases are separated by its awaits:    *)
(*   "created"     create_task returned, the event loop has not resumed it *)
(*   "conditions"  awaiting _evaluate_conditions                           *)
(*   "job"         awaiting _call_job                                      *)
(* Each of the actions below is what a task does from one await to the     *)
(* next.  A finished task is NoTask.                                       *)
(*                                                                         *)
(* Record statuses the code treats alike are one status here:              *)
(* condition_failed stands for condition_error and condition_timeout too,  *)
(* error for timeout.                                                      *)
(***************************************************************************)
EXTENDS Scheduling, Sequences

CONSTANTS
    TaskIds,            \* asyncio tasks that may exist at a time
    MaxConcurrency,     \* max_concurrency
    HistoryLimit,       \* history_limit
    MaxLatency,         \* max_latency of each job, NoTime when there is none
    RetryPolicy,        \* fail_policy of each job, NoPolicy when there is none
    MayCancel           \* a job may raise CancelledError itself

NoPolicy == [maxAttempts |-> -2, retryInterval |-> -2]

ASSUME ConcurrencyAssumption == MaxConcurrency \in Nat \ {0}
ASSUME TaskIdsAssumption ==
    IsFiniteSet(TaskIds) /\ MaxConcurrency <= Cardinality(TaskIds)
ASSUME HistoryAssumption == HistoryLimit \in Nat
ASSUME LatencyAssumption == MaxLatency \in [Jobs -> Nat \cup {NoTime}]
ASSUME PolicyAssumption ==
    RetryPolicy \in [Jobs -> {NoPolicy} \cup
        [maxAttempts: Nat \cup {NoTime}, retryInterval: Nat \cup {NoTime}]]
ASSUME MayCancelAssumption == MayCancel \in BOOLEAN

VARIABLES
    tasks,          \* self._inflight
    available,      \* self._available, and the value of self._semaphore
    history         \* self._history

executionVars == <<tasks, available, history>>

NoTask == [phase |-> "none", job |-> NoTime, scheduledFor |-> NoTime,
           attempt |-> NoTime, generation |-> NoTime]
Task == [phase: {"created", "conditions", "job"}, job: Jobs,
         scheduledFor: Nat, attempt: Nat, generation: Nat]
Status == {"skipped", "condition_failed", "success", "error"}
Inflight == {t \in TaskIds : tasks[t] # NoTask}

-----------------------------------------------------------------------------
\* create_task(_execute_entry(entry)).  The generation is read by the task
\* when it starts, not here.
NewTask(e) == [phase |-> "created", job |-> e.job, scheduledFor |-> e.when,
               attempt |-> e.attempt, generation |-> 0]
Spawn(e) ==
    LET free == CHOOSE t \in TaskIds : tasks[t] = NoTask
    IN  tasks' = [tasks EXCEPT ![free] = NewTask(e)]

\* release_concurrency_slot, and the end of the task whose slot it was.
Released == IF available < MaxConcurrency THEN available + 1 ELSE available
\* Variant of EndTask: a task whose job is gone returns without releasing.
EndTaskOfKnownJob(t) ==
    /\ tasks' = [tasks EXCEPT ![t] = NoTask]
    /\ available' = IF tasks[t].job \in Found THEN Released ELSE available
EndTask(t) ==
    /\ tasks' = [tasks EXCEPT ![t] = NoTask]
    /\ available' = Released

\* A bounded deque drops its oldest record.
Record(t, status) ==
    LET longer == Append(history, [job |-> tasks[t].job,
                                   attempt |-> tasks[t].attempt,
                                   status |-> status])
    IN  history' = IF Len(longer) > HistoryLimit THEN Tail(longer) ELSE longer

\* self._generations.get(job.id, 1); in the variant, the retry has a
\* generation of its own.
NextGeneration(j) == generations[j] + 1
CurrentGeneration(j) == IF generations[j] = 0 THEN 1 ELSE generations[j]

\* max_attempts is reached; in the variant, one attempt later.
ExhaustedLate(policy, attempt) ==
    policy.maxAttempts # NoTime /\ attempt > policy.maxAttempts
Exhausted(policy, attempt) ==
    policy.maxAttempts # NoTime /\ attempt >= policy.maxAttempts

\* Variant of RetryEntries: the job is dropped after its last attempt.
RetryOrGiveUp(j, attempt) ==
    LET policy == RetryPolicy[j]
    IN  IF Exhausted(policy, attempt) THEN {}
        ELSE {[when |-> now + policy.retryInterval, attempt |-> attempt + 1,
               job |-> j, generation |-> CurrentGeneration(j)]}

\* _schedule_retry(job, now, attempt).  It reads the generation afresh, not
\* the one the task started with.
RetryEntries(j, attempt) ==
    LET policy == RetryPolicy[j]
        generation == CurrentGeneration(j)
    IN  IF policy = NoPolicy THEN NextEntries(j, attempt + 1, generation)
        ELSE IF Exhausted(policy, attempt) THEN NextEntries(j, 1, generation)
        ELSE IF policy.retryInterval = NoTime
        THEN NextEntries(j, attempt + 1, generation)
        ELSE {[when |-> now + policy.retryInterval, generation |-> generation,
               job |-> j, attempt |-> attempt + 1]}

UnchangedByTasks ==
    UNCHANGED <<now, running, pc, waitFor, registry, generations, active, lastRefresh>>

-----------------------------------------------------------------------------
InPhase(t, phase) == Idle /\ tasks[t] # NoTask /\ tasks[t].phase = phase

\* The job was removed between the launch and the start of the task.
StartRemoved(t) ==
    /\ InPhase(t, "created")
    /\ tasks[t].job \notin Found
    /\ EndTask(t)
    /\ UnchangedByTasks
    /\ UNCHANGED <<queue, signalled, history>>

Missed(t) ==
    /\ MaxLatency[tasks[t].job] # NoTime
    /\ now - tasks[t].scheduledFor > MaxLatency[tasks[t].job]

\* Missed-run protection: the occurrence is skipped.
StartMissed(t) ==
    /\ InPhase(t, "created")
    /\ tasks[t].job \in Found
    /\ Missed(t)
    /\ Record(t, "skipped")
    /\ Push(NextEntries(tasks[t].job, 1, CurrentGeneration(tasks[t].job)))
    /\ EndTask(t)
    /\ UnchangedByTasks

StartConditions(t) ==
    /\ InPhase(t, "created")
    /\ tasks[t].job \in Found
    /\ ~Missed(t)
    /\ tasks' = [tasks EXCEPT ![t].phase = "conditions",
                              ![t].generation = CurrentGeneration(tasks[t].job)]
    /\ UnchangedByTasks
    /\ UNCHANGED <<queue, signalled, available, history>>

ConditionsPass(t) ==
    /\ InPhase(t, "conditions")
    /\ tasks' = [tasks EXCEPT ![t].phase = "job"]
    /\ UnchangedByTasks
    /\ UNCHANGED <<queue, signalled, available, history>>

\* A condition is false, raises or times out.
ConditionsFail(t) ==
    /\ InPhase(t, "conditions")
    /\ Record(t, "condition_failed")
    /\ Push(NextEntries(tasks[t].job, 1, tasks[t].generation))
    /\ EndTask(t)
    /\ UnchangedByTasks

\* Variant of JobSucceeds: the attempt is not reset.
JobSucceedsKeepingAttempt(t) ==
    /\ InPhase(t, "job")
    /\ Record(t, "success")
    /\ Push(NextEntries(tasks[t].job, tasks[t].attempt, tasks[t].generation))
    /\ EndTask(t)
    /\ UnchangedByTasks

JobSucceeds(t) ==
    /\ InPhase(t, "job")
    /\ Record(t, "success")
    /\ Push(NextEntries(tasks[t].job, 1, tasks[t].generation))
    /\ EndTask(t)
    /\ UnchangedByTasks

\* The job raises or times out.
JobFails(t) ==
    /\ InPhase(t, "job")
    /\ Record(t, "error")
    /\ Push(IF RetryPolicy[tasks[t].job] # NoPolicy
            THEN RetryEntries(tasks[t].job, tasks[t].attempt)
            ELSE NextEntries(tasks[t].job, 1, tasks[t].generation))
    /\ EndTask(t)
    /\ UnchangedByTasks

\* CancelledError is no Exception: it passes every except clause, nothing is
\* recorded or scheduled, and the finally clause releases the slot.
CancelledIn(t, phase) ==
    /\ InPhase(t, phase)
    /\ EndTask(t)
    /\ UnchangedByTasks
    /\ UNCHANGED <<queue, signalled, history>>

JobCancelled(t) == MayCancel /\ CancelledIn(t, "job")

TaskStep(t) ==
    \/ StartRemoved(t) \/ StartMissed(t) \/ StartConditions(t)
    \/ ConditionsPass(t) \/ ConditionsFail(t)
    \/ JobSucceeds(t) \/ JobFails(t) \/ JobCancelled(t)

ExecutionInit ==
    /\ tasks = [t \in TaskIds |-> NoTask]
    /\ available = MaxConcurrency
    /\ history = <<>>

ExecutionTypeOK ==
    /\ tasks \in [TaskIds -> Task \cup {NoTask}]
    /\ available \in 0 .. MaxConcurrency
    /\ history \in Seq([job: Jobs, attempt: Nat, status: Status])
=============================================================================
