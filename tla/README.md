# Zeitwerkzeug in TLA+

Specifications, model-checking runs and machine-checked proofs for the Python
package `zeitwerkzeug` (`src/src/zeitwerkzeug/`): a cron replacement whose jobs
are triggered by personas, the sun or clock times, filtered by conditions, run in
one asyncio event loop and optionally recorded in SQLite.  Paths below are relative
to the package unless they start with `src/`.

## 1. Inventory

| component | state | operations | interacts with |
|---|---|---|---|
| clock, sleeping (`daemon/clock.py`, `sleeping.py`) | `_wake` event, `_running` | `_wait_until`, `_sleep_with_wake`, `_signal` | both coroutines of the loop; every push signals |
| job registry (`daemon/registry.py`, `cron.py`) | `_jobs`, default singleton | `register`, `remove`, `clear`, `get_job`, `jobs` | read by the loop at every step; called from any thread |
| scheduling (`daemon/scheduling.py`, `models.py`) | heap `_queue`, `_generations`, `_active`, `_last_refresh` | `_populate_*`, `_refresh_*`, `_schedule_next`, `_schedule_retry`, `_push`, `_peek_valid` | called by the loop, its tasks and the API |
| execution (`daemon/execution.py`) | `_inflight`, `_history`, slots | `_execute_entry`, conditions, job, `_record` | tasks of the event loop; user code in threads |
| execution loop (`daemon/loop.py`) | `_running`, `_available`, semaphore | `run`, `stop`, `refresh_job`, `sync_registry`, `peek_next`, acquire/release of slots | owns all of the above |
| store (`persistence/store.py`) | tables, one connection with a thread | register, unregister, log, update, heal, prune, history | statements queue at the connection |
| persistent registry and loop (`persistence/persistance_loop.py`) | `_originals`, `_job_ids`, `_pending_writes`, `_bg_tasks` | `register`, `remove_job`, `restore_jobs`, wrappers, `init`, `run`, `close` | wraps registry and loop, writes to the store |
| rate limiter (`integrations/rate_limit.py`) | one deque per window | `check_and_acquire` | asked by the weather client |
| schedules (`context/scheduler.py`) | none (frozen dataclasses) | `resolve_after` | asked by scheduling, after each execution and at each recalibration |
| personas (`personas/`) | none | wake, sleep, `next_wake`, `next_sleep`, blocks, `PersonaParser.parse` | called by targets that are functions |
| astronomy (`astro/`) | caches of pure functions | events of a date, the search for the next one | targets of schedules |
| conditions (`context/base_hooks.py`) | `_cache` of each `CachedCondition` | `TimeWindow`, `All`, `Not`, cache, timeout | asked by execution, one evaluation per task |
| weather (`integrations/weather.py`) | none | `ClearWeather.evaluate`: the limiter, one HTTP request | a condition |
| records (`persistence/persistant_models.py`) | none | conversions between rows and dataclasses | used by the store |

What is hard here, and therefore modelled:

* **Interleaving in one event loop.** The queue loop, the midnight loop, one task
  per execution and the API share heap and generations.  Between two awaits nobody
  else runs; across an await everything may have changed.
* **Generations.** A refresh does not remove the old heap entries of a job, it makes
  them stale.  Whether no job is lost, run twice or brought back to life depends on
  when each party reads the generation.
* **Slots.** A counter beside a semaphore, released on every way a task may end,
  acquired by polling and by API callers that may be cancelled.
* **Calendars.** The next time of day, event of the sun, wake or phrase, on days with a
  change of offset, around midnight and weekends, asked again at every recalibration.
* **Conditions.** Synchronous combinators around asynchronous conditions, caches shared by
  jobs, a rate limiter shared by concurrent evaluations.
* **Persistence.** Writes in the background, on a queue, before the tables exist or
  from other threads; a crash anywhere; executions abandoned while their statement is
  still on its way.

The hazards, each with its line and the properties aimed at it, are listed in
`PROJECT.json`.

## 2. Modules

| module | models | builds on |
|---|---|---|
| `Sleeping` | `SleepingMixin`, clock, program counters of the coroutines | |
| `Scheduling` | `SchedulingMixin` over `FuzzyCron` | `Sleeping` |
| `Execution` | `ExecutionMixin`: tasks, slots as a counter, history | `Scheduling` |
| `ExecutionLoop` | `run()`, the two coroutines, the API; the properties | `Execution` |
| `ExecutionLoopProofs` | theorems: types, slots, generations, no job lost, how runs end | `ExecutionLoop` |
| `OccurrenceProofs` | theorems: attempts, midnights, chains, retries | `ExecutionLoopProofs` |
| `Slots` | what slots promise (abstract) | |
| `ConcurrencySlots` | the slots at the grain of `asyncio.Semaphore` | refines `Slots` |
| `ConcurrencySlotsProofs` | theorems, with the refinement | `ConcurrencySlots` |
| `Store` | SQLite tables and the connection's queue | |
| `ExecutionHistory` | what the recorded history promises (abstract) | |
| `Persistence` | `PersistentFuzzyCron`, `_wrap_job`, `PersistentExecutionLoop`, crashes and restarts | `Store`, refines `ExecutionHistory` |
| `PersistenceProofs` | theorems: the history, with the refinement | `Persistence` |
| `DurabilityProofs` | theorems: registered jobs and their rows, types and bounds | `PersistenceProofs` |
| `RateLimiter`, `RateLimiterProofs` | `OpenMeteoRateLimiter` and its theorems | |
| `LocalTime` | what `datetime` and `zoneinfo` do, as the package uses them | |
| `Conditions` | `base_hooks.py`, `ClearWeather`, `_evaluate_conditions` | `RateLimiter`, `LocalTime` |
| `ConditionsProofs` | theorems: concurrent evaluations implement the limiter; verdicts | `Conditions`, `RateLimiterProofs` |
| `SolarSearch` | the search of `astro/math_engine.py` over dates | `LocalTime` |
| `Personas` | `PersonaProfile`, `PersonaParser` | `LocalTime` |
| `Schedules` | `LazySchedule.resolve_after` | `SolarSearch`, `Personas` |
| `Triggers` | a trigger in use: asked after each occurrence and by recalibrations | `Schedules` |
| `TriggersProofs` | theorems: times of day, events, wakes, phrases, recalibration | `Triggers` |
| `MCExecutionLoop`, `MCPersistence`, `MCConditions`, `MCTriggers` | constants for TLC | |

### The daemon

An action is what a coroutine or task does from one await to the next.  `pc` holds the
await a coroutine is at.  The three values in `Holding` mark points *between* awaits
where the code is cut in two, because two things happen there that read better as two
actions; while a coroutine is at one of them no other coroutine, task or API call of the
event loop may move (`Idle` guards them), only the clock and the registry, which worker
threads call.  A clock that advances between a test and the wait that follows is thus
part of the model.

* The heap `_queue` is a bag of records, ordered by `Before` as the NamedTuple is;
  `_peek_valid` is `IsHead` with `Peeked`, the heap it leaves.
* A trigger is any function from the time asked for to a time, or `NoTime` where
  `resolve_after` raises (which one it is for each kind of target is `Schedules`); a timezone
  is an offset of the local midnight.
* `_refresh_job`, `_populate_all`, `_populate_missing` and `_refresh_due_jobs` are instances of
  `RefreshAfterDeleting`, with everything they push and the signal.
* A task is at "created", "conditions" or "job"; its generation is read when it starts.
* `run()` itself is at one of two awaits, the `TaskGroup` and the gather of the tasks in flight
  (`runPc`), and may be cancelled at each.  `CancelRun` cancels both coroutines; the tasks in
  flight are gathered all the same.  `CancelGather` cancels the gather, and with it every task
  (`CancelledByGather`), unless the condition or job it awaits catches the `CancelledError` and
  goes on; when all have ended, `run()` raises without passing `_running = False`
  (`RunRaises`).  After `stop()` or a deadline `_running` is false by then; it stays true only
  if the `TaskGroup` had been cancelled before.  `Stop` may come at any await; when a run has
  returned or raised the loop may `Run` again.

Abstractions: records with the statuses `condition_failed`, `condition_error` and
`condition_timeout`, and those with `error` and `timeout`, which the code treats alike
but for the word, share one status.  The intervals of a second, thirty seconds and five
minutes are short against a tick, so that their timeouts may come at any time.  The
clock does not go back and UTC offsets do not change during a run.  One `run()` is in
progress at a time; it is cancelled at most once in the `TaskGroup` (which swallows a second
cancellation while it waits for its coroutines) and once at the gather.  API callers do not take slots in
these modules: `ConcurrencySlots` is about them, and `SlotsImplemented` is what permits
`Execution` to treat slots as a counter.  `PersistentRegistry` selects the lookup of
`PersistentFuzzyCron`.

### The slots

`asyncio.Semaphore` lies outside the repository and is modelled as Python 3.12 has it:
a queue of futures, a release that grants its permit to the first pending one, a waiter
that takes it when it is resumed and must pass it on when it is cancelled meanwhile.
`Interrupt` is a cancellation or the timeout of `wait_for`, and may hit a waiter both
before and after its permit was granted.

### Persistence

`requests` is the queue of the connection's thread.  A coroutine that awaits a statement
appends it and is suspended; the step in which the thread executes it is also the one in
which the coroutine goes on (`Served`).  Background writes exist as tasks not yet resumed
(`background`), as queued closures (`pending`), or as submitted statements.  `life` names
the stage of `init()`, `run()`, `close()` the process is in, and `Crash` may strike at
every one, losing all but the tables.

Abstractions: the migration of `init()` is one statement; what its `PRAGMA`s do is
assumed.  `restore_jobs` is called between `init()` and `run()`, once at a time.
Executions begin while `run()` is in progress and belong to a loop over the inner
registry, since the loop over the `PersistentFuzzyCron` itself executes nothing
(section 5, `JobsAreCarried`).  `close()` is final.  One process uses the database at a time.  A
power failure, which may undo commits under `synchronous=NORMAL`, is not a `Crash`.

### Triggers

Instants and local times are integers, ticks since a Monday's midnight in UTC.  A timezone
changes its offset once, forwards or backwards; `ToUtc` and `Local` treat skipped and
repeated times as `zoneinfo` does with `fold = 0`, which is all the package uses.  The
operators of `SolarSearch`, `Personas` and `Schedules` are the functions of the code by
name: `NextSolarEvent` tries the dates of the search in order, `EventOn` the candidate UTC
dates of a local date, `NextTimeAfter` is `_next_time_after`, `ParseForward` is the loop of
`PersonaParser.parse`.  The astronomical formulas are floating point; what they compute is
the constant `Minutes`, the time of an event counted from the midnight of its UTC date, or
`None`.  Functions of the user's as targets are those the documentation writes: a time after
an anchor, and the start of a phrase's block.

`Triggers` has one job: `ScheduleNext` asks again at the time that was due, `RefreshJob` a
tick after the last call, several times in a row if need be.  `RecalibrationKeeps` is about
this pair: a recalibration throws the answer away and asks again, later.

Not every timezone, sun and persona lets the code keep what it promises, and the module says
which do: `RegularEvents`, `RegularWakes` and `RegularBlocks`, of a set of dates.  The theorems
ask for them on all dates; `MCTriggers` assumes them on the dates a run computes with, so that
TLC evaluates them for every target of `triggers`.

* `ClearOfChange`: no midnight, wake, sleep or end of a block lies within the hours a change of
  offset skips or repeats, where a local time means two instants or none.  Most timezones change
  between 01:00 and 04:00 and personas wake later; those that change at midnight are excluded
  from what is said of the sun, not from times of day or recalibrations.
* `RegularEvents`: the events of later UTC dates are not earlier, and an event of a local date is
  that of one of the UTC dates the code tries for it.  Real suns do this unless the timezone is far
  from the place.
* `RegularWakes`: the wake of a weekend, shifted, is still on its date.
* `RegularBlocks`: a day has six hours awake ("late morning" ends six hours after the wake, and
  would reach into the sleep of a shorter day), and no block starts in a repeated hour.

With half-hour ticks the operators were compared with the package itself, target by target
and instant by instant, over all 55,315 pairs of the run `triggers`: they agree but for 104
instants, each of them an event or a block of a phrase that falls between two ticks.

### Conditions and the rate limiter

A call of the limiter runs from its first line to its last, its lock being the only thing it
awaits.  `allowed` is the list of all calls ever allowed, against which the windows are
judged.

A condition is a number and `Node` says what it is made of, so that a `CachedCondition` can be
shared by jobs.  `Values` is what `evaluate` of every condition returns in a running event
loop, a coroutine included: `Evaluated` says it of one condition, given the values of those it
is built from, which have smaller numbers (`NodeAssumption`).  A cache holds keys (`CacheKey`)
with times and values, and answers with the entry that it `Hits`. `Meaning` and `Meanings` say
in the same way what a condition may mean, with no event loop, as a set of answers: the one
answer of a window or a plugin, any answer of the weather, and for a cache the answers its
condition had not longer than `ttl` before.  `Reached` is what is evaluated at all: `all()`
stops early, a hit in a cache evaluates nothing.  A task is at one of the awaits of
`_evaluate_conditions`; `Decide` goes through all conditions up to the one that ends the
evaluation, `AskWeather` through those up to a request, whose outcome is any.  One clock stands
for `time.monotonic()` of the limiter and for `triggered_at`.  Left out: `ConditionRegistry`, a
dictionary of factories that nothing else uses, and what `CachedCondition` and
`TimeoutCondition` do in a thread without an event loop, where conditions are never evaluated.

## 3. Runs

| run | instance | what it shows |
|---|---|---|
| `recalibration` | 2 jobs in timezones with different midnights, 2 slots, a day and a third, `refresh_job`, removals and cancellation of `run()` at any await | `TypeOK`, `GenerationsBound`, `NoJobLost`, `GracefulReturn`, `StaleStaysStale` |
| `chains` | no recalibration, latency 0, a deadline, all other API calls, cancellation of `run()`, also at its gather, and of jobs, re-runs | `SlotsConserved`, `GracefulReturn`, `SingleChain`, `RetriesFollowFailures`, `AttemptsBounded` |
| `fair` | 1 slot, registrations, cancellations and `stop()` under fairness | `MissedMidnightsAreMadeUp`, `StopReturns`, `Recalibrated` |
| `slots` | 3 users, 2 slots, up to 3 tasks, careless releases, under fairness | `PermitsAgree`, `HeldOrAvailable`, `SlotsImplemented`, `StopIsRespected`, `UsersAreServed` |
| `restarts` | 2 executions, 2 rows, 2 processes, under fairness | `TypeOK`, `RunningIsInFlight`, `RegisteredAreDurable`, `HistoryIsKept`, `RunningSettles` |
| `interrupted` | an async and a sync job, cancellations, slow writes, threads that outlive `run()`, API calls around `close()` and from threads | `RestoredIsSettled`, `HistoryIsKept` |
| `evaluation` | 3 jobs, 12 conditions that nest and share, 2 concurrent executions, 2 windows of the limiter | `WithinLimits`, `RefusedOnlyWhenFull`, `VerdictIsMeaning` |
| `triggers` | 115 targets in 5 timezones, ten days | `ClockIsNext`, `SolarIsNext`, `WakeIsNext`, `PhraseIsAhead`, `RecalibrationKeeps` |
| `oversleep`, `duplicates`, `missed_midnight`, `past_trigger` | one property each that the repository claims and the code does not keep | section 5 |

**Bounds.** `MaxTime` stops the clock of a run; a day is three ticks, so that every run crosses
a midnight of both timezones with entries due before, at and after it.  Job 1 is due once a day
and has no policy, job 2 every other tick with two attempts, so that retries, recalibration and
regular occurrences meet.  With two slots a task outlives a later one; there are never more
tasks than slots.  `MaxGeneration` bounds explicit `refresh_job` calls, so that with midnight's
recalibrations a job has several generations.  Two processes are the least in which something a
process leaves is found by the next, and the next crashes again in the middle of healing.
`MaxWrites` and `MaxRows` bound what is outstanding; an execution refused by the foreign key
and tried again needs one row, two concurrent ones two.  `evaluation` has limits of one call in
2 ticks and two in 5: both are at some time the one that refuses; results are cached for a
tick, and a plugin has one that differs between jobs and changes with time, so that a cached
one is wrong for another job and after it has expired; with a day of four ticks a window
crosses midnight both in UTC and in a zone ahead of it; executions are interchangeable, hence
the symmetry.  `triggers` begins on a Monday and ends on the Wednesday of the week after: every
target is asked at every half hour of weekdays, of a weekend and of the Sunday on which two
timezones change their offset, one in each direction.  Events move across local midnights,
pause for four days with `SearchDays` 3, so that the search both finds one and fails to, and
stop.  `chains` has latency 0 so that occurrences are skipped, and no recalibration, without
which `SingleChain` does not hold (5.2).

**Deadlock.** No run checks it: the clock stops, the program may end, and a bounded
supply of rows, writes and processes runs out.

**Fairness.** `FairSpec` of `ExecutionLoop`: asyncio resumes ready callbacks in order,
hence strong fairness of each coroutine and task (they are disabled while another one is
between two awaits); conditions and jobs end, because both have timeouts by default;
time passes. Nothing obliges anybody to call the API. `LoopSpec` of `ConcurrencySlots`:
what the event loop has scheduled runs and a poll times out; `UsersAreServed` assumes
besides that tasks end and users release (`HolderFairness`), `StopIsRespected` does not.
`FairSpec` of `Persistence`: the event loop and the store's thread serve their queues, a
dead process is started again and calls `init()`.

## 4. Properties

*Daemon.* `SlotsConserved`: a slot is free or held by exactly one task.
`GracefulReturn`: however a run ends, by `stop()`, a deadline or cancellation at any of its
awaits, no task is left, all slots are free, the loop does not say that it runs unless it was
cancelled twice, and (`chains` has no such jobs, `recalibration` has) every job with a total
trigger is in the heap for the next run.  `GenerationsBound` and
`StaleStaysStale`: generations only ever make entries stale, also across removal of the
bookkeeping, so an old entry never runs.  `NoJobLost`: an active job has a live entry or a
task that will push one, unless its trigger ends, its job raises `CancelledError`, the gather
is cancelled, or the registry is a `PersistentFuzzyCron`.  `SingleChain`: without refreshes a job never
overlaps itself.  `RetriesFollowFailures`, `AttemptsBounded`: attempts.
`Recalibrated`: a job whose local date has changed is recalibrated in the end.
`MissedMidnightsAreMadeUp`: a midnight that the midnight loop sleeps over (section 5, number 3)
is made up for before the next one of the job, whatever is registered meanwhile.
`StopReturns`.

*Slots.* `PermitsAgree` relates the counter to the permits free or granted, `HeldOrAvailable`
to those who hold one; `SlotsImplemented` says that what the counter takes for taken refines
`Slots`.  `StopIsRespected` and `UsersAreServed` are the two sides of the polling.

*Persistence.* `HistoryIsKept`: every row's life refines `ExecutionHistory` (it starts
running, is settled once, and is final until deleted).  `RunningIsInFlight`: after
healing, a running row has an execution that will settle it.  `RestoredIsSettled`: the
history shown after a restart has no execution that seems to run.
`RegisteredAreDurable`: once no write is outstanding, and after `close()`, every
registered job has its row.  `RunningSettles`.

*Conditions.* `WithinLimits` over all calls ever allowed, and `RefusedOnlyWhenFull`, both under
concurrent evaluations.  `VerdictIsMeaning`: a verdict is what the first condition that does
not hold means at `triggered_at`, for windows across midnight and other timezones, below a
cache at a time whose result has not expired, whatever caches keep of other jobs and older
times and wherever other evaluations come in between (a weather condition inside of another one
is excepted, see section 5).  That a cached result is served to a later execution would be
permitted; the code never does it (`CachesAreReused`, section 5).

*Triggers.* Each compares the answer with a definition that knows nothing of how it is found.
`ClockIsNext`: the next instant at which the local clock reads the time, on days that skip or
repeat it, too (but not asked within the repeated hours, where the answer may lie in the past).
`SolarIsNext`: due at an event, and none is passed over that is the first of its local date.
`WakeIsNext`: the first of all wakes after the reference, over weekends with shifted anchors.
`PhraseIsAhead`: the block of a phrase is not over and lies in the time awake of a day.
`RecalibrationKeeps`: asking again does not move an occurrence that is still ahead, but where
`Unsteady` says so: times of day and anchors in the hours after a change of offset, an event
when the change is one of the local date, anchors of yesterday that midnight forgets, times
after the next anchor, and phrases.  Finding a proof is what made that list as short as it is.

## 5. Where code and documentation disagree

Each of these is a run that ends in a violation of one property; the quotations are in
`PROJECT.json`.

1. `oversleep` (`WakesForEarlierEntry`): a wait cut short by a signal is resumed for the same
   time; a retry or a new job that is due earlier waits with it (`daemon/sleeping.py:22`).
2. `duplicates` (`OneLiveEntry`): a refresh between launch and start of a task leaves two live
   entries and the job runs twice from then on (`daemon/execution.py:77`).
3. `missed_midnight` (`MidnightForEveryJob`): the midnight loop waits for the earliest midnight
   of the jobs it knew when it went to sleep; a job registered meanwhile, whose midnight is
   earlier, passes it without recalibration (`daemon/loop.py:240`).  `fair` and a theorem show
   what remains true, `MissedMidnightsAreMadeUp`.
4. `past_trigger` (`ResolvesLater`): the function the documentation gives as an example, a time
   after the wake of the day asked about (`src/README.md:273`), lies in the past for the rest
   of that day, so that the job is due again as soon as it has run
   (`context/scheduler.py:155`).

The modules state more properties that do not hold, each with the words of the repository it is
taken from, for which no run is kept.  Each fails when it is named in a `.cfg` as follows:

| property | add to | what the code does |
|---|---|---|
| `FailedConditionsAreRetried` | `chains.cfg` | failed conditions do not reach the fail policy (`daemon/execution.py:167`) |
| `JobsAreCarried` | `recalibration.cfg`, with `PersistentRegistry = TRUE` | over a `PersistentFuzzyCron` the loop looks a uuid up among names: no entry is ever valid and no job runs (`persistence/persistance_loop.py:449`) |
| `RunEndsAtDeadline` | `oversleep.cfg`, with `Until = 2` | the deadline is looked at only between waits (`daemon/loop.py:187`) |
| `NoLaunchAfterStop` | `fair.cfg` | a loop that waits for a slot launches one more job (`daemon/execution.py:47`) |
| `RemovedIsGone` | `restarts.cfg` | a removed job stays in the inner registry (`persistence/persistance_loop.py:445`) |
| `ClosedLeavesNoneRunning` | `interrupted.cfg` | an execution cancelled while it awaits its `INSERT` (`persistance_loop.py:132`) |
| `RemovedLeavesTheTable` | `restarts.cfg` | an execution of a removed job brings its row back (`persistance_loop.py:127`) |
| `AllIsLogicalAnd` | `evaluation.cfg`, with `Required <- MCDocumented` | inside of `All` the coroutine of `ClearWeather` is true, and no request is made (`context/base_hooks.py:78`) |
| `CachesAreReused` | `evaluation.cfg` | the key of a cached result contains `triggered_at`, so that no later execution finds it, whatever the duration (`context/base_hooks.py:110`); with a key of the job alone this property and `VerdictIsMeaning` both hold |
| `SolarSkipsNone` | `triggers.cfg` | the second event of a local date is passed over (`astro/math_engine.py:349`) |
| `SleepIsNext` | `triggers.cfg` | after midnight the sleep of the evening before is forgotten; recalibrated each midnight, a job due then never runs (`personas/profile.py:108`) |
| `PhraseIsNext` | `triggers.cfg` | while a block is over, the reference advances with it: "morning" in the afternoon is a week away (`personas/parser.py:49`) |

One that the runs check fails under other constants: `RegisteredAreDurable` in `restarts.cfg`
with `ApiWhile <- InitToo` or `WorkerThreads = TRUE` (registrations lost or reordered,
`persistance_loop.py:307`, `:313`).

Seen while modelling, without a property: `schedule.at("sunrise")` raises `ScheduleError`,
while `src/docs/concepts/astro.md:37` writes it; an exception of a function target that is no
`ZeitwerkzeugError` passes `_schedule_next` (`daemon/scheduling.py:88`); `FailPolicy.limit` is
accepted and read by nobody (`context/scheduler.py:47`); `Any` is documented beside `All` and
`Not` and does not exist; "first thing in the morning" is 30 minutes after the wake in
`src/docs/concepts/personas.md:62` and the block of the hour and a half after the wake in
`personas/parser.py:63`; the personas of `src/docs/concepts/personas.md:30` and `:88` have strings
as `wake`, for which `datetime.combine` raises `TypeError`; a time of day asked for within the
hours that a change of offset repeats may lie in the past (`context/scheduler.py:34`); and a
`run()` that is cancelled in its `TaskGroup` and again at the gather leaves `_running` true
(`daemon/loop.py:161`), as well as the jobs whose executions it cancelled without an entry.

## 6. Proofs

Every invariant and every action property that a passing run checks is stated by a theorem.  All of
them hold for every value of the constants that meets the `ASSUME`s of the modules, named next
to each constant, and the following hypotheses.

| theorem | hypothesis | why |
|---|---|---|
| `NoJobIsLost`, the jobs in `RunsReturnGracefully` | total triggers, jobs do not raise `CancelledError`, the gather is not cancelled, the plain registry | the four ways to lose a job that the code has |
| `JobsRunInChains`, `RetriesAlwaysFollowFailures` | no recalibration, no `refresh_job` | a refresh starts a second chain (5.2) |
| `RegisteredAreDurableAlways` | no calls from worker threads, none during `init()` or `close()` | both reorder or lose writes (section 5) |
| `RunningIsInFlightAlways` | `Interruptions = {}` | an interrupted execution leaves its row running until the next start heals it |
| `EventsAreNext`, `WakesAreNext`, `PhrasesAreAhead` | `RegularEvents`, `RegularWakes`, `RegularBlocks` on all dates; for phrases a day of 24 ticks or more | section 2, Triggers; blocks are counted in hours, which must not be empty |
| `RecalibrationsKeep` | events have integer times | none in the code |

**`ExecutionLoopProofs`** (any jobs, triggers, timezones, policies, slots and API calls).
`TypeCorrect` needs one fact beyond types: between two runs there is no coroutine, so `run()`
creates its coroutines while none waits on the event (`Typed`).  `SlotsAlwaysConserved` goes
through the effect of each step on the pair of tasks and counter; that a free task id exists when
a slot is free comes from the conservation itself.  `RunsReturnGracefully` needs
what each stage of `run()` has behind it (`EndInv`): while it gathers there is no coroutine, when it
has ended no task, and `running` is false from the return on (`RunKept`, `QueueEnds`); the slots then
follow from their conservation and the entries from `NoJobIsLost`.
`GenerationsAlwaysBound` classifies the steps by what they do to heap, generations and tasks
(`StepEffects`, `RefreshEffect`, `TaskPushes`) and is what `StaleEntriesStayStale` needs: a stale
entry has a smaller generation than its job, or its job is gone for good.  `NoJobIsLost` needs
`GenerationsBound` and that heap operations lose no live entry (`PeekKeepsLive`, `PopKeepsLive`).

**`OccurrenceProofs`.**  `AttemptsAreBounded` is inductive only over all entries of the heap and all
tasks, stale ones included, since a stale entry's task may be under way.

`MissedMidnightsAlwaysMadeUp`: inductive is `WaitsADayAtMost`: the midnight loop waits a day at most,
and for every job the midnight that ends the date after its last refresh lies beyond the wait.
It is kept because a new job was refreshed at its registration, a refresh only moves that midnight
on, and the loop goes to sleep only when every job has been refreshed today (`RefreshedOrKept`).

`JobsRunInChains`: `SingleChain` is strengthened to `OneCarrier`, which counts the copies of an entry
in the bag, too, and to the fact that a job not scheduled yet has neither entry nor task.

`RetriesAlwaysFollowFailures`: `RetryInv` says of every link of a chain, be it an entry or a task,
that its number of attempts follows the last record of its job, and the same of every record in
the history and the records before it.  This needs `OneCarrier`, as a second link would record in
between, and `OneTaskEach` for jobs removed while they run.  The bounded deque drops records from
the front; `Appended` is what that does.

**`ConcurrencySlotsProofs`.**  `PermitsAlwaysAgree` for any number of users, with the effect of
waking, leaving and releasing on the number of granted futures as lemmas;
`SlotsAreHeldOrAvailable`, by what each step does to the counter and the number of holders; and
the refinement `SlotsRefine`, which is what lets `Execution` treat slots as a counter.

**`PersistenceProofs`** (any jobs, executions, interruptions, crashes and calls).  Nothing about rows
is inductive without the queue of statements: `QueueInv` says that each statement is the one its
client awaits and that executions and the process await one at a time.  Steps are then classified
by what they take from the queue and put on it (`ExecMoves`, `LifeMoves`, `Calls`, `Serves`).
`RowsOwned` gives every row to one execution in its user's function or one statement that will
update it, and says that it still runs, unless it was deleted; this needs that before `init()` is
done there is neither (`QuietEarly`), as healing settles rows that it does not own.
`OneSettlesARow` is their conjunction.  From it `HistoryIsKeptAlways` maps each statement to a step of
`ExecutionHistory`: an `INSERT` to `Start`, an `UPDATE` to `End` of the row it owns or, if that is
deleted, to a stutter, healing to `Recover`, the others to `Forget`.  `RestoredIsSettledAlways` adds
that the history is loaded after healing and before anything runs (`InitInv`).
`RunningIsInFlightAlways` adds that executions are in progress during `run()` only and know their
row (`FlightInv`).

**`DurabilityProofs`.**  A write passes through up to three queues, and a job may be registered, removed
and registered again while none of them is empty.  `RegisteredAreDurable` speaks of the moment when
all are; inductive is `OriginalsKept`: for every registered job, the three queues taken one after
the other, an insertion follows the last removal, or there is no removal and the row is there
(`Kept`).  Executions insert rows of jobs and delete none.  Around it: `WriteInv`, the stages in which
each queue may be filled, and `DrainInv`, that a stage awaits no more writes than there are.
`PersistenceTypeCorrect` proves the types with the bounds of a run.  That no more than `MaxRows`
rows are written needs those that are still to come to be counted (`RowsBounded`): executions
before their `INSERT`, and the statements of executions that were abandoned.

**`RateLimiterProofs`.**  For `LimitsHold`, `WithinLimits` is not inductive: the invariant `IInv` adds that `allowed` is
ordered, and that each window is the end of `allowed` that contains all calls less than a period
old.  The same invariant gives `RefusalsAreNeeded`.

**`ConditionsProofs`.**  `ConditionsImplementLimiter` is a refinement by the variables themselves, and
gives `EvaluationsWithinLimits`.  `VerdictsAreMeanings` holds for any tree of conditions.  `Values` and
`Meanings` are recursive functions over the numbers of conditions, and a proof has to know that
they exist before it may unfold them; both this and what holds of all conditions because it passes
from parts to whole are obtained without an induction rule, by looking at the least number that
contradicts them (`LeastOf`, `FirstWrong`, `AllTogether`).  The invariant is `Sound`: what a cache holds
is an answer its condition may have for the job and at the time of its entry (`CacheMeans`), and the
conditions that a task has passed may mean what they were judged to be (`TasksOK`).  A hit that has
not expired then answers within the meaning of the cache.

**`TriggersProofs`.**  One step asks and the answer depends on nothing else, so that the invariants are
inductive as they are and the work is in the operators: `Local` and `ToUtc` on the three sides of a
change, the division by the length of a day, the candidates and order of events (`SearchFinds`: the
search returns the first of its dates that has an event after the reference), the dates among which
the next anchor is found, and the seven advances of `ParseForward`.  `ClockTimesAreNext` and
`RecalibrationsKeep` hold for any timezone; the latter compares two calls a tick apart for each kind
of target.

**Only model-checked:** the five liveness properties `StopReturns`, `Recalibrated`, `StopIsRespected`,
`UsersAreServed` and `RunningSettles`.  Their proofs need fairness and `ENABLED`, which TLAPS does not
reason about.

## 7. Not modelled, and what comes next

Out of reach: the astronomical formulas (floating point), HTTP, and the SQL of queries that
only read.  Not worth a model: `persistant_models.py`, which converts one record at a time
without a state, the `ConditionRegistry`, declarations and examples.  The words of a phrase
are left to regular expressions; the model starts from the label they yield.

Candidates, most important first:

1. Safety companions of the liveness properties, as theorems: what a coroutine that waits is
   always waiting for (an event that is set, a deadline in reach, a queued statement), so that
   only the fairness is left to TLC.
2. An abstract job lifecycle that `ExecutionLoop` refines, for one job: scheduled, running,
   between, with the refinement proved from `OneCarrier`.
3. `_call_job`: the threads of synchronous jobs that outlive their timeout and with it their
   slot, and the limit of the executor they share.
4. The statements of the store that the loop does not use (`meta`, vacuum, counting).
