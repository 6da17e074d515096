----------------------------- MODULE Scheduling -----------------------------
(***************************************************************************)
(* SchedulingMixin (daemon/scheduling.py) over the job registry FuzzyCron  *)
(* (daemon/registry.py): the execution heap, the generation of each job    *)
(* that makes older heap entries stale, and midnight recalibration.        *)
(*                                                                         *)
(* A job is its uuid, a natural number so that heap entries are totally    *)
(* ordered.  The heap is a bag: two equal entries may be in it.  A trigger *)
(* is the function of time it computes (Occurrence), a timezone an offset. *)
(***************************************************************************)
EXTENDS Sleeping, FiniteSets, Bags

CONSTANTS
    Jobs,           \* every uuid that is ever registered
    InitialJobs,    \* those registered before the loop is created
    Occurrence,     \* Occurrence[j][t]: job.trigger.resolve_after(t), or NoTime
                    \* when it raises ScheduleError or yields None
    DayLength,      \* ticks of a day
    Offset,         \* local time of a job is UTC + Offset[j]
    PersistentRegistry  \* the registry is a PersistentFuzzyCron

ASSUME JobsAssumption == Jobs \subseteq Nat /\ InitialJobs \subseteq Jobs
ASSUME FiniteJobsAssumption == IsFiniteSet(Jobs)
ASSUME OccurrenceAssumption ==
    Occurrence \in [Jobs -> [Time -> Nat \cup {NoTime}]]
ASSUME RegistryAssumption == PersistentRegistry \in BOOLEAN
ASSUME DayAssumption == DayLength \in Nat \ {0} /\ Offset \in [Jobs -> Nat]

VARIABLES
    registry,       \* the life of each uuid in FuzzyCron._jobs
    queue,          \* self._queue
    generations,    \* self._generations, 0 when the key is absent
    active,         \* self._active
    lastRefresh     \* self._last_refresh, a local day, NoTime when absent

registryVars == <<registry>>
schedulingVars == <<queue, generations, active, lastRefresh>>

Entry == [when: Nat, generation: Nat, job: Jobs, attempt: Nat]

-----------------------------------------------------------------------------
\* FuzzyCron.  register draws a fresh uuid4, so a removed uuid never returns.
Registered == {j \in Jobs : registry[j] = "registered"}

\* The uuids registry.get_job() finds.  That of PersistentFuzzyCron looks for a
\* name among the names of jobs: it finds no uuid.
Found == IF PersistentRegistry THEN {} ELSE Registered

Register(j) ==
    /\ registry[j] = "new"
    /\ registry' = [registry EXCEPT ![j] = "registered"]
    /\ UNCHANGED <<sleepVars, schedulingVars>>

Remove(j) ==
    /\ j \in Registered
    /\ registry' = [registry EXCEPT ![j] = "removed"]
    /\ UNCHANGED <<sleepVars, schedulingVars>>

Clear ==
    /\ Registered # {}
    /\ registry' = [j \in Jobs |-> IF j \in Registered THEN "removed"
                                                       ELSE registry[j]]
    /\ UNCHANGED <<sleepVars, schedulingVars>>

-----------------------------------------------------------------------------
\* QueueEntry is a NamedTuple: the heap compares field by field.
Before(a, b) ==
    \/ a.when < b.when
    \/ /\ a.when = b.when
       /\ \/ a.generation < b.generation
          \/ a.generation = b.generation /\ a.job < b.job
          \/ a.generation = b.generation /\ a.job = b.job /\ a.attempt < b.attempt

\* The test of _peek_valid: the job exists and the generation is current.
Live(e) == e.job \in Found /\ generations[e.job] = e.generation
LiveEntries == {e \in BagToSet(queue) : Live(e)}

\* What _peek_valid returns, and the heap it leaves: it pops the stale entries
\* before the first live one, all of them when there is none.
IsHead(e) == e \in LiveEntries /\ \A f \in LiveEntries : ~Before(f, e)
Peeked == [f \in {g \in BagToSet(queue) : \E e \in LiveEntries : ~Before(g, e)}
             |-> queue[f]]

\* heappop, right after _peek_valid returned e; in the variant e stays.
NotPopped(e) == Peeked
Popped(e) == Peeked (-) SetToBag({e})

-----------------------------------------------------------------------------
\* _schedule_next(job, now, attempt, generation): the entries it pushes.
NextEntries(j, attempt, generation) ==
    IF Occurrence[j][now] = NoTime THEN {}
    ELSE {[when |-> Occurrence[j][now], generation |-> generation,
           job |-> j, attempt |-> attempt]}

\* _push: the heap grows and the sleeping coroutines are woken.
Push(entries) ==
    /\ queue' = queue (+) SetToBag(entries)
    /\ WakeIf(entries # {})

LocalDate(j, t) == (t + Offset[j]) \div DayLength
NextMidnight(j, t) == DayLength * (LocalDate(j, t) + 1) - Offset[j]

\* _refresh_job on each job of S, given the dictionaries with the entries of
\* the jobs in `gone` deleted.
RefreshAfterDeleting(S, gone) ==
    LET gens == [j \in Jobs |-> IF j \in gone THEN 0 ELSE generations[j]]
        Generation(j) == gens[j] + 1
    IN  /\ generations' = [j \in Jobs |-> IF j \in S THEN Generation(j) ELSE gens[j]]
        /\ active' = (active \ gone) \cup S
        /\ lastRefresh' = [j \in Jobs |-> IF j \in S THEN LocalDate(j, now)
                                          ELSE IF j \in gone THEN NoTime
                                          ELSE lastRefresh[j]]
        /\ Push(UNION {NextEntries(j, 1, Generation(j)) : j \in S})

Refresh(S) == RefreshAfterDeleting(S, {})

\* _populate_all, at the start of run: jobs removed since are kept.
PopulateAll == Refresh(Registered \ active)

\* _populate_missing: jobs removed from the registry are forgotten (their
\* heap entries stay, stale), jobs not seen before are scheduled.
PopulateMissing == RefreshAfterDeleting(Registered \ active, active \ Registered)

\* _refresh_due_jobs and _next_refresh_time.  The variants forget that a day may
\* have passed since the last refresh, and start the generations afresh.
DueWhenNew == {j \in Registered : lastRefresh[j] = NoTime}
DueForRefresh == {j \in Registered : lastRefresh[j] # LocalDate(j, now)}
RefreshNewJobs == Refresh(DueWhenNew)
RefreshAfresh == RefreshAfterDeleting(DueForRefresh, DueForRefresh)
RefreshDueJobs == Refresh(DueForRefresh)
IsNextRefresh(t) ==
    IF DueForRefresh # {} THEN t = now
    ELSE /\ \E j \in Registered : t = NextMidnight(j, now)
         /\ \A j \in Registered : t <= NextMidnight(j, now)

-----------------------------------------------------------------------------
SchedulingInit ==
    /\ registry = [j \in Jobs |-> IF j \in InitialJobs THEN "registered" ELSE "new"]
    /\ queue = EmptyBag
    /\ generations = [j \in Jobs |-> 0]
    /\ active = {}
    /\ lastRefresh = [j \in Jobs |-> NoTime]

SchedulingTypeOK ==
    /\ registry \in [Jobs -> {"new", "registered", "removed"}]
    /\ BagToSet(queue) \subseteq Entry
    /\ IsABag(queue)
    /\ generations \in [Jobs -> Nat]
    /\ active \subseteq Jobs
    /\ lastRefresh \in [Jobs -> Int]
=============================================================================
