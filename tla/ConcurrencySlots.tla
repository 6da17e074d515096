--------------------------- MODULE ConcurrencySlots ---------------------------
(***************************************************************************)
(* The concurrency slots of ExecutionLoop at the grain of the semaphore    *)
(* under them: acquire_concurrency_slot and release_concurrency_slot       *)
(* (daemon/loop.py), the polling acquire of the queue loop                 *)
(* (daemon/execution.py), and asyncio.Semaphore, which lies outside the    *)
(* repository.                                                             *)
(*                                                                         *)
(* A client that finds the semaphore locked waits on a future in a queue.  *)
(* A release grants its permit to the first future that is pending; the    *)
(* client takes the permit when the event loop resumes it.  In between, it *)
(* may time out or be cancelled, and has to pass the permit on.            *)
(***************************************************************************)
EXTENDS Integers, FiniteSets, Sequences

CONSTANTS
    Users,              \* coroutines that call acquire_concurrency_slot
    MaxConcurrency,     \* max_concurrency
    MaxLaunched         \* bound of a run: tasks at a time

Loop == "loop"
Clients == Users \cup {Loop}

ASSUME SlotsAssumption ==
    /\ Loop \notin Users
    /\ IsFiniteSet(Users)
    /\ MaxConcurrency \in Nat \ {0}
    /\ MaxLaunched \in Nat

VARIABLES
    value,          \* self._semaphore._value
    waiters,        \* self._semaphore._waiters: whose futures are queued
    future,         \* state of the future each client waits on
    interrupted,    \* clients to be resumed with CancelledError in spite of a
                    \* granted future
    available,      \* self._available
    holding,        \* users that hold a slot
    launched,       \* tasks of the queue loop, each of which holds one
    running,        \* self._running
    ended,          \* the queue loop has returned
    misused         \* somebody has released a slot that he did not hold

semaphore == <<value, waiters, future, interrupted>>
vars == <<semaphore, available, holding, launched, running, ended, misused>>

WithFuture(state) == {c \in Clients : future[c] = state}
Holders == Cardinality(holding) + launched

-----------------------------------------------------------------------------
\* asyncio.Semaphore.
Locked == value = 0 \/ WithFuture("pending") \cup WithFuture("granted") # {}

\* _wake_up_next, k times: the first k pending futures of the queue w, or all
\* of them, are granted a permit each.
Smaller(k, n) == IF k < n THEN k ELSE n
FirstIn(w, pending, woken) ==
    \A i, j \in DOMAIN w :
        i < j /\ w[i] \in pending /\ w[j] \in woken => w[i] \in woken
WakeUp(v, w, f, k) ==
    LET pending == {c \in Clients : f[c] = "pending"}
    IN  \E woken \in SUBSET pending :
            /\ Cardinality(woken) = Smaller(k, Cardinality(pending))
            /\ FirstIn(w, pending, woken)
            /\ value' = v - Cardinality(woken)
            /\ future' = [c \in Clients |-> IF c \in woken THEN "granted" ELSE f[c]]

\* acquire, up to its await.
TakeAtOnce ==
    /\ ~Locked
    /\ value' = value - 1
    /\ UNCHANGED <<waiters, future, interrupted>>
Enqueue(c) ==
    /\ Locked
    /\ waiters' = Append(waiters, c)
    /\ future' = [future EXCEPT ![c] = "pending"]
    /\ UNCHANGED <<value, interrupted>>

\* acquire, from its await on: a client that was interrupted gives a granted
\* permit back, and whoever leaves the queue wakes others for free permits.
Without(c) == SelectSeq(waiters, LAMBDA d : d # c)
Leave(c, v) ==
    /\ waiters' = Without(c)
    /\ interrupted' = interrupted \ {c}
    /\ WakeUp(v, Without(c), [future EXCEPT ![c] = "none"], v)

IsResumed(c) == future[c] = "granted" /\ c \notin interrupted
IsInterrupted(c) == future[c] = "cancelled" \/ c \in interrupted
GivenBack(c) == IF c \in interrupted THEN value + 1 ELSE value

\* The client's task is cancelled: by asyncio.wait_for after the poll interval,
\* or by anyone.  In the variant the queue loop waits without a timeout.
InterruptUser(c) ==
    /\ c \in Users /\ future[c] = "pending"
    /\ future' = [future EXCEPT ![c] = "cancelled"]
    /\ UNCHANGED <<value, waiters, interrupted>>
    /\ UNCHANGED <<available, holding, launched, running, ended, misused>>
Interrupt(c) ==
    /\ \/ /\ future[c] = "pending"
          /\ future' = [future EXCEPT ![c] = "cancelled"]
          /\ UNCHANGED interrupted
       \/ /\ IsResumed(c)
          /\ interrupted' = interrupted \cup {c}
          /\ UNCHANGED future
    /\ UNCHANGED <<value, waiters, available, holding, launched, running, ended, misused>>

-----------------------------------------------------------------------------
\* release_concurrency_slot.  Variants: the guard is dropped; the counter is
\* forgotten.
ReleaseUnguarded ==
    /\ WakeUp(value + 1, waiters, future, 1)
    /\ available' = available + 1
    /\ UNCHANGED <<waiters, interrupted>>
ReleaseUncounted ==
    /\ WakeUp(value + 1, waiters, future, 1)
    /\ UNCHANGED <<available, waiters, interrupted>>
ReleaseSlot ==
    IF available < MaxConcurrency
    THEN /\ WakeUp(value + 1, waiters, future, 1)
         /\ available' = available + 1
         /\ UNCHANGED <<waiters, interrupted>>
    ELSE UNCHANGED <<semaphore, available>>

\* acquire_concurrency_slot.
UserAcquires(u) ==
    /\ u \notin holding /\ future[u] = "none"
    /\ \/ Enqueue(u) /\ UNCHANGED <<available, holding>>
       \/ /\ TakeAtOnce
          /\ available' = available - 1
          /\ holding' = holding \cup {u}
    /\ UNCHANGED <<launched, running, ended, misused>>

UserResumes(u) ==
    /\ IsResumed(u)
    /\ Leave(u, value)
    /\ available' = available - 1
    /\ holding' = holding \cup {u}
    /\ UNCHANGED <<launched, running, ended, misused>>

UserGivesUp(u) ==
    /\ IsInterrupted(u)
    /\ Leave(u, GivenBack(u))
    /\ UNCHANGED <<available, holding, launched, running, ended, misused>>

UserReleases(u) ==
    /\ u \in holding
    /\ ReleaseSlot
    /\ holding' = holding \ {u}
    /\ UNCHANGED <<launched, running, ended, misused>>

\* By somebody who holds no slot.
ReleaseByNonHolder ==
    /\ ReleaseSlot
    /\ misused' = TRUE
    /\ UNCHANGED <<holding, launched, running, ended>>

-----------------------------------------------------------------------------
\* _acquire_concurrency_slot, called again and again by the queue loop.  What
\* it acquires goes to the task it launches (or is released at once, like the
\* slot of a task that ends at once).
Launch ==
    /\ available' = available - 1
    /\ launched' = launched + 1
    /\ UNCHANGED <<holding, running, ended, misused>>

LoopAcquires ==
    /\ ~ended /\ future[Loop] = "none"
    /\ running
    /\ launched < MaxLaunched
    /\ \/ Enqueue(Loop) /\ UNCHANGED <<available, launched, holding, running, ended, misused>>
       \/ TakeAtOnce /\ Launch

LoopResumes ==
    /\ IsResumed(Loop)
    /\ Leave(Loop, value)
    /\ Launch

\* TimeoutError: the loop looks at self._running and polls again.  In the
\* variant it goes on as if it had been served.
LoopGoesOn ==
    /\ IsInterrupted(Loop)
    /\ Leave(Loop, GivenBack(Loop))
    /\ Launch
LoopTimesOut ==
    /\ IsInterrupted(Loop)
    /\ Leave(Loop, GivenBack(Loop))
    /\ UNCHANGED <<available, launched, holding, running, ended, misused>>

LoopEnds ==
    /\ ~ended /\ future[Loop] = "none"
    /\ ~running
    /\ ended' = TRUE
    /\ UNCHANGED <<semaphore, available, holding, launched, running, misused>>

\* Variant of TaskEnds: the release is not in a finally clause.
TaskDies ==
    /\ launched > 0
    /\ launched' = launched - 1
    /\ UNCHANGED <<semaphore, available, holding, running, ended, misused>>
TaskEnds ==
    /\ launched > 0
    /\ ReleaseSlot
    /\ launched' = launched - 1
    /\ UNCHANGED <<holding, running, ended, misused>>

Stop ==
    /\ running
    /\ running' = FALSE
    /\ UNCHANGED <<semaphore, available, holding, launched, ended, misused>>

-----------------------------------------------------------------------------
Init ==
    /\ value = MaxConcurrency /\ waiters = <<>>
    /\ future = [c \in Clients |-> "none"] /\ interrupted = {}
    /\ available = MaxConcurrency
    /\ holding = {} /\ launched = 0
    /\ running = TRUE /\ ended = FALSE /\ misused = FALSE

UserStep(u) ==
    UserAcquires(u) \/ UserResumes(u) \/ UserGivesUp(u) \/ UserReleases(u)

Next ==
    \/ \E u \in Users : UserStep(u)
    \/ LoopAcquires \/ LoopResumes \/ LoopTimesOut \/ LoopEnds
    \/ \E c \in Clients : Interrupt(c)
    \/ TaskEnds \/ ReleaseByNonHolder \/ Stop

Spec == Init /\ [][Next]_vars

\* What the event loop has scheduled runs, and a poll of the queue loop times
\* out.  Nobody is obliged to acquire, nor, so far, to release.
LoopFairness ==
    /\ WF_vars(LoopResumes \/ LoopTimesOut \/ LoopEnds)
    /\ WF_vars(Interrupt(Loop))
    /\ \A u \in Users : WF_vars(UserResumes(u) \/ UserGivesUp(u))
LoopSpec == Spec /\ LoopFairness

\* Tasks end, and users release what they hold.
HolderFairness == WF_vars(TaskEnds) /\ \A u \in Users : WF_vars(UserReleases(u))

-----------------------------------------------------------------------------
(***************************************************************************)
(* Properties.                                                             *)
(***************************************************************************)
\* available_concurrency is what the semaphore still has, with the permits
\* granted to clients not yet resumed, whoever releases, times out or is
\* cancelled in between.
PermitsAgree ==
    /\ available = value + Cardinality(WithFuture("granted"))
    /\ available \in 0 .. MaxConcurrency

\* What available_concurrency counts as taken behaves like Slots.
SlotsPromise == INSTANCE Slots WITH holders <- MaxConcurrency - available
SlotsImplemented == SlotsPromise!Spec

\* A slot is available or held: none is lost, however clients are interrupted,
\* and unless a non-holder releases, no more are held than there are.
HeldOrAvailable ==
    /\ available + Holders >= MaxConcurrency
    /\ ~misused => available + Holders = MaxConcurrency

\* stop() ends the queue loop even when no slot is ever released.
StopIsRespected == ~running ~> ended

\* If holders release, a user that waits is served in the end, or gives up: the
\* queue is served in its order, however often the queue loop polls.
UsersAreServed ==
    HolderFairness => \A u \in Users : future[u] = "pending" ~> future[u] # "pending"
=============================================================================
