------------------------------ MODULE Sleeping ------------------------------
(***************************************************************************)
(* SleepingMixin and the clock of the daemon (daemon/sleeping.py,          *)
(* daemon/clock.py), with the two coroutines that sleep through it.        *)
(*                                                                         *)
(* The daemon runs in one event loop: a coroutine keeps the thread from    *)
(* one await to the next.  A coroutine whose program counter is in Holding *)
(* is between two awaits, and no other coroutine, task or API call may     *)
(* take a step meanwhile.  Only time, and the registry (which synchronous  *)
(* jobs use from worker threads), may change under it.                     *)
(*                                                                         *)
(* The program counter of a coroutine:                                     *)
(*   "none"    not created          "start"    created, never resumed      *)
(*   "loop"    at the while test    "peek"     after _populate_missing     *)
(*   "refresh" about to recalibrate "acquire"  waiting for a slot          *)
(*   "sleep"   in _sleep_with_wake  "wait"     in _wait_until              *)
(*   "done"    returned                                                    *)
(***************************************************************************)
EXTENDS Integers

CONSTANT MaxTime          \* the clock stops here: the bound of a run

ASSUME MaxTimeAssumption == MaxTime \in Nat

VARIABLES
    now,        \* clock.now(), in ticks
    running,    \* self._running
    pc,         \* program counter of each coroutine
    waitFor,    \* the argument of _wait_until, NoTime outside it
    signalled   \* coroutines whose pending wait on self._wake has been set

sleepVars == <<now, running, pc, waitFor, signalled>>

Time == 0 .. MaxTime
NoTime == -1
Coroutines == {"queue", "midnight"}
Holding == {"loop", "peek", "refresh"}
PCs == Holding \cup {"none", "start", "acquire", "sleep", "wait", "done"}

\* No coroutine is between two awaits: the event loop picks what runs next.
Idle == \A c \in Coroutines : pc[c] \notin Holding

\* The coroutines suspended in self._wake.wait().
Waiting == {c \in Coroutines : pc[c] \in {"sleep", "wait"}}

Goto(c, l) == pc' = [pc EXCEPT ![c] = l]

\* self._wake.set(): completes every pending wait.  A set that finds nobody
\* waiting is forgotten, every wait being preceded by self._wake.clear().
SetWake == signalled' = signalled \cup Waiting
WakeIf(pushed) == IF pushed THEN SetWake ELSE UNCHANGED signalled

SleepInit ==
    /\ now = 0
    /\ running = FALSE
    /\ pc = [c \in Coroutines |-> "none"]
    /\ waitFor = [c \in Coroutines |-> NoTime]
    /\ signalled = {}

Tick ==
    /\ now < MaxTime
    /\ now' = now + 1
    /\ UNCHANGED <<running, pc, waitFor, signalled>>

-----------------------------------------------------------------------------
\* _sleep_with_wake(interval), up to its await, and _wait_until(when), up to
\* the await of its first round (the caller has seen when > now).
EnterSleep(c) ==
    /\ Goto(c, "sleep")
    /\ signalled' = signalled \ {c}
    /\ UNCHANGED <<now, running, waitFor>>

EnterWait(c, when) ==
    /\ Goto(c, "wait")
    /\ waitFor' = [waitFor EXCEPT ![c] = when]
    /\ signalled' = signalled \ {c}
    /\ UNCHANGED <<now, running>>

\* The interval is minutes and a tick hours: the timeout may come at any time.
WakeFromSleep(c) ==
    /\ Idle
    /\ pc[c] = "sleep"
    /\ Goto(c, "loop")
    /\ signalled' = signalled \ {c}
    /\ UNCHANGED <<now, running, waitFor>>

\* Variant of ReturnFromWait: the while test forgets self._running.
ReturnOnlyOnTime(c) ==
    /\ Idle
    /\ pc[c] = "wait"
    /\ now >= waitFor[c]
    /\ Goto(c, IF c = "queue" THEN "loop" ELSE "refresh")
    /\ waitFor' = [waitFor EXCEPT ![c] = NoTime]
    /\ signalled' = signalled \ {c}
    /\ UNCHANGED <<now, running>>

\* A round of _wait_until ends the loop: time is up, or stop() was called.
ReturnFromWait(c) ==
    /\ Idle
    /\ pc[c] = "wait"
    /\ ~running \/ now >= waitFor[c]
    /\ Goto(c, IF c = "queue" THEN "loop" ELSE "refresh")
    /\ waitFor' = [waitFor EXCEPT ![c] = NoTime]
    /\ signalled' = signalled \ {c}
    /\ UNCHANGED <<now, running>>

\* A round was cut short by the event, but `when` is still ahead: the event
\* is cleared and the coroutine waits again, for the same `when`.
WaitAgain(c) ==
    /\ Idle
    /\ pc[c] = "wait"
    /\ c \in signalled
    /\ running
    /\ now < waitFor[c]
    /\ signalled' = signalled \ {c}
    /\ UNCHANGED <<now, running, pc, waitFor>>

\* The first step of a coroutine the event loop resumes for the first time.
StartCoroutine(c) ==
    /\ Idle
    /\ pc[c] = "start"
    /\ Goto(c, "loop")
    /\ UNCHANGED <<now, running, waitFor, signalled>>

SleepTypeOK ==
    /\ now \in Time
    /\ running \in BOOLEAN
    /\ pc \in [Coroutines -> PCs]
    /\ waitFor \in [Coroutines -> Nat \cup {NoTime}]
    /\ signalled \subseteq Waiting
=============================================================================
