------------------------------ MODULE RateLimiter ------------------------------
(***************************************************************************)
(* OpenMeteoRateLimiter (integrations/rate_limit.py): sliding windows over *)
(* the times of the calls it allowed, one for each limit.                  *)
(*                                                                         *)
(* check_and_acquire awaits nothing but its lock, so that one call runs    *)
(* from its first line to its last before another does.                    *)
(***************************************************************************)
EXTENDS Integers, Sequences, FiniteSets

CONSTANTS
    Windows,        \* the limits, "minute", "hour", "day" in the code
    MaxCalls,       \* MaxCalls[k] calls are allowed ...
    Period,         \* ... in any Period[k] ticks
    MaxTime         \* bound of a run

ASSUME WindowsAssumption ==
    /\ MaxCalls \in [Windows -> Nat]
    /\ Period \in [Windows -> Nat \ {0}]
    /\ MaxTime \in Nat

VARIABLES
    now,            \* time.monotonic()
    windows,        \* self._windows: times of calls, oldest first
    allowed         \* times of all calls ever allowed, oldest first

vars == <<now, windows, allowed>>

\* _prune drops the first n times of window k, and no more.
Prunes(k, n) ==
    /\ \A i \in 1 .. n : now - windows[k][i] >= Period[k]
    /\ n < Len(windows[k]) => now - windows[k][n + 1] < Period[k]

Pruned(drop) ==
    [k \in Windows |-> SubSeq(windows[k], drop[k] + 1, Len(windows[k]))]

\* Some limit is reached.  In the variants it has to be exceeded, or the windows
\* are looked at before they are pruned.
Exceeded(pruned) == \E k \in Windows : Len(pruned[k]) > MaxCalls[k]
FullUnpruned(pruned) == \E k \in Windows : Len(windows[k]) >= MaxCalls[k]
Full(pruned) == \E k \in Windows : Len(pruned[k]) >= MaxCalls[k]

Init ==
    /\ now = 0
    /\ windows = [k \in Windows |-> <<>>]
    /\ allowed = <<>>

\* check_and_acquire, returning True or False.
Allow ==
    \E drop \in [Windows -> 0 .. Len(allowed)] :
        /\ \A k \in Windows : drop[k] <= Len(windows[k]) /\ Prunes(k, drop[k])
        /\ ~Full(Pruned(drop))
        /\ windows' = [k \in Windows |-> Append(Pruned(drop)[k], now)]
        /\ allowed' = Append(allowed, now)
        /\ UNCHANGED now

Refuse ==
    \E drop \in [Windows -> 0 .. Len(allowed)] :
        /\ \A k \in Windows : drop[k] <= Len(windows[k]) /\ Prunes(k, drop[k])
        /\ Full(Pruned(drop))
        /\ windows' = Pruned(drop)
        /\ UNCHANGED <<now, allowed>>

Tick ==
    /\ now < MaxTime
    /\ now' = now + 1
    /\ UNCHANGED <<windows, allowed>>

Next == Allow \/ Refuse \/ Tick

Spec == Init /\ [][Next]_vars

-----------------------------------------------------------------------------
\* Every variable has the type the code gives it.
TypeOK ==
    /\ now \in Nat
    /\ windows \in [Windows -> Seq(Nat)]
    /\ allowed \in Seq(Nat)

\* No window of any limit, wherever it starts, has more calls than the limit:
\* a call and the MaxCalls-th after it are a period apart.  (A limit of no
\* calls at all allows none.)
WithinLimits ==
    \A k \in Windows : \A i, j \in 1 .. Len(allowed) :
        j - i >= MaxCalls[k] => allowed[j] - allowed[i] >= Period[k]

\* A call is refused only if some limit leaves no room for it.
Recent(k) == {i \in DOMAIN allowed : now - allowed[i] < Period[k]}
RefusedOnlyWhenFull ==
    [][Refuse => \E k \in Windows : Cardinality(Recent(k)) >= MaxCalls[k]]_vars
=============================================================================
