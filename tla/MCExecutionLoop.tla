--------------------------- MODULE MCExecutionLoop ---------------------------
(***************************************************************************)
(* Finite instances of ExecutionLoop for TLC: two jobs, a day of three     *)
(* ticks, a clock that stops after a day and a half.                       *)
(***************************************************************************)
EXTENDS ExecutionLoop

\* A trigger due whenever the clock is `phase` modulo `period`.
Every(period, phase, t) ==
    CHOOSE u \in t + 1 .. t + period : u % period = phase

\* Job 1 is due once a day, job 2 every other tick.
MCOccurrence ==
    [j \in Jobs |-> [t \in Time |-> IF j = 1 THEN Every(3, 1, t) ELSE Every(2, 0, t)]]

\* Midnight of job 1 is at 3, 6, ...; of job 2 at 2, 5, ...
MCOffset == [j \in Jobs |-> IF j = 1 THEN 0 ELSE 1]

NoDeadline == NoTime

NoLatencyLimit == [j \in Jobs |-> NoTime]
TightLatency == [j \in Jobs |-> 0]

\* Job 1 has no policy, job 2 retries after a tick, twice at most.
MCRetryPolicy ==
    [j \in Jobs |-> IF j = 1 THEN NoPolicy
                    ELSE [maxAttempts |-> 2, retryInterval |-> 1]]
=============================================================================
