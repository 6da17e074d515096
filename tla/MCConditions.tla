----------------------------- MODULE MCConditions -----------------------------
(***************************************************************************)
(* A finite instance of Conditions for TLC: three jobs that share their    *)
(* conditions and the rate limiter, and a day of four ticks.               *)
(***************************************************************************)
EXTENDS Conditions, TLC

MCMaxCalls == [minute |-> 1, hour |-> 2]
MCPeriod == [minute |-> 2, hour |-> 5]

\* A plugin that holds for job a before time 2, and for job b after it; for job b
\* it raises at time 2.
MCResult ==
    [j \in Jobs |-> [t \in 0 .. MaxTime |->
        IF j = "b" /\ t = 2 THEN "raises"
        ELSE Truth(IF j = "a" THEN t < 2 ELSE t > 2)]]

MCNode ==
    << [kind |-> "window", zone |-> FixedZone(1), start |-> 1, end |-> 3],
       [kind |-> "window", zone |-> UTC, start |-> 3, end |-> 1],
       [kind |-> "plugin", result |-> MCResult],
       [kind |-> "cached", of |-> <<3>>, ttl |-> 1],
       [kind |-> "weather", limited |-> TRUE],
       [kind |-> "weather", limited |-> FALSE],
       [kind |-> "not", of |-> <<1>>],
       [kind |-> "all", of |-> <<7, 4>>],
       [kind |-> "timeout", of |-> <<8>>, onTimeout |-> FALSE],
       [kind |-> "all", of |-> <<2, 5>>],
       [kind |-> "cached", of |-> <<6>>, ttl |-> 1],
       [kind |-> "timeout", of |-> <<6>>, onTimeout |-> TRUE] >>

\* Sound conditions for jobs a and b; job c has the weather inside of others.
MCRequired == [a |-> <<2, 5, 4>>, b |-> <<9, 6, 5>>, c |-> <<10, 12, 11>>]

\* A job with All of a window and the weather, as in the documentation.
MCDocumented == [j \in Jobs |-> <<10>>]

\* The executions are alike.
MCSymmetry == Permutations(TaskIds)
=============================================================================
