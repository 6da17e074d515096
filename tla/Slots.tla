-------------------------------- MODULE Slots --------------------------------
(***************************************************************************)
(* What concurrency slots promise, and what Execution and ExecutionLoop    *)
(* take them for: a number of holders that never exceeds the maximum and   *)
(* changes by one at a time.                                               *)
(***************************************************************************)
EXTENDS Naturals

CONSTANT MaxConcurrency

VARIABLE holders

Init == holders = 0

Acquire == holders < MaxConcurrency /\ holders' = holders + 1

Release == holders > 0 /\ holders' = holders - 1

Spec == Init /\ [][Acquire \/ Release]_holders
=============================================================================
