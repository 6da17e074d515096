---------------------------- MODULE MCPersistence ----------------------------
(***************************************************************************)
(* Finite instances of Persistence for TLC: an asynchronous and a          *)
(* synchronous job.                                                        *)
(***************************************************************************)
EXTENDS Persistence, TLC

\* Where a careful program calls the API: before init() and once it is done.
OutsideInit == {"up", "ready", "running"}
\* While init() is in progress, too.
InitToo == OutsideInit \cup {"migrating"}
\* While run() and close() are in progress.
AroundClose == {"running", "closing"}

\* Executions are interchangeable.
ExecSymmetry == Permutations(Executions)
=============================================================================
