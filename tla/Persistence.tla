----------------------------- MODULE Persistence -----------------------------
(***************************************************************************)
(* persistence/persistance_loop.py over the store: PersistentFuzzyCron     *)
(* with its background writes, the wrappers that log executions (_wrap_job)*)
(* and PersistentExecutionLoop from init() to close(), over crashes and    *)
(* restarts of the process.                                                *)
(*                                                                         *)
(* Jobs are executed by whoever holds the wrapped functions: a loop over   *)
(* the inner registry, while run() is in progress.  An execution is        *)
(*   "idle"         not in progress                                        *)
(*   "logging"      awaiting store.log_execution                           *)
(*   "registering"  awaiting store.register_job after an IntegrityError    *)
(*   "relogging"    awaiting the second store.log_execution                *)
(*   "body"         in the user's function                                 *)
(*   "saving"       awaiting store.update_execution                        *)
(***************************************************************************)
EXTENDS Store

CONSTANTS
    SyncJobs,       \* names of jobs that are plain functions, run in threads
    ApiWhile,       \* the API is called in these stages of the process
    WorkerThreads,  \* register and remove_job are called from threads, too
    Interruptions,  \* of executions: "cancel" (a job timeout, a shutdown),
                    \* "slow_write" (a write takes more than 10 s), "outlive"
                    \* (the thread of a job that timed out outlives run())
    DefaultInUse,   \* FuzzyCron.default() has jobs of its own
    MaxWrites,      \* bound of a run: writes waiting at a time
    MaxBoots        \* bound of a run: processes started

ASSUME PersistenceAssumption ==
    /\ SyncJobs \subseteq Names
    /\ WorkerThreads \in BOOLEAN
    /\ Interruptions \subseteq {"cancel", "slow_write", "outlive"}
    /\ DefaultInUse \in BOOLEAN
    /\ MaxWrites \in Nat /\ MaxBoots \in Nat

VARIABLES
    life,           \* stage of the process, see Stages
    boots,          \* processes started so far
    inner,          \* names of the jobs in the inner FuzzyCron
    originals,      \* self._originals
    jobIds,         \* self._job_ids
    pending,        \* self._pending_writes
    background,     \* self._bg_tasks and flushes created, but never resumed
    draining,       \* writes that the stage awaits
    execs,          \* executions in progress
    restored        \* statuses init() put into the in-memory history

registryVars == <<inner, originals, jobIds>>
writeVars == <<pending, background, draining>>
lifeVars == <<life, boots, restored>>
vars == <<storeVars, registryVars, writeVars, lifeVars, execs>>

\* "down": no process.  "up": constructed.  "flushing_..." and "settling",
\* "closing": awaiting writes.  The others await the statement they name.
Initialized == {"ready", "flushing_run", "running", "settling", "pruning",
                "flushing_close", "closing", "disconnecting"}
Stages == Initialized \cup
    {"down", "up", "migrating", "flushing_init", "healing", "loading", "closed"}

IdleExec == [pc |-> "idle", job |-> NoName, row |-> NoRow]
InFlight == {x \in Executions : execs[x] # IdleExec}

-----------------------------------------------------------------------------
\* Background writes (_schedule_write, flush_pending_writes, wait_for_writes).
Write(op, name) == About(op, name, "write")

\* Without a connection, or off the event loop's thread, the write is queued.
ScheduleWrites(writes, offLoop) ==
    IF connection = "closed" \/ offLoop
    THEN pending' = pending \o writes /\ UNCHANGED background
    ELSE background' = background \o writes /\ UNCHANGED pending

Submitted == {i \in DOMAIN requests : requests[i].from = "write"}
Outstanding(bg) == Len(bg) + Cardinality(Submitted)

\* Variant of Flush: the tasks are not created.
FlushNothing(stage) ==
    /\ life' = stage
    /\ background' = background
    /\ pending' = <<>>
    /\ draining' = Outstanding(background)
\* The writes are gathered; as tasks start in order and the thread serves in
\* order, the last of them is done when all writes before it are.
Flush(stage) ==
    /\ life' = stage
    /\ background' = background \o pending
    /\ pending' = <<>>
    /\ draining' = Outstanding(background \o pending)

AwaitWrites(stage) ==
    /\ life' = stage
    /\ draining' = Outstanding(background)
    /\ UNCHANGED <<background, pending>>

\* Variant of Drained: a write that nobody awaits is counted, too.
DrainedAlways == draining - 1
Drained == IF draining > 0 THEN draining - 1 ELSE 0

\* The event loop resumes the oldest write task for the first time.
StartWrite ==
    /\ background # <<>>
    /\ background' = Tail(background)
    /\ IF connection = "open"
       THEN requests' = Append(requests, Head(background)) /\ UNCHANGED draining
       ELSE UNCHANGED requests /\ draining' = Drained
    /\ UNCHANGED <<tables, connection, registryVars, pending, lifeVars, execs>>

\* Done, or failed: that is logged.
EndWrite ==
    /\ Served({"write"})
    /\ requests' = Tail(requests)
    /\ draining' = Drained
    /\ UNCHANGED <<connection, registryVars, pending, background, lifeVars, execs>>

-----------------------------------------------------------------------------
\* PersistentFuzzyCron.
ApiCalled ==
    /\ life \in ApiWhile
    /\ Len(pending) + Outstanding(background) < MaxWrites

Register(n, offLoop) ==
    /\ ApiCalled
    /\ inner' = inner \cup {n}
    /\ originals' = originals \cup {n}
    /\ jobIds' = jobIds \cup {n}
    /\ ScheduleWrites(<<Write("register", n)>>, offLoop)
    /\ UNCHANGED <<storeVars, draining, lifeVars, execs>>

\* _inner.remove_job is a classmethod that removes from the default registry:
\* the job stays in the inner one.
RemoveJob(n, offLoop) ==
    /\ ApiCalled
    /\ ~(DefaultInUse /\ n \in jobIds)
    /\ jobIds' = jobIds \ {n}
    /\ originals' = originals \ {n}
    /\ ScheduleWrites(<<Write("unregister", n)>>, offLoop)
    /\ UNCHANGED <<storeVars, inner, draining, lifeVars, execs>>

\* What _job_ids holds is a JobSpec, which is not hashable: looking for it in
\* a registry that is not empty raises TypeError.
RemoveJobRaises(n) ==
    /\ ApiCalled
    /\ DefaultInUse /\ n \in jobIds
    /\ jobIds' = jobIds \ {n}
    /\ UNCHANGED <<storeVars, inner, originals, writeVars, lifeVars, execs>>

Restoring == \E i \in DOMAIN requests : requests[i].from = "restore"

RestoreJobs ==
    /\ life = "ready"
    /\ ~Restoring
    /\ requests' = Append(requests, Plain("list", "restore"))
    /\ UNCHANGED <<tables, connection, registryVars, writeVars, lifeVars, execs>>

\* The rows are there: every job not yet known is loaded and registered, in
\* the order of its row, and without an entry in _job_ids.
RegisterRestored ==
    /\ Served({"restore"})
    /\ requests' = Tail(requests)
    /\ \E order \in [1 .. Cardinality(jobTable \ originals) -> jobTable \ originals] :
        /\ \A n \in jobTable \ originals : \E i \in DOMAIN order : order[i] = n
        /\ IF Answer = "ok"
           THEN /\ inner' = inner \cup jobTable
                /\ originals' = originals \cup jobTable
                /\ ScheduleWrites([i \in DOMAIN order |-> Write("register", order[i])],
                                  FALSE)
           ELSE UNCHANGED <<inner, originals, pending, background>>
    /\ UNCHANGED <<connection, jobIds, draining, lifeVars, execs>>

-----------------------------------------------------------------------------
\* The wrappers of _wrap_job.
ExecGoes(x, exec) == execs' = [execs EXCEPT ![x] = exec]
Phase(x, pc) == execs[x].pc = pc
UnchangedByExecs == UNCHANGED <<connection, registryVars, writeVars, lifeVars>>

\* Bound: the rows that executions, abandoned ones too, have yet to insert.
RowsToCome ==
    Cardinality({x \in InFlight : execs[x].row = NoRow})
    + Cardinality({i \in DOMAIN requests : /\ requests[i].from = "nobody"
                                           /\ requests[i].op \in {"log", "register"}})

Begin(x, n) ==
    /\ life = "running"
    /\ Phase(x, "idle")
    /\ n \in inner
    /\ Len(executions) + RowsToCome < MaxRows
    /\ ExecGoes(x, [pc |-> "logging", job |-> n, row |-> NoRow])
    /\ requests' = Append(requests, About("log", n, x))
    /\ UnchangedByExecs /\ UNCHANGED tables

Logged(x) ==
    /\ Served({x})
    /\ Phase(x, "logging") \/ Phase(x, "relogging")
    /\ Answer = "ok"
    /\ requests' = Tail(requests)
    /\ ExecGoes(x, [execs[x] EXCEPT !.pc = "body", !.row = Len(executions')])
    /\ UnchangedByExecs

\* The metadata row is not there: it is inserted, once.
LogRefused(x) ==
    /\ Served({x})
    /\ Phase(x, "logging")
    /\ Answer = "integrity"
    /\ requests' = Append(Tail(requests), About("register", execs[x].job, x))
    /\ ExecGoes(x, [execs[x] EXCEPT !.pc = "registering"])
    /\ UnchangedByExecs

Reregistered(x) ==
    /\ Served({x})
    /\ Phase(x, "registering")
    /\ Answer = "ok"
    /\ requests' = Append(Tail(requests), About("log", execs[x].job, x))
    /\ ExecGoes(x, [execs[x] EXCEPT !.pc = "relogging"])
    /\ UnchangedByExecs

\* The store raises before the job has started: the job does not run.
LogFails(x) ==
    /\ Served({x})
    /\ \/ Phase(x, "relogging") /\ Answer = "integrity"
       \/ execs[x].pc \in {"logging", "registering", "relogging"} /\ Answer = "error"
    /\ requests' = Tail(requests)
    /\ ExecGoes(x, IdleExec)
    /\ UnchangedByExecs

\* Variant of Save: the failure of the job is not written.
SaveUnlessFailed(x, status) ==
    IF connection = "open" /\ status # "failed"
    THEN /\ requests' = Append(requests, Update(execs[x].row, status, x))
         /\ ExecGoes(x, [execs[x] EXCEPT !.pc = "saving"])
    ELSE ExecGoes(x, IdleExec) /\ UNCHANGED requests
\* store.update_execution; on a closed store it raises, which is logged.
Save(x, status) ==
    IF connection = "open"
    THEN /\ requests' = Append(requests, Update(execs[x].row, status, x))
         /\ ExecGoes(x, [execs[x] EXCEPT !.pc = "saving"])
    ELSE ExecGoes(x, IdleExec) /\ UNCHANGED requests

JobEnds(x) ==
    /\ Phase(x, "body")
    /\ \E status \in {"success", "failed"} : Save(x, status)
    /\ UnchangedByExecs /\ UNCHANGED tables

Saved(x) ==
    /\ Served({x})
    /\ Phase(x, "saving")
    /\ requests' = Tail(requests)
    /\ ExecGoes(x, IdleExec)
    /\ UnchangedByExecs

\* Cancelled in the user's function.
CancelJob(x) ==
    /\ "cancel" \in Interruptions
    /\ Phase(x, "body") /\ execs[x].job \notin SyncJobs
    /\ Save(x, "cancelled")
    /\ UnchangedByExecs /\ UNCHANGED tables

\* Nobody awaits the statement of x any more: the thread executes it still.
Abandon(x) ==
    /\ execs[x].pc \in {"logging", "registering", "relogging", "saving"}
    /\ requests' = [i \in DOMAIN requests |->
                        IF requests[i].from = x
                        THEN [requests[i] EXCEPT !.from = "nobody"] ELSE requests[i]]
    /\ ExecGoes(x, IdleExec)
    /\ UnchangedByExecs /\ UNCHANGED tables

\* Cancelled while it awaits the store; a synchronous job gives up after 10 s.
CancelAwait(x) ==
    "cancel" \in Interruptions /\ execs[x].job \notin SyncJobs /\ Abandon(x)
WriteTimesOut(x) ==
    "slow_write" \in Interruptions /\ execs[x].job \in SyncJobs /\ Abandon(x)

ServeNobody ==
    /\ Served({"nobody"})
    /\ requests' = Tail(requests)
    /\ UnchangedByExecs /\ UNCHANGED execs

ExecStep(x) ==
    \/ \E n \in Names : Begin(x, n)
    \/ Logged(x) \/ LogRefused(x) \/ Reregistered(x) \/ LogFails(x)
    \/ JobEnds(x) \/ Saved(x)
    \/ CancelJob(x) \/ CancelAwait(x) \/ WriteTimesOut(x)

-----------------------------------------------------------------------------
\* The process.  A crash, or the end of the program, leaves the tables.
Boot ==
    /\ life = "down"
    /\ boots < MaxBoots
    /\ boots' = boots + 1
    /\ life' = "up"
    /\ UNCHANGED <<storeVars, registryVars, writeVars, execs, restored>>

Crash ==
    /\ life # "down"
    /\ life' = "down"
    /\ connection' = "closed"
    /\ requests' = <<>>
    /\ inner' = {} /\ originals' = {} /\ jobIds' = {}
    /\ pending' = <<>> /\ background' = <<>> /\ draining' = 0
    /\ execs' = [x \in Executions |-> IdleExec]
    /\ restored' = {}
    /\ UNCHANGED <<tables, boots>>

\* The stage goes on with a statement.
Await(stage, op, rest) ==
    /\ life' = stage
    /\ requests' = Append(rest, Plain(op, "life"))

\* init(): is_initialized is true from here on.
Connect ==
    /\ life = "up"
    /\ connection' = "open"
    /\ Await("migrating", "migrate", requests)
    /\ UNCHANGED <<tables, boots, restored, registryVars, writeVars, execs>>

Migrated ==
    /\ Served({"life"})
    /\ life = "migrating"
    /\ IF pending = <<>>
       THEN Await("healing", "heal", Tail(requests)) /\ UNCHANGED writeVars
       ELSE Flush("flushing_init") /\ requests' = Tail(requests)
    /\ UNCHANGED <<connection, boots, restored, registryVars, execs>>

InitFlushed ==
    /\ life = "flushing_init"
    /\ draining = 0
    /\ Await("healing", "heal", requests)
    /\ UNCHANGED <<tables, connection, boots, restored, registryVars, writeVars, execs>>

Healed ==
    /\ Served({"life"})
    /\ life = "healing"
    /\ Await("loading", "history", Tail(requests))
    /\ UNCHANGED <<connection, boots, restored, registryVars, writeVars, execs>>

Loaded ==
    /\ Served({"life"})
    /\ life = "loading"
    /\ life' = "ready"
    /\ requests' = Tail(requests)
    /\ restored' = {executions[i].status : i \in Rows} \ {"deleted"}
    /\ UNCHANGED <<connection, boots, registryVars, writeVars, execs>>

\* run().
Run ==
    /\ life = "ready"
    /\ IF pending = <<>> THEN life' = "running" /\ UNCHANGED writeVars
                         ELSE Flush("flushing_run")
    /\ UNCHANGED <<storeVars, boots, restored, registryVars, execs>>

RunFlushed ==
    /\ life = "flushing_run"
    /\ draining = 0
    /\ life' = "running"
    /\ UNCHANGED <<storeVars, boots, restored, registryVars, writeVars, execs>>

\* The inner loop has returned, which waits for its tasks.
RunEnds ==
    /\ life = "running"
    /\ InFlight = {} \/ ("outlive" \in Interruptions
                         /\ \A x \in InFlight : execs[x].job \in SyncJobs)
    /\ AwaitWrites("settling")
    /\ UNCHANGED <<storeVars, boots, restored, registryVars, execs>>

WritesSettled ==
    /\ life = "settling"
    /\ draining = 0
    /\ Await("pruning", "prune", requests)
    /\ UNCHANGED <<tables, connection, boots, restored, registryVars, writeVars, execs>>

Pruned ==
    /\ Served({"life"})
    /\ life = "pruning"
    /\ life' = "ready"
    /\ requests' = Tail(requests)
    /\ UNCHANGED <<connection, boots, restored, registryVars, writeVars, execs>>

\* close(); a careful program awaits its restore_jobs() first.
Close ==
    /\ life = "ready"
    /\ ~Restoring \/ "closing" \in ApiWhile
    /\ IF pending = <<>> THEN AwaitWrites("closing") ELSE Flush("flushing_close")
    /\ UNCHANGED <<storeVars, boots, restored, registryVars, execs>>

CloseFlushed ==
    /\ life = "flushing_close"
    /\ draining = 0
    /\ AwaitWrites("closing")
    /\ UNCHANGED <<storeVars, boots, restored, registryVars, execs>>

Disconnect ==
    /\ life = "closing"
    /\ draining = 0
    /\ Await("disconnecting", "close", requests)
    /\ UNCHANGED <<tables, connection, boots, restored, registryVars, writeVars, execs>>

Closed ==
    /\ Served({"life"})
    /\ life = "disconnecting"
    /\ life' = "closed"
    /\ connection' = "closed"
    /\ requests' = Tail(requests)
    /\ UNCHANGED <<boots, restored, registryVars, writeVars, execs>>

LifeStep ==
    \/ Connect \/ Migrated \/ InitFlushed \/ Healed \/ Loaded
    \/ Run \/ RunFlushed \/ RunEnds \/ WritesSettled \/ Pruned
    \/ Close \/ CloseFlushed \/ Disconnect \/ Closed

-----------------------------------------------------------------------------
Init ==
    /\ StoreInit
    /\ life = "down" /\ boots = 0 /\ restored = {}
    /\ inner = {} /\ originals = {} /\ jobIds = {}
    /\ pending = <<>> /\ background = <<>> /\ draining = 0
    /\ execs = [x \in Executions |-> IdleExec]

ApiStep ==
    \/ \E n \in Names : \E offLoop \in {FALSE, WorkerThreads} :
        Register(n, offLoop) \/ RemoveJob(n, offLoop)
    \/ \E n \in Names : RemoveJobRaises(n)
    \/ RestoreJobs

Next ==
    \/ Boot \/ Crash
    \/ LifeStep
    \/ ApiStep
    \/ StartWrite \/ EndWrite \/ RegisterRestored \/ ServeNobody
    \/ \E x \in Executions : ExecStep(x)

Spec == Init /\ [][Next]_vars

\* The event loop resumes its coroutines, the connection's thread executes
\* every statement, jobs end (by default after a timeout), a process that died
\* is started again and calls init().  Nobody is obliged to call the API, to
\* crash, or to close().
InitStep == Connect \/ Migrated \/ InitFlushed \/ Healed \/ Loaded
ExecContinues(x) ==
    \/ Logged(x) \/ LogRefused(x) \/ Reregistered(x) \/ LogFails(x)
    \/ JobEnds(x) \/ Saved(x)
Fairness ==
    /\ WF_vars(StartWrite)
    /\ WF_vars(EndWrite)
    /\ WF_vars(RegisterRestored)
    /\ \A x \in Executions : WF_vars(ExecContinues(x))
    /\ WF_vars(Boot)
    /\ WF_vars(InitStep)

FairSpec == Spec /\ Fairness

-----------------------------------------------------------------------------
(***************************************************************************)
(* Properties.                                                             *)
(***************************************************************************)
\* Every variable has the type the code gives it.
TypeOK ==
    /\ StoreTypeOK
    /\ life \in Stages
    /\ boots \in 0 .. MaxBoots
    /\ inner \subseteq Names /\ originals \subseteq Names /\ jobIds \subseteq Names
    /\ pending \in Seq(Request)
    /\ background \in Seq(Request)
    /\ draining \in 0 .. Outstanding(background)
    /\ execs \in [Executions -> [pc: {"logging", "registering", "relogging", "body",
                                      "saving"},
                                 job: Names, row: 0 .. MaxRows] \cup {IdleExec}]
    /\ restored \subseteq RowStatus

\* The history keeps its promise over crashes, restarts, removals and pruning.
History == INSTANCE ExecutionHistory WITH
    Ids <- 1 .. MaxRows,
    status <- [i \in 1 .. MaxRows |-> IF i \in Rows THEN executions[i].status
                                      ELSE "absent"]
HistoryIsKept == History!Spec

\* Once init() has healed what a crash left, a row is "running" only while an
\* execution of this process will still settle it.
RunningIsInFlight ==
    life \in Initialized \cup {"loading", "closed"} =>
        \A i \in Running : \E x \in InFlight : execs[x].row = i

\* The history shown after a restart has no execution that seems to be running.
RestoredIsSettled == "running" \notin restored

\* When no write is outstanding, and after close(), every registered job has
\* its row: it is restored when the process comes back.
NoWriteOutstanding == pending = <<>> /\ background = <<>> /\ Submitted = {}
RegisteredAreDurable ==
    (life \in Initialized /\ NoWriteOutstanding) \/ life = "closed" =>
        originals \subseteq jobTable

\* A running row is settled in the end, by its execution or after a crash.
RunningSettles ==
    \A i \in 1 .. MaxRows :
        i \in Running ~> (i \notin Running \/ (life = "down" /\ boots = MaxBoots))

(***************************************************************************)
(* What the repository says of persistence, and the code does not do.      *)
(***************************************************************************)
\* store.py:407, "any row still in that state at startup belongs to a process
\* that died mid-execution": a process that has closed leaves none behind.
ClosedLeavesNoneRunning == life = "closed" => Running = {}

\* test_loop.py:467, "assert not any(job.name == "rm-job" for job in jobs)":
\* in a first process, once all is quiet, a job that was removed has no row.
RemovedLeavesTheTable ==
    boots = 1 /\ life = "ready" /\ NoWriteOutstanding /\ InFlight = {} =>
        jobTable \subseteq originals

\* test_loop.py:468, "assert "rm-job" not in inner.registered": a removed job
\* is gone from the inner registry.
RemovedIsGone ==
    [][\A n \in Names : n \in jobIds /\ n \notin jobIds' => n \notin inner']_vars
=============================================================================
