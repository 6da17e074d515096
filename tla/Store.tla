-------------------------------- MODULE Store --------------------------------
(***************************************************************************)
(* SQLiteStore (persistence/store.py): the tables of the database and the  *)
(* one connection through which coroutines reach them.                     *)
(*                                                                         *)
(* A store coroutine puts a statement on the queue of the connection's     *)
(* thread at its first step and is suspended until the thread, which takes *)
(* statements in order, has executed it.  Every statement commits by       *)
(* itself (isolation_level=None).  A crash loses the queue, not the        *)
(* tables.                                                                 *)
(***************************************************************************)
EXTENDS Integers, Sequences, FiniteSets

CONSTANTS
    Names,          \* names of jobs
    MaxRows,        \* bound of a run: rows ever inserted in executions
    Executions      \* executions that may be in progress at a time

ASSUME RowsAssumption == MaxRows \in Nat
ASSUME NamesAssumption == IsFiniteSet(Names)
ASSUME ClientsAssumption ==
    Executions \cap {"write", "life", "restore", "nobody"} = {}

VARIABLES
    jobTable,       \* table jobs: the names it has a row for
    executions,     \* table executions: row id -> [job, status]
    schema,         \* the tables exist
    connection,     \* "open" from is_initialized on, until close() is done
    requests        \* statements waiting for the connection's thread

tables == <<jobTable, executions, schema>>
storeVars == <<tables, connection, requests>>

RowStatus == {"running", "success", "failed", "cancelled", "deleted"}
NoRow == 0
NoName == "none"

\* Who is suspended on a statement: an execution, a background write, the
\* coroutine of init, run or close, restore_jobs, or nobody any more.
Client == Executions \cup {"write", "life", "restore", "nobody"}
Op == {"migrate", "register", "unregister", "log", "update",
       "heal", "history", "list", "prune", "close"}
Request == [op: Op, name: Names \cup {NoName}, row: 0 .. MaxRows,
            status: RowStatus \cup {"none"}, from: Client]

Plain(op, from) ==
    [op |-> op, name |-> NoName, row |-> NoRow, status |-> "none", from |-> from]
About(op, name, from) == [Plain(op, from) EXCEPT !.name = name]
Update(row, status, from) ==
    [Plain("update", from) EXCEPT !.row = row, !.status = status]

Rows == DOMAIN executions
Running == {i \in Rows : executions[i].status = "running"}

-----------------------------------------------------------------------------
\* Without the tables a statement raises OperationalError, once closed any
\* does; a row of executions needs its row in jobs (IntegrityError).
Reply(r) ==
    IF connection = "closed" \/ (~schema /\ r.op \notin {"migrate", "close"})
    THEN "error"
    ELSE IF r.op = "log" /\ r.name \notin jobTable THEN "integrity"
    ELSE "ok"

SetStatus(S, status) ==
    executions' = [i \in Rows |-> IF i \in S
                                  THEN [executions[i] EXCEPT !.status = status]
                                  ELSE executions[i]]

Migrate == schema' = TRUE /\ UNCHANGED <<jobTable, executions>>

RegisterJob(n) == jobTable' = jobTable \cup {n} /\ UNCHANGED <<executions, schema>>

\* ON DELETE CASCADE: the executions of the job go with it.
UnregisterJob(n) ==
    /\ jobTable' = jobTable \ {n}
    /\ SetStatus({i \in Rows : executions[i].job = n}, "deleted")
    /\ UNCHANGED schema

\* AUTOINCREMENT: ids are never used again.
LogExecution(n) ==
    /\ executions' = Append(executions, [job |-> n, status |-> "running"])
    /\ UNCHANGED <<jobTable, schema>>

\* UPDATE ... WHERE id = ?: nothing happens if the row is gone.
UpdateExecution(i, status) ==
    /\ SetStatus({i} \ {k \in Rows : executions[k].status = "deleted"}, status)
    /\ UNCHANGED <<jobTable, schema>>

\* Variants of HealInterrupted: the default status of the column is healed
\* instead of "running"; the WHERE clause is forgotten.
HealPending == UNCHANGED <<jobTable, executions, schema>>
HealAll == SetStatus(Rows, "failed") /\ UNCHANGED <<jobTable, schema>>
HealInterrupted == SetStatus(Running, "failed") /\ UNCHANGED <<jobTable, schema>>

\* Any rows may be older than the cutoff: they are as old as their triggers,
\* not as their ids.
Prune ==
    /\ \E S \in SUBSET Rows : SetStatus(S, "deleted")
    /\ UNCHANGED <<jobTable, schema>>

\* The thread executes r.
Statement(r) ==
    \/ Reply(r) # "ok" /\ UNCHANGED tables
    \/ /\ Reply(r) = "ok"
       /\ \/ r.op = "migrate" /\ Migrate
          \/ r.op = "register" /\ RegisterJob(r.name)
          \/ r.op = "unregister" /\ UnregisterJob(r.name)
          \/ r.op = "log" /\ LogExecution(r.name)
          \/ r.op = "update" /\ UpdateExecution(r.row, r.status)
          \/ r.op = "heal" /\ HealInterrupted
          \/ r.op = "prune" /\ Prune
          \/ r.op \in {"history", "list", "close"} /\ UNCHANGED tables

\* The oldest statement is executed, and its client, one of `from`, resumed.
Served(from) ==
    /\ requests # <<>>
    /\ Head(requests).from \in from
    /\ Statement(Head(requests))
Answer == Reply(Head(requests))

StoreInit ==
    /\ jobTable = {}
    /\ executions = <<>>
    /\ schema = FALSE
    /\ connection = "closed"
    /\ requests = <<>>

StoreTypeOK ==
    /\ jobTable \subseteq Names
    /\ executions \in Seq([job: Names, status: RowStatus])
    /\ Len(executions) <= MaxRows
    /\ schema \in BOOLEAN
    /\ connection \in {"open", "closed"}
    /\ requests \in Seq(Request)
=============================================================================
