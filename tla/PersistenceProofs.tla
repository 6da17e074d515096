-------------------------- MODULE PersistenceProofs --------------------------
(***************************************************************************)
(* Theorems about Persistence, for any jobs, executions, interruptions,    *)
(* crashes and calls.                                                      *)
(*                                                                         *)
(* The argument rests on who waits for what: a statement on the queue of   *)
(* the connection is the one its client is suspended on (Disciplined), a   *)
(* row has one execution or one statement that will settle it              *)
(* (RowsOwned), before init() is done there is neither (QuietEarly), what  *)
(* init() reads it has healed (InitInv), and without interruptions an      *)
(* execution stays in progress until its row is settled (FlightInv).       *)
(***************************************************************************)
EXTENDS Persistence, SequenceTheorems, FiniteSetTheorems, TLAPS

-----------------------------------------------------------------------------
(***************************************************************************)
(* The parts of the invariant.                                             *)
(***************************************************************************)
\* The types, without the bounds of a run.
SomeName == Names \cup {NoName}
Ends == {"success", "failed", "cancelled"}
Requests == {r \in [op: Op, name: SomeName, row: Nat, status: RowStatus \cup {"none"},
                    from: Client] : r.op = "update" => r.status \in Ends}
Writes == {r \in Requests : r.from = "write" /\ r.op \in {"register", "unregister"}}
Typed ==
    /\ jobTable \subseteq SomeName
    /\ executions \in Seq([job: SomeName, status: RowStatus])
    /\ requests \in Seq(Requests)
    /\ pending \in Seq(Writes)
    /\ background \in Seq(Writes)
    /\ execs \in [Executions -> [pc: {"idle", "logging", "registering", "relogging",
                                      "body", "saving"},
                                 job: SomeName, row: Nat]]

\* What a client at pc, the process at a stage, is suspended on.
ExecAwaits(pc, op) ==
    \/ pc \in {"logging", "relogging"} /\ op = "log"
    \/ pc = "registering" /\ op = "register"
    \/ pc = "saving" /\ op = "update"
LifeAwaits(stage, op) ==
    \/ stage = "migrating" /\ op = "migrate"
    \/ stage = "healing" /\ op = "heal"
    \/ stage = "loading" /\ op = "history"
    \/ stage = "pruning" /\ op = "prune"
    \/ stage = "disconnecting" /\ op = "close"
Suits(r) ==
    \/ r.from \in Executions /\ ExecAwaits(execs[r.from].pc, r.op)
    \/ r.from = "life" /\ LifeAwaits(life, r.op)
    \/ r.from = "write" /\ r.op \in {"register", "unregister"}
    \/ r.from = "restore" /\ r.op = "list"
    \/ r.from = "nobody" /\ r.op \in {"log", "register", "update"}

\* An execution and the process wait for one statement at a time.
Sole == Executions \cup {"life"}
Disciplined ==
    /\ \A k \in DOMAIN requests : Suits(requests[k])
    /\ \A k, l \in DOMAIN requests :
        requests[k].from = requests[l].from /\ requests[k].from \in Sole => k = l

QueueInv == Typed /\ Disciplined

-----------------------------------------------------------------------------
(***************************************************************************)
(* The queue of the connection.                                            *)
(***************************************************************************)
\* The queue loses its first d statements and gets one of `fresh` at most.
Shape(d, fresh) ==
    \A k \in DOMAIN requests' :
        \/ k + d \in DOMAIN requests /\ requests'[k] = requests[k + d]
        \/ k + d = Len(requests) + 1 /\ requests'[k] \in fresh
Old(d) == {requests[k] : k \in {l \in DOMAIN requests : l > d}}

LEMMA QueueShapes ==
    ASSUME requests \in Seq(Requests)
    PROVE  /\ requests' = requests => Shape(0, {})
           /\ \A r \in Requests : requests' = Append(requests, r) =>
                Shape(0, {r}) /\ requests' \in Seq(Requests)
           /\ requests # <<>> => Head(requests) \in Requests /\ Head(requests) = requests[1]
           /\ requests # <<>> /\ requests' = Tail(requests) =>
                Shape(1, {}) /\ requests' \in Seq(Requests)
           /\ \A r \in Requests :
                requests # <<>> /\ requests' = Append(Tail(requests), r) =>
                    Shape(1, {r}) /\ requests' \in Seq(Requests)
<1>1. requests # <<>> => Tail(requests) \in Seq(Requests) /\ Len(Tail(requests)) = Len(requests) - 1
                         /\ \A k \in 1 .. Len(requests) - 1 : Tail(requests)[k] = requests[k + 1]
  BY HeadTailProperties
<1>2. requests # <<>> => Head(requests) \in Requests /\ Head(requests) = requests[1]
  BY HeadTailProperties
<1>3. \A s \in Seq(Requests), r \in Requests :
        /\ Append(s, r) \in Seq(Requests)
        /\ Len(Append(s, r)) = Len(s) + 1
        /\ \A k \in 1 .. Len(s) : Append(s, r)[k] = s[k]
        /\ Append(s, r)[Len(s) + 1] = r
  BY AppendProperties
<1>4. Len(requests) \in Nat /\ DOMAIN requests = 1 .. Len(requests)
  BY LenProperties
<1>5. \A r \in Requests : requests' = Append(requests, r) =>
                Shape(0, {r}) /\ requests' \in Seq(Requests)
  <2> SUFFICES ASSUME NEW r \in Requests, requests' = Append(requests, r)
               PROVE  Shape(0, {r}) /\ requests' \in Seq(Requests)
    OBVIOUS
  <2>1. DOMAIN requests' = 1 .. Len(requests) + 1
    BY <1>3, LenProperties
  <2>2. QED
    BY <1>3, <1>4, <2>1 DEF Shape
<1>6. requests # <<>> /\ requests' = Tail(requests) =>
                Shape(1, {}) /\ requests' \in Seq(Requests)
  BY <1>1, <1>4, LenProperties DEF Shape
<1>7. \A r \in Requests :
        requests # <<>> /\ requests' = Append(Tail(requests), r) =>
            Shape(1, {r}) /\ requests' \in Seq(Requests)
  <2> SUFFICES ASSUME NEW r \in Requests, requests # <<>>,
                      requests' = Append(Tail(requests), r)
               PROVE  Shape(1, {r}) /\ requests' \in Seq(Requests)
    OBVIOUS
  <2>1. DOMAIN requests' = 1 .. Len(requests) /\ requests' \in Seq(Requests)
    BY <1>1, <1>3, <1>4, LenProperties
  <2>2. \A k \in 1 .. Len(requests) - 1 : requests'[k] = requests[k + 1]
    BY <1>1, <1>3, <1>4
  <2>3. requests'[Len(requests)] = r
    BY <1>1, <1>3, <1>4
  <2>4. QED
    BY <1>4, <2>1, <2>2, <2>3 DEF Shape
<1>8. requests' = requests => Shape(0, {})
  BY <1>4 DEF Shape
<1>9. QED
  BY <1>2, <1>5, <1>6, <1>7, <1>8

\* The discipline is kept if the statements that stay still suit and a fresh
\* one is the only one of its client.
LEMMA DisciplineKept ==
    ASSUME requests \in Seq(Requests), requests' \in Seq(Requests), Disciplined,
           NEW d \in {0, 1}, NEW fresh, Shape(d, fresh),
           \A q \in Old(d) \cup fresh : Suits(q)',
           \A q \in fresh, p \in Old(d) : q.from \in Sole => p.from # q.from
    PROVE  Disciplined'
<1>1. /\ Len(requests) \in Nat /\ DOMAIN requests = 1 .. Len(requests)
      /\ Len(requests') \in Nat /\ DOMAIN requests' = 1 .. Len(requests')
  BY LenProperties
<1>2. ASSUME NEW k \in DOMAIN requests'
      PROVE  \/ /\ k + d \in DOMAIN requests /\ requests'[k] = requests[k + d]
                /\ requests'[k] \in Old(d)
             \/ k + d = Len(requests) + 1 /\ requests'[k] \in fresh
  <2>1. CASE k + d \in DOMAIN requests /\ requests'[k] = requests[k + d]
    <3>1. k + d > d
      BY <1>1
    <3>2. QED
      BY <2>1, <3>1 DEF Old
  <2>2. QED
    BY <2>1 DEF Shape
<1>3. ASSUME NEW k \in DOMAIN requests'
      PROVE  Suits(requests[k])'
  <2>1. requests'[k] \in Old(d) \cup fresh
    BY <1>2
  <2>2. QED
    BY <2>1 DEF Suits
<1>4. ASSUME NEW k \in DOMAIN requests', NEW l \in DOMAIN requests',
             requests'[k].from = requests'[l].from, requests'[k].from \in Sole
      PROVE  k = l
  <2>1. CASE k + d \in DOMAIN requests /\ l + d \in DOMAIN requests
    <3>1. requests'[k] = requests[k + d] /\ requests'[l] = requests[l + d]
      BY <1>1, <1>2, <2>1
    <3>2. k + d = l + d
      BY <1>4, <2>1, <3>1 DEF Disciplined
    <3>3. QED
      BY <1>1, <3>2
  <2>2. CASE k + d = Len(requests) + 1 /\ l + d = Len(requests) + 1
    BY <1>1, <2>2
  <2>3. CASE requests'[k] \in Old(d) /\ requests'[l] \in fresh
    BY <1>4, <2>3
  <2>4. CASE requests'[l] \in Old(d) /\ requests'[k] \in fresh
    BY <1>4, <2>4
  <2>5. QED
    BY <1>2, <2>1, <2>2, <2>3, <2>4
<1>5. QED
  BY <1>3, <1>4 DEF Disciplined

-----------------------------------------------------------------------------
(***************************************************************************)
(* What a statement does to the tables.                                    *)
(***************************************************************************)
RowsOf == [job: SomeName, status: RowStatus]
NewRow(n) == [job |-> n, status |-> "running"]

LEMMA RowsAreNumbered ==
    ASSUME Typed
    PROVE  /\ Len(executions) \in Nat
           /\ Rows = 1 .. Len(executions)
           /\ \A i \in Rows : executions[i] \in RowsOf
  BY LenProperties, ElementOfSeq DEF Typed, Rows, RowsOf

LEMMA StatusSet ==
    ASSUME Typed, NEW S, NEW status \in RowStatus, SetStatus(S, status)
    PROVE  /\ executions' \in Seq(RowsOf)
           /\ Rows' = Rows
           /\ \A i \in Rows : executions'[i].status =
                IF i \in S THEN status ELSE executions[i].status
<1>1. DOMAIN executions' = Rows /\ \A i \in Rows :
        executions'[i] = IF i \in S THEN [executions[i] EXCEPT !.status = status]
                                    ELSE executions[i]
  BY DEF SetStatus
<1>2. \A i \in Rows : executions[i] \in RowsOf
  BY RowsAreNumbered
<1>3. \A i \in Rows : executions'[i] \in RowsOf
  BY <1>1, <1>2 DEF RowsOf
<1>4. executions' = [i \in 1 .. Len(executions) |-> executions'[i]]
  BY <1>1, RowsAreNumbered DEF SetStatus
<1>5. executions' \in Seq(RowsOf)
  BY <1>3, <1>4, RowsAreNumbered, IsASeq
<1>6. QED
  BY <1>1, <1>2, <1>5 DEF Rows, RowsOf

\* A row is added, running; or rows are settled, healed or deleted.
RowEffect(r) ==
    \/ /\ r.op = "log" /\ Reply(r) = "ok"
       /\ executions' = Append(executions, NewRow(r.name))
    \/ /\ Rows' = Rows
       /\ \A i \in Rows :
            \/ executions'[i].status = executions[i].status
            \/ executions'[i].status = "deleted"
            \/ /\ r.op = "update" /\ i = r.row /\ executions[i].status # "deleted"
               /\ executions'[i].status = r.status
            \/ /\ r.op = "heal" /\ executions[i].status = "running"
               /\ executions'[i].status = "failed"

LEMMA StatementEffect ==
    ASSUME Typed, NEW r \in Requests, Statement(r)
    PROVE  /\ jobTable' \subseteq SomeName
           /\ executions' \in Seq(RowsOf)
           /\ RowEffect(r)
           /\ schema => schema'
<1> USE DEF Requests
<1>1. CASE UNCHANGED tables
  BY <1>1 DEF tables, Typed, RowEffect, Rows, RowsOf
<1>2. CASE r.op = "migrate" /\ Migrate
  BY <1>2 DEF Migrate, Typed, RowEffect, Rows, RowsOf
<1>3. CASE r.op = "register" /\ RegisterJob(r.name)
  BY <1>3 DEF RegisterJob, Typed, RowEffect, Rows, RowsOf
<1>4. CASE r.op = "unregister" /\ UnregisterJob(r.name)
  BY <1>4, StatusSet DEF UnregisterJob, Typed, RowEffect, RowStatus
<1>5. CASE r.op = "log" /\ LogExecution(r.name) /\ Reply(r) = "ok"
  <2>1. NewRow(r.name) \in RowsOf
    BY DEF NewRow, RowsOf, RowStatus
  <2>2. QED
    BY <1>5, <2>1, AppendProperties DEF LogExecution, Typed, RowEffect, NewRow, RowsOf
<1>6. CASE r.op = "update" /\ UpdateExecution(r.row, r.status)
  <2>1. r.status \in RowStatus
    BY <1>6 DEF Ends, RowStatus
  <2>2. QED
    BY <1>6, <2>1, StatusSet DEF UpdateExecution, Typed, RowEffect
<1>7. CASE r.op = "heal" /\ HealInterrupted
  BY <1>7, StatusSet DEF HealInterrupted, Running, Typed, RowEffect, RowStatus
<1>8. CASE r.op = "prune" /\ Prune
  BY <1>8, StatusSet DEF Prune, Typed, RowEffect, RowStatus
<1>9. QED
  BY <1>1, <1>2, <1>3, <1>4, <1>5, <1>6, <1>7, <1>8 DEF Statement

-----------------------------------------------------------------------------
(***************************************************************************)
(* What the steps do to queue, executions and process.                     *)
(***************************************************************************)
ExecType == [pc: {"idle", "logging", "registering", "relogging", "body", "saving"},
             job: SomeName, row: Nat]

\* The oldest statement is executed and its answer taken.
Takes(from) ==
    /\ requests # <<>>
    /\ Head(requests).from \in from
    /\ Statement(Head(requests))

\* An execution goes on, from idle or from its user's function (d = 0), or
\* with the answer to its statement (d = 1), and may wait for another.
ExecMoves(x, d, fresh) ==
    /\ Shape(d, fresh) /\ requests' \in Seq(Requests)
    /\ execs' \in [Executions -> ExecType]
    /\ \A y \in Executions \ {x} : execs'[y] = execs[y]
    /\ d = 0 => UNCHANGED tables /\ execs[x].pc \in {"idle", "body"}
    /\ d = 1 => Takes({x})
    /\ \A q \in fresh : q.from = x /\ ExecAwaits(execs'[x].pc, q.op)
    /\ UNCHANGED <<life, connection, pending, background>>

LEMMA AboutType ==
    ASSUME NEW x \in Executions, NEW n \in SomeName, NEW op \in {"log", "register"}
    PROVE  /\ About(op, n, x) \in Requests
           /\ About(op, n, x).from = x /\ About(op, n, x).op = op
           /\ About(op, n, x).name = n
  BY DEF About, Plain, Requests, Op, Client, SomeName, NoRow, NoName, Ends, RowStatus

LEMMA UpdateType ==
    ASSUME NEW x \in Executions, NEW i \in Nat, NEW status \in Ends
    PROVE  /\ Update(i, status, x) \in Requests
           /\ Update(i, status, x).from = x /\ Update(i, status, x).op = "update"
           /\ Update(i, status, x).row = i /\ Update(i, status, x).status = status
  BY DEF Update, Plain, Requests, Op, Client, SomeName, NoRow, NoName, Ends, RowStatus

LEMMA ExecMove ==
    ASSUME QueueInv, NEW x \in Executions, ExecStep(x),
           ~CancelAwait(x), ~WriteTimesOut(x)
    PROVE  \E d \in {0, 1} : \E fresh : ExecMoves(x, d, fresh)
<1> USE DEF UnchangedByExecs, registryVars, writeVars, lifeVars
<1>a. /\ requests \in Seq(Requests)
      /\ execs \in [Executions -> ExecType]
      /\ execs[x].job \in SomeName /\ execs[x].row \in Nat
  BY DEF QueueInv, Typed, ExecType
<1>b. \A e \in ExecType : ExecGoes(x, e) =>
        /\ execs' \in [Executions -> ExecType] /\ execs'[x] = e
        /\ \A y \in Executions \ {x} : execs'[y] = execs[y]
  BY <1>a DEF ExecGoes
<1>c. IdleExec \in ExecType
  BY DEF IdleExec, ExecType, SomeName, NoRow
<1>d. \A p \in {"body", "registering", "relogging", "saving"} :
        /\ [execs[x] EXCEPT !.pc = p] \in ExecType
        /\ [execs[x] EXCEPT !.pc = p].pc = p
  BY <1>a DEF ExecType
<1>1. ASSUME NEW n \in Names, Begin(x, n)
      PROVE  ExecMoves(x, 0, {About("log", n, x)})
  <2>1. [pc |-> "logging", job |-> n, row |-> NoRow] \in ExecType
    BY DEF ExecType, SomeName, NoRow
  <2>2. n \in SomeName
    BY DEF SomeName
  <2> DEFINE r == About("log", n, x)
  <2>3. r \in Requests /\ r.from = x /\ r.op = "log"
    BY <2>2, AboutType
  <2> HIDE DEF r
  <2>4. Shape(0, {r}) /\ requests' \in Seq(Requests)
    BY <1>a, <1>1, <2>3, QueueShapes DEF Begin, r
  <2>5. execs' \in [Executions -> ExecType] /\ execs'[x].pc = "logging"
        /\ \A y \in Executions \ {x} : execs'[y] = execs[y]
    BY <1>b, <1>1, <2>1 DEF Begin
  <2>6. ExecMoves(x, 0, {r})
    BY <1>1, <2>3, <2>4, <2>5 DEF Begin, ExecMoves, Phase, ExecAwaits
  <2>7. QED
    BY <2>6 DEF r
<1>2. CASE Logged(x)
  <2>1. executions' \in Seq(RowsOf)
    BY <1>2, <1>a, QueueShapes, StatementEffect DEF Logged, Served, QueueInv
  <2>2. [execs[x] EXCEPT !.pc = "body", !.row = Len(executions')] \in ExecType
    BY <1>a, <2>1, LenProperties DEF ExecType
  <2>3. ExecMoves(x, 1, {})
    BY <1>2, <1>a, <1>b, <2>2, QueueShapes DEF Logged, Served, ExecMoves, Takes
  <2>4. QED
    BY <2>3
<1>3. CASE LogRefused(x)
  <2> DEFINE r == About("register", execs[x].job, x)
  <2>1. r \in Requests /\ r.from = x /\ r.op = "register"
    BY <1>a, AboutType
  <2> HIDE DEF r
  <2>2. Shape(1, {r}) /\ requests' \in Seq(Requests)
    BY <1>a, <1>3, <2>1, QueueShapes DEF LogRefused, Served, r
  <2>3. execs' \in [Executions -> ExecType] /\ execs'[x].pc = "registering"
        /\ \A y \in Executions \ {x} : execs'[y] = execs[y]
    BY <1>b, <1>d, <1>3 DEF LogRefused
  <2>4. ExecMoves(x, 1, {r})
    BY <1>3, <2>1, <2>2, <2>3 DEF LogRefused, Served, ExecMoves, Takes, ExecAwaits
  <2>5. QED
    BY <2>4
<1>4. CASE Reregistered(x)
  <2> DEFINE r == About("log", execs[x].job, x)
  <2>1. r \in Requests /\ r.from = x /\ r.op = "log"
    BY <1>a, AboutType
  <2> HIDE DEF r
  <2>2. Shape(1, {r}) /\ requests' \in Seq(Requests)
    BY <1>a, <1>4, <2>1, QueueShapes DEF Reregistered, Served, r
  <2>3. execs' \in [Executions -> ExecType] /\ execs'[x].pc = "relogging"
        /\ \A y \in Executions \ {x} : execs'[y] = execs[y]
    BY <1>b, <1>d, <1>4 DEF Reregistered
  <2>4. ExecMoves(x, 1, {r})
    BY <1>4, <2>1, <2>2, <2>3 DEF Reregistered, Served, ExecMoves, Takes, ExecAwaits
  <2>5. QED
    BY <2>4
<1>5. CASE LogFails(x) \/ Saved(x)
  <2>1. ExecMoves(x, 1, {})
    BY <1>5, <1>a, <1>b, <1>c, QueueShapes DEF LogFails, Saved, Served, ExecMoves, Takes
  <2>2. QED
    BY <2>1
<1>6. ASSUME NEW status \in Ends, Save(x, status), Phase(x, "body"), UnchangedByExecs,
             UNCHANGED tables
      PROVE  \E fresh : ExecMoves(x, 0, fresh)
  <2>1. CASE connection = "open"
    <3> DEFINE r == Update(execs[x].row, status, x)
    <3>1. r \in Requests /\ r.from = x /\ r.op = "update"
      BY <1>a, UpdateType
    <3> HIDE DEF r
    <3>2. Shape(0, {r}) /\ requests' \in Seq(Requests)
      BY <1>a, <1>6, <2>1, <3>1, QueueShapes DEF Save, r
    <3>3. execs' \in [Executions -> ExecType] /\ execs'[x].pc = "saving"
          /\ \A y \in Executions \ {x} : execs'[y] = execs[y]
      BY <1>b, <1>d, <1>6, <2>1 DEF Save
    <3>4. ExecMoves(x, 0, {r})
      BY <1>6, <3>1, <3>2, <3>3 DEF Phase, ExecMoves, ExecAwaits
    <3>5. QED
      BY <3>4
  <2>2. CASE connection # "open"
    <3>1. ExecMoves(x, 0, {})
      BY <1>6, <2>2, <1>a, <1>b, <1>c, QueueShapes DEF Save, Phase, ExecMoves
    <3>2. QED
      BY <3>1
  <2>3. QED
    BY <2>1, <2>2
<1>7. CASE JobEnds(x) \/ CancelJob(x)
  <2>1. \E status \in Ends : Save(x, status) /\ Phase(x, "body") /\ UnchangedByExecs
                              /\ UNCHANGED tables
    BY <1>7 DEF JobEnds, CancelJob, Ends
  <2>2. QED
    BY <1>6, <2>1
<1>8. QED
  BY <1>1, <1>2, <1>3, <1>4, <1>5, <1>7 DEF ExecStep

\* No other statement of the execution is on the queue.
LEMMA OthersQueue ==
    ASSUME QueueInv, NEW x \in Executions, NEW d \in {0, 1}, NEW fresh,
           ExecMoves(x, d, fresh), NEW k \in DOMAIN requests, k > d
    PROVE  requests[k].from # x
<1>a. requests \in Seq(Requests) /\ DOMAIN requests = 1 .. Len(requests)
      /\ Len(requests) \in Nat /\ Disciplined
  BY LenProperties DEF QueueInv, Typed
<1>1. CASE d = 0
  BY <1>a, <1>1, ClientsAssumption DEF ExecMoves, Disciplined, Suits, ExecAwaits
<1>2. CASE d = 1
  <2>1. requests[1].from = x /\ k # 1 /\ 1 \in DOMAIN requests
    BY <1>a, <1>2, QueueShapes DEF ExecMoves, Takes
  <2>2. QED
    BY <2>1, <1>a DEF Disciplined, Sole
<1>3. QED
  BY <1>1, <1>2

\* ... and then the queue is as disciplined as it was.
LEMMA ExecKeepsDiscipline ==
    ASSUME QueueInv, NEW x \in Executions, NEW d \in {0, 1}, NEW fresh,
           ExecMoves(x, d, fresh)
    PROVE  Disciplined'
<1>a. requests \in Seq(Requests) /\ DOMAIN requests = 1 .. Len(requests)
      /\ Len(requests) \in Nat /\ Disciplined
  BY LenProperties DEF QueueInv, Typed
<1>1. ASSUME NEW q \in Old(d) PROVE q.from # x /\ Suits(q)
  <2>1. PICK k \in DOMAIN requests : k > d /\ q = requests[k]
    BY DEF Old
  <2>2. QED
    BY <1>a, <2>1, OthersQueue DEF Disciplined
<1>2. \A q \in Old(d) : Suits(q)'
  BY <1>1 DEF ExecMoves, Suits
<1>3. \A q \in fresh : Suits(q)'
  BY DEF ExecMoves, Suits
<1>4. QED
  BY <1>a, <1>1, <1>2, <1>3, DisciplineKept DEF ExecMoves

\* Before init() is done.
Early == {"down", "up", "migrating", "flushing_init", "healing", "loading"}

\* The process goes on, on its own (d = 0) or with an answer (d = 1).
LifeMoves(d, fresh) ==
    /\ Shape(d, fresh) /\ requests' \in Seq(Requests)
    /\ pending' \in Seq(Writes) /\ background' \in Seq(Writes)
    /\ d = 0 => UNCHANGED tables /\ \A op : ~LifeAwaits(life, op)
    /\ d = 1 => Takes({"life"})
    /\ \A q \in fresh : q.from = "life" /\ LifeAwaits(life', q.op)
    /\ life' \in Early => life \in Early
    /\ UNCHANGED execs

\* The API and the background writes.
Calls(fresh) ==
    /\ Shape(0, fresh) /\ requests' \in Seq(Requests)
    /\ pending' \in Seq(Writes) /\ background' \in Seq(Writes)
    /\ \A q \in fresh : \/ q.from = "write" /\ q.op \in {"register", "unregister"}
                        \/ q.from = "restore" /\ q.op = "list"
    /\ UNCHANGED <<tables, execs, life, connection>>

\* Statements nobody's program counter depends on.
Serves ==
    /\ Shape(1, {}) /\ requests' \in Seq(Requests)
    /\ pending' \in Seq(Writes) /\ background' \in Seq(Writes)
    /\ Takes({"write", "restore", "nobody"})
    /\ UNCHANGED <<execs, life, connection>>

LEMMA PlainType ==
    ASSUME NEW op \in Op \ {"update"}, NEW from \in {"life", "restore"}
    PROVE  /\ Plain(op, from) \in Requests
           /\ Plain(op, from).from = from /\ Plain(op, from).op = op
  BY DEF Plain, Requests, Op, Client, SomeName, NoRow, NoName

LEMMA FlushType ==
    ASSUME Typed, NEW stage, Flush(stage) \/ AwaitWrites(stage) \/ UNCHANGED writeVars
    PROVE  pending' \in Seq(Writes) /\ background' \in Seq(Writes)
<1>1. background \o pending \in Seq(Writes) /\ <<>> \in Seq(Writes)
  BY ConcatProperties, EmptySeq DEF Typed
<1>2. QED
  BY <1>1 DEF Typed, Flush, AwaitWrites, writeVars

LEMMA LifeMove ==
    ASSUME QueueInv, Boot \/ LifeStep
    PROVE  \E d \in {0, 1} : \E fresh : LifeMoves(d, fresh)
<1> USE DEF registryVars, Early, LifeAwaits
<1>a. requests \in Seq(Requests) /\ Typed
  BY DEF QueueInv, Typed
<1>b. pending \in Seq(Writes) /\ background \in Seq(Writes)
  BY <1>a DEF Typed
<1>c. \A op \in Op \ {"update"} : Plain(op, "life") \in Requests
        /\ Plain(op, "life").from = "life" /\ Plain(op, "life").op = op
  BY PlainType
<1>d. {"migrate", "heal", "history", "prune", "close"} \subseteq Op \ {"update"}
  BY DEF Op
\* Stages that submit a statement.
<1>1. ASSUME NEW op \in {"migrate", "heal", "prune", "close"}, NEW stage,
             Await(stage, op, requests), LifeAwaits(stage, op),
             \A o : ~LifeAwaits(life, o), stage \notin Early \/ life \in Early,
             UNCHANGED <<tables, writeVars, execs>>
      PROVE  LifeMoves(0, {Plain(op, "life")})
  <2>1. Plain(op, "life") \in Requests /\ Plain(op, "life").from = "life"
        /\ Plain(op, "life").op = op
    BY <1>c, <1>d
  <2>2. Shape(0, {Plain(op, "life")}) /\ requests' \in Seq(Requests)
    BY <1>a, <1>1, <2>1, QueueShapes DEF Await
  <2>3. QED
    BY <1>b, <1>1, <2>1, <2>2 DEF Await, LifeMoves, writeVars
<1>2. CASE Connect
  <2>1. LifeMoves(0, {Plain("migrate", "life")})
    BY <1>1, <1>2 DEF Connect
  <2>2. QED
    BY <2>1
<1>3. CASE InitFlushed
  <2>1. LifeMoves(0, {Plain("heal", "life")})
    BY <1>1, <1>3 DEF InitFlushed
  <2>2. QED
    BY <2>1
<1>4. CASE WritesSettled
  <2>1. LifeMoves(0, {Plain("prune", "life")})
    BY <1>1, <1>4 DEF WritesSettled
  <2>2. QED
    BY <2>1
<1>5. CASE Disconnect
  <2>1. LifeMoves(0, {Plain("close", "life")})
    BY <1>1, <1>5 DEF Disconnect
  <2>2. QED
    BY <2>1
\* Stages that go on by themselves.
<1>6. CASE Boot \/ Run \/ RunFlushed \/ RunEnds \/ Close \/ CloseFlushed
  <2>1. pending' \in Seq(Writes) /\ background' \in Seq(Writes)
    BY <1>a, <1>6, FlushType DEF Boot, Run, RunFlushed, RunEnds, Close, CloseFlushed, writeVars
  <2>2. requests' = requests /\ UNCHANGED <<tables, execs>>
    BY <1>6 DEF Boot, Run, RunFlushed, RunEnds, Close, CloseFlushed, storeVars
  <2>3. Shape(0, {})
    BY <1>a, <2>2, QueueShapes
  <2>4. /\ life \in {"down", "ready", "flushing_run", "running", "flushing_close"}
        /\ life' \in {"up", "running", "flushing_run", "settling", "closing", "flushing_close"}
        /\ life' = "up" => life = "down"
    BY <1>6 DEF Boot, Run, RunFlushed, RunEnds, Close, CloseFlushed, Flush, AwaitWrites
  <2>5. LifeMoves(0, {})
    BY <1>a, <2>1, <2>2, <2>3, <2>4 DEF LifeMoves
  <2>6. QED
    BY <2>5
\* Stages that take an answer.
<1>7. CASE Loaded \/ Pruned \/ Closed \/ (Migrated /\ pending # <<>>)
  <2>1. pending' \in Seq(Writes) /\ background' \in Seq(Writes)
    BY <1>a, <1>7, FlushType DEF Loaded, Pruned, Closed, Migrated, writeVars
  <2>2. requests' = Tail(requests) /\ Takes({"life"}) /\ UNCHANGED execs
    BY <1>7 DEF Loaded, Pruned, Closed, Migrated, Served, Takes
  <2>3. Shape(1, {}) /\ requests' \in Seq(Requests)
    BY <1>a, <2>2, QueueShapes DEF Takes
  <2>4. life' \in Early => life \in Early
    BY <1>7 DEF Loaded, Pruned, Closed, Migrated, Flush
  <2>5. LifeMoves(1, {})
    BY <2>1, <2>2, <2>3, <2>4 DEF LifeMoves
  <2>6. QED
    BY <2>5
<1>8. ASSUME NEW op \in {"heal", "history"}, NEW stage, Served({"life"}),
             Await(stage, op, Tail(requests)), LifeAwaits(stage, op), life \in Early,
             UNCHANGED <<writeVars, execs>>
      PROVE  LifeMoves(1, {Plain(op, "life")})
  <2>1. Plain(op, "life") \in Requests /\ Plain(op, "life").from = "life"
        /\ Plain(op, "life").op = op
    BY <1>c, <1>d
  <2>2. Shape(1, {Plain(op, "life")}) /\ requests' \in Seq(Requests)
    BY <1>a, <1>8, <2>1, QueueShapes DEF Await, Served
  <2>3. QED
    BY <1>b, <1>8, <2>1, <2>2 DEF Await, LifeMoves, writeVars, Served, Takes
<1>9. CASE Migrated /\ pending = <<>>
  <2>1. LifeMoves(1, {Plain("heal", "life")})
    BY <1>8, <1>9 DEF Migrated
  <2>2. QED
    BY <2>1
<1>10. CASE Healed
  <2>1. LifeMoves(1, {Plain("history", "life")})
    BY <1>8, <1>10 DEF Healed
  <2>2. QED
    BY <2>1
<1>11. QED
  BY <1>2, <1>3, <1>4, <1>5, <1>6, <1>7, <1>9, <1>10 DEF LifeStep

LEMMA ScheduleType ==
    ASSUME Typed, NEW w \in Seq(Writes), NEW off, ScheduleWrites(w, off)
    PROVE  pending' \in Seq(Writes) /\ background' \in Seq(Writes)
<1>1. pending \o w \in Seq(Writes) /\ background \o w \in Seq(Writes)
  BY ConcatProperties DEF Typed
<1>2. QED
  BY <1>1 DEF Typed, ScheduleWrites

LEMMA FunctionIsSeq ==
    ASSUME NEW S, NEW n \in Nat, NEW f \in [1 .. n -> S]
    PROVE  f \in Seq(S)
  OBVIOUS

LEMMA WriteType ==
    ASSUME NEW n \in SomeName, NEW op \in {"register", "unregister"}
    PROVE  Write(op, n) \in Writes
  BY DEF Write, About, Plain, Writes, Requests, Op, Client, SomeName, NoRow, NoName

LEMMA CallOrServe ==
    ASSUME QueueInv,
           ApiStep \/ StartWrite \/ EndWrite \/ RegisterRestored \/ ServeNobody
    PROVE  Serves \/ \E fresh : Calls(fresh)
<1> USE DEF registryVars, lifeVars
<1>a. requests \in Seq(Requests) /\ Typed
      /\ pending \in Seq(Writes) /\ background \in Seq(Writes)
  BY DEF QueueInv, Typed
<1>1. ASSUME NEW n \in Names, NEW off, Register(n, off) \/ RemoveJob(n, off) \/ RemoveJobRaises(n)
      PROVE  Calls({})
  <2>1. n \in SomeName
    BY DEF SomeName
  <2>2. \A op \in {"register", "unregister"} : <<Write(op, n)>> \in Seq(Writes)
    BY <2>1, WriteType
  <2>3. pending' \in Seq(Writes) /\ background' \in Seq(Writes)
    BY <1>1, <1>a, <2>2, ScheduleType DEF Register, RemoveJob, RemoveJobRaises, writeVars
  <2>4. requests' = requests /\ UNCHANGED <<tables, execs, life, connection>>
    BY <1>1 DEF Register, RemoveJob, RemoveJobRaises, storeVars
  <2>5. QED
    BY <1>a, <2>3, <2>4, QueueShapes DEF Calls
<1>2. CASE RestoreJobs
  <2>1. Plain("list", "restore") \in Requests /\ Plain("list", "restore").from = "restore"
        /\ Plain("list", "restore").op = "list"
    BY PlainType DEF Op
  <2>2. Shape(0, {Plain("list", "restore")}) /\ requests' \in Seq(Requests)
    BY <1>a, <1>2, <2>1, QueueShapes DEF RestoreJobs
  <2>3. Calls({Plain("list", "restore")})
    BY <1>a, <1>2, <2>1, <2>2 DEF RestoreJobs, Calls, writeVars
  <2>4. QED
    BY <2>3
<1>3. CASE StartWrite
  <2>1. Head(background) \in Writes /\ Tail(background) \in Seq(Writes)
    BY <1>a, <1>3, HeadTailProperties DEF StartWrite
  <2>2. UNCHANGED <<tables, execs, life, connection, pending>>
        /\ background' = Tail(background)
    BY <1>3 DEF StartWrite
  <2>3. CASE requests' = requests
    <3>1. Calls({})
      BY <1>a, <2>1, <2>2, <2>3, QueueShapes DEF Calls
    <3>2. QED
      BY <3>1
  <2>4. CASE requests' = Append(requests, Head(background))
    <3>1. Head(background) \in Requests
      BY <2>1 DEF Writes
    <3>2. Shape(0, {Head(background)}) /\ requests' \in Seq(Requests)
      BY <1>a, <2>4, <3>1, QueueShapes
    <3>3. Calls({Head(background)})
      BY <1>a, <2>1, <2>2, <3>2 DEF Calls, Writes
    <3>4. QED
      BY <3>3
  <2>5. QED
    BY <1>3, <2>3, <2>4 DEF StartWrite
<1>4. CASE EndWrite \/ ServeNobody \/ RegisterRestored
  <2>1. pending' \in Seq(Writes) /\ background' \in Seq(Writes)
    <3>1. CASE RegisterRestored
      <4>1. PICK order \in [1 .. Cardinality(jobTable \ originals) -> jobTable \ originals] :
              \/ ScheduleWrites([i \in DOMAIN order |-> Write("register", order[i])], FALSE)
              \/ UNCHANGED <<pending, background>>
        BY <3>1 DEF RegisterRestored
      <4>2. Cardinality(jobTable \ originals) \in Nat
        <5>1. IsFiniteSet(SomeName)
          BY NamesAssumption, FS_AddElement DEF SomeName
        <5>2. QED
          BY <1>a, <5>1, FS_Subset, FS_CardinalityType DEF Typed
      <4>3. \A i \in DOMAIN order : Write("register", order[i]) \in Writes
        BY <1>a, WriteType DEF Typed
      <4> DEFINE writes == [i \in DOMAIN order |-> Write("register", order[i])]
      <4>4. writes \in Seq(Writes)
        <5>1. writes \in [1 .. Cardinality(jobTable \ originals) -> Writes]
          BY <4>3
        <5> HIDE DEF writes
        <5>2. QED
          BY <4>2, <5>1, FunctionIsSeq
      <4> HIDE DEF writes
      <4>5. ScheduleWrites(writes, FALSE) \/ UNCHANGED <<pending, background>>
        BY <4>1 DEF writes
      <4>6. QED
        BY <1>a, <4>4, <4>5, ScheduleType
    <3>2. CASE EndWrite \/ ServeNobody
      BY <3>2, <1>a DEF EndWrite, ServeNobody, UnchangedByExecs, writeVars
    <3>3. QED
      BY <1>4, <3>1, <3>2
  <2>2. /\ Takes({"write", "restore", "nobody"}) /\ requests' = Tail(requests)
        /\ UNCHANGED <<execs, life, connection>>
    BY <1>4 DEF EndWrite, ServeNobody, RegisterRestored, UnchangedByExecs, Served, Takes
  <2>3. Shape(1, {}) /\ requests' \in Seq(Requests)
    BY <1>a, <2>2, QueueShapes DEF Takes
  <2>4. QED
    BY <2>1, <2>2, <2>3 DEF Serves
<1>5. QED
  BY <1>1, <1>2, <1>3, <1>4 DEF ApiStep

LEMMA StepCases ==
    ASSUME QueueInv, [Next]_vars
    PROVE  \/ UNCHANGED vars
           \/ Crash
           \/ Interruptions # {} /\ \E x \in Executions : Abandon(x)
           \/ \E x \in Executions, d \in {0, 1} : \E fresh :
                ExecMoves(x, d, fresh) /\ ExecStep(x) /\ ~CancelAwait(x) /\ ~WriteTimesOut(x)
           \/ \E d \in {0, 1} : \E fresh : LifeMoves(d, fresh) /\ (Boot \/ LifeStep)
           \/ Serves
           \/ \E fresh : Calls(fresh)
<1>1. CASE \E x \in Executions : ExecStep(x)
  <2>1. PICK x \in Executions : ExecStep(x)
    BY <1>1
  <2>2. CASE CancelAwait(x) \/ WriteTimesOut(x)
    BY <2>2 DEF CancelAwait, WriteTimesOut
  <2>3. CASE ~CancelAwait(x) /\ ~WriteTimesOut(x)
    BY <2>1, <2>3, ExecMove
  <2>4. QED
    BY <2>2, <2>3
<1>2. CASE Boot \/ LifeStep
  BY <1>2, LifeMove
<1>3. CASE ApiStep \/ StartWrite \/ EndWrite \/ RegisterRestored \/ ServeNobody
  BY <1>3, CallOrServe
<1>4. QED
  BY <1>1, <1>2, <1>3 DEF Next

LEMMA TakesType ==
    ASSUME Typed, NEW from, Takes(from)
    PROVE  /\ Head(requests) \in Requests /\ Head(requests) = requests[1]
           /\ 1 \in DOMAIN requests
           /\ Head(requests).from \in from
           /\ jobTable' \subseteq SomeName
           /\ executions' \in Seq(RowsOf)
           /\ RowEffect(Head(requests))
           /\ schema => schema'
<1>1. requests # <<>> /\ requests \in Seq(Requests) /\ Statement(Head(requests))
      /\ Head(requests).from \in from
  BY DEF Takes, Typed
<1>2. Head(requests) \in Requests /\ Head(requests) = requests[1]
      /\ 1 \in DOMAIN requests
  BY <1>1, HeadTailProperties, LenProperties, EmptySeq
<1>3. QED
  BY <1>1, <1>2, StatementEffect

LEMMA NextTyped == QueueInv /\ [Next]_vars => Typed'
<1> SUFFICES ASSUME QueueInv, [Next]_vars PROVE Typed'
  OBVIOUS
<1>a. Typed /\ requests \in Seq(Requests)
  BY DEF QueueInv, Typed
<1>b. UNCHANGED tables => jobTable' \subseteq SomeName /\ executions' \in Seq(RowsOf)
  BY <1>a DEF tables, Typed, RowsOf
<1> USE DEF ExecType, RowsOf
<1>1. CASE UNCHANGED vars
  BY <1>1, <1>a DEF vars, storeVars, tables, writeVars, Typed
<1>2. CASE Crash
  <2>1. [x \in Executions |-> IdleExec]
            \in [Executions -> ExecType]
    BY DEF IdleExec, SomeName, NoRow
  <2>2. QED
    BY <1>2, <2>1, <1>a, <1>b, EmptySeq DEF Crash, Typed
<1>3. CASE \E x \in Executions : Abandon(x)
  <2>1. PICK x \in Executions : Abandon(x)
    BY <1>3
  <2>2. IdleExec \in ExecType
    BY DEF IdleExec, SomeName, NoRow
  <2>3. execs' \in [Executions -> ExecType]
    BY <1>a, <2>1, <2>2 DEF Abandon, ExecGoes, Typed
  <2>4. \A r \in Requests : [r EXCEPT !.from = "nobody"] \in Requests
    BY DEF Requests, Client
  <2>5. requests' \in Seq(Requests)
    <3>1. requests' \in [1 .. Len(requests) -> Requests]
      BY <1>a, <2>1, <2>4, LenProperties, ElementOfSeq DEF Abandon
    <3>2. QED
      BY <1>a, <3>1, FunctionIsSeq, LenProperties
  <2>6. QED
    BY <1>a, <1>b, <2>1, <2>3, <2>5 DEF Abandon, UnchangedByExecs, writeVars, Typed
<1>4. ASSUME NEW x \in Executions, NEW d \in {0, 1}, NEW fresh, ExecMoves(x, d, fresh)
      PROVE  Typed'
  <2>1. jobTable' \subseteq SomeName /\ executions' \in Seq(RowsOf)
    BY <1>4, <1>a, <1>b, TakesType DEF ExecMoves
  <2>2. QED
    BY <1>4, <1>a, <2>1 DEF ExecMoves, Typed
<1>5. ASSUME NEW d \in {0, 1}, NEW fresh, LifeMoves(d, fresh)
      PROVE  Typed'
  <2>1. jobTable' \subseteq SomeName /\ executions' \in Seq(RowsOf)
    BY <1>5, <1>a, <1>b, TakesType DEF LifeMoves
  <2>2. QED
    BY <1>5, <1>a, <2>1 DEF LifeMoves, Typed
<1>6. CASE Serves
  BY <1>6, <1>a, TakesType DEF Serves, Typed
<1>7. ASSUME NEW fresh, Calls(fresh) PROVE Typed'
  BY <1>7, <1>a, <1>b DEF Calls, Typed
<1>8. QED
  BY <1>1, <1>2, <1>3, <1>4, <1>5, <1>6, <1>7, StepCases

LEMMA NextDisciplined == QueueInv /\ [Next]_vars => Disciplined'
<1> SUFFICES ASSUME QueueInv, [Next]_vars PROVE Disciplined'
  OBVIOUS
<1>a. Typed /\ Disciplined /\ requests \in Seq(Requests) /\ requests' \in Seq(Requests)
      /\ DOMAIN requests = 1 .. Len(requests) /\ Len(requests) \in Nat
  BY NextTyped, LenProperties DEF QueueInv, Typed
<1>b. ASSUME NEW d, NEW q \in Old(d) PROVE Suits(q)
  BY <1>a DEF Old, Disciplined
<1>1. CASE UNCHANGED vars
  BY <1>1, <1>a DEF vars, storeVars, lifeVars, Disciplined, Suits
<1>2. CASE Crash
  BY <1>2 DEF Crash, Disciplined
<1>3. CASE \E x \in Executions : Abandon(x)
  <2>1. PICK x \in Executions : Abandon(x)
    BY <1>3
  <2>2. ASSUME NEW k \in DOMAIN requests'
        PROVE  /\ k \in DOMAIN requests
               /\ requests[k].from # x => requests'[k] = requests[k]
               /\ requests[k].from = x => requests'[k].from = "nobody"
                                          /\ requests'[k].op = requests[k].op
    <3>1. k \in DOMAIN requests /\ requests[k] \in Requests
      BY <1>a, <2>1, ElementOfSeq DEF Abandon
    <3>2. QED
      BY <2>1, <3>1 DEF Abandon, Requests
  <2>3. \A y \in Executions \ {x} : execs'[y] = execs[y]
    BY <1>a, <2>1 DEF Abandon, ExecGoes, Typed
  <2>4. life' = life
    BY <2>1 DEF Abandon, UnchangedByExecs, lifeVars
  <2>5. ASSUME NEW k \in DOMAIN requests'
        PROVE  Suits(requests[k])'
    <3>1. Suits(requests[k]) /\ k \in DOMAIN requests
      BY <1>a, <2>2 DEF Disciplined
    <3>2. CASE requests[k].from # x
      BY <2>2, <2>3, <2>4, <3>1, <3>2 DEF Suits
    <3>3. CASE requests[k].from = x
      <4>1. requests[k].op \in {"log", "register", "update"}
        BY <3>1, <3>3, ClientsAssumption DEF Suits, ExecAwaits
      <4>2. QED
        BY <2>2, <3>3, <4>1 DEF Suits
    <3>4. QED
      BY <3>2, <3>3
  <2>6. "nobody" \notin Sole
    BY ClientsAssumption DEF Sole
  <2>7. QED
    BY <1>a, <2>2, <2>5, <2>6 DEF Disciplined
<1>4. ASSUME NEW x \in Executions, NEW d \in {0, 1}, NEW fresh, ExecMoves(x, d, fresh)
      PROVE  Disciplined'
  BY <1>4, ExecKeepsDiscipline
<1>5. ASSUME NEW d \in {0, 1}, NEW fresh, LifeMoves(d, fresh)
      PROVE  Disciplined'
  <2>1. ASSUME NEW q \in Old(d) PROVE q.from # "life" /\ Suits(q)
    <3>1. PICK k \in DOMAIN requests : k > d /\ q = requests[k]
      BY DEF Old
    <3>2. CASE d = 0
      BY <1>a, <1>5, <3>1, <3>2, ClientsAssumption DEF LifeMoves, Disciplined, Suits
    <3>3. CASE d = 1
      <4>1. requests[1].from = "life" /\ 1 \in DOMAIN requests /\ k # 1
        BY <1>5, <1>a, <3>1, <3>3, TakesType DEF LifeMoves
      <4>2. QED
        BY <1>a, <3>1, <4>1 DEF Disciplined, Sole
    <3>4. QED
      BY <3>2, <3>3
  <2>2. \A q \in Old(d) : Suits(q)'
    BY <1>5, <2>1 DEF LifeMoves, Suits
  <2>3. \A q \in fresh : Suits(q)'
    BY <1>5 DEF LifeMoves, Suits
  <2>4. \A q \in fresh : q.from = "life"
    BY <1>5 DEF LifeMoves
  <2>5. Shape(d, fresh)
    BY <1>5 DEF LifeMoves
  <2>6. QED
    BY <1>a, <2>1, <2>2, <2>3, <2>4, <2>5, DisciplineKept
<1>6. CASE Serves
  <2>1. \A q \in Old(1) : Suits(q)'
    BY <1>6, <1>b DEF Serves, Suits
  <2>2. QED
    BY <1>6, <1>a, <2>1, DisciplineKept DEF Serves
<1>7. ASSUME NEW fresh, Calls(fresh) PROVE Disciplined'
  <2>1. \A q \in Old(0) : Suits(q)'
    BY <1>7, <1>b DEF Calls, Suits
  <2>2. \A q \in fresh : Suits(q)' /\ q.from \notin Sole
    BY <1>7, ClientsAssumption DEF Calls, Suits, Sole
  <2>3. QED
    BY <1>7, <1>a, <2>1, <2>2, DisciplineKept DEF Calls
<1>8. QED
  BY <1>1, <1>2, <1>3, <1>4, <1>5, <1>6, <1>7, StepCases

-----------------------------------------------------------------------------
(***************************************************************************)
(* Rows and those who will settle them.                                    *)
(***************************************************************************)
\* Before init() is done nothing is executed, nor left of what was abandoned.
QuietEarly ==
    life \in Early =>
        /\ \A x \in Executions : execs[x].pc = "idle"
        /\ \A k \in DOMAIN requests : requests[k].from # "nobody"

\* A row belongs to an execution in its user's function, or to a statement
\* that will update it; until then it is running, if it is not deleted.
Owned(i) == i \in Rows /\ executions[i].status \in {"running", "deleted"}
Bodies == {x \in Executions : execs[x].pc = "body"}
Updates == {k \in DOMAIN requests : requests[k].op = "update"}
RowsOwned ==
    /\ \A x \in Bodies : Owned(execs[x].row)
    /\ \A k \in Updates : Owned(requests[k].row)
    /\ \A x, y \in Bodies : execs[x].row = execs[y].row => x = y
    /\ \A k, l \in Updates : requests[k].row = requests[l].row => k = l
    /\ \A x \in Bodies, k \in Updates : execs[x].row # requests[k].row

StoreInv == QueueInv /\ QuietEarly /\ RowsOwned

LEMMA ShapeMembers ==
    ASSUME NEW d \in {0, 1}, NEW fresh, Shape(d, fresh), Typed,
           requests' \in Seq(Requests), NEW k \in DOMAIN requests'
    PROVE  /\ k \in Nat
           /\ \/ /\ k + d \in DOMAIN requests /\ requests'[k] = requests[k + d]
                 /\ k + d > d
              \/ k + d = Len(requests) + 1 /\ requests'[k] \in fresh
<1>1. k \in Nat /\ k > 0
  BY LenProperties
<1>2. QED
  BY <1>1 DEF Shape

LEMMA NextQuiet ==
    ASSUME QueueInv, QuietEarly, [Next]_vars PROVE QuietEarly'
<1> SUFFICES ASSUME life' \in Early
             PROVE  /\ \A x \in Executions : execs'[x].pc = "idle"
                    /\ \A k \in DOMAIN requests' : requests'[k].from # "nobody"
  BY DEF QuietEarly
<1>a. Typed /\ Disciplined /\ requests' \in Seq(Requests)
  BY NextTyped DEF QueueInv, Typed
<1>1. CASE UNCHANGED vars
  BY <1>1 DEF vars, storeVars, lifeVars, QuietEarly
<1>2. CASE Crash
  BY <1>2 DEF Crash, IdleExec
<1>3. CASE \E x \in Executions : Abandon(x)
  BY <1>3 DEF Abandon, UnchangedByExecs, lifeVars, QuietEarly
<1>4. ASSUME NEW x \in Executions, NEW d \in {0, 1}, NEW fresh,
             ExecMoves(x, d, fresh), ExecStep(x), ~CancelAwait(x), ~WriteTimesOut(x)
      PROVE  FALSE
  <2>1. life \in Early /\ execs[x].pc = "idle"
    BY <1>4 DEF ExecMoves, QuietEarly
  <2>2. \A k \in DOMAIN requests : requests[k].from # x
    BY <1>a, <2>1, ClientsAssumption DEF Disciplined, Suits, ExecAwaits
  <2>3. d = 0
    BY <1>4, <1>a, <2>2, TakesType DEF ExecMoves
  <2>4. PICK n \in Names : Begin(x, n)
    BY <1>4, <2>1 DEF ExecStep, Logged, LogRefused, Reregistered, LogFails, JobEnds,
       Saved, CancelJob, Phase
  <2>5. QED
    BY <2>1, <2>4 DEF Begin, Early
<1>5. ASSUME NEW d \in {0, 1}, NEW fresh, LifeMoves(d, fresh)
      PROVE  /\ \A x \in Executions : execs'[x].pc = "idle"
             /\ \A k \in DOMAIN requests' : requests'[k].from # "nobody"
  BY <1>5, <1>a, ShapeMembers DEF LifeMoves, QuietEarly
<1>6. CASE Serves
  BY <1>6, <1>a, ShapeMembers DEF Serves, QuietEarly
<1>7. ASSUME NEW fresh, Calls(fresh)
      PROVE  /\ \A x \in Executions : execs'[x].pc = "idle"
             /\ \A k \in DOMAIN requests' : requests'[k].from # "nobody"
  BY <1>7, <1>a, ShapeMembers DEF Calls, QuietEarly
<1>8. QED
  BY <1>1, <1>2, <1>3, <1>4, <1>5, <1>6, <1>7, StepCases

\* Statements that insert, update or heal, and when.
LEMMA WhoWrites ==
    ASSUME QueueInv, QuietEarly, NEW k \in DOMAIN requests
    PROVE  /\ requests[k].op = "heal" => requests[k].from = "life" /\ life = "healing"
           /\ life \in Early => requests[k].op \notin {"log", "update"}
           /\ life \in Early => Bodies = {}
  BY ClientsAssumption
  DEF QueueInv, Disciplined, Suits, ExecAwaits, LifeAwaits, QuietEarly, Bodies

\* Owners are lost, not gained.
LEMMA OwnersKept ==
    ASSUME QueueInv, RowsOwned, requests' \in Seq(Requests), NEW d \in {0, 1},
           \A k \in Updates' : /\ k \in Nat /\ k + d \in Updates
                               /\ requests'[k].row = requests[k + d].row,
           \A x \in Bodies' : x \in Bodies /\ execs'[x].row = execs[x].row,
           \A x \in Bodies' : Owned(execs[x].row)',
           \A k \in Updates' : Owned(requests[k].row)'
    PROVE  RowsOwned'
<1>1. \A k, l \in Updates' : requests'[k].row = requests'[l].row => k = l
  <2> SUFFICES ASSUME NEW k \in Updates', NEW l \in Updates',
                      requests'[k].row = requests'[l].row
               PROVE  k = l
    OBVIOUS
  <2>1. k + d = l + d
    BY DEF RowsOwned
  <2>2. QED
    BY <2>1
<1>2. \A x \in Bodies', k \in Updates' : execs'[x].row # requests'[k].row
  BY DEF RowsOwned
<1>3. \A x, y \in Bodies' : execs'[x].row = execs'[y].row => x = y
  BY DEF RowsOwned
<1>4. QED
  BY <1>1, <1>2, <1>3 DEF RowsOwned

\* The statement that is executed touches no row but its own.
LEMMA OthersStayOwned ==
    ASSUME QueueInv, QuietEarly, RowsOwned, NEW from, Takes(from), NEW i, Owned(i),
           \/ \E x \in Bodies : execs[x].row = i
           \/ \E k \in Updates : k # 1 /\ requests[k].row = i
    PROVE  Owned(i)'
<1>a. Typed /\ Disciplined
  BY DEF QueueInv
<1> DEFINE r == Head(requests)
<1>1. r = requests[1] /\ 1 \in DOMAIN requests /\ RowEffect(r)
      /\ executions' \in Seq(RowsOf)
  BY <1>a, TakesType
<1>2. r.op # "heal"
  <2> SUFFICES ASSUME r.op = "heal" PROVE FALSE
    OBVIOUS
  <2>1. life \in Early
    BY <1>1, WhoWrites DEF Early
  <2>2. QED
    BY <2>1, WhoWrites DEF Updates, Bodies, QuietEarly
<1>3. ~(r.op = "update" /\ r.row = i)
  BY <1>1 DEF RowsOwned, Updates
<1> HIDE DEF r
<1>4. i \in Rows /\ executions[i].status \in {"running", "deleted"}
  BY DEF Owned
<1>5. CASE executions' = Append(executions, NewRow(r.name))
  <2>1. executions \in Seq(RowsOf) /\ i \in 1 .. Len(executions) /\ r.name \in SomeName
    BY <1>a, <1>4, RowsAreNumbered, TakesType DEF Typed, RowsOf, r, Requests
  <2>2. NewRow(r.name) \in RowsOf
    BY <2>1 DEF NewRow, RowsOf, RowStatus
  <2>3. Len(executions') = Len(executions) + 1 /\ executions'[i] = executions[i]
        /\ DOMAIN executions' = 1 .. Len(executions')
    BY <1>5, <2>1, <2>2, AppendProperties, LenProperties
  <2>4. QED
    BY <1>4, <2>1, <2>3, LenProperties DEF Owned, Rows
<1>6. CASE executions' # Append(executions, NewRow(r.name))
  <2>1. Rows' = Rows
    BY <1>1, <1>6 DEF RowEffect
  <2>2. executions'[i].status \in {executions[i].status, "deleted"}
    BY <1>1, <1>2, <1>3, <1>4, <1>6 DEF RowEffect
  <2>3. QED
    BY <1>4, <2>1, <2>2 DEF Owned
<1>7. QED
  BY <1>5, <1>6

\* A step that gives no row to anybody.
LEMMA OwnersMove ==
    ASSUME StoreInv, requests' \in Seq(Requests),
           NEW d \in {0, 1}, NEW fresh, Shape(d, fresh), NEW from,
           \A q \in fresh : q.op # "update",
           \A x \in Bodies' : x \in Bodies /\ execs'[x].row = execs[x].row,
           d = 0 => UNCHANGED tables,
           d = 1 => Takes(from)
    PROVE  RowsOwned'
<1>a. Typed /\ QueueInv /\ QuietEarly /\ RowsOwned
  BY DEF StoreInv, QueueInv
<1>1. ASSUME NEW k \in Updates'
      PROVE  /\ k \in Nat /\ k + d \in Updates /\ k + d > d
             /\ requests'[k].row = requests[k + d].row
  <2>1. k \in DOMAIN requests' /\ requests'[k].op = "update"
    BY DEF Updates
  <2>2. /\ k \in Nat
        /\ \/ /\ k + d \in DOMAIN requests /\ requests'[k] = requests[k + d]
              /\ k + d > d
           \/ k + d = Len(requests) + 1 /\ requests'[k] \in fresh
    BY <1>a, <2>1, ShapeMembers
  <2>3. QED
    BY <2>1, <2>2 DEF Updates
<1>2. ASSUME NEW i, Owned(i),
             \/ \E x \in Bodies : execs[x].row = i
             \/ \E k \in Updates : k > d /\ requests[k].row = i
      PROVE  Owned(i)'
  <2>1. CASE d = 0
    BY <1>2, <2>1 DEF Owned, Rows, tables
  <2>2. CASE d = 1
    <3>1. \A k \in Updates : k > d => k # 1
      BY <2>2
    <3>2. QED
      BY <1>a, <1>2, <2>2, <3>1, OthersStayOwned
  <2>3. QED
    BY <2>1, <2>2
<1>3. ASSUME NEW x \in Bodies' PROVE Owned(execs[x].row)'
  <2>1. Owned(execs[x].row) /\ x \in Bodies /\ execs'[x].row = execs[x].row
    BY <1>a DEF RowsOwned
  <2>2. ASSUME NEW i, i = execs[x].row PROVE Owned(i)'
    BY <1>2, <2>1, <2>2
  <2>3. QED
    BY <2>1, <2>2 DEF Owned
<1>4. ASSUME NEW k \in Updates' PROVE Owned(requests[k].row)'
  <2>1. Owned(requests[k + d].row) /\ k + d \in Updates /\ k + d > d
        /\ requests'[k].row = requests[k + d].row
    BY <1>1, <1>a DEF RowsOwned
  <2>2. ASSUME NEW i, i = requests[k + d].row PROVE Owned(i)'
    BY <1>2, <2>1, <2>2
  <2>3. QED
    BY <2>1, <2>2 DEF Owned
<1>5. QED
  BY <1>a, <1>1, <1>3, <1>4, OwnersKept

\* The row an execution is given when it starts is new.
LEMMA LoggedOwns ==
    ASSUME StoreInv, NEW x \in Executions, Logged(x)
    PROVE  RowsOwned'
<1>a. Typed /\ QueueInv /\ QuietEarly /\ RowsOwned /\ Disciplined
      /\ requests \in Seq(Requests) /\ requests' \in Seq(Requests)
      /\ execs \in [Executions -> ExecType]
  <2>1. Typed /\ QueueInv /\ QuietEarly /\ RowsOwned /\ Disciplined
        /\ requests \in Seq(Requests) /\ execs \in [Executions -> ExecType]
    BY DEF StoreInv, QueueInv, Typed, ExecType
  <2>2. requests' \in Seq(Requests)
    BY <2>1, QueueShapes DEF Logged, Served
  <2>3. QED
    BY <2>1, <2>2
<1>1. Takes({x}) /\ requests' = Tail(requests)
  BY DEF Logged, Served, Takes
<1>2. Head(requests).op = "log" /\ 1 \in DOMAIN requests /\ Head(requests) = requests[1]
  <2>1. Head(requests) = requests[1] /\ 1 \in DOMAIN requests /\ Head(requests).from = x
    BY <1>a, <1>1, TakesType
  <2>2. QED
    BY <1>a, <2>1, ClientsAssumption DEF Logged, Phase, Disciplined, Suits, ExecAwaits
<1>0. PICK n : n = Len(executions) + 1
  OBVIOUS
<1>3. executions' = Append(executions, NewRow(Head(requests).name))
  BY <1>2 DEF Logged, Answer, Served, Statement, LogExecution, NewRow
<1>4. /\ Rows = 1 .. Len(executions) /\ Len(executions) \in Nat
      /\ Rows' = Rows \cup {n} /\ Len(executions') = n
      /\ executions'[n].status = "running"
      /\ \A i \in Rows : executions'[i] = executions[i]
  <2>1. executions \in Seq(RowsOf) /\ NewRow(Head(requests).name) \in RowsOf
    BY <1>a, <1>1, TakesType DEF Typed, RowsOf, NewRow, Requests, RowStatus
  <2>2. executions' \in Seq(RowsOf) /\ Len(executions') = n
        /\ (\A i \in 1 .. Len(executions) : executions'[i] = executions[i])
        /\ executions'[n] = NewRow(Head(requests).name)
    BY <1>0, <1>3, <2>1, AppendProperties
  <2>3. QED
    BY <1>0, <2>1, <2>2, LenProperties DEF Rows, NewRow
<1>5. \A i : Owned(i) => i # n /\ Owned(i)'
  BY <1>0, <1>4 DEF Owned
<1>6. Owned(n)'
  BY <1>4 DEF Owned
<1>7. /\ execs'[x].pc = "body" /\ execs'[x].row = n
      /\ \A y \in Executions \ {x} : execs'[y] = execs[y]
      /\ x \notin Bodies
  <2>1. execs[x] \in ExecType
    BY <1>a
  <2>2. execs'[x] = [execs[x] EXCEPT !.pc = "body", !.row = Len(executions')]
    BY <1>a DEF Logged, ExecGoes
  <2>3. QED
    BY <1>a, <1>4, <2>1, <2>2 DEF Logged, ExecGoes, ExecType, Phase, Bodies
<1>8. \A k \in Updates' : k \in Nat /\ k + 1 \in Updates /\ requests'[k] = requests[k + 1]
  <2>1. Shape(1, {})
    BY <1>a, <1>1, QueueShapes DEF Takes
  <2>2. QED
    BY <1>a, <2>1, ShapeMembers DEF Updates
<1>9. Bodies' \subseteq Bodies \cup {x}
  BY <1>7 DEF Bodies
<1>10. \A y \in Bodies : Owned(execs[y].row) /\ execs'[y].row = execs[y].row
  BY <1>a, <1>7 DEF RowsOwned, Bodies
<1>11. \A k \in Updates : Owned(requests[k].row)
  BY <1>a DEF RowsOwned
<1>12. \A y \in Bodies' : Owned(execs[y].row)'
  <2> SUFFICES ASSUME NEW y \in Bodies', NEW i, i = execs'[y].row PROVE Owned(i)'
    BY DEF Owned
  <2>1. CASE y = x
    BY <1>6, <1>7, <2>1
  <2>2. CASE y # x
    BY <1>5, <1>9, <1>10, <2>2
  <2>3. QED
    BY <2>1, <2>2
<1>13. \A k \in Updates' : Owned(requests[k].row)'
  <2> SUFFICES ASSUME NEW k \in Updates', NEW i, i = requests'[k].row PROVE Owned(i)'
    BY DEF Owned
  <2>1. QED
    BY <1>5, <1>8, <1>11
<1>14. \A y, z \in Bodies' : execs'[y].row = execs'[z].row => y = z
  <2>1. \A y \in Bodies : execs'[y].row # n
    BY <1>5, <1>10
  <2>2. \A y, z \in Bodies : execs'[y].row = execs'[z].row => y = z
    BY <1>a, <1>10 DEF RowsOwned
  <2>3. QED
    BY <1>7, <1>9, <2>1, <2>2
<1>15. \A k, l \in Updates' : requests'[k].row = requests'[l].row => k = l
  <2> SUFFICES ASSUME NEW k \in Updates', NEW l \in Updates',
                      requests'[k].row = requests'[l].row
               PROVE  k = l
    OBVIOUS
  <2>1. k + 1 = l + 1
    BY <1>a, <1>8 DEF RowsOwned
  <2>2. QED
    BY <1>8, <2>1
<1>16. \A y \in Bodies', k \in Updates' : execs'[y].row # requests'[k].row
  BY <1>a, <1>5, <1>7, <1>8, <1>9, <1>10, <1>11 DEF RowsOwned
<1>17. QED
  BY <1>12, <1>13, <1>14, <1>15, <1>16 DEF RowsOwned

\* An execution that ends leaves its row to its statement.
LEMMA SaveHandsOver ==
    ASSUME StoreInv, NEW x \in Executions, NEW status \in Ends, Save(x, status),
           Phase(x, "body"), UNCHANGED tables
    PROVE  RowsOwned'
<1>a. Typed /\ RowsOwned /\ requests \in Seq(Requests) /\ execs \in [Executions -> ExecType]
      /\ execs[x] \in ExecType
  BY DEF StoreInv, QueueInv, Typed, ExecType
<1>1. x \in Bodies
  BY DEF Phase, Bodies
<1>2. /\ \A y \in Executions \ {x} : execs'[y] = execs[y]
      /\ execs'[x].pc # "body"
  BY <1>a DEF Save, ExecGoes, IdleExec, ExecType
<1>3. \A y \in Bodies' : y \in Bodies /\ y # x /\ execs'[y] = execs[y]
  BY <1>2 DEF Bodies
<1>4. \A i : Owned(i) => Owned(i)'
  BY DEF Owned, Rows, tables
<1> DEFINE r == Update(execs[x].row, status, x)
<1>5. r \in Requests /\ r.row = execs[x].row
  BY <1>a, UpdateType DEF ExecType
<1> HIDE DEF r
<1>6. \A k \in Updates' : /\ k \in Nat
                          /\ \/ k \in Updates /\ requests'[k] = requests[k]
                             \/ k = Len(requests) + 1 /\ requests'[k] = r
  <2>1. CASE requests' = requests
    BY <2>1, <1>a, LenProperties DEF Updates
  <2>2. CASE requests' = Append(requests, r)
    <3>1. Shape(0, {r}) /\ requests' \in Seq(Requests)
      BY <1>a, <1>5, <2>2, QueueShapes
    <3>2. QED
      BY <1>a, <3>1, ShapeMembers DEF Updates
  <2>3. QED
    BY <2>1, <2>2 DEF Save, r
<1>7. \A y \in Bodies' : Owned(execs[y].row)'
  <2> SUFFICES ASSUME NEW y \in Bodies', NEW i, i = execs'[y].row PROVE Owned(i)'
    BY DEF Owned
  <2>1. QED
    BY <1>a, <1>3, <1>4 DEF RowsOwned
<1>8. \A k \in Updates' : Owned(requests[k].row)'
  <2> SUFFICES ASSUME NEW k \in Updates', NEW i, i = requests'[k].row PROVE Owned(i)'
    BY DEF Owned
  <2>1. QED
    BY <1>a, <1>1, <1>4, <1>5, <1>6 DEF RowsOwned
<1>9. \A y, z \in Bodies' : execs'[y].row = execs'[z].row => y = z
  BY <1>a, <1>3 DEF RowsOwned
<1>10. \A k, l \in Updates' : requests'[k].row = requests'[l].row => k = l
  BY <1>a, <1>1, <1>5, <1>6 DEF RowsOwned
<1>11. \A y \in Bodies', k \in Updates' : execs'[y].row # requests'[k].row
  BY <1>a, <1>1, <1>3, <1>5, <1>6 DEF RowsOwned
<1>12. QED
  BY <1>7, <1>8, <1>9, <1>10, <1>11 DEF RowsOwned

LEMMA NextRowsOwned == StoreInv /\ [Next]_vars => RowsOwned'
<1> SUFFICES ASSUME StoreInv, [Next]_vars PROVE RowsOwned'
  OBVIOUS
<1>a. /\ QueueInv /\ Typed /\ QuietEarly /\ RowsOwned
      /\ requests \in Seq(Requests) /\ requests' \in Seq(Requests)
      /\ execs \in [Executions -> ExecType] /\ execs' \in [Executions -> ExecType]
  <2>1. QueueInv /\ Typed /\ QuietEarly /\ RowsOwned
    BY DEF StoreInv, QueueInv
  <2>2. QED
    BY <2>1, NextTyped DEF Typed, ExecType
<1>1. CASE UNCHANGED vars
  BY <1>1, <1>a DEF vars, storeVars, tables, RowsOwned, Owned, Bodies, Updates, Rows
<1>2. CASE Crash
  BY <1>2 DEF Crash, IdleExec, RowsOwned, Bodies, Updates
<1>3. CASE \E x \in Executions : Abandon(x)
  <2>1. PICK x \in Executions : Abandon(x)
    BY <1>3
  <2>2. \A i : Owned(i) => Owned(i)'
    BY <2>1 DEF Abandon, tables, Owned, Rows
  <2>3. \A y \in Bodies' : y \in Bodies /\ execs'[y].row = execs[y].row
    BY <1>a, <2>1 DEF Abandon, ExecGoes, IdleExec, Bodies
  <2>4. ASSUME NEW k \in Updates'
        PROVE  /\ k \in Nat /\ k \in Updates
               /\ requests'[k].row = requests[k].row
    <3>1. k \in DOMAIN requests /\ k \in Nat /\ requests[k] \in Requests
      BY <1>a, <2>1, LenProperties, ElementOfSeq DEF Abandon, Updates
    <3>2. requests'[k] = requests[k] \/ requests'[k] = [requests[k] EXCEPT !.from = "nobody"]
      BY <2>1, <3>1 DEF Abandon
    <3>3. QED
      BY <3>1, <3>2 DEF Requests, Updates
  <2>5. \A y \in Bodies' : Owned(execs[y].row)'
    <3> SUFFICES ASSUME NEW y \in Bodies', NEW i, i = execs'[y].row PROVE Owned(i)'
      BY DEF Owned
    <3>1. QED
      BY <1>a, <2>2, <2>3 DEF RowsOwned
  <2>6. \A k \in Updates' : Owned(requests[k].row)'
    <3> SUFFICES ASSUME NEW k \in Updates', NEW i, i = requests'[k].row PROVE Owned(i)'
      BY DEF Owned
    <3>1. QED
      BY <1>a, <2>2, <2>4 DEF RowsOwned
  <2>7. \A k \in Updates' : /\ k \in Nat /\ k + 0 \in Updates
                            /\ requests'[k].row = requests[k + 0].row
    <3>1. \A k \in Nat : k + 0 = k
      OBVIOUS
    <3>2. QED
      BY <2>4, <3>1
  <2>8. QED
    BY <1>a, <2>3, <2>5, <2>6, <2>7, OwnersKept
<1>4. ASSUME NEW x \in Executions, NEW d \in {0, 1}, NEW fresh,
             ExecMoves(x, d, fresh), ExecStep(x), ~CancelAwait(x), ~WriteTimesOut(x)
      PROVE  RowsOwned'
  <2>1. CASE Logged(x)
    BY <2>1, LoggedOwns
  <2>2. CASE JobEnds(x) \/ CancelJob(x)
    <3>1. \E status \in Ends : Save(x, status) /\ Phase(x, "body") /\ UNCHANGED tables
      BY <2>2 DEF JobEnds, CancelJob, Ends
    <3>2. QED
      BY <3>1, SaveHandsOver
  <2>3. CASE (\E n \in Names : Begin(x, n)) \/ LogRefused(x) \/ Reregistered(x)
             \/ LogFails(x) \/ Saved(x)
    <3>1. execs'[x].pc \notin {"body", "saving"}
      BY <2>3, <1>a DEF Begin, LogRefused, Reregistered, LogFails, Saved, ExecGoes,
         IdleExec, ExecType
    <3>2. \A q \in fresh : q.op # "update"
      BY <1>4, <3>1 DEF ExecMoves, ExecAwaits
    <3>3. \A y \in Bodies' : y \in Bodies /\ execs'[y].row = execs[y].row
      BY <1>4, <3>1 DEF ExecMoves, Bodies
    <3>4. QED
      BY <1>4, <1>a, <3>2, <3>3, OwnersMove DEF ExecMoves
  <2>4. QED
    BY <1>4, <2>1, <2>2, <2>3 DEF ExecStep
<1>5. ASSUME NEW d \in {0, 1}, NEW fresh, LifeMoves(d, fresh)
      PROVE  RowsOwned'
  <2>1. \A q \in fresh : q.op # "update"
    BY <1>5 DEF LifeMoves, LifeAwaits
  <2>2. \A y \in Bodies' : y \in Bodies /\ execs'[y].row = execs[y].row
    BY <1>5 DEF LifeMoves, Bodies
  <2>3. QED
    BY <1>5, <1>a, <2>1, <2>2, OwnersMove DEF LifeMoves
<1>6. CASE Serves
  <2>1. \A y \in Bodies' : y \in Bodies /\ execs'[y].row = execs[y].row
    BY <1>6 DEF Serves, Bodies
  <2>2. QED
    BY <1>6, <1>a, <2>1, OwnersMove DEF Serves
<1>7. ASSUME NEW fresh, Calls(fresh) PROVE RowsOwned'
  <2>1. \A q \in fresh : q.op # "update"
    BY <1>7 DEF Calls
  <2>2. \A y \in Bodies' : y \in Bodies /\ execs'[y].row = execs[y].row
    BY <1>7 DEF Calls, Bodies
  <2>3. QED
    BY <1>7, <1>a, <2>1, <2>2, OwnersMove DEF Calls
<1>8. QED
  BY <1>a, <1>1, <1>2, <1>3, <1>4, <1>5, <1>6, <1>7, StepCases

\* Who waits for what, and who settles which row, in every reachable state.
THEOREM OneSettlesARow == Spec => []StoreInv
<1>1. Init => StoreInv
  <2> SUFFICES ASSUME Init PROVE StoreInv
    OBVIOUS
  <2>1. <<>> \in Seq(Requests) /\ <<>> \in Seq(RowsOf) /\ <<>> \in Seq(Writes)
    BY EmptySeq
  <2>2. IdleExec \in ExecType /\ IdleExec.pc = "idle"
    BY DEF IdleExec, ExecType, SomeName, NoRow
  <2>3. Typed
    BY <2>1, <2>2 DEF Init, StoreInit, Typed, ExecType, RowsOf
  <2>4. DOMAIN requests = {}
    BY DEF Init, StoreInit
  <2>5. \A x \in Executions : execs[x].pc = "idle"
    BY <2>2 DEF Init
  <2>6. QED
    BY <2>3, <2>4, <2>5 DEF StoreInv, QueueInv, Disciplined, QuietEarly, RowsOwned, Bodies, Updates
<1>2. StoreInv /\ [Next]_vars => StoreInv'
  BY NextTyped, NextDisciplined, NextQuiet, NextRowsOwned DEF StoreInv, QueueInv
<1>3. QED
  BY <1>1, <1>2, PTL DEF Spec

-----------------------------------------------------------------------------
(***************************************************************************)
(* The history that the table tells.                                       *)
(***************************************************************************)
Statuses == [i \in 1 .. MaxRows |-> IF i \in Rows THEN executions[i].status ELSE "absent"]

LEMMA StatusesSet ==
    ASSUME Typed, NEW S, NEW status \in RowStatus, SetStatus(S, status)
    PROVE  Statuses' = [i \in 1 .. MaxRows |->
                            IF i \in S \cap Rows THEN status ELSE Statuses[i]]
<1>1. Rows' = Rows /\ \A i \in Rows : executions'[i].status =
                        IF i \in S THEN status ELSE executions[i].status
  BY StatusSet
<1>2. QED
  BY <1>1 DEF Statuses

\* The tables change by a statement only.
LEMMA TableSteps ==
    ASSUME QueueInv, [Next]_vars
    PROVE  UNCHANGED tables \/ \E from : Takes(from)
<1>1. CASE UNCHANGED vars \/ Crash \/ \E x \in Executions : Abandon(x)
  BY <1>1 DEF vars, storeVars, Crash, Abandon
<1>2. ASSUME NEW d \in {0, 1}, NEW fresh, NEW x \in Executions, ExecMoves(x, d, fresh)
      PROVE  UNCHANGED tables \/ \E from : Takes(from)
  BY <1>2 DEF ExecMoves
<1>3. ASSUME NEW d \in {0, 1}, NEW fresh, LifeMoves(d, fresh)
      PROVE  UNCHANGED tables \/ \E from : Takes(from)
  BY <1>3 DEF LifeMoves
<1>4. CASE Serves \/ \E fresh : Calls(fresh)
  BY <1>4 DEF Serves, Calls, tables
<1>5. QED
  BY <1>1, <1>2, <1>3, <1>4, StepCases

LEMMA HistoryStep ==
    ASSUME StoreInv, [Next]_vars
    PROVE  [History!Next]_Statuses
<1>a. Typed /\ QueueInv /\ RowsOwned
  BY DEF StoreInv, QueueInv
<1>b. Rows = 1 .. Len(executions) /\ Len(executions) \in Nat /\ MaxRows \in Nat
      /\ \A i \in Rows : executions[i].status \in RowStatus
  BY <1>a, RowsAreNumbered, RowsAssumption DEF RowsOf
<1>1. CASE UNCHANGED tables
  BY <1>1 DEF tables, Statuses, Rows
<1>2. ASSUME NEW from, Takes(from), ~UNCHANGED tables
      PROVE  [History!Next]_Statuses
  <2> DEFINE r == Head(requests)
  <2>1. r \in Requests /\ r = requests[1] /\ 1 \in DOMAIN requests /\ Statement(r)
    BY <1>a, <1>2, TakesType DEF Takes
  <2> HIDE DEF r
  <2>2. CASE r.op = "log" /\ LogExecution(r.name)
    <3>1. PICK n : n = Len(executions) + 1
      OBVIOUS
    <3>2. executions \in Seq(RowsOf) /\ NewRow(r.name) \in RowsOf
      BY <1>a, <2>1 DEF Typed, RowsOf, NewRow, Requests, RowStatus
    <3>3. /\ Rows' = 1 .. n /\ executions'[n].status = "running"
          /\ \A i \in Rows : executions'[i] = executions[i]
      BY <2>2, <3>1, <3>2, AppendProperties, LenProperties
      DEF LogExecution, NewRow, Rows
    <3>4. CASE n \in 1 .. MaxRows
      <4>1. Statuses' = [Statuses EXCEPT ![n] = "running"]
        <5>1. \A i \in 1 .. MaxRows : i \in Rows' <=> i \in Rows \/ i = n
          BY <1>b, <3>1, <3>3
        <5>2. n \notin Rows
          BY <1>b, <3>1
        <5>3. QED
          BY <3>3, <3>4, <5>1, <5>2 DEF Statuses
      <4>2. \A k \in 1 .. MaxRows : Statuses[k] = "absent" <=> k >= n
        BY <1>b, <3>1 DEF Statuses, RowStatus
      <4>3. History!Start
        BY <3>4, <4>1, <4>2 DEF History!Start, Statuses
      <4>4. QED
        BY <4>3 DEF History!Next
    <3>5. CASE n \notin 1 .. MaxRows
      <4>1. Statuses' = Statuses
        BY <1>b, <3>1, <3>3, <3>5 DEF Statuses
      <4>2. QED
        BY <4>1
    <3>6. QED
      BY <3>4, <3>5
  <2>3. ASSUME NEW S, SetStatus(S, "deleted")
        PROVE  History!Next
    <3>1. PICK T : T = S \cap Rows \cap 1 .. MaxRows
      OBVIOUS
    <3>2. Statuses' = [i \in 1 .. MaxRows |-> IF i \in T THEN "deleted" ELSE Statuses[i]]
      BY <1>a, <2>3, <3>1, StatusesSet DEF RowStatus
    <3>3. T \in SUBSET {i \in 1 .. MaxRows : Statuses[i] # "absent"}
      BY <1>b, <3>1 DEF Statuses, RowStatus
    <3>4. History!Forget
      BY <3>2, <3>3 DEF History!Forget, Statuses
    <3>5. QED
      BY <3>4 DEF History!Next
  <2>4. CASE r.op = "update" /\ UpdateExecution(r.row, r.status)
    <3>1. r.status \in Ends /\ r.status \in RowStatus
      BY <2>1, <2>4 DEF Requests, Ends, RowStatus
    <3>2. PICK S : S = {r.row} \ {k \in Rows : executions[k].status = "deleted"}
      OBVIOUS
    <3>3. Statuses' = [i \in 1 .. MaxRows |->
                        IF i \in S \cap Rows THEN r.status ELSE Statuses[i]]
      BY <1>a, <2>4, <3>1, <3>2, StatusesSet DEF UpdateExecution
    <3>4. Owned(r.row)
      BY <1>a, <2>1, <2>4 DEF RowsOwned, Updates
    <3>5. CASE r.row \in S /\ r.row \in 1 .. MaxRows
      <4>1. Statuses' = [Statuses EXCEPT ![r.row] = r.status]
        BY <3>2, <3>3, <3>4, <3>5 DEF Statuses, Owned
      <4>2. Statuses[r.row] = "running"
        BY <3>2, <3>4, <3>5 DEF Statuses, Owned
      <4>3. QED
        BY <3>1, <3>5, <4>1, <4>2 DEF History!Next, History!End, History!Settled, Statuses, Ends
    <3>6. CASE ~(r.row \in S /\ r.row \in 1 .. MaxRows)
      <4>1. \A i \in 1 .. MaxRows : i \notin S
        BY <3>2, <3>6
      <4>2. Statuses' = Statuses
        BY <3>3, <4>1 DEF Statuses
      <4>3. QED
        BY <4>2
    <3>7. QED
      BY <3>5, <3>6
  <2>5. CASE r.op = "heal" /\ HealInterrupted
    <3>1. Statuses' = [i \in 1 .. MaxRows |->
                        IF i \in Running \cap Rows THEN "failed" ELSE Statuses[i]]
      BY <1>a, <2>5, StatusesSet DEF HealInterrupted, RowStatus
    <3>2. \A i \in 1 .. MaxRows : i \in Running \cap Rows <=> Statuses[i] = "running"
      BY <1>b DEF Statuses, Running
    <3>3. History!Recover
      BY <3>1, <3>2 DEF History!Recover, Statuses
    <3>4. QED
      BY <3>3 DEF History!Next
  <2>6. CASE executions' = executions
    BY <2>6 DEF Statuses, Rows
  <2>7. QED
    BY <1>2, <2>1, <2>2, <2>3, <2>4, <2>5, <2>6
    DEF Statement, Migrate, RegisterJob, UnregisterJob, Prune
<1>3. QED
  BY <1>a, <1>1, <1>2, TableSteps

\* HistoryIsKept: over crashes, restarts, removals, pruning and executions
\* that were given up, every row goes from running to one settled status, and
\* changes again only to be forgotten.
THEOREM HistoryIsKeptAlways == Spec => HistoryIsKept
<1>1. Init => History!Init
  <2> SUFFICES ASSUME Init PROVE History!Init
    OBVIOUS
  <2>1. Rows = {}
    BY DEF Init, StoreInit, Rows
  <2>2. QED
    BY <2>1 DEF History!Init
<1>2. StoreInv /\ [Next]_vars => [History!Next]_Statuses
  BY HistoryStep
<1>3. QED
  BY <1>1, <1>2, OneSettlesARow, PTL DEF Spec, HistoryIsKept, History!Spec, Statuses

-----------------------------------------------------------------------------
(***************************************************************************)
(* What init() finds.                                                      *)
(***************************************************************************)
\* From the migration on the tables can be used; when the history is loaded
\* it has been healed.
InitInv ==
    /\ life \notin {"down", "up", "closed"} => connection = "open"
    /\ life \notin {"down", "up", "migrating", "closed"} => schema
    /\ life = "loading" => Running = {}
    /\ "running" \notin restored

LEMMA LifeSteps ==
    ASSUME [Next]_vars
    PROVE  UNCHANGED <<life, connection, restored>> \/ Boot \/ Crash \/ LifeStep
<1>1. CASE \E x \in Executions : ExecStep(x)
  BY <1>1 DEF ExecStep, Begin, Logged, LogRefused, Reregistered, LogFails, JobEnds, Saved,
     CancelJob, CancelAwait, WriteTimesOut, Abandon, UnchangedByExecs, lifeVars
<1>2. CASE ApiStep
  BY <1>2 DEF ApiStep, Register, RemoveJob, RemoveJobRaises, RestoreJobs, lifeVars, storeVars
<1>3. CASE StartWrite \/ EndWrite \/ RegisterRestored \/ ServeNobody
  BY <1>3 DEF StartWrite, EndWrite, RegisterRestored, ServeNobody, UnchangedByExecs, lifeVars
<1>4. CASE UNCHANGED vars
  BY <1>4 DEF vars, storeVars, lifeVars
<1>5. QED
  BY <1>1, <1>2, <1>3, <1>4 DEF Next

\* No statement makes rows run before init() is done.
LEMMA EarlyRows ==
    ASSUME QueueInv, QuietEarly, [Next]_vars, life \in Early, Running = {}
    PROVE  Running' = {}
<1>a. Typed
  BY DEF QueueInv
<1>1. CASE UNCHANGED tables
  BY <1>1 DEF tables, Running, Rows
<1>2. ASSUME NEW from, Takes(from) PROVE Running' = {}
  <2> DEFINE r == Head(requests)
  <2>1. RowEffect(r) /\ r = requests[1] /\ 1 \in DOMAIN requests
    BY <1>a, <1>2, TakesType
  <2>2. r.op \notin {"log", "update"}
    BY <2>1, WhoWrites
  <2> HIDE DEF r
  <2>3. Rows' = Rows /\ \A i \in Rows :
            executions'[i].status \in {executions[i].status, "deleted", "failed"}
    BY <2>1, <2>2 DEF RowEffect
  <2>4. QED
    BY <2>3 DEF Running
<1>3. QED
  BY <1>1, <1>2, TableSteps

LEMMA NextInit ==
    ASSUME StoreInv, InitInv, [Next]_vars
    PROVE  InitInv'
<1>a. QueueInv /\ Typed /\ Disciplined /\ QuietEarly
  BY DEF StoreInv, QueueInv
<1>b. schema => schema'
  BY <1>a, TableSteps, TakesType DEF tables
\* The statement that the process awaits is executed.
<1>c. ASSUME Served({"life"}), NEW op, \A o : LifeAwaits(life, o) => o = op,
             life = "migrating" => op = "migrate",
             life # "migrating" => schema
      PROVE  Head(requests).op = op
             /\ (connection = "open" /\ op \in {"migrate", "heal"} => Reply(Head(requests)) = "ok")
  <2>1. Takes({"life"})
    BY <1>c DEF Served, Takes
  <2>2. Head(requests) = requests[1] /\ 1 \in DOMAIN requests
        /\ Head(requests).from = "life"
    BY <1>a, <2>1, TakesType
  <2>3. LifeAwaits(life, Head(requests).op)
    BY <1>a, <2>2, ClientsAssumption DEF Disciplined, Suits
  <2>4. Head(requests).op = op
    BY <1>c, <2>3
  <2>5. connection = "open" /\ op \in {"migrate", "heal"} => Reply(Head(requests)) = "ok"
    BY <1>c, <2>3, <2>4 DEF Reply, LifeAwaits
  <2>6. QED
    BY <2>4, <2>5
<1>1. CASE UNCHANGED <<life, connection, restored>>
  <2>1. life = "loading" => Running' = {}
    BY <1>a, EarlyRows DEF InitInv, Early
  <2>2. QED
    BY <1>1, <1>b, <2>1 DEF InitInv
<1>2. CASE Crash \/ Boot
  BY <1>2 DEF Crash, Boot, InitInv, storeVars
<1>3. CASE Connect
  BY <1>3 DEF Connect, Await, InitInv
<1>4. CASE Migrated
  <2>1. life = "migrating" /\ Served({"life"}) /\ connection = "open"
    BY <1>4 DEF Migrated, InitInv
  <2>2. Head(requests).op = "migrate" /\ Reply(Head(requests)) = "ok"
    BY <1>c, <2>1 DEF LifeAwaits
  <2>3. schema'
    BY <2>1, <2>2 DEF Served, Statement, Migrate
  <2>4. QED
    BY <1>4, <2>1, <2>3 DEF Migrated, Await, Flush, InitInv
<1>5. CASE Healed
  <2>1. life = "healing" /\ Served({"life"}) /\ connection = "open" /\ schema
    BY <1>5 DEF Healed, InitInv
  <2>2. Head(requests).op = "heal" /\ Reply(Head(requests)) = "ok"
    BY <1>c, <2>1 DEF LifeAwaits
  <2>3. HealInterrupted
    BY <2>1, <2>2 DEF Served, Statement
  <2>4. Running' = {}
    BY <1>a, <2>3, StatusSet DEF HealInterrupted, Running, RowStatus
  <2>5. QED
    BY <1>5, <1>b, <2>1, <2>4 DEF Healed, Await, InitInv
<1>6. CASE Loaded
  BY <1>6, <1>b DEF Loaded, InitInv, Running
<1>7. CASE InitFlushed \/ Run \/ RunFlushed \/ RunEnds \/ WritesSettled \/ Pruned
           \/ Close \/ CloseFlushed \/ Disconnect \/ Closed
  BY <1>7, <1>b DEF InitFlushed, Run, RunFlushed, RunEnds, WritesSettled, Pruned, Close,
     CloseFlushed, Disconnect, Closed, Await, Flush, AwaitWrites, storeVars, InitInv
<1>8. QED
  BY <1>1, <1>2, <1>3, <1>4, <1>5, <1>6, <1>7, LifeSteps DEF LifeStep

\* RestoredIsSettled: whatever interrupted the last process, and whatever is
\* called while init() waits, the history it restores has no running row.
THEOREM RestoredIsSettledAlways == Spec => []RestoredIsSettled
<1>1. Init => InitInv
  BY DEF Init, StoreInit, InitInv
<1>2. StoreInv /\ InitInv /\ [Next]_vars => InitInv'
  BY NextInit
<1>3. InitInv => RestoredIsSettled
  BY DEF InitInv, RestoredIsSettled
<1>4. QED
  BY <1>1, <1>2, <1>3, OneSettlesARow, PTL DEF Spec

-----------------------------------------------------------------------------
(***************************************************************************)
(* Executions that nothing interrupts.                                     *)
(***************************************************************************)
\* They are in progress during run() only, what they wait for is awaited, and
\* they know their row from the moment it is there.
FlightInv ==
    /\ InFlight # {} => life = "running"
    /\ \A k \in DOMAIN requests : requests[k].from # "nobody"
    /\ \A k \in Updates : requests[k].row = execs[requests[k].from].row
    /\ \A x \in Executions :
        execs[x].pc \in {"idle", "logging", "registering", "relogging"} =>
            execs[x].row = NoRow
    /\ RunningIsInFlight

LEMMA RunningShrinks ==
    ASSUME Typed, NEW from, Takes(from),
           Head(requests).op # "log" \/ Reply(Head(requests)) # "ok"
    PROVE  Running' \subseteq Running
<1> DEFINE r == Head(requests)
<1>1. RowEffect(r) /\ r \in Requests
  BY TakesType
<1>2. r.op # "log" \/ Reply(r) # "ok"
  OBVIOUS
<1> HIDE DEF r
<1>3. r.op = "update" => r.status # "running"
  BY <1>1 DEF Requests, Ends
<1>4. QED
  BY <1>1, <1>2, <1>3 DEF RowEffect, Running

\* A step that submits no update leaves those on the queue to their executions.
LEMMA UpdatesMove ==
    ASSUME StoreInv, FlightInv, NEW x \in Executions, NEW d \in {0, 1}, NEW fresh,
           ExecMoves(x, d, fresh), \A q \in fresh : q.op # "update"
    PROVE  /\ \A k \in DOMAIN requests' : requests'[k].from # "nobody"
           /\ \A k \in Updates' : requests'[k].row = execs'[requests'[k].from].row
<1>a. Typed /\ QueueInv /\ Disciplined /\ requests' \in Seq(Requests) /\ Shape(d, fresh)
  BY DEF StoreInv, QueueInv, ExecMoves
<1>1. \A k \in DOMAIN requests' : requests'[k].from # "nobody"
  BY <1>a, ShapeMembers, ClientsAssumption DEF ExecMoves, FlightInv
<1>2. ASSUME NEW k \in Updates'
      PROVE  requests'[k].row = execs'[requests'[k].from].row
  <2>1. k \in DOMAIN requests' /\ requests'[k].op = "update"
    BY DEF Updates
  <2>2. k + d \in DOMAIN requests /\ requests'[k] = requests[k + d] /\ k + d > d
    BY <1>a, <2>1, ShapeMembers
  <2>3. requests[k + d].from # x
    BY <1>a, <2>2, OthersQueue
  <2>4. requests[k + d].from \in Executions
    BY <1>a, <2>1, <2>2 DEF Disciplined, Suits, LifeAwaits, FlightInv
  <2>5. requests[k + d].row = execs[requests[k + d].from].row
    BY <2>1, <2>2 DEF FlightInv, Updates
  <2>6. QED
    BY <2>2, <2>3, <2>4, <2>5 DEF ExecMoves
<1>3. QED
  BY <1>1, <1>2

\* A row that runs has the execution it had.
LEMMA CarriersStay ==
    ASSUME RunningIsInFlight, NEW x \in Executions, execs[x].row \notin Running',
           Running' \subseteq Running,
           \A y \in Executions \ {x} : execs'[y] = execs[y],
           life \in Initialized
    PROVE  \A i \in Running' : \E y \in InFlight' : execs'[y].row = i
  BY DEF RunningIsInFlight, InFlight

LEMMA ExecKeepsFlight ==
    ASSUME StoreInv, InitInv, FlightInv, Interruptions = {}, NEW x \in Executions,
           NEW d \in {0, 1}, NEW fresh,
           ExecMoves(x, d, fresh), ExecStep(x), ~CancelAwait(x), ~WriteTimesOut(x)
    PROVE  FlightInv'
<1>a. /\ QueueInv /\ Typed /\ Disciplined /\ RowsOwned
      /\ execs \in [Executions -> ExecType] /\ requests \in Seq(Requests)
      /\ execs[x] \in ExecType
  BY DEF StoreInv, QueueInv, Typed, ExecType
<1>b. (\E n \in Names : Begin(x, n)) \/ Logged(x) \/ LogRefused(x) \/ Reregistered(x)
      \/ LogFails(x) \/ JobEnds(x) \/ Saved(x)
  BY DEF ExecStep, CancelJob
<1>c. life = "running" /\ life' = "running" /\ connection = "open" /\ schema
  <2>1. (\E n \in Names : Begin(x, n)) \/ execs[x].pc # "idle"
    BY <1>b DEF Logged, LogRefused, Reregistered, LogFails, JobEnds, Saved, Phase
  <2>2. execs[x].pc # "idle" => x \in InFlight
    BY DEF InFlight, IdleExec
  <2>3. life = "running"
    BY <2>1, <2>2 DEF Begin, FlightInv
  <2>4. QED
    BY <2>3 DEF ExecMoves, InitInv
<1>d. /\ \A y \in Executions \ {x} : execs'[y] = execs[y]
      /\ execs' \in [Executions -> ExecType]
      /\ \A e : ExecGoes(x, e) => execs'[x] = e
  BY <1>a DEF ExecMoves, ExecGoes
<1>e. life \in Initialized /\ RunningIsInFlight
  BY <1>c DEF Initialized, FlightInv
<1>f. NoRow \notin Rows /\ NoRow \notin Rows'
  <2>1. executions' \in Seq(RowsOf)
    BY <1>a, NextTyped DEF Next, Typed, RowsOf
  <2>2. QED
    BY <1>a, <2>1, RowsAreNumbered, LenProperties DEF NoRow, Rows
\* The conclusion from its parts.
<1>g. ASSUME \A k \in DOMAIN requests' : requests'[k].from # "nobody",
             \A k \in Updates' : requests'[k].row = execs'[requests'[k].from].row,
             execs'[x].pc \in {"idle", "logging", "registering", "relogging"} =>
                execs'[x].row = NoRow,
             \A i \in Running' : \E y \in InFlight' : execs'[y].row = i
      PROVE  FlightInv'
  BY <1>c, <1>d, <1>g DEF FlightInv, RunningIsInFlight
<1>1. CASE (\E n \in Names : Begin(x, n)) \/ LogRefused(x) \/ Reregistered(x) \/ LogFails(x)
  <2>1. /\ execs[x].row = NoRow
        /\ execs'[x].pc \in {"idle", "logging", "registering", "relogging"}
        /\ execs'[x].row = NoRow
    <3>1. execs[x].pc \in {"idle", "logging", "registering", "relogging"}
      BY <1>1 DEF Begin, LogRefused, Reregistered, LogFails, Phase
    <3>2. execs[x].row = NoRow
      BY <3>1 DEF FlightInv
    <3>3. CASE \E n \in Names : Begin(x, n)
      BY <1>a, <3>2, <3>3 DEF Begin, ExecGoes
    <3>4. CASE LogRefused(x) \/ Reregistered(x)
      BY <1>a, <3>2, <3>4 DEF LogRefused, Reregistered, ExecGoes, ExecType
    <3>5. CASE LogFails(x)
      BY <1>a, <3>2, <3>5 DEF LogFails, ExecGoes, IdleExec
    <3>6. QED
      BY <1>1, <3>2, <3>3, <3>4, <3>5
  <2>2. \A q \in fresh : q.op # "update"
    BY <2>1 DEF ExecMoves, ExecAwaits
  <2>3. Running' \subseteq Running
    <3>1. CASE \E n \in Names : Begin(x, n)
      BY <3>1 DEF Begin, tables, Running, Rows
    <3>2. CASE LogRefused(x) \/ LogFails(x)
      <4>1. Takes({x}) /\ Reply(Head(requests)) # "ok"
        BY <3>2 DEF LogRefused, LogFails, Served, Takes, Answer
      <4>2. QED
        BY <1>a, <4>1, RunningShrinks
    <3>3. CASE Reregistered(x)
      <4>1. Takes({x})
        BY <3>3 DEF Reregistered, Served, Takes
      <4>2. Head(requests) = requests[1] /\ 1 \in DOMAIN requests /\ Head(requests).from = x
        BY <1>a, <4>1, TakesType
      <4>3. Head(requests).op = "register"
        BY <1>a, <3>3, <4>2, ClientsAssumption
        DEF Reregistered, Phase, Disciplined, Suits, ExecAwaits
      <4>4. QED
        BY <1>a, <4>1, <4>3, RunningShrinks
    <3>4. QED
      BY <1>1, <3>1, <3>2, <3>3
  <2>4. execs[x].row \notin Running'
    BY <1>f, <2>1 DEF Running
  <2>5. \A i \in Running' : \E y \in InFlight' : execs'[y].row = i
    BY <1>d, <1>e, <2>3, <2>4, CarriersStay
  <2>6. QED
    BY <1>g, <2>1, <2>2, <2>5, UpdatesMove
<1>2. CASE Logged(x)
  <2>1. Takes({x}) /\ execs[x].row = NoRow
    BY <1>2 DEF Logged, Served, Takes, Phase, FlightInv
  <2>2. Head(requests) = requests[1] /\ 1 \in DOMAIN requests /\ Head(requests).from = x
        /\ Head(requests) \in Requests
    BY <1>a, <2>1, TakesType
  <2>3. Head(requests).op = "log"
    BY <1>a, <1>2, <2>2, ClientsAssumption DEF Logged, Phase, Disciplined, Suits, ExecAwaits
  <2>4. executions' = Append(executions, NewRow(Head(requests).name))
    BY <1>2, <2>3 DEF Logged, Answer, Served, Statement, LogExecution, NewRow
  <2>5. executions \in Seq(RowsOf) /\ NewRow(Head(requests).name) \in RowsOf
    BY <1>a, <2>2 DEF Typed, RowsOf, NewRow, Requests, RowStatus
  <2>6. Running' \subseteq Running \cup {Len(executions')}
    BY <2>4, <2>5, AppendProperties, LenProperties DEF Running, Rows
  <2>7. execs'[x].pc = "body" /\ execs'[x].row = Len(executions')
    BY <1>2, <1>a, <1>d DEF Logged, ExecType
  <2>8. x \in InFlight'
    BY <2>7 DEF InFlight, IdleExec
  <2>9. \A i \in Running' : \E y \in InFlight' : execs'[y].row = i
    <3> SUFFICES ASSUME NEW i \in Running' PROVE \E y \in InFlight' : execs'[y].row = i
      OBVIOUS
    <3>1. CASE i = Len(executions')
      BY <2>7, <2>8, <3>1
    <3>2. CASE i \in Running
      <4>1. PICK y \in InFlight : execs[y].row = i
        BY <1>e, <3>2 DEF RunningIsInFlight
      <4>2. y # x
        BY <1>f, <2>1, <3>2, <4>1 DEF Running
      <4>3. QED
        BY <1>d, <4>1, <4>2 DEF InFlight
    <3>3. QED
      BY <2>6, <3>1, <3>2
  <2>10. \A q \in fresh : q.op # "update"
    BY <2>7 DEF ExecMoves, ExecAwaits
  <2>11. QED
    BY <1>g, <2>7, <2>9, <2>10, UpdatesMove
<1>3. CASE JobEnds(x)
  <2>1. PICK status \in Ends : Save(x, status) /\ Phase(x, "body") /\ UNCHANGED tables
    BY <1>3 DEF JobEnds, Ends
  <2> DEFINE r == Update(execs[x].row, status, x)
  <2>2. r \in Requests /\ r.row = execs[x].row /\ r.from = x
    BY <1>a, UpdateType DEF ExecType
  <2>3. requests' = Append(requests, r) /\ execs'[x].pc = "saving"
        /\ execs'[x].row = execs[x].row
    BY <1>a, <1>c, <1>d, <2>1 DEF Save, ExecType
  <2> HIDE DEF r
  <2>4. Shape(0, {r}) /\ requests' \in Seq(Requests)
    BY <1>a, <2>2, <2>3, QueueShapes
  <2>5. \A k \in DOMAIN requests' :
            (k \in DOMAIN requests /\ requests'[k] = requests[k]) \/ requests'[k] = r
    BY <1>a, <2>4, ShapeMembers
  <2>6. \A k \in DOMAIN requests' : requests'[k].from # "nobody"
    BY <2>2, <2>5, ClientsAssumption DEF FlightInv
  <2>7. \A k \in Updates' : requests'[k].row = execs'[requests'[k].from].row
    <3> SUFFICES ASSUME NEW k \in Updates'
                 PROVE  requests'[k].row = execs'[requests'[k].from].row
      OBVIOUS
    <3>1. CASE requests'[k] = r
      BY <2>2, <2>3, <3>1
    <3>2. CASE k \in DOMAIN requests /\ requests'[k] = requests[k]
      <4>1. requests[k].from \in Executions /\ requests[k].op = "update"
        BY <1>a, <3>2 DEF Updates, Disciplined, Suits, LifeAwaits, FlightInv
      <4>2. requests[k].row = execs[requests[k].from].row
        BY <3>2, <4>1 DEF FlightInv, Updates
      <4>3. execs'[requests[k].from].row = execs[requests[k].from].row
        BY <1>d, <2>3, <4>1
      <4>4. QED
        BY <3>2, <4>2, <4>3
    <3>3. QED
      BY <2>5, <3>1, <3>2 DEF Updates
  <2>8. \A i \in Running' : \E y \in InFlight' : execs'[y].row = i
    <3>1. Running' = Running
      BY <2>1 DEF tables, Running, Rows
    <3>2. \A y \in InFlight : y \in InFlight' /\ execs'[y].row = execs[y].row
      BY <1>d, <2>3 DEF InFlight, IdleExec
    <3>3. QED
      BY <1>e, <3>1, <3>2 DEF RunningIsInFlight
  <2>9. QED
    BY <1>g, <2>3, <2>6, <2>7, <2>8
<1>4. CASE Saved(x)
  <2>1. Takes({x}) /\ execs'[x] = IdleExec
    BY <1>4, <1>d DEF Saved, Served, Takes
  <2>2. Head(requests) = requests[1] /\ 1 \in DOMAIN requests /\ Head(requests).from = x
        /\ Head(requests) \in Requests
    BY <1>a, <2>1, TakesType
  <2>3. Head(requests).op = "update"
    BY <1>a, <1>4, <2>2, ClientsAssumption DEF Saved, Phase, Disciplined, Suits, ExecAwaits
  <2>4. Head(requests).row = execs[x].row
    BY <2>2, <2>3 DEF FlightInv, Updates
  <2>5. UpdateExecution(execs[x].row, Head(requests).status)
    BY <1>c, <2>1, <2>3, <2>4 DEF Takes, Statement, Reply
  <2>6. Head(requests).status \in Ends /\ Head(requests).status \in RowStatus
    BY <2>2, <2>3 DEF Requests, Ends, RowStatus
  <2>7. execs[x].row \notin Running'
    BY <1>a, <2>5, <2>6, StatusSet DEF UpdateExecution, Running, Ends
  <2>8. Running' \subseteq Running
    BY <1>a, <2>1, <2>3, RunningShrinks
  <2>9. \A i \in Running' : \E y \in InFlight' : execs'[y].row = i
    BY <1>d, <1>e, <2>7, <2>8, CarriersStay
  <2>10. \A q \in fresh : q.op # "update"
    BY <2>1 DEF ExecMoves, ExecAwaits, IdleExec
  <2>11. QED
    BY <1>g, <2>1, <2>9, <2>10, UpdatesMove DEF IdleExec
<1>5. QED
  BY <1>b, <1>1, <1>2, <1>3, <1>4

LEMMA NextFlight ==
    ASSUME StoreInv, InitInv, InitInv', FlightInv, Interruptions = {}, [Next]_vars
    PROVE  FlightInv'
<1>a. /\ QueueInv /\ Typed /\ Disciplined /\ QuietEarly
      /\ requests \in Seq(Requests) /\ requests' \in Seq(Requests)
  <2>1. QueueInv /\ Typed /\ Disciplined /\ QuietEarly
    BY DEF StoreInv, QueueInv
  <2>2. QED
    BY <2>1, NextTyped DEF Typed
\* The queue moves on without the executions.
<1>b. ASSUME NEW d \in {0, 1}, NEW fresh, Shape(d, fresh), UNCHANGED execs,
             \A q \in fresh : q.op # "update" /\ q.from # "nobody"
      PROVE  /\ \A k \in DOMAIN requests' : requests'[k].from # "nobody"
             /\ \A k \in Updates' : requests'[k].row = execs'[requests'[k].from].row
  BY <1>a, <1>b, ShapeMembers DEF FlightInv, Updates
<1>c. ASSUME NEW from, Takes(from), from \cap Executions = {}, "nobody" \notin from
      PROVE  Running' \subseteq Running
  <2>1. Head(requests) = requests[1] /\ 1 \in DOMAIN requests /\ Head(requests).from \in from
    BY <1>a, <1>c, TakesType
  <2>2. Head(requests).op # "log"
    BY <1>a, <1>c, <2>1 DEF Disciplined, Suits, LifeAwaits
  <2>3. QED
    BY <1>a, <1>c, <2>2, RunningShrinks
<1>1. CASE UNCHANGED vars
  BY <1>1 DEF vars, storeVars, tables, lifeVars, FlightInv, RunningIsInFlight, Running, Rows,
     InFlight, Updates
<1>2. CASE Crash
  BY <1>2 DEF Crash, FlightInv, RunningIsInFlight, InFlight, IdleExec, Updates, Initialized
<1>3. ASSUME NEW x \in Executions, NEW d \in {0, 1}, NEW fresh,
             ExecMoves(x, d, fresh), ExecStep(x), ~CancelAwait(x), ~WriteTimesOut(x)
      PROVE  FlightInv'
  BY <1>3, ExecKeepsFlight
<1>4. ASSUME NEW d \in {0, 1}, NEW fresh, LifeMoves(d, fresh), Boot \/ LifeStep
      PROVE  FlightInv'
  <2>1. InFlight = {} /\ UNCHANGED execs
    BY <1>4 DEF LifeMoves, FlightInv, Boot, LifeStep, Connect, Migrated, InitFlushed, Healed,
       Loaded, Run, RunFlushed, RunEnds, WritesSettled, Pruned, Close, CloseFlushed,
       Disconnect, Closed
  <2>2. /\ \A k \in DOMAIN requests' : requests'[k].from # "nobody"
        /\ \A k \in Updates' : requests'[k].row = execs'[requests'[k].from].row
    <3>1. \A q \in fresh : q.op # "update" /\ q.from # "nobody"
      BY <1>4 DEF LifeMoves, LifeAwaits
    <3>2. QED
      BY <1>4, <1>b, <3>1 DEF LifeMoves
  <2>3. RunningIsInFlight'
    <3>1. CASE life' = "loading"
      BY <3>1 DEF InitInv, RunningIsInFlight
    <3>2. CASE life' # "loading" /\ life' \in Initialized \cup {"closed"}
      <4>1. life \in Initialized \cup {"loading"}
        BY <1>4, <3>2 DEF Boot, LifeStep, Connect, Migrated, InitFlushed, Healed,
           Loaded, Run, RunFlushed, RunEnds, WritesSettled, Pruned, Close, CloseFlushed,
           Disconnect, Closed, Await, Flush, AwaitWrites, Initialized
      <4>2. Running = {}
        BY <2>1, <4>1 DEF FlightInv, RunningIsInFlight
      <4>3. Running' \subseteq Running
        BY <1>4, <1>c, ClientsAssumption DEF LifeMoves, tables, Running, Rows
      <4>4. QED
        BY <4>2, <4>3 DEF RunningIsInFlight
    <3>3. QED
      BY <3>1, <3>2 DEF RunningIsInFlight
  <2>4. QED
    BY <2>1, <2>2, <2>3 DEF FlightInv, InFlight
<1>5. CASE Serves
  <2>1. UNCHANGED <<execs, life>> /\ Shape(1, {}) /\ Takes({"write", "restore"})
    <3>1. Takes({"write", "restore", "nobody"})
      BY <1>5 DEF Serves
    <3>2. Head(requests).from # "nobody"
      BY <1>a, <3>1, TakesType DEF FlightInv
    <3>3. QED
      BY <1>5, <3>1, <3>2 DEF Serves, Takes
  <2>2. Running' \subseteq Running
    BY <1>c, <2>1, ClientsAssumption
  <2>3. RunningIsInFlight'
    BY <2>1, <2>2 DEF FlightInv, RunningIsInFlight, InFlight
  <2>4. QED
    BY <1>b, <2>1, <2>3 DEF FlightInv, InFlight
<1>6. ASSUME NEW fresh, Calls(fresh) PROVE FlightInv'
  <2>1. UNCHANGED <<execs, life>> /\ Shape(0, fresh) /\ Running' = Running
    BY <1>6 DEF Calls, tables, Running, Rows
  <2>2. \A q \in fresh : q.op # "update" /\ q.from # "nobody"
    BY <1>6 DEF Calls
  <2>3. RunningIsInFlight'
    BY <2>1 DEF FlightInv, RunningIsInFlight, InFlight
  <2>4. QED
    BY <1>b, <2>1, <2>2, <2>3 DEF FlightInv, InFlight
<1>7. QED
  BY <1>a, <1>1, <1>2, <1>3, <1>4, <1>5, <1>6, StepCases

\* RunningIsInFlight: with no cancellations, timeouts or threads left behind, a
\* row that reads "running" after init() has an execution that will settle it.
THEOREM RunningIsInFlightAlways ==
    ASSUME Interruptions = {}
    PROVE  Spec => []RunningIsInFlight
<1>1. Init => InitInv /\ FlightInv
  <2> SUFFICES ASSUME Init PROVE InitInv /\ FlightInv
    OBVIOUS
  <2>1. \A x \in Executions : execs[x] = IdleExec
    BY DEF Init
  <2>2. QED
    BY <2>1 DEF Init, StoreInit, InitInv, FlightInv, RunningIsInFlight, InFlight, IdleExec,
       Updates, Running, Rows, Initialized
<1>2. StoreInv /\ InitInv /\ [Next]_vars => InitInv'
  BY NextInit
<1>3. StoreInv /\ InitInv /\ InitInv' /\ FlightInv /\ [Next]_vars => FlightInv'
  BY NextFlight
<1>4. FlightInv => RunningIsInFlight
  BY DEF FlightInv
<1>5. QED
  BY <1>1, <1>2, <1>3, <1>4, OneSettlesARow, PTL DEF Spec
=============================================================================
