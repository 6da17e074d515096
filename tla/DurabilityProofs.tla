--------------------------- MODULE DurabilityProofs ---------------------------
(***************************************************************************)
(* More theorems about Persistence: a job that is registered has its row   *)
(* once the writes are done (Durability), and every variable has its type. *)
(*                                                                         *)
(* A write passes through three queues: pending, background and requests.  *)
(* What becomes of the row of a job is decided by the last write about it  *)
(* in the three of them taken together, or by the table if there is none.  *)
(***************************************************************************)
EXTENDS PersistenceProofs

-----------------------------------------------------------------------------
(***************************************************************************)
(* What the writes in a queue will do to the row of job n.                 *)
(***************************************************************************)
Adds(r, n) == r.from = "write" /\ r.op = "register" /\ r.name = n
Removes(r, n) == r.op = "unregister" /\ r.name = n
NoneRemoves(s, n) == \A k \in DOMAIN s : ~Removes(s[k], n)
LastAdds(s, n) ==
    \E k \in DOMAIN s : Adds(s[k], n) /\ \A l \in DOMAIN s : l > k => ~Removes(s[l], n)

\* The row of n is there once the connection, then everybody, has written.
Stays(n) == LastAdds(requests, n) \/ (NoneRemoves(requests, n) /\ n \in jobTable)
Kept(n) ==
    \/ LastAdds(pending, n)
    \/ NoneRemoves(pending, n) /\ LastAdds(background, n)
    \/ NoneRemoves(pending, n) /\ NoneRemoves(background, n) /\ Stays(n)
OriginalsKept == \A n \in originals : Kept(n)

LEMMA LastOfEmpty ==
    ASSUME NEW n
    PROVE  NoneRemoves(<<>>, n) /\ ~LastAdds(<<>>, n)
  BY DEF NoneRemoves, LastAdds

LEMMA LastOfAppended ==
    ASSUME NEW S, NEW s \in Seq(S), NEW r \in S, NEW n
    PROVE  /\ NoneRemoves(Append(s, r), n) <=> NoneRemoves(s, n) /\ ~Removes(r, n)
           /\ Adds(r, n) => LastAdds(Append(s, r), n)
           /\ LastAdds(s, n) /\ ~Removes(r, n) => LastAdds(Append(s, r), n)
<1> DEFINE t == Append(s, r)
<1>1. /\ Len(s) \in Nat /\ DOMAIN s = 1 .. Len(s) /\ DOMAIN t = 1 .. Len(s) + 1
      /\ \A k \in 1 .. Len(s) : t[k] = s[k]
      /\ t[Len(s) + 1] = r
  BY AppendProperties, LenProperties
<1> HIDE DEF t
<1>2. NoneRemoves(t, n) <=> NoneRemoves(s, n) /\ ~Removes(r, n)
  <2>1. \A k : k \in DOMAIN t <=> k \in DOMAIN s \/ k = Len(s) + 1
    BY <1>1
  <2>2. QED
    BY <1>1, <2>1 DEF NoneRemoves
<1>3. Adds(r, n) => LastAdds(t, n)
  BY <1>1 DEF LastAdds
<1>4. LastAdds(s, n) /\ ~Removes(r, n) => LastAdds(t, n)
  BY <1>1 DEF LastAdds
<1>5. QED
  BY <1>2, <1>3, <1>4 DEF t

LEMMA LastOfTail ==
    ASSUME NEW S, NEW s \in Seq(S), s # <<>>, NEW n
    PROVE  /\ NoneRemoves(s, n) => NoneRemoves(Tail(s), n) /\ ~Removes(Head(s), n)
           /\ LastAdds(s, n) => \/ LastAdds(Tail(s), n)
                                \/ Adds(Head(s), n) /\ NoneRemoves(Tail(s), n)
<1> DEFINE t == Tail(s)
           first == Head(s)
<1>1. /\ Len(s) \in Nat /\ Len(s) >= 1 /\ DOMAIN s = 1 .. Len(s)
      /\ DOMAIN t = 1 .. Len(s) - 1
      /\ \A k \in 1 .. Len(s) - 1 : t[k] = s[k + 1]
      /\ first = s[1]
  BY HeadTailProperties, LenProperties, EmptySeq
<1> HIDE DEF t, first
<1>2. \A k \in DOMAIN t : k \in Nat /\ k >= 1 /\ k + 1 \in DOMAIN s /\ t[k] = s[k + 1]
  BY <1>1
<1>3. \A k \in DOMAIN s : k # 1 => k - 1 \in DOMAIN t /\ t[k - 1] = s[k]
  BY <1>1
<1>4. NoneRemoves(s, n) => NoneRemoves(t, n) /\ ~Removes(first, n)
  BY <1>1, <1>2 DEF NoneRemoves
<1>5. ASSUME LastAdds(s, n) PROVE LastAdds(t, n) \/ (Adds(first, n) /\ NoneRemoves(t, n))
  <2>1. PICK k \in DOMAIN s : /\ Adds(s[k], n)
                              /\ \A l \in DOMAIN s : l > k => ~Removes(s[l], n)
    BY <1>5 DEF LastAdds
  <2>2. CASE k = 1
    BY <1>1, <1>2, <2>1, <2>2 DEF NoneRemoves
  <2>3. CASE k # 1
    <3>1. k - 1 \in DOMAIN t /\ Adds(t[k - 1], n)
      BY <1>3, <2>1, <2>3
    <3>2. \A l \in DOMAIN t : l > k - 1 => ~Removes(t[l], n)
      BY <1>1, <1>2, <2>1
    <3>3. QED
      BY <3>1, <3>2 DEF LastAdds
  <2>4. QED
    BY <2>2, <2>3
<1>6. QED
  BY <1>4, <1>5 DEF t, first

LEMMA LastOfBoth ==
    ASSUME NEW S, NEW s \in Seq(S), NEW t \in Seq(S), NEW n
    PROVE  /\ NoneRemoves(s, n) /\ NoneRemoves(t, n) => NoneRemoves(s \o t, n)
           /\ LastAdds(t, n) => LastAdds(s \o t, n)
           /\ LastAdds(s, n) /\ NoneRemoves(t, n) => LastAdds(s \o t, n)
<1> DEFINE u == s \o t
<1>1. /\ Len(s) \in Nat /\ DOMAIN s = 1 .. Len(s)
      /\ Len(t) \in Nat /\ DOMAIN t = 1 .. Len(t)
      /\ DOMAIN u = 1 .. (Len(s) + Len(t))
      /\ \A k \in 1 .. (Len(s) + Len(t)) : u[k] = IF k <= Len(s) THEN s[k] ELSE t[k - Len(s)]
  BY ConcatProperties, LenProperties
<1> HIDE DEF u
<1>2. \A k \in DOMAIN u : \/ k \in DOMAIN s /\ u[k] = s[k]
                          \/ k > Len(s) /\ k - Len(s) \in DOMAIN t /\ u[k] = t[k - Len(s)]
  BY <1>1
<1>3. \A k \in DOMAIN s : k \in DOMAIN u /\ u[k] = s[k] /\ k <= Len(s)
  BY <1>1
<1>4. \A k \in DOMAIN t : k + Len(s) \in DOMAIN u /\ u[k + Len(s)] = t[k]
  BY <1>1
<1>5. NoneRemoves(s, n) /\ NoneRemoves(t, n) => NoneRemoves(u, n)
  BY <1>2 DEF NoneRemoves
<1>6. ASSUME LastAdds(t, n) PROVE LastAdds(u, n)
  <2>1. PICK k \in DOMAIN t : /\ Adds(t[k], n)
                              /\ \A l \in DOMAIN t : l > k => ~Removes(t[l], n)
    BY <1>6 DEF LastAdds
  <2>2. ASSUME NEW l \in DOMAIN u, l > k + Len(s) PROVE ~Removes(u[l], n)
    <3>1. l - Len(s) \in DOMAIN t /\ u[l] = t[l - Len(s)]
      BY <1>1, <1>2, <2>2
    <3>2. l - Len(s) > k
      BY <1>1, <2>2
    <3>3. QED
      BY <2>1, <3>1, <3>2
  <2>3. QED
    BY <1>4, <2>1, <2>2 DEF LastAdds
<1>7. ASSUME LastAdds(s, n), NoneRemoves(t, n) PROVE LastAdds(u, n)
  <2>1. PICK k \in DOMAIN s : /\ Adds(s[k], n)
                              /\ \A l \in DOMAIN s : l > k => ~Removes(s[l], n)
    BY <1>7 DEF LastAdds
  <2>2. \A l \in DOMAIN u : l > k => ~Removes(u[l], n)
    BY <1>2, <1>7, <2>1 DEF NoneRemoves
  <2>3. QED
    BY <1>3, <2>1, <2>2 DEF LastAdds
<1>8. QED
  BY <1>5, <1>6, <1>7 DEF u

-----------------------------------------------------------------------------
(***************************************************************************)
(* How many statements of a kind are on the queue of the connection.       *)
(***************************************************************************)
At(s, R) == {k \in DOMAIN s : s[k] \in R}

LEMMA AtFinite ==
    ASSUME NEW S, NEW s \in Seq(S), NEW R
    PROVE  IsFiniteSet(At(s, R)) /\ Cardinality(At(s, R)) \in Nat
<1>1. Len(s) \in Nat /\ DOMAIN s = 1 .. Len(s)
  BY LenProperties
<1>a. IsFiniteSet(1 .. Len(s)) /\ At(s, R) \subseteq 1 .. Len(s)
  BY <1>1, FS_Interval DEF At
<1>2. QED
  BY <1>a, FS_Subset, FS_CardinalityType

LEMMA AtAppended ==
    ASSUME NEW S, NEW s \in Seq(S), NEW R, NEW r \in S
    PROVE  Cardinality(At(Append(s, r), R))
             = Cardinality(At(s, R)) + (IF r \in R THEN 1 ELSE 0)
<1> DEFINE t == Append(s, r)
<1>1. /\ Len(s) \in Nat /\ DOMAIN s = 1 .. Len(s) /\ DOMAIN t = 1 .. (Len(s) + 1)
      /\ \A k \in 1 .. Len(s) : t[k] = s[k]
      /\ t[Len(s) + 1] = r
  BY AppendProperties, LenProperties
<1> HIDE DEF t
<1>2. At(t, R) = IF r \in R THEN At(s, R) \cup {Len(s) + 1} ELSE At(s, R)
  BY <1>1 DEF At
<1>3. Len(s) + 1 \notin At(s, R)
  BY <1>1 DEF At
<1>4. IsFiniteSet(At(s, R)) /\ Cardinality(At(s, R)) \in Nat
  BY AtFinite
<1>5. Cardinality(At(s, R) \cup {Len(s) + 1}) = Cardinality(At(s, R)) + 1
  BY <1>3, <1>4, FS_AddElement
<1>6. QED
  BY <1>2, <1>4, <1>5 DEF t

LEMMA AtTail ==
    ASSUME NEW S, NEW s \in Seq(S), NEW R, s # <<>>
    PROVE  Cardinality(At(s, R))
             = Cardinality(At(Tail(s), R)) + (IF Head(s) \in R THEN 1 ELSE 0)
<1> DEFINE t == Tail(s)
           first == Head(s)
           Moved == {k \in At(s, R) : k # 1}
           f == [k \in At(t, R) |-> k + 1]
<1>1. /\ Len(s) \in Nat /\ Len(s) >= 1 /\ DOMAIN s = 1 .. Len(s)
      /\ DOMAIN t = 1 .. (Len(s) - 1) /\ t \in Seq(S)
      /\ \A k \in 1 .. (Len(s) - 1) : t[k] = s[k + 1]
      /\ first = s[1]
  BY HeadTailProperties, LenProperties, EmptySeq
<1>2. IsFiniteSet(At(t, R)) /\ Cardinality(At(t, R)) \in Nat
  BY <1>1, AtFinite
<1>3. IsFiniteSet(At(s, R)) /\ IsFiniteSet(Moved)
  BY AtFinite, FS_Subset
<1> HIDE DEF t, first
<1>4. /\ \A k \in At(t, R) : k \in Int /\ k + 1 \in Moved
      /\ \A k \in Moved : k \in Int /\ k - 1 \in At(t, R)
  BY <1>1 DEF At
<1>5. f \in Bijection(At(t, R), Moved)
  <2>1. f \in [At(t, R) -> Moved]
    BY <1>4
  <2>2. \A k, l \in At(t, R) : f[k] = f[l] => k = l
    BY <1>4
  <2>3. \A k \in Moved : f[k - 1] = k
    BY <1>4
  <2>4. f \in Injection(At(t, R), Moved)
    BY <2>1, <2>2 DEF Injection, IsInjective
  <2>5. f \in Surjection(At(t, R), Moved)
    BY <1>4, <2>1, <2>3 DEF Surjection
  <2>6. QED
    BY <2>4, <2>5 DEF Bijection
<1> HIDE DEF f
<1>6. Cardinality(At(t, R)) = Cardinality(Moved)
  BY <1>2, <1>5, FS_Bijection DEF ExistsBijection
<1>7. CASE first \in R
  <2>1. At(s, R) = Moved \cup {1} /\ 1 \notin Moved
    BY <1>1, <1>7 DEF At
  <2>2. Cardinality(At(s, R)) = Cardinality(Moved) + 1
    BY <1>3, <2>1, FS_AddElement
  <2>3. QED
    BY <1>6, <1>7, <2>2 DEF t, first
<1>8. CASE first \notin R
  <2>1. At(s, R) = Moved
    BY <1>1, <1>8 DEF At
  <2> HIDE DEF Moved
  <2>2. Cardinality(At(s, R)) = Cardinality(At(t, R)) + 0
    BY <1>2, <1>6, <2>1
  <2>3. QED
    BY <1>8, <2>2 DEF t, first
<1>9. QED
  BY <1>7, <1>8 DEF first

\* Background writes.
FromWrite == {r \in Requests : r.from = "write"}
WritesOn(s) == At(s, FromWrite)

LEMMA SubmittedIsAt ==
    ASSUME NEW s \in Seq(Requests)
    PROVE  {k \in DOMAIN s : s[k].from = "write"} = WritesOn(s)
<1>1. \A k \in DOMAIN s : s[k] \in Requests
  BY ElementOfSeq, LenProperties
<1>2. QED
  BY <1>1 DEF WritesOn, At, FromWrite

LEMMA WritesOnFinite ==
    ASSUME NEW s \in Seq(Requests)
    PROVE  IsFiniteSet(WritesOn(s)) /\ Cardinality(WritesOn(s)) \in Nat
  BY AtFinite DEF WritesOn

LEMMA WritesOnAppended ==
    ASSUME NEW s \in Seq(Requests), NEW r \in Requests
    PROVE  Cardinality(WritesOn(Append(s, r)))
             = Cardinality(WritesOn(s)) + (IF r.from = "write" THEN 1 ELSE 0)
<1>1. r \in FromWrite <=> r.from = "write"
  BY DEF FromWrite
<1>2. Cardinality(WritesOn(Append(s, r)))
        = Cardinality(WritesOn(s)) + (IF r \in FromWrite THEN 1 ELSE 0)
  BY AtAppended DEF WritesOn
<1>3. QED
  BY <1>1, <1>2

LEMMA WritesOnTail ==
    ASSUME NEW s \in Seq(Requests), s # <<>>
    PROVE  Cardinality(WritesOn(s))
             = Cardinality(WritesOn(Tail(s))) + (IF Head(s).from = "write" THEN 1 ELSE 0)
<1>1. Head(s) \in FromWrite <=> Head(s).from = "write"
  BY HeadTailProperties DEF FromWrite
<1>2. Cardinality(WritesOn(s))
        = Cardinality(WritesOn(Tail(s))) + (IF Head(s) \in FromWrite THEN 1 ELSE 0)
  BY AtTail DEF WritesOn
<1>3. QED
  BY <1>1, <1>2

-----------------------------------------------------------------------------
(***************************************************************************)
(* Steps that neither submit nor serve a background write.                 *)
(***************************************************************************)
Submits(s) ==
    \/ requests' = s
    \/ \E r \in Requests : /\ r.from \notin {"write", "nobody"} /\ r.op # "unregister"
                           /\ r.from = "restore" => RestoreJobs
                           /\ requests' = Append(s, r)
LeavesWrites ==
    \/ Submits(requests) /\ UNCHANGED tables
    \/ /\ Submits(Tail(requests))
       /\ Takes(Client \ {"write"})

LEMMA ExecLeavesWrites ==
    ASSUME QueueInv, NEW x \in Executions, ExecStep(x), ~Abandon(x)
    PROVE  LeavesWrites
<1>a. /\ execs[x].job \in SomeName /\ execs[x].row \in Nat
      /\ x \in Client \ {"write", "restore", "nobody"}
  BY ClientsAssumption DEF QueueInv, Typed, Client
<1>b. \A n \in SomeName : \A op \in {"log", "register"} :
        /\ About(op, n, x) \in Requests /\ About(op, n, x).from = x
        /\ About(op, n, x).op # "unregister"
  BY <1>a, AboutType
<1>1. ASSUME NEW n \in Names, Begin(x, n) PROVE LeavesWrites
  <2>1. n \in SomeName
    BY DEF SomeName
  <2>2. QED
    BY <1>1, <1>a, <1>b, <2>1 DEF Begin, LeavesWrites, Submits
<1>2. CASE Logged(x) \/ LogFails(x) \/ Saved(x)
  BY <1>2, <1>a DEF Logged, LogFails, Saved, Served, LeavesWrites, Submits, Takes
<1>3. CASE LogRefused(x) \/ Reregistered(x)
  BY <1>3, <1>a, <1>b DEF LogRefused, Reregistered, Served, LeavesWrites, Submits, Takes
<1>4. CASE JobEnds(x) \/ CancelJob(x)
  <2>1. PICK status \in Ends : Save(x, status) /\ UNCHANGED tables
    BY <1>4 DEF JobEnds, CancelJob, Ends
  <2>2. /\ Update(execs[x].row, status, x) \in Requests
        /\ Update(execs[x].row, status, x).from = x
        /\ Update(execs[x].row, status, x).op # "unregister"
    BY <1>a, UpdateType
  <2>3. QED
    BY <1>a, <2>1, <2>2 DEF Save, LeavesWrites, Submits
<1>5. QED
  BY <1>1, <1>2, <1>3, <1>4 DEF ExecStep, CancelAwait, WriteTimesOut

LEMMA LifeLeavesWrites ==
    ASSUME QueueInv, Boot \/ LifeStep
    PROVE  LeavesWrites
<1>a. "life" \in Client \ {"write"}
  BY DEF Client
<1>b. \A op \in {"migrate", "heal", "history", "prune", "close"} :
        /\ Plain(op, "life") \in Requests /\ Plain(op, "life").from = "life"
        /\ Plain(op, "life").op # "unregister"
  BY PlainType DEF Op
<1>1. CASE Connect \/ InitFlushed \/ WritesSettled \/ Disconnect
  BY <1>1, <1>b DEF Connect, InitFlushed, WritesSettled, Disconnect, Await, LeavesWrites,
     Submits
<1>2. CASE Migrated \/ Healed
  BY <1>2, <1>a, <1>b DEF Migrated, Healed, Await, Served, LeavesWrites, Submits, Takes
<1>3. CASE Loaded \/ Pruned \/ Closed
  BY <1>3, <1>a DEF Loaded, Pruned, Closed, Served, LeavesWrites, Submits, Takes
<1>4. CASE Boot \/ Run \/ RunFlushed \/ RunEnds \/ Close \/ CloseFlushed
  BY <1>4 DEF Boot, Run, RunFlushed, RunEnds, Close, CloseFlushed, storeVars, LeavesWrites,
     Submits
<1>5. QED
  BY <1>1, <1>2, <1>3, <1>4 DEF LifeStep

LEMMA CallLeavesWrites ==
    ASSUME QueueInv, ApiStep \/ RegisterRestored \/ ServeNobody
    PROVE  LeavesWrites
<1>1. ASSUME NEW n, NEW off, Register(n, off) \/ RemoveJob(n, off) \/ RemoveJobRaises(n)
      PROVE  LeavesWrites
  BY <1>1 DEF Register, RemoveJob, RemoveJobRaises, storeVars, LeavesWrites, Submits
<1>2. CASE RestoreJobs
  <2>1. /\ Plain("list", "restore") \in Requests /\ Plain("list", "restore").from = "restore"
        /\ Plain("list", "restore").op # "unregister"
    BY PlainType DEF Op
  <2>2. QED
    BY <1>2, <2>1 DEF RestoreJobs, LeavesWrites, Submits
<1>3. CASE RegisterRestored \/ ServeNobody
  BY <1>3 DEF RegisterRestored, ServeNobody, Served, LeavesWrites, Submits, Takes, Client
<1>4. QED
  BY <1>1, <1>2, <1>3 DEF ApiStep

\* What the head of the queue does to the row of n.
LEMMA StatementKeeps ==
    ASSUME NEW r, Statement(r), NEW n
    PROVE  /\ n \in jobTable /\ ~Removes(r, n) => n \in jobTable'
           /\ Adds(r, n) /\ Reply(r) = "ok" => n \in jobTable'
  BY DEF Statement, tables, Migrate, RegisterJob, UnregisterJob, LogExecution,
     UpdateExecution, HealInterrupted, Prune, Removes, Adds

LEMMA WritesLeft ==
    ASSUME QueueInv, LeavesWrites
    PROVE  /\ Cardinality(Submitted)' = Cardinality(Submitted)
           /\ Restoring' => Restoring \/ RestoreJobs
           /\ \A n : Stays(n) => Stays(n)'
<1>a. requests \in Seq(Requests) /\ Typed /\ Disciplined
  BY DEF QueueInv, Typed
<1>b. Submitted = WritesOn(requests) /\ Submitted' = WritesOn(requests')
  <2>1. requests' \in Seq(Requests)
    BY <1>a, HeadTailProperties, AppendProperties DEF LeavesWrites, Submits, Takes
  <2>2. QED
    BY <1>a, <2>1, SubmittedIsAt DEF Submitted
\* The statement that is served, if any.
<1>1. PICK s \in Seq(Requests) :
        /\ Submits(s)
        /\ Cardinality(WritesOn(s)) = Cardinality(WritesOn(requests))
        /\ \A k \in DOMAIN s : \E l \in DOMAIN requests : s[k] = requests[l]
        /\ \A n : Stays(n) => LastAdds(s, n) \/ (NoneRemoves(s, n) /\ n \in jobTable')
  <2>1. CASE Submits(requests) /\ UNCHANGED tables
    BY <1>a, <2>1 DEF Stays, tables
  <2>2. CASE Submits(Tail(requests)) /\ Takes(Client \ {"write"})
    <3> DEFINE r == Head(requests)
    <3>1. /\ requests # <<>> /\ Tail(requests) \in Seq(Requests)
          /\ r = requests[1] /\ 1 \in DOMAIN requests /\ r.from # "write" /\ Statement(r)
      BY <1>a, <2>2, TakesType, HeadTailProperties DEF Takes
    <3>2. r.op # "unregister"
      BY <1>a, <3>1 DEF Disciplined, Suits, ExecAwaits, LifeAwaits
    <3>3. Cardinality(WritesOn(Tail(requests))) = Cardinality(WritesOn(requests))
      <4>1. Cardinality(WritesOn(requests)) = Cardinality(WritesOn(Tail(requests))) + 0
        BY <1>a, <3>1, WritesOnTail
      <4>2. Cardinality(WritesOn(Tail(requests))) \in Nat
        BY <3>1, WritesOnFinite
      <4>3. QED
        BY <4>1, <4>2
    <3>4. \A k \in DOMAIN Tail(requests) :
              \E l \in DOMAIN requests : Tail(requests)[k] = requests[l]
      <4>1. /\ Len(requests) \in Nat /\ DOMAIN requests = 1 .. Len(requests)
            /\ DOMAIN Tail(requests) = 1 .. (Len(requests) - 1)
            /\ \A k \in 1 .. (Len(requests) - 1) : Tail(requests)[k] = requests[k + 1]
        BY <1>a, <3>1, HeadTailProperties, LenProperties
      <4>2. \A k \in 1 .. (Len(requests) - 1) : k + 1 \in DOMAIN requests
        BY <4>1
      <4>3. QED
        BY <4>1, <4>2
    <3>5. ASSUME NEW n, Stays(n)
          PROVE  \/ LastAdds(Tail(requests), n)
                 \/ NoneRemoves(Tail(requests), n) /\ n \in jobTable'
      <4>1. ~Adds(r, n) /\ ~Removes(r, n)
        BY <3>1, <3>2 DEF Adds, Removes
      <4>2. n \in jobTable => n \in jobTable'
        BY <3>1, <4>1, StatementKeeps
      <4> HIDE DEF r
      <4>3. /\ NoneRemoves(requests, n) => NoneRemoves(Tail(requests), n)
            /\ LastAdds(requests, n) =>
                  LastAdds(Tail(requests), n)
                    \/ (Adds(r, n) /\ NoneRemoves(Tail(requests), n))
        BY <1>a, <3>1, LastOfTail DEF r
      <4>4. QED
        BY <3>5, <4>1, <4>2, <4>3 DEF Stays
    <3>6. QED
      BY <2>2, <3>1, <3>3, <3>4, <3>5
  <2>3. QED
    BY <2>1, <2>2 DEF LeavesWrites
<1>2. CASE requests' = s
  <2>1. Cardinality(Submitted)' = Cardinality(Submitted)
    BY <1>1, <1>2, <1>b
  <2>2. QED
    BY <1>1, <1>2, <2>1 DEF Restoring, Stays
<1>3. CASE requests' # s
  <2>1. PICK r \in Requests : /\ r.from \notin {"write", "nobody"} /\ r.op # "unregister"
                              /\ r.from = "restore" => RestoreJobs
                              /\ requests' = Append(s, r)
    BY <1>1, <1>3 DEF Submits
  <2>2. Cardinality(WritesOn(requests')) = Cardinality(WritesOn(s))
    BY <2>1, WritesOnAppended, WritesOnFinite
  <2>3. Restoring' => Restoring \/ RestoreJobs
    <3>1. /\ Len(s) \in Nat /\ DOMAIN s = 1 .. Len(s) /\ DOMAIN requests' = 1 .. (Len(s) + 1)
          /\ \A k \in 1 .. Len(s) : requests'[k] = s[k]
          /\ requests'[Len(s) + 1] = r
      BY <2>1, AppendProperties, LenProperties
    <3>2. \A k \in DOMAIN requests' : k \in DOMAIN s \/ k = Len(s) + 1
      BY <3>1
    <3>3. QED
      BY <1>1, <2>1, <3>1, <3>2 DEF Restoring
  <2>4. \A n : Stays(n) => Stays(n)'
    <3>1. \A n : ~Removes(r, n)
      BY <2>1 DEF Removes
    <3>2. \A n : /\ NoneRemoves(s, n) => NoneRemoves(requests', n)
                 /\ LastAdds(s, n) => LastAdds(requests', n)
      BY <2>1, <3>1, LastOfAppended
    <3>3. QED
      BY <1>1, <3>2 DEF Stays
  <2>5. QED
    BY <1>1, <1>b, <2>2, <2>3, <2>4
<1>4. QED
  BY <1>2, <1>3

LEMMA AbandonLeavesWrites ==
    ASSUME QueueInv, NEW x \in Executions, Abandon(x)
    PROVE  /\ Submitted' = Submitted
           /\ Restoring' => Restoring
           /\ \A n : Stays(n) => Stays(n)'
<1>1. /\ DOMAIN requests' = DOMAIN requests /\ jobTable' = jobTable
      /\ \A k \in DOMAIN requests :
            /\ requests[k].from # x => requests'[k] = requests[k]
            /\ requests[k].from = x => requests'[k] = [requests[k] EXCEPT !.from = "nobody"]
  BY DEF Abandon, tables
<1>2. x \notin {"write", "restore", "nobody"}
  BY ClientsAssumption
<1>3. \A k \in DOMAIN requests : requests[k] \in Requests
  BY ElementOfSeq, LenProperties DEF QueueInv, Typed
<1>4. \A k \in DOMAIN requests :
        /\ requests'[k].op = requests[k].op /\ requests'[k].name = requests[k].name
        /\ requests[k].from # x => requests'[k].from = requests[k].from
        /\ requests[k].from = x => requests'[k].from = "nobody"
  BY <1>1, <1>3 DEF Requests
<1>5. Submitted' = Submitted /\ (Restoring' => Restoring)
  BY <1>1, <1>2, <1>4 DEF Submitted, Restoring
<1>6. ASSUME NEW n, Stays(n) PROVE Stays(n)'
  BY <1>1, <1>2, <1>4, <1>6 DEF Stays, LastAdds, NoneRemoves, Adds, Removes
<1>7. QED
  BY <1>5, <1>6

-----------------------------------------------------------------------------
(***************************************************************************)
(* Writes that are outstanding.                                            *)
(***************************************************************************)
LEMMA OutstandingType ==
    ASSUME Typed
    PROVE  /\ Len(background) \in Nat /\ Cardinality(Submitted) \in Nat
           /\ Outstanding(background) = Len(background) + Cardinality(Submitted)
           /\ Outstanding(background) = 0 <=> background = <<>> /\ Submitted = {}
<1>1. IsFiniteSet(Submitted) /\ Cardinality(Submitted) \in Nat
  BY WritesOnFinite, SubmittedIsAt DEF Typed, Submitted
<1>2. Cardinality(Submitted) = 0 <=> Submitted = {}
  BY <1>1, FS_EmptySet
<1>3. Len(background) \in Nat /\ (Len(background) = 0 <=> background = <<>>)
  BY LenProperties, EmptySeq DEF Typed
<1>4. QED
  BY <1>1, <1>2, <1>3 DEF Outstanding

\* A write starts.
LEMMA WriteStarts ==
    ASSUME QueueInv, StartWrite
    PROVE  /\ connection = "open" => Outstanding(background)' = Outstanding(background)
           /\ connection # "open" => Outstanding(background)' = Outstanding(background) - 1
           /\ Outstanding(background) > 0
           /\ Restoring' => Restoring
<1>a. /\ requests \in Seq(Requests) /\ background \in Seq(Writes) /\ background # <<>> /\ Typed
      /\ background' = Tail(background)
  BY DEF QueueInv, Typed, StartWrite
<1>b. Submitted = WritesOn(requests) /\ Submitted' = WritesOn(requests')
  <2>1. Head(background) \in Requests
    BY <1>a, HeadTailProperties DEF Writes
  <2>2. requests' \in Seq(Requests)
    <3>1. requests' = requests \/ requests' = Append(requests, Head(background))
      BY DEF StartWrite
    <3>2. QED
      BY <1>a, <2>1, <3>1, AppendProperties
  <2>3. QED
    BY <1>a, <2>2, SubmittedIsAt DEF Submitted
<1>1. Head(background) \in Writes /\ Len(background') = Len(background) - 1
      /\ Len(background) \in Nat
  BY <1>a, HeadTailProperties, LenProperties
<1>2. PICK w \in Requests : w = Head(background) /\ w.from = "write"
  BY <1>1 DEF Writes
<1>3. /\ Outstanding(background) = Len(background) + Cardinality(Submitted)
      /\ Outstanding(background) > 0 /\ Cardinality(Submitted) \in Nat
  BY <1>a, OutstandingType
<1>4. Outstanding(background)' = Len(background') + Cardinality(Submitted')
  BY DEF Outstanding
<1>5. CASE connection = "open"
  <2>1. requests' = Append(requests, w)
    BY <1>2, <1>5 DEF StartWrite
  <2>2. Cardinality(WritesOn(requests')) = Cardinality(WritesOn(requests)) + 1
    BY <1>2, <1>a, <2>1, WritesOnAppended
  <2>3. Restoring' => Restoring
    <3>1. /\ Len(requests) \in Nat /\ DOMAIN requests = 1 .. Len(requests)
          /\ DOMAIN requests' = 1 .. (Len(requests) + 1)
          /\ \A k \in 1 .. Len(requests) : requests'[k] = requests[k]
          /\ requests'[Len(requests) + 1] = w
      BY <1>a, <2>1, AppendProperties, LenProperties
    <3>2. \A k \in DOMAIN requests' : k \in DOMAIN requests \/ k = Len(requests) + 1
      BY <3>1
    <3>3. QED
      BY <1>2, <3>1, <3>2 DEF Restoring
  <2>4. Outstanding(background)' = Outstanding(background)
    BY <1>1, <1>3, <1>4, <1>b, <2>2
  <2>5. QED
    BY <1>3, <1>5, <2>3, <2>4
<1>6. CASE connection # "open"
  <2>1. requests' = requests
    BY <1>6 DEF StartWrite
  <2>2. Outstanding(background)' = Outstanding(background) - 1
    BY <1>1, <1>3, <1>4, <1>b, <2>1
  <2>3. QED
    BY <1>3, <1>6, <2>1, <2>2 DEF Restoring
<1>7. QED
  BY <1>5, <1>6

\* A write ends.
LEMMA WriteEnds ==
    ASSUME QueueInv, EndWrite
    PROVE  /\ Outstanding(background)' = Outstanding(background) - 1
           /\ Outstanding(background) > 0
           /\ Restoring' => Restoring
<1>a. /\ requests \in Seq(Requests) /\ requests # <<>> /\ Typed
      /\ requests' = Tail(requests) /\ Head(requests).from = "write"
      /\ background' = background
  BY DEF QueueInv, Typed, EndWrite, Served
<1>b. Submitted = WritesOn(requests) /\ Submitted' = WritesOn(requests')
  <2>1. requests' \in Seq(Requests)
    BY <1>a, HeadTailProperties
  <2>2. QED
    BY <1>a, <2>1, SubmittedIsAt DEF Submitted
<1>1. /\ Len(requests) \in Nat /\ DOMAIN requests = 1 .. Len(requests)
      /\ DOMAIN requests' = 1 .. (Len(requests) - 1) /\ requests' \in Seq(Requests)
      /\ \A k \in 1 .. (Len(requests) - 1) : requests'[k] = requests[k + 1]
  BY <1>a, HeadTailProperties, LenProperties
<1>2. Cardinality(WritesOn(requests)) = Cardinality(WritesOn(requests')) + 1
  BY <1>a, WritesOnTail
<1>3. Cardinality(WritesOn(requests')) \in Nat
  BY <1>1, WritesOnFinite
<1>4. /\ Outstanding(background) = Len(background) + Cardinality(Submitted)
      /\ Len(background) \in Nat
  BY <1>a, OutstandingType
<1>5. Outstanding(background)' = Len(background') + Cardinality(Submitted')
  BY DEF Outstanding
<1>6. Restoring' => Restoring
  <2>1. \A k \in DOMAIN requests' : k + 1 \in DOMAIN requests /\ requests'[k] = requests[k + 1]
    BY <1>1
  <2>2. QED
    BY <2>1 DEF Restoring
<1>7. /\ Outstanding(background)' = Outstanding(background) - 1
      /\ Outstanding(background) > 0
  BY <1>2, <1>3, <1>4, <1>5, <1>a, <1>b
<1>8. QED
  BY <1>6, <1>7

-----------------------------------------------------------------------------
(***************************************************************************)
(* The count of the writes that a stage awaits.                            *)
(***************************************************************************)
DrainInv == draining \in Nat /\ draining <= Outstanding(background)

LEMMA OutstandingGrows ==
    ASSUME Typed, Typed', Cardinality(Submitted)' = Cardinality(Submitted)
    PROVE  /\ background' = background =>
                Outstanding(background)' = Outstanding(background)
           /\ \A w \in Seq(Writes) : background' = background \o w =>
                /\ Outstanding(background)' = Outstanding(background \o w)
                /\ Outstanding(background)' >= Outstanding(background)
<1>1. Len(background) \in Nat /\ Cardinality(Submitted) \in Nat
  BY OutstandingType
<1>2. \A w \in Seq(Writes) : Len(background \o w) = Len(background) + Len(w) /\ Len(w) \in Nat
  BY ConcatProperties, LenProperties DEF Typed
<1>3. Outstanding(background)' = Len(background') + Cardinality(Submitted)
  BY DEF Outstanding
<1>4. QED
  BY <1>1, <1>2, <1>3 DEF Outstanding

\* Background writes that are scheduled are added at the end.
LEMMA Schedules ==
    ASSUME Typed, NEW w \in Seq(Writes), NEW off, ScheduleWrites(w, off)
    PROVE  \/ background' = background
           \/ connection # "closed" /\ background' = background \o w
  BY DEF ScheduleWrites

LEMMA RestoredWrites ==
    ASSUME Typed, NEW order \in [1 .. Cardinality(jobTable \ originals) -> jobTable \ originals]
    PROVE  [i \in DOMAIN order |-> Write("register", order[i])] \in Seq(Writes)
<1>1. Cardinality(jobTable \ originals) \in Nat
  <2>1. IsFiniteSet(SomeName)
    BY NamesAssumption, FS_AddElement DEF SomeName
  <2>2. QED
    BY <2>1, FS_Subset, FS_CardinalityType DEF Typed
<1>2. \A i \in DOMAIN order : Write("register", order[i]) \in Writes
  BY WriteType DEF Typed
<1> DEFINE writes == [i \in DOMAIN order |-> Write("register", order[i])]
<1>3. writes \in [1 .. Cardinality(jobTable \ originals) -> Writes]
  BY <1>2
<1> HIDE DEF writes
<1>4. writes \in Seq(Writes)
  BY <1>1, <1>3, FunctionIsSeq
<1>5. QED
  BY <1>4 DEF writes

\* What the other steps do to background and draining.
LEMMA DrainKept ==
    ASSUME Typed, Typed', DrainInv, Cardinality(Submitted)' = Cardinality(Submitted),
           \/ background' = background /\ draining' = draining
           \/ \E w \in Seq(Writes) : background' = background \o w /\ draining' = draining
           \/ \E stage : Flush(stage) \/ AwaitWrites(stage)
    PROVE  DrainInv'
<1>1. Outstanding(background)' \in Nat /\ Outstanding(background) \in Nat
  <2>1. Outstanding(background) \in Nat
    BY OutstandingType
  <2>2. Len(background)' \in Nat /\ Cardinality(Submitted)' \in Nat
    BY OutstandingType, LenProperties DEF Typed
  <2>3. QED
    BY <2>1, <2>2 DEF Outstanding
<1>2. CASE background' = background /\ draining' = draining
  BY <1>1, <1>2, OutstandingGrows DEF DrainInv
<1>3. CASE \E w \in Seq(Writes) : background' = background \o w /\ draining' = draining
  BY <1>1, <1>3, OutstandingGrows DEF DrainInv
<1>4. CASE \E stage : Flush(stage)
  <2>1. /\ background' = background \o pending
        /\ draining' = Outstanding(background \o pending)
    BY <1>4 DEF Flush
  <2>2. draining' = Outstanding(background)'
    BY <2>1, OutstandingGrows DEF Typed
  <2>3. QED
    BY <1>1, <2>2 DEF DrainInv
<1>5. CASE \E stage : AwaitWrites(stage)
  <2>1. background' = background /\ draining' = Outstanding(background)
    BY <1>5 DEF AwaitWrites
  <2>2. draining' = Outstanding(background)'
    BY <2>1, OutstandingGrows
  <2>3. QED
    BY <1>1, <2>2 DEF DrainInv
<1>6. QED
  BY <1>2, <1>3, <1>4, <1>5

\* What the steps that neither submit nor serve a write do to them.
LEMMA WritesElsewhere ==
    ASSUME QueueInv,
           \/ ApiStep \/ RegisterRestored \/ ServeNobody \/ Boot \/ LifeStep
           \/ \E x \in Executions : ExecStep(x)
    PROVE  /\ Cardinality(Submitted)' = Cardinality(Submitted)
           /\ \/ background' = background /\ draining' = draining
              \/ \E w \in Seq(Writes) : /\ background' = background \o w
                                        /\ draining' = draining
              \/ \E stage : Flush(stage) \/ AwaitWrites(stage)
<1>a. Typed /\ pending \in Seq(Writes)
  BY DEF QueueInv, Typed
<1>1. ASSUME NEW x \in Executions, ExecStep(x)
      PROVE  Cardinality(Submitted)' = Cardinality(Submitted) /\ UNCHANGED writeVars
  <2>1. UNCHANGED writeVars
    BY <1>1 DEF ExecStep, Begin, Logged, LogRefused, Reregistered, LogFails, JobEnds, Saved,
       CancelJob, CancelAwait, WriteTimesOut, Abandon, UnchangedByExecs
  <2>2. Cardinality(Submitted)' = Cardinality(Submitted)
    <3>1. CASE Abandon(x)
      BY <3>1, AbandonLeavesWrites
    <3>2. CASE ~Abandon(x)
      BY <1>1, <3>2, ExecLeavesWrites, WritesLeft
    <3>3. QED
      BY <3>1, <3>2
  <2>3. QED
    BY <2>1, <2>2
<1>2. CASE Boot \/ LifeStep
  <2>1. Cardinality(Submitted)' = Cardinality(Submitted)
    BY <1>2, LifeLeavesWrites, WritesLeft
  <2>2. \/ background' = background /\ draining' = draining
        \/ \E stage : Flush(stage) \/ AwaitWrites(stage)
    BY <1>2 DEF LifeStep, Boot, Connect, Migrated, InitFlushed, Healed, Loaded, Run, RunFlushed,
       RunEnds, WritesSettled, Pruned, Close, CloseFlushed, Disconnect, Closed, writeVars
  <2>3. QED
    BY <2>1, <2>2
<1>3. CASE ApiStep \/ RegisterRestored \/ ServeNobody
  <2>1. Cardinality(Submitted)' = Cardinality(Submitted)
    BY <1>3, CallLeavesWrites, WritesLeft
  <2>2. CASE RegisterRestored
    <3>1. PICK order \in [1 .. Cardinality(jobTable \ originals) -> jobTable \ originals] :
            \/ ScheduleWrites([i \in DOMAIN order |-> Write("register", order[i])], FALSE)
            \/ UNCHANGED background
      BY <2>2 DEF RegisterRestored
    <3>2. [i \in DOMAIN order |-> Write("register", order[i])] \in Seq(Writes)
      BY <1>a, RestoredWrites
    <3>3. draining' = draining
      BY <2>2 DEF RegisterRestored
    <3>4. QED
      BY <1>a, <2>1, <3>1, <3>2, <3>3, Schedules
  <2>3. ASSUME NEW n \in Names, NEW off, Register(n, off) \/ RemoveJob(n, off)
        PROVE  \E w \in Seq(Writes) :
                  \/ background' = background /\ draining' = draining
                  \/ background' = background \o w /\ draining' = draining
    <3>1. \A op \in {"register", "unregister"} : <<Write(op, n)>> \in Seq(Writes)
      BY WriteType DEF SomeName
    <3>2. QED
      BY <1>a, <2>3, <3>1, Schedules DEF Register, RemoveJob
  <2>4. ASSUME NEW n, RemoveJobRaises(n)
        PROVE  background' = background /\ draining' = draining
    BY <2>4 DEF RemoveJobRaises, writeVars
  <2>5. CASE RestoreJobs \/ ServeNobody
    BY <2>1, <2>5 DEF RestoreJobs, ServeNobody, UnchangedByExecs, writeVars
  <2>6. QED
    BY <1>3, <2>1, <2>2, <2>3, <2>4, <2>5 DEF ApiStep
<1>4. QED
  BY <1>1, <1>2, <1>3 DEF writeVars

LEMMA NextDrain ==
    ASSUME QueueInv, DrainInv, [Next]_vars
    PROVE  DrainInv'
<1>a. Typed /\ Typed'
  BY NextTyped DEF QueueInv
<1>b. Outstanding(background) \in Nat
  BY <1>a, OutstandingType
<1>1. CASE UNCHANGED vars
  <2>1. UNCHANGED <<background, requests, draining>>
    BY <1>1 DEF vars, storeVars, writeVars
  <2>2. QED
    BY <2>1 DEF DrainInv, Outstanding, Submitted
<1>2. CASE Crash
  <2>1. draining' = 0 /\ background' = <<>> /\ Submitted' = {}
    BY <1>2 DEF Crash, Submitted
  <2>2. Cardinality(Submitted)' = 0 /\ Len(background)' = 0
    BY <2>1, FS_EmptySet
  <2>3. QED
    BY <2>1, <2>2 DEF DrainInv, Outstanding
<1>3. CASE StartWrite
  <2>1. /\ connection = "open" => draining' = draining
        /\ connection # "open" => draining' = Drained
    BY <1>3 DEF StartWrite
  <2>2. QED
    BY <1>3, <1>b, <2>1, WriteStarts DEF DrainInv, Drained, StartWrite
<1>4. CASE EndWrite
  BY <1>4, <1>b, WriteEnds DEF DrainInv, Drained, EndWrite
<1>5. CASE \/ ApiStep \/ RegisterRestored \/ ServeNobody \/ Boot \/ LifeStep
           \/ \E x \in Executions : ExecStep(x)
  <2>1. Cardinality(Submitted)' = Cardinality(Submitted)
    BY <1>5, WritesElsewhere
  <2>2. \/ background' = background /\ draining' = draining
        \/ \E w \in Seq(Writes) : background' = background \o w /\ draining' = draining
        \/ \E stage : Flush(stage) \/ AwaitWrites(stage)
    BY <1>5, WritesElsewhere
  <2>3. QED
    BY <1>a, <2>1, <2>2, DrainKept
<1>6. QED
  BY <1>1, <1>2, <1>3, <1>4, <1>5 DEF Next

-----------------------------------------------------------------------------
(***************************************************************************)
(* The stages of a process whose API is called from the thread of the      *)
(* event loop, before init() and while it is ready or running.             *)
(***************************************************************************)
Careful == ~WorkerThreads /\ ApiWhile \subseteq {"up", "ready", "running"}

NotYet == {"down", "up", "migrating"}
NoMore == {"disconnecting", "closed"}
NoRestore == Early \cup {"flushing_close", "closing"} \cup NoMore
\* Nothing is written before the tables are there nor after the last drain,
\* and nothing waits in pending once there is a connection.
WriteInv ==
    /\ life \in {"down", "up", "closed"} => connection = "closed"
    /\ life \notin {"up", "migrating"} => pending = <<>>
    /\ life \in NotYet \cup NoMore => Outstanding(background) = 0
    /\ life \in NoRestore => ~Restoring
    /\ life = "closing" => draining = Outstanding(background)

\* Steps that leave the writes and the stage alone.
LEMMA WriteInvKept ==
    ASSUME QueueInv, WriteInv, Cardinality(Submitted)' = Cardinality(Submitted),
           UNCHANGED <<life, connection, pending, background, draining>>,
           Restoring' => Restoring \/ RestoreJobs
    PROVE  WriteInv'
<1>1. Outstanding(background)' = Outstanding(background)
  BY DEF Outstanding
<1>2. RestoreJobs => life \notin NoRestore
  BY DEF RestoreJobs, NoRestore, NoMore, Early
<1>3. QED
  BY <1>1, <1>2 DEF WriteInv

LEMMA CallKeepsWriteInv ==
    ASSUME Careful, QueueInv, InitInv, WriteInv, ApiStep
    PROVE  WriteInv'
<1>a. /\ Cardinality(Submitted)' = Cardinality(Submitted)
      /\ Restoring' => Restoring \/ RestoreJobs
  BY CallLeavesWrites, WritesLeft
<1>1. ASSUME NEW n, NEW off \in {FALSE, WorkerThreads}, Register(n, off) \/ RemoveJob(n, off)
      PROVE  WriteInv'
  <2>1. ~off
    BY DEF Careful
  <2>2. /\ life \in {"up", "ready", "running"} /\ life' = life
        /\ connection' = connection /\ requests' = requests
    BY <1>1 DEF Register, RemoveJob, ApiCalled, Careful, storeVars, lifeVars
  <2>3. CASE connection = "closed"
    <3>1. life = "up" /\ background' = background
      BY <1>1, <2>2, <2>3 DEF InitInv, Register, RemoveJob, ScheduleWrites
    <3>2. QED
      BY <2>2, <2>3, <3>1
      DEF WriteInv, Outstanding, Submitted, Restoring, NotYet, NoMore, NoRestore, Early
  <2>4. CASE connection # "closed"
    <3>1. pending' = pending
      BY <1>1, <2>1, <2>4 DEF Register, RemoveJob, ScheduleWrites
    <3>2. life # "up"
      BY <2>4 DEF WriteInv
    <3>3. QED
      BY <2>2, <3>1, <3>2 DEF WriteInv, NotYet, NoMore, NoRestore, Early
  <2>5. QED
    BY <2>3, <2>4
<1>2. ASSUME NEW n, RemoveJobRaises(n)
      PROVE  WriteInv'
  <2>1. UNCHANGED <<life, connection, pending, background, draining>>
    BY <1>2 DEF RemoveJobRaises, storeVars, writeVars, lifeVars
  <2>2. QED
    BY <1>a, <2>1, WriteInvKept
<1>3. CASE RestoreJobs
  <2>1. UNCHANGED <<life, connection, pending, background, draining>>
    BY <1>3 DEF RestoreJobs, writeVars, lifeVars
  <2>2. QED
    BY <1>a, <2>1, WriteInvKept
<1>4. QED
  BY <1>1, <1>2, <1>3 DEF ApiStep

\* RegisterRestored answers restore_jobs().
LEMMA RestoredStages ==
    ASSUME QueueInv, InitInv, WriteInv, RegisterRestored
    PROVE  /\ life \notin NoRestore /\ life' = life
           /\ connection = "open" /\ connection' = connection /\ pending = <<>>
<1>1. Restoring
  <2>1. requests # <<>> /\ Head(requests).from = "restore" /\ requests \in Seq(Requests)
    BY DEF RegisterRestored, Served, QueueInv, Typed
  <2>2. Head(requests) = requests[1] /\ 1 \in DOMAIN requests
    BY <2>1, HeadTailProperties, LenProperties, EmptySeq
  <2>3. QED
    BY <2>1, <2>2 DEF Restoring
<1>2. life \notin NoRestore
  BY <1>1 DEF WriteInv
<1>3. QED
  BY <1>2 DEF RegisterRestored, InitInv, WriteInv, NoRestore, NoMore, Early, lifeVars

LEMMA LifeKeepsWriteInv ==
    ASSUME Careful, QueueInv, InitInv, WriteInv, Boot \/ LifeStep
    PROVE  WriteInv'
<1> USE DEF NotYet, NoMore, NoRestore, Early
<1>a. /\ Cardinality(Submitted)' = Cardinality(Submitted)
      /\ Restoring' => Restoring \/ RestoreJobs
  BY LifeLeavesWrites, WritesLeft
<1>b. background' = background => Outstanding(background)' = Outstanding(background)
  BY <1>a DEF Outstanding
<1>c. RestoreJobs => life = "ready" /\ life' = "ready"
  BY DEF RestoreJobs, lifeVars
<1>1. CASE Boot \/ Connect \/ InitFlushed \/ Healed \/ Loaded \/ RunFlushed \/ WritesSettled
           \/ Pruned
  BY <1>1, <1>a, <1>b, <1>c DEF Boot, Connect, InitFlushed, Healed, Loaded, RunFlushed,
     WritesSettled, Pruned, Await, storeVars, writeVars, WriteInv
<1>2. CASE Migrated
  <2>1. /\ life = "migrating" /\ life' \in {"healing", "flushing_init"} /\ pending' = <<>>
    BY <1>2 DEF Migrated, Await, Flush, writeVars
  <2>2. QED
    BY <1>a, <1>c, <2>1 DEF WriteInv
<1>3. CASE Run \/ RunEnds
  <2>1. life' \in {"running", "flushing_run", "settling"} /\ life \in {"ready", "running"}
    BY <1>3 DEF Run, RunEnds, Flush, AwaitWrites
  <2>2. pending' = <<>>
    BY <1>3, <2>1 DEF Run, RunEnds, Flush, AwaitWrites, writeVars, WriteInv
  <2>3. QED
    BY <2>1, <2>2 DEF WriteInv
<1>4. CASE Close \/ CloseFlushed
  <2>1. life \in {"ready", "flushing_close"} /\ pending = <<>> /\ ~Restoring
    BY <1>4 DEF Close, CloseFlushed, WriteInv, Careful
  <2>2. AwaitWrites("closing")
    BY <1>4, <2>1 DEF Close, CloseFlushed
  <2>3. /\ life' = "closing" /\ pending' = <<>>
        /\ draining' = Outstanding(background)'
    BY <1>b, <2>1, <2>2 DEF AwaitWrites
  <2>4. QED
    BY <1>a, <1>c, <2>1, <2>3 DEF WriteInv
<1>5. CASE Disconnect
  <2>1. /\ life = "closing" /\ life' = "disconnecting" /\ background' = background
        /\ draining = 0 /\ pending' = pending
    BY <1>5 DEF Disconnect, Await, writeVars
  <2>2. QED
    BY <1>a, <1>b, <1>c, <2>1 DEF WriteInv
<1>6. CASE Closed
  BY <1>6, <1>a, <1>b, <1>c DEF Closed, writeVars, WriteInv
<1>7. QED
  BY <1>1, <1>2, <1>3, <1>4, <1>5, <1>6 DEF LifeStep

\* A write is outstanding: there are a connection and tables.
LEMMA WritableStages ==
    ASSUME InitInv, WriteInv, Outstanding(background) > 0
    PROVE  life \notin NotYet \cup NoMore /\ connection = "open" /\ schema
<1>1. life \notin NotYet \cup NoMore
  BY DEF WriteInv
<1>2. QED
  BY <1>1 DEF InitInv, NotYet, NoMore

LEMMA NextWriteInv ==
    ASSUME Careful, QueueInv, InitInv, DrainInv, WriteInv, [Next]_vars
    PROVE  WriteInv'
<1>b. Outstanding(background) \in Nat
  BY OutstandingType DEF QueueInv
<1>1. CASE UNCHANGED vars
  BY <1>1 DEF vars, storeVars, writeVars, lifeVars, WriteInv, Outstanding, Submitted, Restoring
<1>2. CASE Crash
  <2>1. Submitted' = {} /\ background' = <<>> /\ ~Restoring'
    BY <1>2 DEF Crash, Submitted, Restoring
  <2>2. Outstanding(background)' = 0
    BY <2>1, FS_EmptySet DEF Outstanding
  <2>3. QED
    BY <1>2, <2>1, <2>2 DEF Crash, WriteInv
<1>3. CASE StartWrite
  <2>1. life \notin NotYet \cup NoMore /\ connection = "open"
    BY <1>3, WriteStarts, WritableStages
  <2>2. Outstanding(background)' = Outstanding(background) /\ draining' = draining
        /\ (Restoring' => Restoring)
    BY <1>3, <2>1, WriteStarts DEF StartWrite
  <2>3. UNCHANGED <<life, connection, pending>>
    BY <1>3 DEF StartWrite, lifeVars
  <2>4. QED
    BY <2>1, <2>2, <2>3 DEF WriteInv
<1>4. CASE EndWrite
  <2>1. life \notin NotYet \cup NoMore
    BY <1>4, WriteEnds, WritableStages
  <2>2. /\ Outstanding(background)' = Outstanding(background) - 1
        /\ Outstanding(background) > 0
        /\ Restoring' => Restoring
    BY <1>4, WriteEnds
  <2>3. UNCHANGED <<life, connection, pending>> /\ draining' = Drained
    BY <1>4 DEF EndWrite, lifeVars
  <2>4. QED
    BY <1>b, <2>1, <2>2, <2>3 DEF WriteInv, Drained
<1>5. CASE ApiStep
  BY <1>5, CallKeepsWriteInv
<1>6. CASE RegisterRestored
  <2>1. pending' = pending
    BY <1>6, RestoredStages DEF RegisterRestored, ScheduleWrites
  <2>2. life' \notin NoRestore /\ life' = life /\ pending = <<>>
    BY <1>6, RestoredStages
  <2>3. QED
    BY <2>1, <2>2 DEF WriteInv, NoRestore, NotYet, NoMore, Early
<1>7. CASE Boot \/ LifeStep
  BY <1>7, LifeKeepsWriteInv
<1>8. CASE ServeNobody \/ \E x \in Executions : ExecStep(x)
  <2>1. /\ Cardinality(Submitted)' = Cardinality(Submitted)
        /\ Restoring' => Restoring \/ RestoreJobs
    BY <1>8, CallLeavesWrites, ExecLeavesWrites, AbandonLeavesWrites, WritesLeft
  <2>2. UNCHANGED <<life, connection, pending, background, draining>>
    BY <1>8 DEF ExecStep, Begin, Logged, LogRefused, Reregistered, LogFails, JobEnds, Saved,
       CancelJob, CancelAwait, WriteTimesOut, Abandon, ServeNobody, UnchangedByExecs,
       writeVars, lifeVars
  <2>3. QED
    BY <2>1, <2>2, WriteInvKept
<1>9. QED
  BY <1>1, <1>2, <1>3, <1>4, <1>5, <1>6, <1>7, <1>8 DEF Next

-----------------------------------------------------------------------------
(***************************************************************************)
(* The last write about a job that is registered.                          *)
(***************************************************************************)
LEMMA KeptIfQueuesStay ==
    ASSUME NEW n, Kept(n), UNCHANGED <<pending, background>>, Stays(n) => Stays(n)'
    PROVE  Kept(n)'
  BY DEF Kept

LEMMA FlushKeeps ==
    ASSUME Typed, NEW n, Kept(n), NEW stage, Flush(stage), Stays(n) => Stays(n)'
    PROVE  Kept(n)'
<1>1. pending' = <<>> /\ background' = background \o pending
  BY DEF Flush
<1>2. NoneRemoves(<<>>, n)
  BY LastOfEmpty
<1>3. /\ NoneRemoves(background, n) /\ NoneRemoves(pending, n) => NoneRemoves(background', n)
      /\ LastAdds(pending, n) => LastAdds(background', n)
      /\ LastAdds(background, n) /\ NoneRemoves(pending, n) => LastAdds(background', n)
  BY <1>1, LastOfBoth DEF Typed
<1>4. QED
  BY <1>1, <1>2, <1>3 DEF Kept

LEMMA ScheduleKeeps ==
    ASSUME Typed, NEW n, NEW w \in Seq(Writes), ScheduleWrites(w, FALSE),
           connection = "closed" \/ pending = <<>>,
           LastAdds(w, n) \/ (Kept(n) /\ NoneRemoves(w, n)),
           Stays(n) => Stays(n)'
    PROVE  Kept(n)'
<1>1. CASE connection = "closed"
  <2>1. pending' = pending \o w /\ background' = background
    BY <1>1 DEF ScheduleWrites
  <2>2. /\ NoneRemoves(pending, n) /\ NoneRemoves(w, n) => NoneRemoves(pending', n)
        /\ LastAdds(w, n) => LastAdds(pending', n)
        /\ LastAdds(pending, n) /\ NoneRemoves(w, n) => LastAdds(pending', n)
    BY <2>1, LastOfBoth DEF Typed
  <2>3. QED
    BY <2>1, <2>2 DEF Kept
<1>2. CASE connection # "closed"
  <2>1. pending = <<>> /\ pending' = <<>> /\ background' = background \o w
    BY <1>2 DEF ScheduleWrites
  <2>2. /\ NoneRemoves(background, n) /\ NoneRemoves(w, n) => NoneRemoves(background', n)
        /\ LastAdds(w, n) => LastAdds(background', n)
        /\ LastAdds(background, n) /\ NoneRemoves(w, n) => LastAdds(background', n)
    BY <2>1, LastOfBoth DEF Typed
  <2>3. NoneRemoves(<<>>, n) /\ ~LastAdds(<<>>, n)
    BY LastOfEmpty
  <2>4. QED
    BY <2>1, <2>2, <2>3 DEF Kept
<1>3. QED
  BY <1>1, <1>2

\* A write on its own.
LEMMA OneWrite ==
    ASSUME NEW m \in Names, NEW n, NEW op \in {"register", "unregister"}
    PROVE  /\ <<Write(op, m)>> \in Seq(Writes)
           /\ op = "register" \/ m # n => NoneRemoves(<<Write(op, m)>>, n)
           /\ op = "register" /\ m = n => LastAdds(<<Write(op, m)>>, n)
<1>1. PICK r \in Writes : r = Write(op, m) /\ r.op = op /\ r.name = m /\ r.from = "write"
  <2>1. Write(op, m) \in Writes
    BY WriteType DEF SomeName
  <2>2. Write(op, m).op = op /\ Write(op, m).name = m /\ Write(op, m).from = "write"
    BY DEF Write, About, Plain
  <2>3. QED
    BY <2>1, <2>2
<1>2. <<r>> \in Seq(Writes) /\ DOMAIN <<r>> = {1} /\ <<r>>[1] = r
  OBVIOUS
<1>3. QED
  BY <1>1, <1>2 DEF NoneRemoves, LastAdds, Removes, Adds

LEMMA CallKeepsOriginals ==
    ASSUME Careful, QueueInv, InitInv, WriteInv, OriginalsKept, ApiStep
    PROVE  OriginalsKept'
<1>a. Typed /\ \A n : Stays(n) => Stays(n)'
  BY CallLeavesWrites, WritesLeft DEF QueueInv
<1>b. ApiCalled => connection = "closed" \/ pending = <<>>
  BY DEF ApiCalled, Careful, WriteInv
<1> SUFFICES ASSUME NEW n \in originals'
             PROVE  Kept(n)'
  BY DEF OriginalsKept
<1>1. ASSUME NEW m \in Names, NEW off \in {FALSE, WorkerThreads}, Register(m, off)
      PROVE  Kept(n)'
  <2>1. PICK w \in Seq(Writes) :
          /\ w = <<Write("register", m)>>
          /\ NoneRemoves(w, n)
          /\ m = n => LastAdds(w, n)
    BY OneWrite
  <2>2. ScheduleWrites(w, FALSE) /\ (connection = "closed" \/ pending = <<>>)
    <3>1. ~off
      BY DEF Careful
    <3>2. ScheduleWrites(<<Write("register", m)>>, off) /\ ApiCalled
      BY <1>1 DEF Register
    <3>3. ScheduleWrites(w, off)
      BY <2>1, <3>2
    <3>4. QED
      BY <1>b, <3>1, <3>2, <3>3 DEF ScheduleWrites
  <2>3. m = n \/ Kept(n)
    BY <1>1 DEF Register, OriginalsKept
  <2>4. QED
    BY <1>a, <2>1, <2>2, <2>3, ScheduleKeeps
<1>2. ASSUME NEW m \in Names, NEW off \in {FALSE, WorkerThreads}, RemoveJob(m, off)
      PROVE  Kept(n)'
  <2>1. m # n /\ Kept(n)
    BY <1>2 DEF RemoveJob, OriginalsKept
  <2>2. PICK w \in Seq(Writes) : w = <<Write("unregister", m)>> /\ NoneRemoves(w, n)
    BY <2>1, OneWrite
  <2>3. ScheduleWrites(w, FALSE) /\ (connection = "closed" \/ pending = <<>>)
    <3>1. ~off
      BY DEF Careful
    <3>2. ScheduleWrites(<<Write("unregister", m)>>, off) /\ ApiCalled
      BY <1>2 DEF RemoveJob
    <3>3. ScheduleWrites(w, off)
      BY <2>2, <3>2
    <3>4. QED
      BY <1>b, <3>1, <3>2, <3>3 DEF ScheduleWrites
  <2>4. QED
    BY <1>a, <2>1, <2>2, <2>3, ScheduleKeeps
<1>3. CASE RestoreJobs \/ \E m \in Names : RemoveJobRaises(m)
  <2>1. UNCHANGED <<originals, pending, background>>
    BY <1>3 DEF RestoreJobs, RemoveJobRaises, registryVars, writeVars
  <2>2. QED
    BY <1>a, <2>1, KeptIfQueuesStay DEF OriginalsKept
<1>4. QED
  BY <1>1, <1>2, <1>3 DEF ApiStep

LEMMA RestoreKeepsOriginals ==
    ASSUME QueueInv, InitInv, WriteInv, OriginalsKept, RegisterRestored
    PROVE  OriginalsKept'
<1>a. Typed /\ \A n : Stays(n) => Stays(n)'
  BY CallLeavesWrites, WritesLeft DEF QueueInv
<1>b. pending = <<>>
  BY RestoredStages
<1> DEFINE Missing == jobTable \ originals
<1>1. PICK order \in [1 .. Cardinality(Missing) -> Missing] :
        /\ \A n \in Missing : \E i \in DOMAIN order : order[i] = n
        /\ \/ /\ originals' = originals \cup jobTable
              /\ ScheduleWrites([i \in DOMAIN order |-> Write("register", order[i])], FALSE)
           \/ UNCHANGED <<originals, pending, background>>
  BY DEF RegisterRestored
<1>2. PICK w \in Seq(Writes) :
        /\ w = [i \in DOMAIN order |-> Write("register", order[i])]
        /\ DOMAIN w = DOMAIN order
        /\ \A i \in DOMAIN w : /\ w[i].op = "register" /\ w[i].from = "write"
                               /\ w[i].name = order[i]
  <2>1. [i \in DOMAIN order |-> Write("register", order[i])] \in Seq(Writes)
    BY <1>a, RestoredWrites
  <2>2. \A i : /\ Write("register", order[i]).op = "register"
               /\ Write("register", order[i]).from = "write"
               /\ Write("register", order[i]).name = order[i]
    BY DEF Write, About, Plain
  <2>3. QED
    BY <2>1, <2>2
<1> SUFFICES ASSUME NEW n \in originals'
             PROVE  Kept(n)'
  BY DEF OriginalsKept
<1>3. CASE UNCHANGED <<originals, pending, background>>
  BY <1>3, <1>a, KeptIfQueuesStay DEF OriginalsKept
<1>4. CASE /\ originals' = originals \cup jobTable
           /\ ScheduleWrites(w, FALSE)
  <2>1. NoneRemoves(w, n)
    BY <1>2 DEF NoneRemoves, Removes
  <2>2. n \in Missing => LastAdds(w, n)
    <3> SUFFICES ASSUME n \in Missing PROVE LastAdds(w, n)
      OBVIOUS
    <3>1. PICK i \in DOMAIN order : order[i] = n
      BY <1>1
    <3>2. i \in DOMAIN w /\ Adds(w[i], n)
      BY <1>2, <3>1 DEF Adds
    <3>3. QED
      BY <2>1, <3>2 DEF LastAdds, NoneRemoves
  <2>3. LastAdds(w, n) \/ (Kept(n) /\ NoneRemoves(w, n))
    BY <1>4, <2>1, <2>2 DEF OriginalsKept
  <2>4. QED
    BY <1>a, <1>b, <1>4, <2>3, ScheduleKeeps
<1>5. QED
  BY <1>1, <1>2, <1>3, <1>4

LEMMA StartKeepsOriginals ==
    ASSUME QueueInv, InitInv, WriteInv, OriginalsKept, StartWrite
    PROVE  OriginalsKept'
<1>1. connection = "open"
  BY WriteStarts, WritableStages
<1>2. /\ requests' = Append(requests, Head(background))
      /\ background' = Tail(background) /\ background # <<>>
      /\ UNCHANGED <<pending, jobTable, originals>>
  BY <1>1 DEF StartWrite, tables, registryVars
<1>3. /\ requests \in Seq(Requests) /\ background \in Seq(Writes)
  BY DEF QueueInv, Typed
<1>4. PICK r \in Requests : r = Head(background)
  <2>1. Head(background) \in Writes
    BY <1>2, <1>3, HeadTailProperties
  <2>2. QED
    BY <2>1 DEF Writes
<1> SUFFICES ASSUME NEW n \in originals, Kept(n)
             PROVE  Kept(n)'
  BY <1>2 DEF OriginalsKept
<1>5. /\ NoneRemoves(background, n) => NoneRemoves(background', n) /\ ~Removes(r, n)
      /\ LastAdds(background, n) => \/ LastAdds(background', n)
                                    \/ Adds(r, n) /\ NoneRemoves(background', n)
  BY <1>2, <1>3, <1>4, LastOfTail
<1>6. /\ NoneRemoves(requests', n) <=> NoneRemoves(requests, n) /\ ~Removes(r, n)
      /\ Adds(r, n) => LastAdds(requests', n)
      /\ LastAdds(requests, n) /\ ~Removes(r, n) => LastAdds(requests', n)
  BY <1>2, <1>3, <1>4, LastOfAppended
<1>7. QED
  BY <1>2, <1>5, <1>6 DEF Kept, Stays

LEMMA EndKeepsOriginals ==
    ASSUME QueueInv, InitInv, WriteInv, OriginalsKept, EndWrite
    PROVE  OriginalsKept'
<1>1. connection = "open" /\ schema
  BY WriteEnds, WritableStages
<1>2. /\ requests # <<>> /\ requests' = Tail(requests) /\ Statement(Head(requests))
      /\ Head(requests).from = "write"
      /\ UNCHANGED <<pending, background, originals>>
  BY DEF EndWrite, Served, registryVars
<1>3. Typed /\ requests \in Seq(Requests) /\ Disciplined
  BY DEF QueueInv, Typed
<1>4. PICK r : /\ r = Head(requests) /\ Statement(r)
               /\ r.op \in {"register", "unregister"}
  <2>1. Head(requests) = requests[1] /\ 1 \in DOMAIN requests
    BY <1>2, <1>3, HeadTailProperties, LenProperties, EmptySeq
  <2>2. QED
    BY <1>2, <1>3, <2>1, ClientsAssumption DEF Disciplined, Suits
<1>5. Reply(r) = "ok"
  BY <1>1, <1>4 DEF Reply
<1> SUFFICES ASSUME NEW n \in originals, Kept(n)
             PROVE  Kept(n)'
  BY <1>2 DEF OriginalsKept
<1>6. /\ NoneRemoves(requests, n) => NoneRemoves(requests', n) /\ ~Removes(r, n)
      /\ LastAdds(requests, n) => \/ LastAdds(requests', n)
                                  \/ Adds(r, n) /\ NoneRemoves(requests', n)
  BY <1>2, <1>3, <1>4, LastOfTail
<1>7. /\ n \in jobTable /\ ~Removes(r, n) => n \in jobTable'
      /\ Adds(r, n) => n \in jobTable'
  BY <1>4, <1>5, StatementKeeps
<1>8. Stays(n) => Stays(n)'
  BY <1>6, <1>7 DEF Stays
<1>9. QED
  BY <1>2, <1>8, KeptIfQueuesStay

LEMMA LifeKeepsOriginals ==
    ASSUME QueueInv, OriginalsKept, Boot \/ LifeStep
    PROVE  OriginalsKept'
<1>1. Typed /\ \A n : Stays(n) => Stays(n)'
  BY LifeLeavesWrites, WritesLeft DEF QueueInv
<1>2. /\ originals' = originals
      /\ UNCHANGED <<pending, background>> \/ \E stage : Flush(stage)
  BY DEF LifeStep, Boot, Connect, Migrated, InitFlushed, Healed, Loaded, Run, RunFlushed,
     RunEnds, WritesSettled, Pruned, Close, CloseFlushed, Disconnect, Closed, AwaitWrites,
     writeVars, registryVars
<1>3. QED
  BY <1>1, <1>2, KeptIfQueuesStay, FlushKeeps DEF OriginalsKept

LEMMA NextOriginalsKept ==
    ASSUME Careful, QueueInv, InitInv, WriteInv, OriginalsKept, [Next]_vars
    PROVE  OriginalsKept'
<1>1. CASE UNCHANGED vars
  BY <1>1 DEF vars, storeVars, tables, registryVars, writeVars, OriginalsKept, Kept, Stays
<1>2. CASE Crash
  BY <1>2 DEF Crash, OriginalsKept
<1>3. CASE ServeNobody \/ \E x \in Executions : ExecStep(x)
  <2>1. \A n : Stays(n) => Stays(n)'
    BY <1>3, CallLeavesWrites, ExecLeavesWrites, AbandonLeavesWrites, WritesLeft
  <2>2. UNCHANGED <<originals, pending, background>>
    BY <1>3 DEF ExecStep, Begin, Logged, LogRefused, Reregistered, LogFails, JobEnds, Saved,
       CancelJob, CancelAwait, WriteTimesOut, Abandon, ServeNobody, UnchangedByExecs,
       writeVars, registryVars
  <2>3. QED
    BY <2>1, <2>2, KeptIfQueuesStay DEF OriginalsKept
<1>4. QED
  BY <1>1, <1>2, <1>3, CallKeepsOriginals, RestoreKeepsOriginals, StartKeepsOriginals,
     EndKeepsOriginals, LifeKeepsOriginals DEF Next

\* RegisteredAreDurable: if the API is called from the thread of the event loop
\* and outside init() and close(), every registered job has its row as soon as
\* no write is outstanding, and after close(), whatever executions insert, in
\* whatever order jobs are registered, removed and restored.
THEOREM RegisteredAreDurableAlways ==
    ASSUME ~WorkerThreads, ApiWhile \subseteq {"up", "ready", "running"}
    PROVE  Spec => []RegisteredAreDurable
<1> DEFINE Durability == InitInv /\ DrainInv /\ WriteInv /\ OriginalsKept
<1>0. Careful
  BY DEF Careful
<1>1. Init => Durability
  <2> SUFFICES ASSUME Init PROVE Durability
    OBVIOUS
  <2>1. Submitted = {} /\ background = <<>> /\ ~Restoring
    BY DEF Init, StoreInit, Submitted, Restoring
  <2>2. Outstanding(background) = 0
    BY <2>1, FS_EmptySet DEF Outstanding
  <2>3. QED
    BY <2>1, <2>2 DEF Init, StoreInit, InitInv, DrainInv, WriteInv, OriginalsKept
<1>2. StoreInv /\ Durability /\ [Next]_vars => Durability'
  BY <1>0, NextInit, NextDrain, NextWriteInv, NextOriginalsKept DEF StoreInv
<1>3. StoreInv /\ Durability => RegisteredAreDurable
  <2> SUFFICES ASSUME StoreInv, Durability,
                      (life \in Initialized /\ NoWriteOutstanding) \/ life = "closed",
                      NEW n \in originals
               PROVE  n \in jobTable
    BY DEF RegisteredAreDurable
  <2>1. NoWriteOutstanding
    BY OutstandingType DEF StoreInv, QueueInv, WriteInv, NoMore, NoWriteOutstanding
  <2>2. ~LastAdds(requests, n)
    BY <2>1 DEF NoWriteOutstanding, Submitted, LastAdds, Adds
  <2>3. QED
    BY <2>1, <2>2, LastOfEmpty DEF OriginalsKept, Kept, Stays, NoWriteOutstanding
<1>4. QED
  BY <1>1, <1>2, <1>3, OneSettlesARow, PTL DEF Spec

-----------------------------------------------------------------------------
(***************************************************************************)
(* Types, with the bounds of a run.  TypeOK is not inductive: that no more *)
(* than MaxRows rows are inserted is because each insertion to come, of an *)
(* execution or of a statement that one left behind, was counted when it   *)
(* began.                                                                  *)
(***************************************************************************)
Inserting == {"logging", "registering", "relogging"}
NamedRequest == {r \in Request : r.op \in {"register", "unregister", "log"} => r.name \in Names}
ExecStates == {e \in [pc: {"logging", "registering", "relogging", "body", "saving"},
                      job: Names, row: 0 .. MaxRows] :
                 e.pc \in Inserting <=> e.row = NoRow} \cup {IdleExec}
TablesTyped ==
    /\ jobTable \subseteq Names
    /\ executions \in Seq([job: Names, status: RowStatus])
    /\ schema \in BOOLEAN
StageTyped ==
    /\ life \in Stages
    /\ boots \in 0 .. MaxBoots
    /\ connection \in {"open", "closed"}
    /\ restored \subseteq RowStatus
NamesTyped == inner \subseteq Names /\ originals \subseteq Names /\ jobIds \subseteq Names
QueuesTyped ==
    /\ requests \in Seq(NamedRequest)
    /\ pending \in Seq(NamedRequest)
    /\ background \in Seq(NamedRequest)
ExecsTyped == execs \in [Executions -> ExecStates]

\* Who will insert a row.
ToInsert == {x \in InFlight : execs[x].row = NoRow}
Orphaned == {r \in Requests : r.from = "nobody" /\ r.op \in {"log", "register"}}
Orphans(s) == At(s, Orphaned)
RowsBounded ==
    /\ IsFiniteSet(ToInsert)
    /\ Len(executions) + Cardinality(ToInsert) + Cardinality(Orphans(requests)) <= MaxRows

StrictInv == TablesTyped /\ StageTyped /\ NamesTyped /\ QueuesTyped /\ ExecsTyped
             /\ RowsBounded

LEMMA OrphansFinite ==
    ASSUME NEW s \in Seq(Requests)
    PROVE  IsFiniteSet(Orphans(s)) /\ Cardinality(Orphans(s)) \in Nat
  BY AtFinite DEF Orphans

LEMMA OrphansAppended ==
    ASSUME NEW s \in Seq(Requests), NEW r \in Requests, r.from # "nobody"
    PROVE  Cardinality(Orphans(Append(s, r))) = Cardinality(Orphans(s))
<1>1. r \notin Orphaned
  BY DEF Orphaned
<1>2. /\ Cardinality(Orphans(Append(s, r)))
            = Cardinality(Orphans(s)) + (IF r \in Orphaned THEN 1 ELSE 0)
      /\ Cardinality(Orphans(s)) \in Nat
  BY AtAppended, OrphansFinite DEF Orphans
<1>3. QED
  BY <1>1, <1>2

LEMMA OrphansTail ==
    ASSUME NEW s \in Seq(Requests), s # <<>>
    PROVE  /\ Head(s) \in Orphaned =>
                Cardinality(Orphans(s)) = Cardinality(Orphans(Tail(s))) + 1
           /\ Cardinality(Orphans(Tail(s))) <= Cardinality(Orphans(s))
           /\ Tail(s) \in Seq(Requests)
<1>1. Tail(s) \in Seq(Requests)
  BY HeadTailProperties
<1>2. /\ Cardinality(Orphans(s))
            = Cardinality(Orphans(Tail(s))) + (IF Head(s) \in Orphaned THEN 1 ELSE 0)
      /\ Cardinality(Orphans(Tail(s))) \in Nat
  BY <1>1, AtTail, OrphansFinite DEF Orphans
<1>3. QED
  BY <1>1, <1>2

\* Steps that leave no statement behind.
LEMMA OrphansLeft ==
    ASSUME QueueInv, LeavesWrites \/ StartWrite \/ EndWrite
    PROVE  Cardinality(Orphans(requests')) <= Cardinality(Orphans(requests))
<1>a. requests \in Seq(Requests) /\ background \in Seq(Writes)
  BY DEF QueueInv, Typed
<1>b. \A s \in Seq(Requests) : Cardinality(Orphans(s)) \in Nat
  BY OrphansFinite
<1>1. ASSUME NEW s \in Seq(Requests), Submits(s)
      PROVE  Cardinality(Orphans(requests')) = Cardinality(Orphans(s))
  BY <1>1, OrphansAppended DEF Submits
<1>2. requests # <<>> => /\ Tail(requests) \in Seq(Requests)
                         /\ Cardinality(Orphans(Tail(requests)))
                              <= Cardinality(Orphans(requests))
  BY <1>a, OrphansTail
<1>3. CASE LeavesWrites
  <2>1. CASE Submits(requests)
    <3>1. Cardinality(Orphans(requests')) = Cardinality(Orphans(requests))
      BY <1>a, <1>1, <2>1
    <3>2. QED
      BY <1>a, <1>b, <3>1
  <2>2. CASE Submits(Tail(requests)) /\ Takes(Client \ {"write"})
    <3>1. requests # <<>>
      BY <2>2 DEF Takes
    <3>2. Cardinality(Orphans(requests')) = Cardinality(Orphans(Tail(requests)))
      BY <1>1, <1>2, <2>2, <3>1
    <3>3. QED
      BY <1>2, <3>1, <3>2
  <2>3. QED
    BY <1>3, <2>1, <2>2 DEF LeavesWrites
<1>4. CASE StartWrite
  <2>1. Head(background) \in Requests /\ Head(background).from # "nobody"
    BY <1>a, <1>4, HeadTailProperties DEF StartWrite, Writes
  <2>2. \/ requests' = requests
        \/ \E r \in Requests : r.from # "nobody" /\ requests' = Append(requests, r)
    BY <1>4, <2>1 DEF StartWrite
  <2>3. Cardinality(Orphans(requests')) = Cardinality(Orphans(requests))
    BY <1>a, <2>2, OrphansAppended
  <2>4. QED
    BY <1>a, <1>b, <2>3
<1>5. CASE EndWrite
  <2>1. requests # <<>> /\ requests' = Tail(requests)
    BY <1>5 DEF EndWrite, Served
  <2>2. QED
    BY <1>2, <2>1
<1>6. QED
  BY <1>3, <1>4, <1>5

\* What a statement does to the tables.
LEMMA StatementTyped ==
    ASSUME TablesTyped, NEW r \in NamedRequest, r.op = "update" => r.status \in Ends,
           Statement(r)
    PROVE  /\ TablesTyped'
           /\ Len(executions) \in Nat
           /\ Len(executions') \in Nat
           /\ Len(executions') =
                Len(executions) + (IF r.op = "log" /\ Reply(r) = "ok" THEN 1 ELSE 0)
<1> DEFINE NamedRows == [job: Names, status: RowStatus]
<1>a. /\ executions \in Seq(NamedRows) /\ Len(executions) \in Nat
      /\ Rows = 1 .. Len(executions)
      /\ \A i \in Rows : executions[i] \in NamedRows
  BY LenProperties, ElementOfSeq DEF TablesTyped, Rows
<1>b. ASSUME NEW S, NEW status \in RowStatus, SetStatus(S, status)
      PROVE  executions' \in Seq(NamedRows) /\ Len(executions') = Len(executions)
  <2>1. executions' \in [1 .. Len(executions) -> NamedRows]
    BY <1>a, <1>b DEF SetStatus
  <2> HIDE DEF NamedRows
  <2>2. executions' \in Seq(NamedRows)
    BY <1>a, <2>1, FunctionIsSeq
  <2>3. DOMAIN executions' = 1 .. Len(executions)
    BY <2>1
  <2>4. QED
    BY <1>a, <2>2, <2>3, LenProperties
<1>1. CASE UNCHANGED tables /\ ~(r.op = "log" /\ Reply(r) = "ok")
  BY <1>1, <1>a DEF tables, TablesTyped
<1>2. CASE r.op = "log" /\ Reply(r) = "ok" /\ LogExecution(r.name)
  <2>1. [job |-> r.name, status |-> "running"] \in NamedRows
    BY <1>2 DEF NamedRequest, RowStatus
  <2>2. executions' \in Seq(NamedRows) /\ Len(executions') = Len(executions) + 1
    BY <1>a, <1>2, <2>1, AppendProperties DEF LogExecution
  <2>3. QED
    BY <1>2, <1>a, <2>2 DEF LogExecution, TablesTyped
<1>3. CASE r.op = "register" /\ RegisterJob(r.name)
  BY <1>3, <1>a DEF RegisterJob, TablesTyped, NamedRequest
<1>4. CASE r.op = "migrate" /\ Migrate
  BY <1>4, <1>a DEF Migrate, TablesTyped
<1>5. ASSUME NEW S, NEW status \in RowStatus, SetStatus(S, status),
             jobTable' \subseteq jobTable, schema' = schema
      PROVE  /\ TablesTyped'
             /\ Len(executions') = Len(executions)
  BY <1>5, <1>b DEF TablesTyped
<1>6. CASE r.op = "unregister" /\ UnregisterJob(r.name)
  BY <1>6, <1>5, <1>a DEF UnregisterJob, RowStatus
<1>7. CASE r.op = "update" /\ UpdateExecution(r.row, r.status)
  <2>1. r.status \in RowStatus
    BY <1>7 DEF Ends, RowStatus
  <2>2. QED
    BY <1>7, <1>5, <1>a, <2>1 DEF UpdateExecution
<1>8. CASE r.op = "heal" /\ HealInterrupted
  BY <1>8, <1>5, <1>a DEF HealInterrupted, RowStatus
<1>9. CASE r.op = "prune" /\ Prune
  BY <1>9, <1>5, <1>a DEF Prune, RowStatus
<1>10. QED
  BY <1>1, <1>2, <1>3, <1>4, <1>6, <1>7, <1>8, <1>9 DEF Statement

\* The statement that is served.
LEMMA TakesTyped ==
    ASSUME Typed, Disciplined, TablesTyped, QueuesTyped, NEW from, Takes(from)
    PROVE  /\ TablesTyped'
           /\ Len(executions) \in Nat /\ Len(executions') \in Nat
           /\ Len(executions') =
                Len(executions) + (IF Head(requests).op = "log" /\ Answer = "ok" THEN 1 ELSE 0)
           /\ Suits(Head(requests)) /\ Head(requests) \in Requests
           /\ Head(requests).from \in from
           /\ Tail(requests) \in Seq(NamedRequest)
<1>1. /\ requests \in Seq(NamedRequest) /\ requests \in Seq(Requests) /\ requests # <<>>
      /\ Statement(Head(requests)) /\ Head(requests).from \in from
  BY DEF Takes, Typed, QueuesTyped
<1>2. /\ Head(requests) \in NamedRequest /\ Head(requests) \in Requests
      /\ Tail(requests) \in Seq(NamedRequest)
      /\ Head(requests) = requests[1] /\ 1 \in DOMAIN requests
  BY <1>1, HeadTailProperties, LenProperties, EmptySeq
<1>3. Suits(Head(requests))
  BY <1>2 DEF Disciplined
<1>4. Head(requests).op = "update" => Head(requests).status \in Ends
  BY <1>2 DEF Requests
<1>5. PICK r \in NamedRequest : r = Head(requests)
  BY <1>2
<1>6. QED
  BY <1>1, <1>2, <1>3, <1>4, <1>5, StatementTyped DEF Answer

LEMMA NamedTypes ==
    /\ \A op \in {"register", "unregister", "log"}, n \in Names, from \in Client :
            About(op, n, from) \in NamedRequest
    /\ \A op \in Op \ {"register", "unregister", "log"}, from \in Client :
            Plain(op, from) \in NamedRequest
    /\ \A i \in 0 .. MaxRows, status \in Ends, from \in Client :
            Update(i, status, from) \in NamedRequest
<1>a. NoRow \in 0 .. MaxRows
  BY RowsAssumption DEF NoRow
<1>1. ASSUME NEW op \in {"register", "unregister", "log"}, NEW n \in Names, NEW from \in Client
      PROVE  About(op, n, from) \in NamedRequest
  <2>1. About(op, n, from) =
            [op |-> op, name |-> n, row |-> NoRow, status |-> "none", from |-> from]
    BY DEF About, Plain
  <2>2. About(op, n, from) \in Request /\ About(op, n, from).name = n
    BY <1>a, <2>1 DEF Request, Op
  <2>3. QED
    BY <2>2 DEF NamedRequest
<1>2. ASSUME NEW op \in Op \ {"register", "unregister", "log"}, NEW from \in Client
      PROVE  Plain(op, from) \in NamedRequest
  <2>1. Plain(op, from) \in Request /\ Plain(op, from).op = op
    BY <1>a DEF Request, Plain
  <2>2. QED
    BY <2>1 DEF NamedRequest
<1>3. ASSUME NEW i \in 0 .. MaxRows, NEW status \in Ends, NEW from \in Client
      PROVE  Update(i, status, from) \in NamedRequest
  <2>1. status \in RowStatus
    BY DEF Ends, RowStatus
  <2>2. Update(i, status, from) \in Request /\ Update(i, status, from).op = "update"
    BY <1>a, <2>1 DEF Update, Plain, Request, Op
  <2>3. QED
    BY <2>2 DEF NamedRequest
<1>4. QED
  BY <1>1, <1>2, <1>3

\* The executions that will insert a row, when x goes on.
LEMMA ToInsertMoves ==
    ASSUME ExecsTyped, NEW x \in Executions, NEW e \in ExecStates, ExecGoes(x, e),
           IsFiniteSet(ToInsert)
    PROVE  /\ ExecsTyped'
           /\ IsFiniteSet(ToInsert)' /\ Cardinality(ToInsert) \in Nat
           /\ execs[x].pc \in Inserting => Cardinality(ToInsert) > 0
           /\ Cardinality(ToInsert)' = Cardinality(ToInsert)
                + (IF e.pc \in Inserting THEN 1 ELSE 0)
                - (IF execs[x].pc \in Inserting THEN 1 ELSE 0)
<1>1. \A f \in ExecStates : f # IdleExec /\ f.row = NoRow <=> f.pc \in Inserting
  BY DEF ExecStates, IdleExec, Inserting
<1>2. /\ \A y \in Executions : execs[y] \in ExecStates
      /\ \A y \in Executions : execs'[y] = IF y = x THEN e ELSE execs[y]
      /\ ExecsTyped'
  BY DEF ExecsTyped, ExecGoes
<1>3. /\ ToInsert = {y \in Executions : execs[y].pc \in Inserting}
      /\ ToInsert' = {y \in Executions : execs'[y].pc \in Inserting}
  BY <1>1, <1>2 DEF ToInsert, InFlight
<1>4. ToInsert' = IF e.pc \in Inserting THEN ToInsert \cup {x} ELSE ToInsert \ {x}
  BY <1>2, <1>3
<1>5. x \in ToInsert <=> execs[x].pc \in Inserting
  BY <1>3
<1>6. /\ IsFiniteSet(ToInsert) /\ Cardinality(ToInsert) \in Nat
      /\ IsFiniteSet(ToInsert \cup {x}) /\ IsFiniteSet(ToInsert \ {x})
      /\ Cardinality(ToInsert \cup {x}) =
            IF x \in ToInsert THEN Cardinality(ToInsert) ELSE Cardinality(ToInsert) + 1
      /\ Cardinality(ToInsert \ {x}) =
            IF x \in ToInsert THEN Cardinality(ToInsert) - 1 ELSE Cardinality(ToInsert)
  BY FS_AddElement, FS_RemoveElement, FS_CardinalityType
<1>7. x \in ToInsert => Cardinality(ToInsert) > 0
  BY <1>6, FS_EmptySet
<1>8. Cardinality(ToInsert)' = Cardinality(ToInsert)
                + (IF e.pc \in Inserting THEN 1 ELSE 0)
                - (IF execs[x].pc \in Inserting THEN 1 ELSE 0)
  BY <1>4, <1>5, <1>6
<1>9. IsFiniteSet(ToInsert)'
  BY <1>4, <1>6
<1>10. QED
  BY <1>2, <1>5, <1>6, <1>7, <1>8, <1>9

\* An execution that begins, one that has inserted its row or failed to, and one
\* that goes on as it was.
LEMMA ToInsertGrows ==
    ASSUME ExecsTyped, RowsBounded, NEW x \in Executions, NEW e \in ExecStates, ExecGoes(x, e),
           e.pc \in Inserting, execs[x].pc \notin Inserting
    PROVE  /\ ExecsTyped' /\ IsFiniteSet(ToInsert)'
           /\ Cardinality(ToInsert)' = Cardinality(ToInsert) + 1
<1>1. IsFiniteSet(ToInsert)
  BY DEF RowsBounded
<1>2. QED
  BY <1>1, ToInsertMoves

LEMMA ToInsertShrinks ==
    ASSUME ExecsTyped, RowsBounded, NEW x \in Executions, NEW e \in ExecStates, ExecGoes(x, e),
           e.pc \notin Inserting, execs[x].pc \in Inserting
    PROVE  /\ ExecsTyped' /\ IsFiniteSet(ToInsert)'
           /\ Cardinality(ToInsert)' = Cardinality(ToInsert) - 1
<1>1. IsFiniteSet(ToInsert)
  BY DEF RowsBounded
<1>2. QED
  BY <1>1, ToInsertMoves

LEMMA ToInsertStays ==
    ASSUME ExecsTyped, RowsBounded, NEW x \in Executions, NEW e \in ExecStates, ExecGoes(x, e),
           e.pc \in Inserting <=> execs[x].pc \in Inserting
    PROVE  /\ ExecsTyped' /\ IsFiniteSet(ToInsert)'
           /\ Cardinality(ToInsert)' = Cardinality(ToInsert)
<1>1. IsFiniteSet(ToInsert)
  BY DEF RowsBounded
<1>2. QED
  BY <1>1, ToInsertMoves

\* RowsBounded, step by step.
LEMMA RowsStayBounded ==
    ASSUME Typed, Typed', RowsBounded, IsFiniteSet(ToInsert)',
           Len(executions)' + Cardinality(ToInsert)' + Cardinality(Orphans(requests))'
             <= Len(executions) + Cardinality(ToInsert) + Cardinality(Orphans(requests))
    PROVE  RowsBounded'
<1>1. /\ Len(executions) \in Nat /\ Len(executions') \in Nat
      /\ Cardinality(ToInsert) \in Nat /\ Cardinality(ToInsert)' \in Nat
      /\ Cardinality(Orphans(requests)) \in Nat /\ Cardinality(Orphans(requests')) \in Nat
  BY FS_CardinalityType, OrphansFinite, LenProperties DEF Typed, RowsBounded
<1>2. QED
  BY <1>1, RowsAssumption DEF RowsBounded

LEMMA NextStageTyped ==
    ASSUME TablesTyped, StageTyped, [Next]_vars
    PROVE  StageTyped'
<1>1. CASE UNCHANGED <<lifeVars, connection>>
  BY <1>1 DEF StageTyped, lifeVars
<1>2. CASE Boot \/ Crash
  BY <1>2, PersistenceAssumption DEF Boot, Crash, StageTyped, Stages, storeVars
<1>3. CASE LifeStep /\ ~Loaded
  BY <1>3 DEF LifeStep, Connect, Migrated, InitFlushed, Healed, Run, RunFlushed, RunEnds,
     WritesSettled, Pruned, Close, CloseFlushed, Disconnect, Closed, Await, Flush, AwaitWrites,
     storeVars, StageTyped, Stages, Initialized
<1>4. CASE Loaded
  <2>1. \A i \in Rows : executions[i].status \in RowStatus
    <3>1. ASSUME NEW i \in Rows PROVE executions[i] \in [job: Names, status: RowStatus]
      <4>1. executions \in Seq([job: Names, status: RowStatus])
        BY DEF TablesTyped
      <4>2. i \in 1 .. Len(executions)
        BY <4>1, LenProperties DEF Rows
      <4>3. QED
        BY <4>1, <4>2, ElementOfSeq
    <3>2. QED
      BY <3>1
  <2>2. restored' \subseteq RowStatus
    BY <1>4, <2>1 DEF Loaded
  <2>3. QED
    BY <1>4, <2>2 DEF Loaded, StageTyped, Stages, Initialized
<1>5. CASE ApiStep
  BY <1>5, <1>1 DEF ApiStep, Register, RemoveJob, RemoveJobRaises, RestoreJobs, storeVars
<1>6. CASE StartWrite \/ EndWrite \/ RegisterRestored \/ ServeNobody
  BY <1>6, <1>1 DEF StartWrite, EndWrite, RegisterRestored, ServeNobody, UnchangedByExecs
<1>7. CASE \E x \in Executions : ExecStep(x)
  BY <1>7, <1>1 DEF ExecStep, Begin, Logged, LogRefused, Reregistered, LogFails, JobEnds, Saved,
     CancelJob, CancelAwait, WriteTimesOut, Abandon, UnchangedByExecs
<1>8. CASE UNCHANGED vars
  BY <1>8, <1>1 DEF vars, storeVars
<1>9. QED
  BY <1>2, <1>3, <1>4, <1>5, <1>6, <1>7, <1>8 DEF Next

LEMMA NextNamesTyped ==
    ASSUME TablesTyped, NamesTyped, [Next]_vars
    PROVE  NamesTyped'
<1>1. CASE UNCHANGED registryVars
  BY <1>1 DEF NamesTyped, registryVars
<1>2. CASE Crash
  BY <1>2 DEF Crash, NamesTyped
<1>3. CASE RegisterRestored
  BY <1>3 DEF RegisterRestored, NamesTyped, TablesTyped
<1>4. CASE ApiStep /\ ~RestoreJobs
  BY <1>4 DEF ApiStep, Register, RemoveJob, RemoveJobRaises, NamesTyped
<1>5. CASE RestoreJobs \/ StartWrite \/ EndWrite \/ ServeNobody
  BY <1>5, <1>1 DEF RestoreJobs, StartWrite, EndWrite, ServeNobody, UnchangedByExecs
<1>6. CASE \E x \in Executions : ExecStep(x)
  BY <1>6, <1>1 DEF ExecStep, Begin, Logged, LogRefused, Reregistered, LogFails, JobEnds, Saved,
     CancelJob, CancelAwait, WriteTimesOut, Abandon, UnchangedByExecs
<1>7. CASE Boot \/ LifeStep
  BY <1>7, <1>1 DEF Boot, LifeStep, Connect, Migrated, InitFlushed, Healed, Loaded, Run,
     RunFlushed, RunEnds, WritesSettled, Pruned, Close, CloseFlushed, Disconnect, Closed
<1>8. CASE UNCHANGED vars
  BY <1>8, <1>1 DEF vars
<1>9. QED
  BY <1>2, <1>3, <1>4, <1>5, <1>6, <1>7, <1>8 DEF Next

LEMMA NextTablesTyped ==
    ASSUME QueueInv, TablesTyped, QueuesTyped, [Next]_vars
    PROVE  TablesTyped'
<1>1. UNCHANGED tables \/ Takes(Client)
  <2>1. CASE UNCHANGED vars \/ Crash \/ StartWrite
    BY <2>1 DEF vars, storeVars, Crash, StartWrite
  <2>2. CASE EndWrite
    BY <2>2 DEF EndWrite, Served, Takes, Client
  <2>3. CASE ApiStep \/ RegisterRestored \/ ServeNobody \/ Boot \/ LifeStep
    BY <2>3, CallLeavesWrites, LifeLeavesWrites DEF LeavesWrites, Takes
  <2>4. ASSUME NEW x \in Executions, ExecStep(x)
        PROVE  UNCHANGED tables \/ Takes(Client)
    <3>1. CASE Abandon(x)
      BY <3>1 DEF Abandon
    <3>2. CASE ~Abandon(x)
      BY <2>4, <3>2, ExecLeavesWrites DEF LeavesWrites, Takes
    <3>3. QED
      BY <3>1, <3>2
  <2>5. QED
    BY <2>1, <2>2, <2>3, <2>4 DEF Next
<1>2. CASE UNCHANGED tables
  BY <1>2 DEF tables, TablesTyped
<1>3. CASE Takes(Client)
  BY <1>3, TakesTyped DEF QueueInv
<1>4. QED
  BY <1>1, <1>2, <1>3

\* The statements that the clients submit name jobs of the program.
LEMMA WritesNamed ==
    ASSUME QueuesTyped, NEW w \in Seq(NamedRequest), NEW off, ScheduleWrites(w, off)
    PROVE  pending' \in Seq(NamedRequest) /\ background' \in Seq(NamedRequest)
<1>1. pending \o w \in Seq(NamedRequest) /\ background \o w \in Seq(NamedRequest)
  BY ConcatProperties DEF QueuesTyped
<1>2. QED
  BY <1>1 DEF QueuesTyped, ScheduleWrites

LEMMA RestoredNamed ==
    ASSUME TablesTyped,
           NEW order \in [1 .. Cardinality(jobTable \ originals) -> jobTable \ originals]
    PROVE  [i \in DOMAIN order |-> Write("register", order[i])] \in Seq(NamedRequest)
<1>1. Cardinality(jobTable \ originals) \in Nat
  BY NamesAssumption, FS_Subset, FS_CardinalityType DEF TablesTyped
<1>2. \A i \in DOMAIN order : Write("register", order[i]) \in NamedRequest
  BY NamedTypes DEF TablesTyped, Write, Client
<1> DEFINE writes == [i \in DOMAIN order |-> Write("register", order[i])]
<1>3. writes \in [1 .. Cardinality(jobTable \ originals) -> NamedRequest]
  BY <1>2
<1> HIDE DEF writes
<1>4. writes \in Seq(NamedRequest)
  BY <1>1, <1>3, FunctionIsSeq
<1>5. QED
  BY <1>4 DEF writes

LEMMA CallsNamed ==
    ASSUME QueueInv, TablesTyped, QueuesTyped,
           ApiStep \/ StartWrite \/ EndWrite \/ RegisterRestored \/ ServeNobody
    PROVE  QueuesTyped'
<1>a. /\ requests \in Seq(NamedRequest) /\ pending \in Seq(NamedRequest)
      /\ background \in Seq(NamedRequest)
  BY DEF QueuesTyped
<1>b. requests # <<>> => Tail(requests) \in Seq(NamedRequest)
  BY <1>a, HeadTailProperties
<1>1. ASSUME NEW n \in Names, NEW off, Register(n, off) \/ RemoveJob(n, off) \/ RemoveJobRaises(n)
      PROVE  QueuesTyped'
  <2>1. \A op \in {"register", "unregister"} : <<Write(op, n)>> \in Seq(NamedRequest)
    BY NamedTypes DEF Write, Client
  <2>2. pending' \in Seq(NamedRequest) /\ background' \in Seq(NamedRequest)
    BY <1>1, <1>a, <2>1, WritesNamed DEF Register, RemoveJob, RemoveJobRaises, writeVars
  <2>3. requests' = requests
    BY <1>1 DEF Register, RemoveJob, RemoveJobRaises, storeVars
  <2>4. QED
    BY <1>a, <2>2, <2>3 DEF QueuesTyped
<1>2. CASE RestoreJobs
  <2>1. Plain("list", "restore") \in NamedRequest
    BY NamedTypes DEF Op, Client
  <2>2. requests' \in Seq(NamedRequest)
    BY <1>a, <1>2, <2>1, AppendProperties DEF RestoreJobs
  <2>3. QED
    BY <1>a, <1>2, <2>2 DEF RestoreJobs, QueuesTyped, writeVars
<1>3. CASE StartWrite
  <2>1. Head(background) \in NamedRequest /\ Tail(background) \in Seq(NamedRequest)
    BY <1>a, <1>3, HeadTailProperties DEF StartWrite
  <2>2. requests' = requests \/ requests' = Append(requests, Head(background))
    BY <1>3 DEF StartWrite
  <2>3. requests' \in Seq(NamedRequest)
    <3>1. Append(requests, Head(background)) \in Seq(NamedRequest)
      BY <1>a, <2>1, AppendProperties
    <3>2. QED
      BY <1>a, <2>2, <3>1
  <2>4. QED
    BY <1>a, <1>3, <2>1, <2>3 DEF StartWrite, QueuesTyped
<1>4. CASE EndWrite \/ ServeNobody
  BY <1>4, <1>a, <1>b DEF EndWrite, ServeNobody, Served, UnchangedByExecs, writeVars, QueuesTyped
<1>5. CASE RegisterRestored
  <2>1. PICK order \in [1 .. Cardinality(jobTable \ originals) -> jobTable \ originals] :
          \/ ScheduleWrites([i \in DOMAIN order |-> Write("register", order[i])], FALSE)
          \/ UNCHANGED <<pending, background>>
    BY <1>5 DEF RegisterRestored
  <2>2. [i \in DOMAIN order |-> Write("register", order[i])] \in Seq(NamedRequest)
    BY RestoredNamed
  <2>3. pending' \in Seq(NamedRequest) /\ background' \in Seq(NamedRequest)
    BY <1>a, <2>1, <2>2, WritesNamed
  <2>4. QED
    BY <1>5, <1>b, <2>3 DEF RegisterRestored, Served, QueuesTyped
<1>6. QED
  BY <1>1, <1>2, <1>3, <1>4, <1>5 DEF ApiStep

LEMMA LifeNamed ==
    ASSUME QueuesTyped, Boot \/ LifeStep
    PROVE  QueuesTyped'
<1>a. /\ requests \in Seq(NamedRequest) /\ pending \in Seq(NamedRequest)
      /\ background \in Seq(NamedRequest)
  BY DEF QueuesTyped
<1>b. requests # <<>> => Tail(requests) \in Seq(NamedRequest)
  BY <1>a, HeadTailProperties
<1>c. /\ background \o pending \in Seq(NamedRequest)
      /\ <<>> \in Seq(NamedRequest)
  BY <1>a, ConcatProperties, EmptySeq
<1>d. \A op \in {"migrate", "heal", "history", "prune", "close"} :
        Plain(op, "life") \in NamedRequest
  BY NamedTypes DEF Op, Client
<1>e. \A s \in Seq(NamedRequest), op \in {"migrate", "heal", "history", "prune", "close"} :
        Append(s, Plain(op, "life")) \in Seq(NamedRequest)
  BY <1>d, AppendProperties
<1>1. pending' \in Seq(NamedRequest) /\ background' \in Seq(NamedRequest)
  BY <1>a, <1>c DEF Boot, LifeStep, Connect, Migrated, InitFlushed, Healed, Loaded, Run,
     RunFlushed, RunEnds, WritesSettled, Pruned, Close, CloseFlushed, Disconnect, Closed, Flush,
     AwaitWrites, writeVars
<1>2. CASE Connect \/ InitFlushed \/ WritesSettled \/ Disconnect
  BY <1>1, <1>2, <1>a, <1>e DEF Connect, InitFlushed, WritesSettled, Disconnect, Await,
     QueuesTyped
<1>3. CASE Migrated \/ Healed
  BY <1>1, <1>3, <1>b, <1>e DEF Migrated, Healed, Await, Served, QueuesTyped
<1>4. CASE Loaded \/ Pruned \/ Closed
  BY <1>1, <1>4, <1>b DEF Loaded, Pruned, Closed, Served, QueuesTyped
<1>5. CASE Boot \/ Run \/ RunFlushed \/ RunEnds \/ Close \/ CloseFlushed
  BY <1>1, <1>5, <1>a DEF Boot, Run, RunFlushed, RunEnds, Close, CloseFlushed, storeVars,
     QueuesTyped
<1>6. QED
  BY <1>2, <1>3, <1>4, <1>5 DEF LifeStep

\* What an execution may become.
LEMMA ExecStatesMove ==
    ASSUME NEW e \in ExecStates
    PROVE  /\ IdleExec \in ExecStates /\ IdleExec.pc \notin Inserting
           /\ e.pc # "idle" => e.job \in Names /\ e.row \in 0 .. MaxRows
           /\ e.pc \notin Inserting \cup {"idle"} => e.row # NoRow
           /\ \A n \in Names : [pc |-> "logging", job |-> n, row |-> NoRow] \in ExecStates
           /\ e.pc \in Inserting => \A pc \in Inserting :
                [e EXCEPT !.pc = pc] \in ExecStates /\ [e EXCEPT !.pc = pc].pc = pc
           /\ e.pc = "body" =>
                [e EXCEPT !.pc = "saving"] \in ExecStates /\ [e EXCEPT !.pc = "saving"].pc = "saving"
           /\ e.pc \in Inserting => \A i \in 1 .. MaxRows :
                /\ [e EXCEPT !.pc = "body", !.row = i] \in ExecStates
                /\ [e EXCEPT !.pc = "body", !.row = i].pc = "body"
<1>1. IdleExec \in ExecStates /\ IdleExec.pc = "idle" /\ "idle" \notin Inserting
  BY DEF ExecStates, IdleExec, Inserting
<1>2. e.pc # "idle" =>
        /\ e \in [pc: {"logging", "registering", "relogging", "body", "saving"},
                  job: Names, row: 0 .. MaxRows]
        /\ e.pc \in Inserting <=> e.row = NoRow
  BY <1>1 DEF ExecStates
<1>3. 0 \in 0 .. MaxRows
  BY RowsAssumption
<1>4. \A n \in Names : [pc |-> "logging", job |-> n, row |-> NoRow] \in ExecStates
  BY <1>3 DEF ExecStates, Inserting, NoRow
<1>5. ASSUME e.pc \in Inserting, NEW pc \in Inserting
      PROVE  [e EXCEPT !.pc = pc] \in ExecStates /\ [e EXCEPT !.pc = pc].pc = pc
  BY <1>2, <1>5 DEF ExecStates, Inserting
<1>6. ASSUME e.pc = "body"
      PROVE  [e EXCEPT !.pc = "saving"] \in ExecStates /\ [e EXCEPT !.pc = "saving"].pc = "saving"
  BY <1>2, <1>6 DEF ExecStates, Inserting
<1>7. ASSUME e.pc \in Inserting, NEW i \in 1 .. MaxRows
      PROVE  /\ [e EXCEPT !.pc = "body", !.row = i] \in ExecStates
             /\ [e EXCEPT !.pc = "body", !.row = i].pc = "body"
  <2>1. i \in 0 .. MaxRows /\ i # NoRow
    BY RowsAssumption DEF NoRow
  <2>2. QED
    BY <1>2, <1>7, <2>1 DEF ExecStates, Inserting
<1>8. QED
  BY <1>1, <1>2, <1>4, <1>5, <1>6, <1>7

\* The answer that an execution waits for: a row is inserted by "log" only.
LEMMA ExecServed ==
    ASSUME QueueInv, TablesTyped, QueuesTyped, NEW x \in Executions, Served({x})
    PROVE  /\ Tail(requests) \in Seq(NamedRequest)
           /\ Len(executions) \in Nat
           /\ Len(executions') \in Nat
           /\ execs[x].pc \in {"logging", "relogging"} /\ Answer = "ok" =>
                Len(executions') = Len(executions) + 1
           /\ execs[x].pc \in {"registering", "saving"} \/ Answer # "ok" =>
                Len(executions') = Len(executions)
<1>1. Takes({x})
  BY DEF Takes, Served
<1>2. Head(requests).from = x /\ Suits(Head(requests))
  BY <1>1, TakesTyped DEF QueueInv
<1>3. ExecAwaits(execs[x].pc, Head(requests).op)
  BY <1>2, ClientsAssumption DEF Suits
<1>4. QED
  BY <1>1, <1>3, TakesTyped DEF QueueInv, ExecAwaits

LEMMA RowsToComeAre ==
    ASSUME Typed
    PROVE  RowsToCome = Cardinality(ToInsert) + Cardinality(Orphans(requests))
<1>1. \A i \in DOMAIN requests : requests[i] \in Requests
  BY ElementOfSeq, LenProperties DEF Typed
<1>2. {i \in DOMAIN requests : /\ requests[i].from = "nobody"
                               /\ requests[i].op \in {"log", "register"}} = Orphans(requests)
  BY <1>1 DEF Orphans, At, Orphaned
<1>3. QED
  BY <1>2 DEF RowsToCome, ToInsert

LEMMA ExecTyped ==
    ASSUME QueueInv, StrictInv, Next, NEW x \in Executions, ExecStep(x), ~Abandon(x)
    PROVE  QueuesTyped' /\ ExecsTyped' /\ RowsBounded'
<1>a. Typed /\ Typed' /\ TablesTyped /\ QueuesTyped /\ ExecsTyped /\ RowsBounded
  BY NextTyped DEF QueueInv, StrictInv
<1>b. execs[x] \in ExecStates /\ x \in Client /\ requests \in Seq(NamedRequest)
  BY <1>a DEF ExecsTyped, Client, QueuesTyped
<1>c. Cardinality(Orphans(requests')) <= Cardinality(Orphans(requests))
  BY ExecLeavesWrites, OrphansLeft
<1>d. /\ Len(executions) \in Nat /\ Len(executions') \in Nat
      /\ Cardinality(ToInsert) \in Nat
      /\ Cardinality(Orphans(requests)) \in Nat /\ Cardinality(Orphans(requests')) \in Nat
      /\ Len(executions) + Cardinality(ToInsert) + Cardinality(Orphans(requests)) <= MaxRows
      /\ MaxRows \in Nat
  BY <1>a, FS_CardinalityType, OrphansFinite, LenProperties, RowsAssumption DEF Typed, RowsBounded
<1>e. UNCHANGED <<pending, background>>
  BY DEF ExecStep, Begin, Logged, LogRefused, Reregistered, LogFails, JobEnds, Saved,
     CancelJob, CancelAwait, WriteTimesOut, UnchangedByExecs, writeVars
<1>f. requests' \in Seq(NamedRequest) => QueuesTyped'
  BY <1>a, <1>e DEF QueuesTyped
<1>1. ASSUME NEW n \in Names, Begin(x, n)
      PROVE  QueuesTyped' /\ ExecsTyped' /\ RowsBounded'
  <2>1. PICK e \in ExecStates : /\ e = [pc |-> "logging", job |-> n, row |-> NoRow]
                                /\ e.pc = "logging"
    BY <1>b, ExecStatesMove
  <2>2. ExecGoes(x, e) /\ execs[x].pc = "idle"
    BY <1>1, <2>1 DEF Begin, Phase
  <2>3. /\ ExecsTyped'
        /\ IsFiniteSet(ToInsert)'
        /\ Cardinality(ToInsert)' = Cardinality(ToInsert) + 1
    <3>1. e.pc \in Inserting /\ execs[x].pc \notin Inserting
      BY <2>1, <2>2 DEF Inserting
    <3>2. QED
      BY <1>a, <2>2, <3>1, ToInsertGrows
  <2>4. About("log", n, x) \in NamedRequest
    BY <1>b, NamedTypes
  <2>5. requests' \in Seq(NamedRequest)
    BY <1>1, <1>b, <2>4, AppendProperties DEF Begin
  <2>6. Len(executions) + Cardinality(ToInsert) + Cardinality(Orphans(requests)) < MaxRows
    BY <1>1, <1>a, <1>d, RowsToComeAre DEF Begin
  <2>7. executions' = executions
    BY <1>1 DEF Begin, tables
  <2>8. RowsBounded'
    BY <1>c, <1>d, <2>3, <2>6, <2>7 DEF RowsBounded
  <2>9. QED
    BY <1>f, <2>3, <2>5, <2>8
<1>2. CASE Logged(x)
  <2>1. /\ Tail(requests) \in Seq(NamedRequest)
        /\ Len(executions') = Len(executions) + 1
        /\ execs[x].pc \in Inserting
    BY <1>2, <1>a, ExecServed DEF Logged, Phase, Inserting
  <2>2. Cardinality(ToInsert) > 0
    <3>1. ExecGoes(x, [execs[x] EXCEPT !.pc = "body", !.row = Len(executions')])
      BY <1>2 DEF Logged
    <3>2. x \in ToInsert
      BY <1>a, <1>b, <2>1 DEF ToInsert, InFlight, ExecStates, IdleExec, Inserting
    <3>3. QED
      BY <1>a, <1>d, <3>2, FS_EmptySet DEF RowsBounded
  <2>3. Len(executions') \in 1 .. MaxRows
    BY <1>d, <2>1, <2>2
  <2>4. PICK e \in ExecStates :
            /\ e = [execs[x] EXCEPT !.pc = "body", !.row = Len(executions')]
            /\ e.pc = "body"
    <3> DEFINE f == [execs[x] EXCEPT !.pc = "body", !.row = Len(executions')]
    <3>1. f \in ExecStates /\ f.pc = "body"
      BY <1>b, <2>1, <2>3, ExecStatesMove
    <3> HIDE DEF f
    <3>2. PICK e \in ExecStates : e = f /\ e.pc = "body"
      BY <3>1
    <3>3. QED
      BY <3>2 DEF f
  <2>5. ExecGoes(x, e)
    BY <1>2, <2>4 DEF Logged
  <2>6. /\ ExecsTyped'
        /\ IsFiniteSet(ToInsert)'
        /\ Cardinality(ToInsert)' = Cardinality(ToInsert) - 1
    <3>1. e.pc \notin Inserting
      BY <2>4 DEF Inserting
    <3>2. QED
      BY <1>a, <2>1, <2>5, <3>1, ToInsertShrinks
  <2>7. RowsBounded'
    BY <1>a, <1>c, <1>d, <2>1, <2>6, RowsStayBounded
  <2>8. requests' \in Seq(NamedRequest)
    BY <1>2, <2>1 DEF Logged
  <2>9. QED
    BY <1>f, <2>6, <2>7, <2>8
<1>3. CASE LogRefused(x) \/ Reregistered(x)
  <2>1. /\ Tail(requests) \in Seq(NamedRequest)
        /\ Len(executions') = Len(executions)
        /\ execs[x].pc \in Inserting
    BY <1>3, <1>a, ExecServed DEF LogRefused, Reregistered, Phase, Inserting
  <2>2. execs[x].job \in Names
    BY <1>b, <2>1, ExecStatesMove DEF Inserting
  <2>3. PICK pc \in Inserting, op \in {"log", "register"} :
            /\ ExecGoes(x, [execs[x] EXCEPT !.pc = pc])
            /\ requests' = Append(Tail(requests), About(op, execs[x].job, x))
    BY <1>3 DEF LogRefused, Reregistered, Inserting
  <2>4. PICK e \in ExecStates : e = [execs[x] EXCEPT !.pc = pc] /\ e.pc = pc
    <3> DEFINE f == [execs[x] EXCEPT !.pc = pc]
    <3>1. f \in ExecStates /\ f.pc = pc
      BY <1>b, <2>1, ExecStatesMove
    <3> HIDE DEF f
    <3>2. PICK e \in ExecStates : e = f /\ e.pc = pc
      BY <3>1
    <3>3. QED
      BY <3>2 DEF f
  <2>5. ExecGoes(x, e)
    BY <2>3, <2>4
  <2>6. /\ ExecsTyped'
        /\ IsFiniteSet(ToInsert)'
        /\ Cardinality(ToInsert)' = Cardinality(ToInsert)
    BY <1>a, <2>1, <2>4, <2>5, ToInsertStays
  <2>7. RowsBounded'
    BY <1>a, <1>c, <1>d, <2>1, <2>6, RowsStayBounded
  <2>8. About(op, execs[x].job, x) \in NamedRequest
    BY <1>b, <2>2, NamedTypes
  <2>9. requests' \in Seq(NamedRequest)
    BY <2>1, <2>3, <2>8, AppendProperties
  <2>10. QED
    BY <1>f, <2>6, <2>7, <2>9
<1>4. CASE LogFails(x) \/ Saved(x)
  <2>1. /\ Tail(requests) \in Seq(NamedRequest)
        /\ Len(executions') = Len(executions)
    BY <1>4, <1>a, ExecServed DEF LogFails, Saved, Phase
  <2>2. ExecGoes(x, IdleExec) /\ requests' = Tail(requests)
    BY <1>4 DEF LogFails, Saved
  <2>3. IdleExec \in ExecStates /\ IdleExec.pc \notin Inserting
    BY <1>b, ExecStatesMove
  <2>4. /\ ExecsTyped'
        /\ IsFiniteSet(ToInsert)'
        /\ Cardinality(ToInsert)' <= Cardinality(ToInsert)
        /\ Cardinality(ToInsert)' \in Int
    BY <1>a, <1>d, <2>2, <2>3, ToInsertMoves DEF RowsBounded
  <2>5. RowsBounded'
    BY <1>a, <1>c, <1>d, <2>1, <2>4, RowsStayBounded
  <2>6. QED
    BY <1>f, <2>1, <2>2, <2>4, <2>5
<1>5. CASE JobEnds(x) \/ CancelJob(x)
  <2>1. PICK status \in Ends : Save(x, status) /\ execs[x].pc = "body" /\ UNCHANGED tables
    BY <1>5 DEF JobEnds, CancelJob, Ends, Phase
  <2>2. /\ [execs[x] EXCEPT !.pc = "saving"] \in ExecStates
        /\ [execs[x] EXCEPT !.pc = "saving"].pc = "saving"
        /\ IdleExec \in ExecStates /\ IdleExec.pc \notin Inserting
        /\ execs[x].row \in 0 .. MaxRows
    BY <1>b, <2>1, ExecStatesMove
  <2>3. PICK e \in ExecStates : e.pc \notin Inserting /\ ExecGoes(x, e)
    BY <2>1, <2>2 DEF Save, Inserting
  <2>4. /\ ExecsTyped'
        /\ IsFiniteSet(ToInsert)'
        /\ Cardinality(ToInsert)' = Cardinality(ToInsert)
    <3>1. execs[x].pc \notin Inserting
      BY <2>1 DEF Inserting
    <3>2. QED
      BY <1>a, <2>3, <3>1, ToInsertStays
  <2>5. executions' = executions
    BY <2>1 DEF tables
  <2>6. RowsBounded'
    BY <1>a, <1>c, <1>d, <2>4, <2>5, RowsStayBounded
  <2>7. Update(execs[x].row, status, x) \in NamedRequest
    BY <1>b, <2>2, NamedTypes
  <2>8. requests' \in Seq(NamedRequest)
    BY <1>b, <2>1, <2>7, AppendProperties DEF Save
  <2>9. QED
    BY <1>f, <2>4, <2>6, <2>8
<1>6. QED
  BY <1>1, <1>2, <1>3, <1>4, <1>5 DEF ExecStep, CancelAwait, WriteTimesOut

\* One who gives up leaves one insertion behind, if one was to come.
LEMMA AbandonTyped ==
    ASSUME QueueInv, StrictInv, Next, NEW x \in Executions, Abandon(x),
           UNCHANGED <<pending, background>>
    PROVE  QueuesTyped' /\ ExecsTyped' /\ RowsBounded'
<1>a. Typed /\ Typed' /\ TablesTyped /\ QueuesTyped /\ ExecsTyped /\ RowsBounded
  BY NextTyped DEF QueueInv, StrictInv
<1>b. /\ execs[x] \in ExecStates /\ requests \in Seq(NamedRequest)
      /\ requests \in Seq(Requests) /\ requests' \in Seq(Requests)
      /\ Len(requests) \in Nat /\ DOMAIN requests = 1 .. Len(requests)
  BY <1>a, LenProperties DEF ExecsTyped, QueuesTyped, Typed
<1>c. /\ executions' = executions /\ ExecGoes(x, IdleExec)
      /\ DOMAIN requests' = DOMAIN requests
      /\ \A k \in DOMAIN requests :
            /\ requests[k].from # x => requests'[k] = requests[k]
            /\ requests[k].from = x => requests'[k] = [requests[k] EXCEPT !.from = "nobody"]
  BY DEF Abandon, tables
<1>d. /\ \A k \in DOMAIN requests : requests[k] \in Requests /\ requests[k] \in NamedRequest
      /\ \A k \in DOMAIN requests : Suits(requests[k])
  BY <1>b, ElementOfSeq DEF QueueInv, Disciplined
<1>1. requests' \in Seq(NamedRequest)
  <2>1. \A r \in NamedRequest : [r EXCEPT !.from = "nobody"] \in NamedRequest
    BY DEF NamedRequest, Request, Client
  <2>2. \A k \in DOMAIN requests : requests'[k] \in NamedRequest
    <3> SUFFICES ASSUME NEW k \in DOMAIN requests PROVE requests'[k] \in NamedRequest
      OBVIOUS
    <3>1. CASE requests[k].from = x
      <4>1. requests'[k] = [requests[k] EXCEPT !.from = "nobody"]
        BY <1>c, <3>1
      <4>2. QED
        BY <1>d, <2>1, <4>1
    <3>2. CASE requests[k].from # x
      BY <1>c, <1>d, <3>2
    <3>3. QED
      BY <3>1, <3>2
  <2>3. requests' \in [1 .. Len(requests) -> NamedRequest]
    BY <1>b, <1>c, <2>2 DEF Abandon
  <2>4. QED
    BY <1>b, <2>3, FunctionIsSeq
<1>2. \A k \in DOMAIN requests :
        /\ requests'[k].op = requests[k].op /\ requests'[k] \in Requests
        /\ requests[k].from # x => requests'[k].from = requests[k].from
        /\ requests[k].from = x => requests'[k].from = "nobody"
  <2>1. \A r \in Requests : /\ [r EXCEPT !.from = "nobody"] \in Requests
                            /\ [r EXCEPT !.from = "nobody"].op = r.op
                            /\ [r EXCEPT !.from = "nobody"].from = "nobody"
    BY DEF Requests, Client
  <2>2. ASSUME NEW k \in DOMAIN requests, requests[k].from = x
        PROVE  /\ requests'[k].op = requests[k].op /\ requests'[k] \in Requests
               /\ requests'[k].from = "nobody"
    <3>1. requests'[k] = [requests[k] EXCEPT !.from = "nobody"] /\ requests[k] \in Requests
      BY <1>c, <1>d, <2>2
    <3>2. QED
      BY <2>1, <3>1
  <2>3. ASSUME NEW k \in DOMAIN requests, requests[k].from # x
        PROVE  requests'[k] = requests[k] /\ requests[k] \in Requests
    BY <1>c, <1>d, <2>3
  <2>4. QED
    BY <2>2, <2>3
<1>3. \A k \in Orphans(requests') :
        \/ k \in Orphans(requests)
        \/ /\ k \in DOMAIN requests /\ requests[k].from = x
           /\ requests[k].op \in {"log", "register"}
  BY <1>c, <1>d, <1>2 DEF Orphans, At, Orphaned
<1>4. /\ IsFiniteSet(Orphans(requests)) /\ Cardinality(Orphans(requests)) \in Nat
      /\ Cardinality(Orphans(requests')) \in Nat
      /\ Len(executions) \in Nat /\ Cardinality(ToInsert) \in Nat
  BY <1>a, <1>b, OrphansFinite, FS_CardinalityType, LenProperties DEF Typed, RowsBounded
<1>5. IdleExec \in ExecStates /\ IdleExec.pc \notin Inserting
  BY <1>b, ExecStatesMove
<1>6. /\ ExecsTyped' /\ IsFiniteSet(ToInsert)'
      /\ Cardinality(ToInsert)' =
            Cardinality(ToInsert) - (IF execs[x].pc \in Inserting THEN 1 ELSE 0)
  BY <1>a, <1>c, <1>4, <1>5, ToInsertMoves DEF RowsBounded
<1>7. CASE execs[x].pc \in Inserting
  <2>1. PICK l : \A k \in DOMAIN requests : requests[k].from = x => k = l
    <3>1. \A j, k \in DOMAIN requests :
            requests[j].from = requests[k].from /\ requests[j].from \in Sole => j = k
      BY DEF QueueInv, Disciplined
    <3>2. x \in Sole
      BY DEF Sole
    <3>3. QED
      BY <3>1, <3>2
  <2>2. Orphans(requests') \subseteq Orphans(requests) \cup {l}
    BY <1>3, <2>1
  <2>3. /\ IsFiniteSet(Orphans(requests) \cup {l})
        /\ Cardinality(Orphans(requests) \cup {l}) \in Nat
        /\ Cardinality(Orphans(requests) \cup {l}) <= Cardinality(Orphans(requests)) + 1
    <3>1. /\ IsFiniteSet(Orphans(requests) \cup {l})
          /\ Cardinality(Orphans(requests) \cup {l}) \in
                {Cardinality(Orphans(requests)), Cardinality(Orphans(requests)) + 1}
      BY <1>4, FS_AddElement
    <3>2. QED
      BY <1>4, <3>1
  <2>4. Cardinality(Orphans(requests')) <= Cardinality(Orphans(requests) \cup {l})
    BY <2>2, <2>3, FS_Subset
  <2>5. Cardinality(Orphans(requests')) <= Cardinality(Orphans(requests)) + 1
    BY <1>4, <2>3, <2>4
  <2>6. RowsBounded'
    BY <1>a, <1>c, <1>4, <1>6, <1>7, <2>5, RowsStayBounded
  <2>7. QED
    BY <1>1, <1>6, <2>6 DEF QueuesTyped, StrictInv
<1>8. CASE execs[x].pc \notin Inserting
  <2>1. \A k \in DOMAIN requests :
            requests[k].from = x => requests[k].op \notin {"log", "register"}
    BY <1>d, <1>8, ClientsAssumption DEF Suits, ExecAwaits, Inserting
  <2>2. Orphans(requests') \subseteq Orphans(requests)
    BY <1>3, <2>1
  <2>3. Cardinality(Orphans(requests')) <= Cardinality(Orphans(requests))
    BY <1>4, <2>2, FS_Subset
  <2>4. RowsBounded'
    BY <1>a, <1>c, <1>4, <1>6, <1>8, <2>3, RowsStayBounded
  <2>5. QED
    BY <1>1, <1>6, <2>4 DEF QueuesTyped, StrictInv
<1>9. QED
  BY <1>7, <1>8

\* Steps of no execution: nobody's insertions are counted by Orphans.
LEMMA ExecsRest ==
    ASSUME ExecsTyped, RowsBounded, Typed, Typed', UNCHANGED execs,
           Len(executions') + Cardinality(Orphans(requests'))
             <= Len(executions) + Cardinality(Orphans(requests))
    PROVE  ExecsTyped' /\ RowsBounded'
<1>1. ToInsert' = ToInsert /\ ExecsTyped'
  BY DEF ToInsert, InFlight, ExecsTyped
<1>2. /\ Len(executions) \in Nat /\ Len(executions') \in Nat /\ Cardinality(ToInsert) \in Nat
      /\ Cardinality(Orphans(requests)) \in Nat /\ Cardinality(Orphans(requests')) \in Nat
  BY FS_CardinalityType, OrphansFinite, LenProperties DEF Typed, RowsBounded
<1>3. RowsBounded'
  BY <1>1, <1>2, RowsStayBounded DEF RowsBounded
<1>4. QED
  BY <1>1, <1>3

LEMMA OthersTyped ==
    ASSUME QueueInv, StrictInv, Next,
           ApiStep \/ StartWrite \/ EndWrite \/ RegisterRestored \/ Boot \/ LifeStep
    PROVE  ExecsTyped' /\ RowsBounded'
<1>a. Typed /\ Typed' /\ Disciplined /\ TablesTyped /\ QueuesTyped /\ ExecsTyped /\ RowsBounded
  BY NextTyped DEF QueueInv, StrictInv
<1>1. UNCHANGED execs /\ (UNCHANGED tables \/ Takes({"life", "write", "restore"}))
  <2>1. CASE ApiStep
    BY <2>1 DEF ApiStep, Register, RemoveJob, RemoveJobRaises, RestoreJobs, storeVars
  <2>2. CASE StartWrite \/ EndWrite \/ RegisterRestored
    BY <2>2 DEF StartWrite, EndWrite, RegisterRestored, Served, Takes
  <2>3. CASE Boot \/ LifeStep
    BY <2>3 DEF Boot, LifeStep, Connect, Migrated, InitFlushed, Healed, Loaded, Run,
     RunFlushed, RunEnds, WritesSettled, Pruned, Close, CloseFlushed, Disconnect, Closed,
     Served, Takes, storeVars
  <2>4. QED
    BY <2>1, <2>2, <2>3
<1>2. Len(executions') = Len(executions)
  <2>1. CASE UNCHANGED tables
    BY <2>1 DEF tables
  <2>2. CASE Takes({"life", "write", "restore"})
    <3>1. Head(requests).op # "log"
      BY <1>a, <2>2, TakesTyped, ClientsAssumption DEF Suits, LifeAwaits
    <3>2. QED
      BY <1>a, <2>2, <3>1, TakesTyped
  <2>3. QED
    BY <1>1, <2>1, <2>2
<1>3. Cardinality(Orphans(requests')) <= Cardinality(Orphans(requests))
  BY CallLeavesWrites, LifeLeavesWrites, OrphansLeft
<1>4. /\ Len(executions) \in Nat
      /\ Cardinality(Orphans(requests)) \in Nat /\ Cardinality(Orphans(requests')) \in Nat
  BY <1>a, OrphansFinite, LenProperties DEF Typed
<1>5. QED
  BY <1>a, <1>1, <1>2, <1>3, <1>4, ExecsRest

LEMMA NobodyTyped ==
    ASSUME QueueInv, StrictInv, Next, ServeNobody
    PROVE  ExecsTyped' /\ RowsBounded'
<1>a. Typed /\ Typed' /\ Disciplined /\ TablesTyped /\ QueuesTyped /\ ExecsTyped /\ RowsBounded
  BY NextTyped DEF QueueInv, StrictInv
<1>b. requests \in Seq(Requests) /\ requests' \in Seq(Requests)
  BY <1>a DEF Typed
<1>1. Takes({"nobody"}) /\ requests # <<>> /\ requests' = Tail(requests) /\ UNCHANGED execs
  BY DEF ServeNobody, Served, Takes
<1>2. /\ Len(executions) \in Nat /\ Len(executions') \in Nat
      /\ Len(executions') =
            Len(executions) + (IF Head(requests).op = "log" /\ Answer = "ok" THEN 1 ELSE 0)
      /\ Head(requests) \in Requests /\ Head(requests).from = "nobody"
  BY <1>a, <1>1, TakesTyped
<1>3. /\ Head(requests).op = "log" =>
            Cardinality(Orphans(requests)) = Cardinality(Orphans(requests')) + 1
      /\ Cardinality(Orphans(requests')) <= Cardinality(Orphans(requests))
  BY <1>b, <1>1, <1>2, OrphansTail DEF Orphaned
<1>4. Cardinality(Orphans(requests)) \in Nat /\ Cardinality(Orphans(requests')) \in Nat
  BY <1>b, OrphansFinite
<1>5. QED
  BY <1>a, <1>1, <1>2, <1>3, <1>4, ExecsRest

LEMMA CrashTyped ==
    ASSUME StrictInv, Crash
    PROVE  QueuesTyped' /\ ExecsTyped' /\ RowsBounded'
<1>1. /\ requests' = <<>> /\ pending' = <<>> /\ background' = <<>>
      /\ executions' = executions /\ execs' = [x \in Executions |-> IdleExec]
  BY DEF Crash, tables
<1>2. QueuesTyped' /\ ExecsTyped'
  BY <1>1, EmptySeq DEF QueuesTyped, ExecsTyped, ExecStates
<1>3. ToInsert' = {} /\ Orphans(requests') = {}
  BY <1>1 DEF ToInsert, InFlight, Orphans, At
<1>4. IsFiniteSet({}) /\ Cardinality({}) = 0
  BY FS_EmptySet
<1>5. Len(executions) <= MaxRows /\ Len(executions) \in Nat
  <2>1. /\ Len(executions) \in Nat /\ Cardinality(ToInsert) \in Nat /\ MaxRows \in Nat
        /\ RowsBounded
    BY FS_CardinalityType, LenProperties, RowsAssumption DEF StrictInv, TablesTyped, RowsBounded
  <2>2. Cardinality(Orphans(requests)) \in Nat
    <3>1. /\ Orphans(requests) \subseteq 1 .. Len(requests)
          /\ Len(requests) \in Nat
      BY LenProperties DEF Orphans, At, StrictInv, QueuesTyped
    <3>2. IsFiniteSet(1 .. Len(requests))
      BY <3>1, FS_Interval
    <3>3. IsFiniteSet(Orphans(requests))
      BY <3>1, <3>2, FS_Subset
    <3>4. QED
      BY <3>3, FS_CardinalityType
  <2>3. QED
    BY <2>1, <2>2 DEF RowsBounded
<1>6. RowsBounded'
  <2>1. RowsBounded' <=>
            /\ IsFiniteSet(ToInsert')
            /\ Len(executions') + Cardinality(ToInsert') + Cardinality(Orphans(requests'))
                 <= MaxRows
    BY DEF RowsBounded
  <2>2. IsFiniteSet(ToInsert') /\ Cardinality(ToInsert') = 0 /\ Cardinality(Orphans(requests')) = 0
    BY <1>3, <1>4
  <2>3. Len(executions') = Len(executions)
    BY <1>1
  <2>4. QED
    BY <1>5, <2>1, <2>2, <2>3
<1>7. QED
  BY <1>2, <1>6

LEMMA NextStrict ==
    ASSUME QueueInv, StrictInv, [Next]_vars
    PROVE  StrictInv'
<1>a. TablesTyped /\ StageTyped /\ NamesTyped /\ QueuesTyped
  BY DEF StrictInv
<1>1. TablesTyped' /\ StageTyped' /\ NamesTyped'
  BY <1>a, NextTablesTyped, NextStageTyped, NextNamesTyped
<1>2. QueuesTyped' /\ ExecsTyped' /\ RowsBounded'
  <2>1. CASE UNCHANGED vars
    BY <2>1 DEF vars, storeVars, tables, writeVars, StrictInv, QueuesTyped, ExecsTyped,
       RowsBounded, ToInsert, InFlight, Orphans, At
  <2>2. CASE Crash
    BY <2>2, CrashTyped
  <2>3. CASE Next /\ (ApiStep \/ StartWrite \/ EndWrite \/ RegisterRestored)
    BY <2>3, <1>a, CallsNamed, OthersTyped
  <2>4. CASE Next /\ (Boot \/ LifeStep)
    BY <2>4, <1>a, LifeNamed, OthersTyped
  <2>5. CASE Next /\ ServeNobody
    BY <2>5, <1>a, CallsNamed, NobodyTyped
  <2>6. ASSUME Next, NEW x \in Executions, ExecStep(x)
        PROVE  QueuesTyped' /\ ExecsTyped' /\ RowsBounded'
    <3>1. CASE Abandon(x)
      <4>1. UNCHANGED <<pending, background>>
        BY <3>1 DEF Abandon, UnchangedByExecs, writeVars
      <4>2. QED
        BY <2>6, <3>1, <4>1, AbandonTyped
    <3>2. CASE ~Abandon(x)
      BY <2>6, <3>2, ExecTyped
    <3>3. QED
      BY <3>1, <3>2
  <2>7. QED
    BY <2>1, <2>2, <2>3, <2>4, <2>5, <2>6 DEF Next
<1>3. QED
  BY <1>1, <1>2 DEF StrictInv

LEMMA InitStrict == Init => StrictInv /\ DrainInv
<1> SUFFICES ASSUME Init PROVE StrictInv /\ DrainInv
  OBVIOUS
<1>1. /\ requests = <<>> /\ pending = <<>> /\ background = <<>> /\ executions = <<>>
      /\ draining = 0
  BY DEF Init, StoreInit
<1>2. QueuesTyped
  BY <1>1, EmptySeq DEF QueuesTyped
<1>3. TablesTyped /\ StageTyped /\ NamesTyped /\ ExecsTyped
  <2>1. TablesTyped /\ NamesTyped
    BY <1>1, EmptySeq DEF Init, StoreInit, TablesTyped, NamesTyped
  <2>2. StageTyped
    BY PersistenceAssumption DEF Init, StoreInit, StageTyped, Stages
  <2>3. execs = [x \in Executions |-> IdleExec]
    BY DEF Init
  <2>4. ExecsTyped
    BY <2>3 DEF ExecsTyped, ExecStates
  <2>5. QED
    BY <2>1, <2>2, <2>4
<1>4. ToInsert = {} /\ Orphans(requests) = {} /\ Submitted = {}
  BY <1>1 DEF Init, ToInsert, InFlight, Orphans, At, Submitted
<1>5. RowsBounded /\ DrainInv
  BY <1>1, <1>4, FS_EmptySet, RowsAssumption DEF RowsBounded, DrainInv, Outstanding
<1>6. QED
  BY <1>2, <1>3, <1>5 DEF StrictInv

\* Every variable has the type the code gives it, and the bounds of a run are
\* respected.  In particular no more rows are inserted than were counted when
\* executions began (_wrap_job), however many are cancelled or give up while
\* their statement waits for the connection's thread; and no stage awaits
\* more writes (wait_for_writes) than are outstanding.
THEOREM PersistenceTypeCorrect == Spec => []TypeOK
<1>1. QueueInv /\ StrictInv /\ DrainInv => TypeOK
  <2> SUFFICES ASSUME QueueInv, StrictInv, DrainInv PROVE TypeOK
    OBVIOUS
  <2>1. NamedRequest \subseteq Request
    BY DEF NamedRequest
  <2>2. requests \in Seq(Request) /\ pending \in Seq(Request) /\ background \in Seq(Request)
    BY <2>1, SeqMonotonic DEF StrictInv, QueuesTyped
  <2>3. Len(executions) <= MaxRows
    <3>1. /\ Len(executions) \in Nat /\ Cardinality(ToInsert) \in Nat /\ MaxRows \in Nat
          /\ Cardinality(Orphans(requests)) \in Nat
      BY FS_CardinalityType, OrphansFinite, LenProperties, RowsAssumption
      DEF QueueInv, Typed, StrictInv, TablesTyped, RowsBounded
    <3>2. QED
      BY <3>1 DEF StrictInv, RowsBounded
  <2>4. StoreTypeOK
    BY <2>2, <2>3 DEF StoreTypeOK, StrictInv, TablesTyped, StageTyped
  <2>5. draining \in 0 .. Outstanding(background)
    BY OutstandingType DEF DrainInv, QueueInv
  <2>6. execs \in [Executions -> [pc: {"logging", "registering", "relogging", "body", "saving"},
                                 job: Names, row: 0 .. MaxRows] \cup {IdleExec}]
    BY DEF StrictInv, ExecsTyped, ExecStates
  <2>7. QED
    BY <2>2, <2>4, <2>5, <2>6 DEF TypeOK, StrictInv, StageTyped, NamesTyped
<1>2. QueueInv /\ StrictInv /\ DrainInv /\ [Next]_vars => (StrictInv /\ DrainInv)'
  BY NextStrict, NextDrain
<1>3. StoreInv => QueueInv
  BY DEF StoreInv
<1>4. QED
  BY <1>1, <1>2, <1>3, InitStrict, OneSettlesARow, PTL DEF Spec
=============================================================================
