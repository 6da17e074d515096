------------------------ MODULE ConcurrencySlotsProofs ------------------------
(***************************************************************************)
(* The counter and the semaphore agree for any number of slots and users,  *)
(* and what is not available is held unless a non-holder releases.         *)
(*                                                                         *)
(* The argument: a permit is in the semaphore or granted, and waking a     *)
(* client moves one from the former to the latter.  available_concurrency  *)
(* counts both, and changes when a client takes a permit or a holder       *)
(* releases one, which the guard of release_concurrency_slot always lets   *)
(* through.                                                                *)
(***************************************************************************)
EXTENDS ConcurrencySlots, FiniteSetTheorems, TLAPS

States == {"none", "pending", "granted", "cancelled"}
Granted == WithFuture("granted")
GrantedIn(f) == {c \in Clients : f[c] = "granted"}

Typed ==
    /\ value \in Nat
    /\ future \in [Clients -> States]
    /\ interrupted \subseteq Granted
    /\ holding \subseteq Users
    /\ launched \in Nat
    /\ \A u \in holding : future[u] = "none"

\* Nobody begins to wait.
NobodyJoins == \A d \in Clients : future[d] = "none" => future'[d] = "none"

SlotInv == Typed /\ PermitsAgree

HeldInv == SlotInv /\ HeldOrAvailable

LEMMA FiniteClients ==
    /\ IsFiniteSet(Clients)
    /\ \A S \in SUBSET Clients : IsFiniteSet(S) /\ Cardinality(S) \in Nat
<1>1. IsFiniteSet(Clients)
  BY SlotsAssumption, FS_AddElement DEF Clients
<1>2. QED
  BY <1>1, FS_Subset, FS_CardinalityType

\* Waking clients moves permits from the semaphore to their futures.
LEMMA WakingKeepsPermits ==
    ASSUME NEW v \in Nat, NEW w, NEW f \in [Clients -> States], NEW k \in Nat,
           k <= v, WakeUp(v, w, f, k)
    PROVE  /\ value' \in Nat
           /\ future' \in [Clients -> States]
           /\ \A d \in Clients : f[d] = "none" => future'[d] = "none"
           /\ GrantedIn(f) \subseteq Granted'
           /\ value' + Cardinality(Granted') = v + Cardinality(GrantedIn(f))
<1> DEFINE pending == {c \in Clients : f[c] = "pending"}
           G == GrantedIn(f)
<1>1. PICK woken \in SUBSET pending :
        /\ Cardinality(woken) = Smaller(k, Cardinality(pending))
        /\ value' = v - Cardinality(woken)
        /\ future' = [c \in Clients |-> IF c \in woken THEN "granted" ELSE f[c]]
  BY DEF WakeUp
<1>2. /\ IsFiniteSet(woken) /\ Cardinality(woken) \in Nat
      /\ IsFiniteSet(G) /\ Cardinality(G) \in Nat
      /\ Cardinality(pending) \in Nat
  <2>1. woken \subseteq Clients /\ G \subseteq Clients /\ pending \subseteq Clients
    BY DEF GrantedIn
  <2>2. QED
    BY <2>1, FiniteClients
<1>3. Cardinality(woken) <= v
  <2> HIDE DEF pending
  <2> QED
    BY <1>1, <1>2 DEF Smaller
<1>4. /\ future' \in [Clients -> States]
      /\ \A d \in Clients : f[d] = "none" => future'[d] = "none"
  BY <1>1 DEF States
<1>5. Granted' = G \cup woken /\ G \cap woken = {}
  BY <1>1 DEF Granted, WithFuture, GrantedIn
<1>6. Cardinality(Granted') = Cardinality(G) + Cardinality(woken)
  <2>1. Cardinality(G \cup woken)
          = Cardinality(G) + Cardinality(woken) - Cardinality(G \cap woken)
    BY <1>2, FS_Union
  <2>2. QED
    BY <1>2, <1>5, <2>1, FS_EmptySet
<1>7. QED
  BY <1>1, <1>2, <1>3, <1>4, <1>5, <1>6

\* A client that leaves the queue takes its grant with it, if it has one.
LEMMA LeavingKeepsPermits ==
    ASSUME Typed, NEW c \in Clients, NEW v \in Nat, Leave(c, v)
    PROVE  /\ value' \in Nat
           /\ future' \in [Clients -> States] /\ NobodyJoins
           /\ interrupted' \subseteq Granted'
           /\ value' + Cardinality(Granted') = v + Cardinality(Granted \ {c})
<1> DEFINE f == [future EXCEPT ![c] = "none"]
<1>1. /\ f \in [Clients -> States] /\ GrantedIn(f) = Granted \ {c}
      /\ \A d \in Clients : future[d] = "none" => f[d] = "none"
  BY DEF Typed, States, Granted, WithFuture, GrantedIn
<1>2. WakeUp(v, Without(c), f, v) /\ interrupted' = interrupted \ {c}
  BY DEF Leave
<1> HIDE DEF f
<1>3. /\ value' \in Nat
      /\ future' \in [Clients -> States]
      /\ \A d \in Clients : f[d] = "none" => future'[d] = "none"
      /\ GrantedIn(f) \subseteq Granted'
      /\ value' + Cardinality(Granted') = v + Cardinality(GrantedIn(f))
  BY <1>1, <1>2, WakingKeepsPermits
<1>4. QED
  BY <1>1, <1>2, <1>3 DEF Typed, NobodyJoins

LEMMA LeaverIsOut ==
    ASSUME Typed, NEW c \in Clients, NEW v, Leave(c, v)
    PROVE  future'[c] = "none"
<1>1. future \in [Clients -> States] /\ [future EXCEPT ![c] = "none"][c] = "none"
  BY DEF Typed
<1>2. WakeUp(v, Without(c), [future EXCEPT ![c] = "none"], v)
  BY DEF Leave
<1>3. QED
  BY <1>1, <1>2 DEF WakeUp

\* What the two outcomes of a wait do to the permits.
LEMMA ServedTakesOne ==
    ASSUME SlotInv, NEW c \in Clients, IsResumed(c), Leave(c, value)
    PROVE  /\ value' \in Nat
           /\ future' \in [Clients -> States] /\ NobodyJoins
           /\ interrupted' \subseteq Granted'
           /\ value' + Cardinality(Granted') = available - 1
<1>1. c \in Granted /\ Granted \subseteq Clients
  BY DEF IsResumed, Granted, WithFuture
<1>2. IsFiniteSet(Granted) /\ Cardinality(Granted) \in Nat
  BY <1>1, FiniteClients
<1>3. Cardinality(Granted \ {c}) = Cardinality(Granted) - 1
  BY <1>1, <1>2, FS_RemoveElement
<1>4. value \in Nat /\ Typed /\ available = value + Cardinality(Granted)
  BY DEF SlotInv, Typed, PermitsAgree, Granted
<1>5. /\ value' \in Nat
      /\ future' \in [Clients -> States] /\ NobodyJoins
      /\ interrupted' \subseteq Granted'
      /\ value' + Cardinality(Granted') = value + Cardinality(Granted \ {c})
  BY <1>4, LeavingKeepsPermits
<1>6. QED
  BY <1>2, <1>3, <1>4, <1>5

LEMMA GivingUpKeepsAll ==
    ASSUME SlotInv, NEW c \in Clients, IsInterrupted(c), Leave(c, GivenBack(c))
    PROVE  /\ value' \in Nat
           /\ future' \in [Clients -> States] /\ NobodyJoins
           /\ interrupted' \subseteq Granted'
           /\ value' + Cardinality(Granted') = available
<1>1. Granted \subseteq Clients
  BY DEF Granted, WithFuture
<1>2. IsFiniteSet(Granted) /\ Cardinality(Granted) \in Nat
  BY <1>1, FiniteClients
<1>3. value \in Nat /\ Typed /\ available = value + Cardinality(Granted)
  BY DEF SlotInv, Typed, PermitsAgree, Granted
<1>4. GivenBack(c) \in Nat
  BY <1>3 DEF GivenBack
<1>5. GivenBack(c) + Cardinality(Granted \ {c}) = value + Cardinality(Granted)
  <2>1. CASE c \in interrupted
    <3>1. c \in Granted /\ GivenBack(c) = value + 1
      BY <1>3, <2>1 DEF Typed, GivenBack
    <3>2. Cardinality(Granted \ {c}) = Cardinality(Granted) - 1
      BY <1>2, <3>1, FS_RemoveElement
    <3>3. QED
      BY <1>2, <1>3, <3>1, <3>2
  <2>2. CASE c \notin interrupted
    <3>1. future[c] = "cancelled" /\ GivenBack(c) = value
      BY <2>2 DEF IsInterrupted, GivenBack
    <3>2. Granted \ {c} = Granted
      BY <3>1 DEF Granted, WithFuture
    <3>3. QED
      BY <3>1, <3>2
  <2>3. QED
    BY <2>1, <2>2
<1>6. /\ value' \in Nat
      /\ future' \in [Clients -> States] /\ NobodyJoins
      /\ interrupted' \subseteq Granted'
      /\ value' + Cardinality(Granted') = GivenBack(c) + Cardinality(Granted \ {c})
  BY <1>3, <1>4, LeavingKeepsPermits
<1>7. QED
  BY <1>3, <1>5, <1>6

\* A release gives one permit, unless all are there.
LEMMA ReleasingGivesOne ==
    ASSUME SlotInv, ReleaseSlot
    PROVE  /\ value' \in Nat
           /\ future' \in [Clients -> States] /\ NobodyJoins
           /\ interrupted' \subseteq Granted'
           /\ PermitsAgree'
           /\ available' = IF available < MaxConcurrency THEN available + 1
                                                         ELSE available
<1>1. /\ value \in Nat /\ Typed /\ available = value + Cardinality(Granted)
      /\ available \in 0 .. MaxConcurrency /\ MaxConcurrency \in Nat
  BY SlotsAssumption DEF SlotInv, Typed, PermitsAgree, Granted
<1>2. CASE available < MaxConcurrency
  <2>1. /\ WakeUp(value + 1, waiters, future, 1)
        /\ available' = available + 1 /\ interrupted' = interrupted
    BY <1>2 DEF ReleaseSlot
  <2>2. GrantedIn(future) = Granted
    BY DEF GrantedIn, Granted, WithFuture
  <2>3. /\ value' \in Nat
        /\ future' \in [Clients -> States] /\ NobodyJoins
        /\ GrantedIn(future) \subseteq Granted'
        /\ value' + Cardinality(Granted') = value + 1 + Cardinality(GrantedIn(future))
    <3>1. value + 1 \in Nat /\ 1 \in Nat /\ 1 <= value + 1
          /\ future \in [Clients -> States]
      BY <1>1 DEF Typed
    <3>2. QED
      BY <2>1, <3>1, WakingKeepsPermits DEF NobodyJoins
  <2>4. Granted' \subseteq Clients
    BY DEF Granted, WithFuture
  <2>5. Cardinality(Granted') \in Nat /\ Cardinality(Granted) \in Nat
    <3>1. Granted \subseteq Clients
      BY DEF Granted, WithFuture
    <3>2. QED
      BY <2>4, <3>1, FiniteClients
  <2>6. available' = value' + Cardinality(Granted') /\ available' \in 0 .. MaxConcurrency
    BY <1>1, <1>2, <2>1, <2>2, <2>3, <2>5
  <2>7. PermitsAgree'
    BY <2>6 DEF PermitsAgree, Granted
  <2>8. QED
    BY <1>1, <1>2, <2>1, <2>2, <2>3, <2>7 DEF Typed
<1>3. CASE ~(available < MaxConcurrency)
  <2>1. UNCHANGED <<semaphore, available>>
    BY <1>3 DEF ReleaseSlot
  <2>2. QED
    BY <1>1, <1>3, <2>1
    DEF semaphore, Typed, SlotInv, PermitsAgree, Granted, WithFuture, NobodyJoins
<1>4. QED
  BY <1>2, <1>3

\* Taking a free permit, and queueing.
LEMMA TakingTakesOne ==
    ASSUME SlotInv, TakeAtOnce, available' = available - 1
    PROVE  /\ value' \in Nat
           /\ future' \in [Clients -> States] /\ NobodyJoins
           /\ interrupted' \subseteq Granted'
           /\ PermitsAgree'
<1>1. /\ value \in Nat /\ available = value + Cardinality(Granted)
      /\ available \in 0 .. MaxConcurrency /\ MaxConcurrency \in Nat
  BY SlotsAssumption DEF SlotInv, Typed, PermitsAgree, Granted
<1>2. value > 0 /\ value' = value - 1 /\ future' = future /\ interrupted' = interrupted
  BY <1>1 DEF TakeAtOnce, Locked
<1>3. Granted' = Granted /\ Cardinality(Granted) \in Nat
  <2>1. Granted' = Granted /\ Granted \subseteq Clients
    BY <1>2 DEF Granted, WithFuture
  <2>2. QED
    BY <2>1, FiniteClients
<1>4. available' = value' + Cardinality(Granted') /\ available' \in 0 .. MaxConcurrency
  BY <1>1, <1>2, <1>3
<1>5. QED
  BY <1>1, <1>2, <1>3, <1>4 DEF SlotInv, Typed, PermitsAgree, Granted, NobodyJoins

LEMMA QueueingKeepsAll ==
    ASSUME SlotInv, NEW c \in Clients, future[c] = "none", Enqueue(c),
           available' = available
    PROVE  /\ value' \in Nat
           /\ future' \in [Clients -> States]
           /\ interrupted' \subseteq Granted'
           /\ PermitsAgree'
           /\ \A d \in Clients \ {c} : future'[d] = future[d]
<1>1. /\ value' = value /\ interrupted' = interrupted
      /\ future' = [future EXCEPT ![c] = "pending"]
  BY DEF Enqueue
<1>2. Granted' = Granted
  BY <1>1 DEF SlotInv, Typed, Granted, WithFuture
<1>3. QED
  BY <1>1, <1>2 DEF SlotInv, Typed, States, PermitsAgree, Granted

LEMMA InterruptKeepsAll ==
    ASSUME SlotInv, NEW c \in Clients, Interrupt(c)
    PROVE  SlotInv'
<1>1. /\ value' = value /\ available' = available
      /\ holding' = holding /\ launched' = launched
  BY DEF Interrupt
<1>2. /\ Granted' = Granted /\ future' \in [Clients -> States]
      /\ interrupted' \subseteq Granted
      /\ \A u \in holding : future'[u] = "none"
  <2>1. CASE future[c] = "pending" /\ future' = [future EXCEPT ![c] = "cancelled"]
             /\ interrupted' = interrupted
    BY <2>1 DEF SlotInv, Typed, States, Granted, WithFuture, Clients
  <2>2. CASE IsResumed(c) /\ interrupted' = interrupted \cup {c} /\ future' = future
    BY <2>2 DEF SlotInv, Typed, IsResumed, Granted, WithFuture
  <2>3. QED
    BY <2>1, <2>2 DEF Interrupt
<1>3. QED
  BY <1>1, <1>2 DEF SlotInv, Typed, PermitsAgree, Granted

\* A client that has taken a permit is counted, whatever it waited for.
LEMMA PermitsAreCounted ==
    ASSUME SlotInv, available' \in {available - 1, available},
           value' \in Nat, future' \in [Clients -> States],
           value' + Cardinality(Granted') = available'
    PROVE  PermitsAgree'
<1>1. Granted' \subseteq Clients
  BY DEF Granted, WithFuture
<1>2. Cardinality(Granted') \in Nat
  BY <1>1, FiniteClients
<1>3. available \in 0 .. MaxConcurrency /\ MaxConcurrency \in Nat
  BY SlotsAssumption DEF SlotInv, PermitsAgree
<1>4. available' \in 0 .. MaxConcurrency
  BY <1>2, <1>3
<1>5. QED
  BY <1>4 DEF PermitsAgree, Granted

-----------------------------------------------------------------------------
\* One step: the invariant, and what a step does to available_concurrency and
\* to the holders.
Taken == available' = available - 1 /\ Holders' = Holders + 1 /\ misused' = misused
Given ==
    /\ available' = IF available < MaxConcurrency THEN available + 1 ELSE available
    /\ Holders' = Holders - 1 /\ Holders > 0 /\ misused' = misused
Kept == available' = available /\ Holders' = Holders /\ misused' = misused
GivenByOther ==
    /\ available' = IF available < MaxConcurrency THEN available + 1 ELSE available
    /\ Holders' = Holders /\ misused'

LEMMA FiniteHolding ==
    ASSUME Typed
    PROVE  /\ IsFiniteSet(holding) /\ Cardinality(holding) \in Nat
           /\ Holders \in Nat
<1>1. holding \subseteq Clients
  BY DEF Typed, Clients
<1>2. QED
  BY <1>1, FiniteClients DEF Typed, Holders

LEMMA StepOfUser ==
    ASSUME SlotInv, NEW u \in Users, UserStep(u)
    PROVE  SlotInv' /\ (Taken \/ Given \/ Kept)
<1>a. u \in Clients /\ Typed
  BY DEF Clients, SlotInv
<1>b. /\ IsFiniteSet(holding) /\ Cardinality(holding) \in Nat /\ launched \in Nat
      /\ Holders = Cardinality(holding) + launched
  BY <1>a, FiniteHolding DEF Typed, Holders
<1>1. CASE UserAcquires(u)
  <2>1. CASE Enqueue(u) /\ UNCHANGED <<available, holding>>
    <3>1. future[u] = "none" /\ launched' = launched /\ misused' = misused
      BY <1>1 DEF UserAcquires
    <3>2. QED
      BY <1>a, <1>1, <2>1, <3>1, QueueingKeepsAll
      DEF SlotInv, Typed, Kept, Holders, Clients, UserAcquires
  <2>2. CASE TakeAtOnce /\ available' = available - 1 /\ holding' = holding \cup {u}
    <3>1. u \notin holding /\ launched' = launched /\ misused' = misused
      BY <1>1 DEF UserAcquires
    <3>2. Cardinality(holding') = Cardinality(holding) + 1
      BY <1>b, <2>2, <3>1, FS_AddElement
    <3>3. Taken
      BY <1>b, <2>2, <3>1, <3>2 DEF Taken, Holders
    <3>4. QED
      BY <1>a, <1>1, <2>2, <3>1, <3>3, TakingTakesOne
      DEF SlotInv, Typed, NobodyJoins, UserAcquires, Clients
  <2>3. QED
    BY <1>1, <2>1, <2>2 DEF UserAcquires
<1>2. CASE UserResumes(u)
  <2>1. /\ IsResumed(u) /\ Leave(u, value) /\ available' = available - 1
        /\ holding' = holding \cup {u} /\ launched' = launched /\ misused' = misused
    BY <1>2 DEF UserResumes
  <2>2. u \notin holding
    BY <1>a, <2>1 DEF Typed, IsResumed
  <2>3. Cardinality(holding') = Cardinality(holding) + 1
    BY <1>b, <2>1, <2>2, FS_AddElement
  <2>4. Taken
    BY <1>b, <2>1, <2>3 DEF Taken, Holders
  <2>5. /\ value' \in Nat
        /\ future' \in [Clients -> States] /\ NobodyJoins
        /\ interrupted' \subseteq Granted'
        /\ value' + Cardinality(Granted') = available - 1
    BY <1>a, <2>1, ServedTakesOne
  <2>6. PermitsAgree'
    BY <2>1, <2>5, PermitsAreCounted
  <2>7. future'[u] = "none"
    BY <1>a, <2>1, LeaverIsOut
  <2>8. QED
    BY <1>a, <2>1, <2>4, <2>5, <2>6, <2>7 DEF SlotInv, Typed, NobodyJoins, Clients
<1>3. CASE UserGivesUp(u)
  <2>1. /\ IsInterrupted(u) /\ Leave(u, GivenBack(u)) /\ available' = available
        /\ holding' = holding /\ launched' = launched /\ misused' = misused
    BY <1>3 DEF UserGivesUp
  <2>2. /\ value' \in Nat
        /\ future' \in [Clients -> States] /\ NobodyJoins
        /\ interrupted' \subseteq Granted'
        /\ value' + Cardinality(Granted') = available
    BY <1>a, <2>1, GivingUpKeepsAll
  <2>3. PermitsAgree'
    BY <2>1, <2>2, PermitsAreCounted
  <2>4. QED
    BY <1>a, <2>1, <2>2, <2>3
    DEF SlotInv, Typed, NobodyJoins, Clients, Kept, Holders
<1>4. CASE UserReleases(u)
  <2>1. /\ u \in holding /\ ReleaseSlot /\ holding' = holding \ {u}
        /\ launched' = launched /\ misused' = misused
    BY <1>4 DEF UserReleases
  <2>2. Cardinality(holding') = Cardinality(holding) - 1
    BY <1>b, <2>1, FS_RemoveElement
  <2>3. Cardinality(holding) > 0
    BY <1>b, <2>1, FS_EmptySet
  <2>4. /\ value' \in Nat
        /\ future' \in [Clients -> States] /\ NobodyJoins
        /\ interrupted' \subseteq Granted'
        /\ PermitsAgree'
        /\ available' = IF available < MaxConcurrency THEN available + 1
                                                      ELSE available
    BY <2>1, ReleasingGivesOne
  <2>5. Given
    BY <1>b, <2>1, <2>2, <2>3, <2>4 DEF Given, Holders
  <2>6. QED
    BY <1>a, <2>1, <2>4, <2>5 DEF SlotInv, Typed, NobodyJoins, Clients
<1>5. QED
  BY <1>1, <1>2, <1>3, <1>4 DEF UserStep

LEMMA StepOfLoop ==
    ASSUME SlotInv, LoopAcquires \/ LoopResumes \/ LoopTimesOut
    PROVE  SlotInv' /\ (Taken \/ Kept)
<1>a. Loop \in Clients /\ Loop \notin holding /\ Typed
  BY SlotsAssumption DEF Clients, SlotInv, Typed
<1>b. /\ Cardinality(holding) \in Nat /\ launched \in Nat
      /\ Holders = Cardinality(holding) + launched
  BY <1>a, FiniteHolding DEF Typed, Holders
<1>c. ASSUME Launch PROVE Taken /\ launched' \in Nat /\ holding' = holding
                          /\ available' = available - 1
  BY <1>b, <1>c DEF Launch, Taken, Holders
<1>1. CASE LoopAcquires
  <2>1. CASE Enqueue(Loop) /\ UNCHANGED <<available, launched, holding, misused>>
    <3>1. future[Loop] = "none"
      BY <1>1 DEF LoopAcquires
    <3>2. QED
      BY <1>a, <2>1, <3>1, QueueingKeepsAll DEF SlotInv, Typed, Kept, Holders, Clients
  <2>2. CASE TakeAtOnce /\ Launch
    BY <1>a, <1>c, <2>2, TakingTakesOne DEF SlotInv, Typed, NobodyJoins, Clients
  <2>3. QED
    BY <1>1, <2>1, <2>2 DEF LoopAcquires
<1>2. CASE LoopResumes
  <2>1. IsResumed(Loop) /\ Leave(Loop, value) /\ Launch
    BY <1>2 DEF LoopResumes
  <2>2. /\ value' \in Nat
        /\ future' \in [Clients -> States] /\ NobodyJoins
        /\ interrupted' \subseteq Granted'
        /\ value' + Cardinality(Granted') = available - 1
    BY <1>a, <2>1, ServedTakesOne
  <2>3. PermitsAgree'
    BY <1>c, <2>1, <2>2, PermitsAreCounted
  <2>4. QED
    BY <1>a, <1>c, <2>1, <2>2, <2>3 DEF SlotInv, Typed, NobodyJoins, Clients
<1>3. CASE LoopTimesOut
  <2>1. /\ IsInterrupted(Loop) /\ Leave(Loop, GivenBack(Loop))
        /\ UNCHANGED <<available, launched, holding, misused>>
    BY <1>3 DEF LoopTimesOut
  <2>2. /\ value' \in Nat
        /\ future' \in [Clients -> States] /\ NobodyJoins
        /\ interrupted' \subseteq Granted'
        /\ value' + Cardinality(Granted') = available
    BY <1>a, <2>1, GivingUpKeepsAll
  <2>3. PermitsAgree'
    BY <2>1, <2>2, PermitsAreCounted
  <2>4. QED
    BY <1>a, <2>1, <2>2, <2>3
    DEF SlotInv, Typed, NobodyJoins, Clients, Kept, Holders
<1>4. QED
  BY <1>1, <1>2, <1>3

LEMMA StepOfRelease ==
    ASSUME SlotInv, TaskEnds \/ ReleaseByNonHolder
    PROVE  SlotInv' /\ (Given \/ GivenByOther)
<1>a. Typed
  BY DEF SlotInv
<1>b. /\ Cardinality(holding) \in Nat /\ launched \in Nat
      /\ Holders = Cardinality(holding) + launched
  BY <1>a, FiniteHolding DEF Typed, Holders
<1>1. ReleaseSlot /\ holding' = holding
  BY DEF TaskEnds, ReleaseByNonHolder
<1>2. /\ value' \in Nat
      /\ future' \in [Clients -> States] /\ NobodyJoins
      /\ interrupted' \subseteq Granted'
      /\ PermitsAgree'
      /\ available' = IF available < MaxConcurrency THEN available + 1 ELSE available
  BY <1>1, ReleasingGivesOne
<1>3. CASE TaskEnds
  <2>1. launched > 0 /\ launched' = launched - 1 /\ misused' = misused
    BY <1>3 DEF TaskEnds
  <2>2. Given
    BY <1>b, <1>1, <1>2, <2>1 DEF Given, Holders
  <2>3. QED
    BY <1>a, <1>b, <1>1, <1>2, <2>1, <2>2 DEF SlotInv, Typed, NobodyJoins, Clients
<1>4. CASE ReleaseByNonHolder
  <2>1. misused' /\ launched' = launched
    BY <1>4 DEF ReleaseByNonHolder
  <2>2. QED
    BY <1>a, <1>1, <1>2, <2>1 DEF SlotInv, Typed, NobodyJoins, Clients, GivenByOther, Holders
<1>5. QED
  BY <1>3, <1>4

LEMMA StepKeeps ==
    ASSUME SlotInv, [Next]_vars
    PROVE  SlotInv' /\ (Taken \/ Given \/ Kept \/ GivenByOther)
<1>1. ASSUME NEW u \in Users, UserStep(u)
      PROVE  SlotInv' /\ (Taken \/ Given \/ Kept)
  BY <1>1, StepOfUser
<1>2. CASE LoopAcquires \/ LoopResumes \/ LoopTimesOut
  BY <1>2, StepOfLoop
<1>3. ASSUME NEW c \in Clients, Interrupt(c)
      PROVE  SlotInv' /\ Kept
  <2>1. SlotInv'
    BY <1>3, InterruptKeepsAll
  <2>2. Kept
    BY <1>3 DEF Interrupt, Kept, Holders
  <2>3. QED
    BY <2>1, <2>2
<1>4. CASE TaskEnds \/ ReleaseByNonHolder
  BY <1>4, StepOfRelease
<1>5. CASE LoopEnds \/ Stop \/ UNCHANGED vars
  BY <1>5 DEF LoopEnds, Stop, vars, semaphore, SlotInv, Typed, PermitsAgree, Granted,
              WithFuture, Kept, Holders
<1>6. QED
  BY <1>1, <1>2, <1>3, <1>4, <1>5 DEF Next

LEMMA InitHolds == Init => SlotInv /\ Holders = 0 /\ available = MaxConcurrency
<1> SUFFICES ASSUME Init PROVE SlotInv /\ Holders = 0 /\ available = MaxConcurrency
  OBVIOUS
<1>1. Granted = {}
  BY DEF Init, Granted, WithFuture
<1>2. Cardinality(Granted) = 0 /\ Cardinality(holding) = 0
  BY <1>1, FS_EmptySet DEF Init
<1>3. MaxConcurrency \in Nat
  BY SlotsAssumption
<1>4. PermitsAgree
  BY <1>2, <1>3 DEF Init, PermitsAgree, Granted
<1>5. Typed
  BY <1>1, <1>3 DEF Init, Typed, States
<1>6. QED
  BY <1>2, <1>4, <1>5 DEF Init, SlotInv, Holders

-----------------------------------------------------------------------------
\* Whoever acquires, times out, is cancelled or releases, with or without a
\* slot, self._available is what the semaphore has and has granted.
THEOREM PermitsAlwaysAgree == Spec => []PermitsAgree
<1>1. Init => SlotInv
  BY InitHolds
<1>2. SlotInv /\ [Next]_vars => SlotInv'
  BY StepKeeps
<1>3. SlotInv => PermitsAgree
  BY DEF SlotInv
<1>4. QED
  BY <1>1, <1>2, <1>3, PTL DEF Spec

LEMMA HeldStep ==
    ASSUME HeldInv, [Next]_vars
    PROVE  HeldInv'
<1>1. SlotInv' /\ (Taken \/ Given \/ Kept \/ GivenByOther)
  BY StepKeeps DEF HeldInv
<1>2. /\ Holders \in Nat /\ available \in 0 .. MaxConcurrency /\ MaxConcurrency \in Nat
      /\ available + Holders >= MaxConcurrency
      /\ ~misused => available + Holders = MaxConcurrency
  BY SlotsAssumption, FiniteHolding
  DEF HeldInv, SlotInv, PermitsAgree, HeldOrAvailable
<1>3. /\ available' + Holders' >= MaxConcurrency
      /\ ~misused' => available' + Holders' = MaxConcurrency
  BY <1>1, <1>2 DEF Taken, Given, Kept, GivenByOther
<1>4. QED
  BY <1>1, <1>3 DEF HeldInv, HeldOrAvailable

\* No slot is lost; when only holders release, every slot is held or available.
THEOREM SlotsAreHeldOrAvailable == Spec => []HeldOrAvailable
<1>1. Init => HeldInv
  BY InitHolds, SlotsAssumption DEF HeldInv, HeldOrAvailable
<1>2. HeldInv /\ [Next]_vars => HeldInv'
  BY HeldStep
<1>3. HeldInv => HeldOrAvailable
  BY DEF HeldInv
<1>4. QED
  BY <1>1, <1>2, <1>3, PTL DEF Spec

\* What available_concurrency counts as taken implements Slots: never more than
\* max_concurrency nor less than none, one acquired or released at a time.
THEOREM SlotsRefine == Spec => SlotsImplemented
<1> DEFINE taken == MaxConcurrency - available
<1>1. Init => SlotInv /\ SlotsPromise!Init
  BY InitHolds, SlotsAssumption DEF SlotsPromise!Init
<1>2. SlotInv /\ [Next]_vars => SlotInv'
  BY StepKeeps
<1>3. SlotInv /\ [Next]_vars => [SlotsPromise!Acquire \/ SlotsPromise!Release]_taken
  <2> SUFFICES ASSUME SlotInv, [Next]_vars
               PROVE  [SlotsPromise!Acquire \/ SlotsPromise!Release]_taken
    OBVIOUS
  <2>1. SlotInv' /\ (Taken \/ Given \/ Kept \/ GivenByOther)
    BY StepKeeps
  <2>2. /\ available \in 0 .. MaxConcurrency /\ available' \in 0 .. MaxConcurrency
        /\ MaxConcurrency \in Nat
    BY <2>1, SlotsAssumption DEF SlotInv, PermitsAgree
  <2>3. CASE Taken
    BY <2>2, <2>3 DEF Taken, SlotsPromise!Acquire
  <2>4. CASE Given \/ GivenByOther
    <3>1. \/ available < MaxConcurrency /\ available' = available + 1
          \/ available' = available
      BY <2>4 DEF Given, GivenByOther
    <3>2. CASE available < MaxConcurrency /\ available' = available + 1
      <4>1. /\ MaxConcurrency - available > 0
            /\ MaxConcurrency - available' = MaxConcurrency - available - 1
        BY <2>2, <3>2
      <4>2. QED
        BY <4>1 DEF SlotsPromise!Release
    <3>3. QED
      BY <3>1, <3>2
  <2>5. CASE Kept
    BY <2>5 DEF Kept
  <2>6. QED
    BY <2>1, <2>3, <2>4, <2>5
<1>4. QED
  BY <1>1, <1>2, <1>3, PTL DEF Spec, SlotsImplemented, SlotsPromise!Spec
=============================================================================
