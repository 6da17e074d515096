-------------------------- MODULE RateLimiterProofs --------------------------
(***************************************************************************)
(* The limits hold for any number of limits, calls and periods.  The       *)
(* argument: a window is the end of the list of all allowed calls, what is *)
(* no longer in it is a period old, and a call is added to a window that   *)
(* has less than MaxCalls: the MaxCalls-th call before it has been         *)
(* dropped.                                                                *)
(***************************************************************************)
EXTENDS RateLimiter, SequenceTheorems, FiniteSetTheorems, TLAPS

Ordered ==
    /\ \A i, j \in 1 .. Len(allowed) : i <= j => allowed[i] <= allowed[j]
    /\ \A i \in 1 .. Len(allowed) : allowed[i] <= now

\* w holds the last calls of `allowed`, and those before them are old.
IsRecentEnd(w, k) ==
    /\ w \in Seq(Nat)
    /\ Len(w) <= Len(allowed)
    /\ \A i \in 1 .. Len(w) : w[i] = allowed[Len(allowed) - Len(w) + i]
    /\ \A i \in 1 .. Len(allowed) - Len(w) : now - allowed[i] >= Period[k]

RecentEnds == \A k \in Windows : IsRecentEnd(windows[k], k)

IInv == TypeOK /\ Ordered /\ RecentEnds /\ WithinLimits

\* What a list of calls is: a length and that many times.
LEMMA ListOfCalls ==
    ASSUME NEW s \in Seq(Nat)
    PROVE  Len(s) \in Nat /\ \A i \in 1 .. Len(s) : s[i] \in Nat
BY LenProperties, ElementOfSeq

\* Dropping the first n calls of a list.
LEMMA DropFirst ==
    ASSUME NEW s \in Seq(Nat), NEW n \in 0 .. Len(s)
    PROVE  LET p == SubSeq(s, n + 1, Len(s))
           IN  /\ p \in Seq(Nat)
               /\ Len(p) = Len(s) - n
               /\ \A i \in 1 .. Len(p) : p[i] = s[n + i]
<1> DEFINE a == n + 1
           b == Len(s)
           p == SubSeq(s, a, b)
<1>1. Len(s) \in Nat /\ n \in Nat /\ n <= Len(s) /\ a \in Int /\ b \in Int
  BY ListOfCalls
<1>2. \A i \in a .. b : s[i] \in Nat
  BY <1>1, ListOfCalls
<1>3. /\ p \in Seq(Nat)
      /\ Len(p) = IF a <= b THEN b - a + 1 ELSE 0
      /\ \A i \in 1 .. b - a + 1 : p[i] = s[a + i - 1]
  <2> HIDE DEF a, b
  <2> QED
    BY <1>1, <1>2, SubSeqProperties
<1>4. Len(p) = Len(s) - n /\ b - a + 1 = Len(s) - n
  BY <1>1, <1>3
<1>5. \A i \in 1 .. Len(p) : p[i] = s[n + i]
  <2> SUFFICES ASSUME NEW i \in 1 .. Len(p) PROVE p[i] = s[n + i]
    OBVIOUS
  <2>1. i \in 1 .. b - a + 1 /\ a + i - 1 = n + i
    <3> HIDE DEF p
    <3> QED
      BY <1>1, <1>4
  <2>2. QED
    BY <1>3, <2>1
<1>6. QED
  BY <1>3, <1>4, <1>5

\* What it means to be a recent end, with the facts a solver needs of it.
LEMMA RecentEndIsList ==
    ASSUME NEW w, NEW k, IsRecentEnd(w, k)
    PROVE  /\ w \in Seq(Nat)
           /\ Len(w) \in Nat
           /\ Len(w) <= Len(allowed)
           /\ \A i \in 1 .. Len(w) : w[i] = allowed[Len(allowed) - Len(w) + i]
           /\ \A i \in 1 .. Len(allowed) - Len(w) :
                 now - allowed[i] >= Period[k]
BY ListOfCalls DEF IsRecentEnd

\* Pruning a window leaves the end of the list, and drops old calls only.
LEMMA PruneKeepsEnd ==
    ASSUME IInv, NEW k \in Windows, NEW n \in 0 .. Len(windows[k]), Prunes(k, n)
    PROVE  IsRecentEnd(SubSeq(windows[k], n + 1, Len(windows[k])), k)
<1> DEFINE w == windows[k]
           p == SubSeq(w, n + 1, Len(w))
           L == Len(allowed)
<1>1. w \in Seq(Nat) /\ L \in Nat /\ IsRecentEnd(w, k)
  BY ListOfCalls DEF IInv, TypeOK, RecentEnds
<1>2. Len(w) \in Nat /\ Len(w) <= L /\ n \in Nat /\ n <= Len(w)
  BY <1>1, ListOfCalls DEF IsRecentEnd
<1>3. p \in Seq(Nat) /\ Len(p) = Len(w) - n
  BY <1>1, <1>2, DropFirst
<1>4. \A i \in 1 .. Len(p) : p[i] = w[n + i]
  BY <1>1, <1>2, <1>3, DropFirst
<1> HIDE DEF p
<1>5. \A i \in 1 .. Len(p) : p[i] = allowed[L - Len(p) + i]
  <2> SUFFICES ASSUME NEW i \in 1 .. Len(p)
               PROVE  p[i] = allowed[L - Len(p) + i]
    OBVIOUS
  <2>1. n + i \in 1 .. Len(w) /\ L - Len(w) + (n + i) = L - Len(p) + i
    BY <1>1, <1>2, <1>3
  <2>2. w[n + i] = allowed[L - Len(w) + (n + i)]
    BY <1>1, <2>1 DEF IsRecentEnd
  <2>3. QED
    BY <1>4, <2>1, <2>2
<1>6. ASSUME NEW i \in 1 .. L - Len(p)
      PROVE  now - allowed[i] >= Period[k]
  <2>1. CASE i <= L - Len(w)
    BY <1>1, <1>2, <2>1 DEF IsRecentEnd
  <2>2. CASE i > L - Len(w)
    <3> DEFINE m == i - (L - Len(w))
    <3>1. m \in 1 .. n /\ m \in 1 .. Len(w) /\ L - Len(w) + m = i
      <4>1. L \in Nat /\ i \in Nat /\ i <= L - (Len(w) - n)
        BY <1>1, <1>2, <1>3
      <4> HIDE DEF w, L
      <4>2. m \in Int /\ m >= 1 /\ m <= n
        BY <1>2, <2>2, <4>1
      <4>3. QED
        BY <1>2, <4>1, <4>2
    <3>2. w[m] = allowed[i]
      BY <1>1, <3>1 DEF IsRecentEnd
    <3>3. now - w[m] >= Period[k]
      BY <3>1 DEF Prunes
    <3>4. QED
      BY <3>2, <3>3
  <2>3. QED
    BY <1>1, <1>2, <1>3, <2>1, <2>2
<1>7. Len(p) <= L
  BY <1>1, <1>2, <1>3
<1>8. IsRecentEnd(p, k)
  BY <1>3, <1>5, <1>6, <1>7 DEF IsRecentEnd
<1>9. QED
  BY <1>8 DEF p

LEMMA PrunedIsEnd ==
    ASSUME IInv, NEW drop \in [Windows -> 0 .. Len(allowed)],
           \A k \in Windows : drop[k] <= Len(windows[k]) /\ Prunes(k, drop[k])
    PROVE  \A k \in Windows : IsRecentEnd(Pruned(drop)[k], k)
<1> SUFFICES ASSUME NEW k \in Windows PROVE IsRecentEnd(Pruned(drop)[k], k)
  OBVIOUS
<1>1. windows[k] \in Seq(Nat)
  BY DEF IInv, TypeOK
<1>2. drop[k] \in 0 .. Len(windows[k])
  BY <1>1 DEF IInv, TypeOK
<1>3. IsRecentEnd(SubSeq(windows[k], drop[k] + 1, Len(windows[k])), k)
  BY <1>2, PruneKeepsEnd
<1>4. QED
  BY <1>3 DEF Pruned

\* Every variable keeps its type, and no limit is ever exceeded.
LEMMA InvariantHolds == Spec => []IInv
<1>1. Init => IInv
  BY WindowsAssumption
  DEF Init, IInv, TypeOK, Ordered, RecentEnds, IsRecentEnd, WithinLimits
<1>2. IInv /\ [Next]_vars => IInv'
  <2> SUFFICES ASSUME IInv, [Next]_vars PROVE IInv'
    OBVIOUS
  <2>a. /\ now \in Nat /\ allowed \in Seq(Nat) /\ Len(allowed) \in Nat
        /\ \A i \in 1 .. Len(allowed) : allowed[i] \in Nat
    BY DEF IInv, TypeOK
  <2>1. CASE Allow
    <3>1. PICK drop \in [Windows -> 0 .. Len(allowed)] :
            /\ \A k \in Windows : drop[k] <= Len(windows[k]) /\ Prunes(k, drop[k])
            /\ ~Full(Pruned(drop))
            /\ windows' = [k \in Windows |-> Append(Pruned(drop)[k], now)]
            /\ allowed' = Append(allowed, now)
            /\ now' = now
      BY <2>1 DEF Allow
    <3> DEFINE L == Len(allowed)
    <3>2. \A k \in Windows : IsRecentEnd(Pruned(drop)[k], k)
      BY <3>1, PrunedIsEnd
    <3>3. /\ allowed' \in Seq(Nat) /\ Len(allowed') = L + 1
          /\ \A i \in 1 .. L : allowed'[i] = allowed[i]
          /\ allowed'[L + 1] = now
      BY <2>a, <3>1, AppendProperties
    <3>4. TypeOK'
      <4>1. ASSUME NEW k \in Windows
            PROVE  Append(Pruned(drop)[k], now) \in Seq(Nat)
        BY <2>a, <3>2, RecentEndIsList, AppendProperties
      <4>2. QED
        BY <2>a, <3>1, <3>3, <4>1 DEF TypeOK
    <3>5. Ordered'
      BY <2>a, <3>1, <3>3 DEF IInv, Ordered
    <3>6. ASSUME NEW k \in Windows PROVE IsRecentEnd(windows[k], k)'
      <4> DEFINE p == Pruned(drop)[k]
      <4>1. /\ p \in Seq(Nat) /\ Len(p) \in Nat /\ Len(p) <= L
            /\ \A i \in 1 .. Len(p) : p[i] = allowed[L - Len(p) + i]
            /\ \A i \in 1 .. L - Len(p) : now - allowed[i] >= Period[k]
        BY <3>2, RecentEndIsList
      <4>2. windows'[k] = Append(p, now)
        BY <3>1
      <4> HIDE DEF p
      <4>3. /\ windows'[k] \in Seq(Nat) /\ Len(windows'[k]) = Len(p) + 1
            /\ \A i \in 1 .. Len(p) : windows'[k][i] = p[i]
            /\ windows'[k][Len(p) + 1] = now
        BY <2>a, <4>1, <4>2, AppendProperties
      <4>4. ASSUME NEW i \in 1 .. Len(windows'[k])
            PROVE  windows'[k][i] = allowed'[Len(allowed') - Len(windows'[k]) + i]
        <5>1. CASE i <= Len(p)
          <6>1. i \in 1 .. Len(p) /\ L - Len(p) + i \in 1 .. L
                /\ Len(allowed') - Len(windows'[k]) + i = L - Len(p) + i
            BY <2>a, <3>3, <4>1, <4>3, <5>1
          <6>2. QED
            BY <3>3, <4>1, <4>3, <6>1
        <5>2. CASE i = Len(p) + 1
          <6>1. Len(allowed') - Len(windows'[k]) + i = L + 1
            BY <2>a, <3>3, <4>1, <4>3, <5>2
          <6>2. QED
            BY <3>3, <4>3, <5>2, <6>1
        <5>3. QED
          BY <4>1, <4>3, <5>1, <5>2
      <4>5. ASSUME NEW i \in 1 .. Len(allowed') - Len(windows'[k])
            PROVE  now' - allowed'[i] >= Period[k]
        <5>1. i \in 1 .. L - Len(p) /\ i \in 1 .. L
          <6>1. Len(allowed') - Len(windows'[k]) = (L + 1) - (Len(p) + 1)
            BY <3>3, <4>3
          <6>2. L \in Nat /\ Len(p) \in Nat /\ Len(p) <= L
            BY <2>a, <4>1
          <6>3. i \in 1 .. (L + 1) - (Len(p) + 1)
            BY <6>1
          <6> HIDE DEF L
          <6>4. QED
            BY <6>2, <6>3
        <5>2. QED
          BY <3>1, <3>3, <4>1, <5>1
      <4>6. Len(windows'[k]) <= Len(allowed')
        BY <2>a, <3>3, <4>1, <4>3
      <4>7. QED
        BY <4>3, <4>4, <4>5, <4>6 DEF IsRecentEnd
    <3>7. RecentEnds'
      BY <3>6 DEF RecentEnds
    <3>8. ASSUME NEW k \in Windows,
                 NEW i \in 1 .. Len(allowed'), NEW j \in 1 .. Len(allowed'),
                 j - i >= MaxCalls[k]
          PROVE  allowed'[j] - allowed'[i] >= Period[k]
      <4>a. MaxCalls[k] \in Nat /\ Period[k] \in Nat
        BY WindowsAssumption
      <4>1. CASE j <= L
        <5>1. i \in 1 .. L /\ j \in 1 .. L
          BY <2>a, <3>3, <3>8, <4>1, <4>a
        <5>2. allowed[j] - allowed[i] >= Period[k]
          BY <3>8, <5>1 DEF IInv, WithinLimits
        <5>3. QED
          BY <3>3, <5>1, <5>2
      <4>2. CASE j = L + 1
        <5> DEFINE p == Pruned(drop)[k]
        <5>1. Len(p) < MaxCalls[k]
          BY <3>1, <3>2, <4>a, RecentEndIsList DEF Full
        <5>2. Len(p) \in Nat /\ Len(p) <= L
              /\ \A m \in 1 .. L - Len(p) : now - allowed[m] >= Period[k]
          BY <3>2, RecentEndIsList
        <5> HIDE DEF p
        <5>3. L \in Nat /\ i \in Nat /\ i >= 1 /\ L + 1 - i >= MaxCalls[k]
          BY <2>a, <3>3, <3>8, <4>2
        <5>4. i <= L - Len(p) /\ i <= L
          BY <4>a, <5>1, <5>2, <5>3
        <5>5. i \in 1 .. L - Len(p) /\ i \in 1 .. L
          BY <5>2, <5>3, <5>4
        <5>6. QED
          BY <3>3, <4>2, <5>2, <5>5
      <4>3. QED
        BY <2>a, <3>3, <4>1, <4>2
    <3>9. WithinLimits'
      BY <3>8 DEF WithinLimits
    <3>10. QED
      BY <3>4, <3>5, <3>7, <3>9 DEF IInv
  <2>2. CASE Refuse
    <3>1. PICK drop \in [Windows -> 0 .. Len(allowed)] :
            /\ \A k \in Windows : drop[k] <= Len(windows[k]) /\ Prunes(k, drop[k])
            /\ windows' = Pruned(drop)
            /\ now' = now /\ allowed' = allowed
      BY <2>2 DEF Refuse
    <3>2. \A k \in Windows : IsRecentEnd(Pruned(drop)[k], k)
      BY <3>1, PrunedIsEnd
    <3>3. TypeOK'
      BY <2>a, <3>1, <3>2 DEF TypeOK, Pruned, IsRecentEnd
    <3>4. RecentEnds'
      BY <3>1, <3>2 DEF RecentEnds, IsRecentEnd
    <3>5. QED
      BY <3>1, <3>3, <3>4 DEF IInv, Ordered, WithinLimits
  <2>3. CASE Tick
    <3>1. now' = now + 1 /\ windows' = windows /\ allowed' = allowed
      BY <2>3 DEF Tick
    <3>2. RecentEnds'
      <4> SUFFICES ASSUME NEW k \in Windows
                   PROVE  IsRecentEnd(windows[k], k)'
        BY DEF RecentEnds
      <4> DEFINE w == windows[k]
      <4>1. /\ w \in Seq(Nat) /\ Len(w) \in Nat /\ Len(w) <= Len(allowed)
            /\ \A i \in 1 .. Len(w) : w[i] = allowed[Len(allowed) - Len(w) + i]
            /\ \A i \in 1 .. Len(allowed) - Len(w) :
                  now - allowed[i] >= Period[k]
        BY RecentEndIsList DEF IInv, RecentEnds
      <4>2. Period[k] \in Nat
        BY WindowsAssumption
      <4>3. ASSUME NEW i \in 1 .. Len(allowed) - Len(w)
            PROVE  now' - allowed[i] >= Period[k]
        <5>1. i \in 1 .. Len(allowed) /\ now - allowed[i] >= Period[k]
          BY <2>a, <4>1
        <5>2. QED
          BY <2>a, <3>1, <4>2, <5>1
      <4>4. \A i \in 1 .. Len(allowed) - Len(w) : now' - allowed[i] >= Period[k]
        BY <4>3
      <4>5. /\ w \in Seq(Nat) /\ Len(w) <= Len(allowed')
            /\ \A i \in 1 .. Len(w) :
                  w[i] = allowed'[Len(allowed') - Len(w) + i]
            /\ \A i \in 1 .. Len(allowed') - Len(w) :
                  now' - allowed'[i] >= Period[k]
        <5> HIDE DEF w
        <5> QED
          BY ONLY <3>1, <4>1, <4>4
      <4>6. QED
        BY <3>1, <4>5 DEF IsRecentEnd
    <3>3. TypeOK' /\ Ordered'
      BY <2>a, <3>1 DEF IInv, TypeOK, Ordered
    <3>4. QED
      BY <3>1, <3>2, <3>3 DEF IInv, WithinLimits
  <2>4. CASE UNCHANGED vars
    BY <2>4 DEF vars, IInv, TypeOK, Ordered, RecentEnds, IsRecentEnd, WithinLimits
  <2>5. QED
    BY <2>1, <2>2, <2>3, <2>4 DEF Next
<1>3. QED
  BY <1>1, <1>2, PTL DEF Spec

\* No window of any limit ever has more calls than the limit allows.
THEOREM LimitsHold == Spec => []WithinLimits
<1>1. IInv => WithinLimits
  BY DEF IInv
<1>2. QED
  BY <1>1, InvariantHolds, PTL

\* The last m of L indices.
LEMMA LastIndices ==
    ASSUME NEW L \in Nat, NEW m \in Nat, m <= L
    PROVE  /\ L - m + 1 .. L \subseteq 1 .. L
           /\ m >= 1 => L - m + 1 \in 1 .. L
           /\ IsFiniteSet(1 .. L)
           /\ Cardinality(L - m + 1 .. L) = m
<1>1. PICK first \in Int : first = L - m + 1
  OBVIOUS
<1>2. first >= 1 /\ (m >= 1 => first <= L)
  BY <1>1
<1>3. \A i \in first .. L : i \in 1 .. L
  BY <1>2
<1>4. Cardinality(first .. L) = IF first > L THEN 0 ELSE L - first + 1
  BY FS_Interval
<1>5. Cardinality(first .. L) = m
  <2>1. CASE m = 0
    BY <1>1, <1>4, <2>1
  <2>2. CASE m >= 1
    <3>1. ~(first > L) /\ L - first + 1 = m
      BY <1>1, <2>2
    <3>2. QED
      BY <1>4, <3>1
  <2>3. QED
    BY <2>1, <2>2
<1>6. IsFiniteSet(1 .. L)
  BY FS_Interval
<1>7. first .. L \subseteq 1 .. L /\ (m >= 1 => first \in 1 .. L)
  BY <1>2, <1>3
<1>8. QED
  BY <1>1, <1>5, <1>6, <1>7

\* What is left of a pruned window is less than a period old.
LEMMA PrunedIsRecent ==
    ASSUME IInv, NEW k \in Windows, NEW n \in 0 .. Len(windows[k]), Prunes(k, n),
           NEW p, p = SubSeq(windows[k], n + 1, Len(windows[k]))
    PROVE  Cardinality(Recent(k)) >= Len(p)
<1> DEFINE w == windows[k]
           L == Len(allowed)
           m == Len(p)
           First == L - m + 1
<1>1. /\ w \in Seq(Nat) /\ allowed \in Seq(Nat) /\ L \in Nat /\ now \in Nat
      /\ Period[k] \in Nat
      /\ \A i \in 1 .. L : allowed[i] \in Nat
  BY ListOfCalls, WindowsAssumption DEF IInv, TypeOK
<1>2. /\ p \in Seq(Nat) /\ Len(p) \in Nat /\ Len(p) = Len(w) - n
      /\ \A i \in 1 .. Len(p) : p[i] = w[n + i]
  BY <1>1, DropFirst, ListOfCalls
<1>3. /\ Len(p) <= L
      /\ \A i \in 1 .. Len(p) : p[i] = allowed[L - Len(p) + i]
  BY PruneKeepsEnd, RecentEndIsList
<1>a. L \in Nat /\ m \in Nat /\ m <= L /\ n \in Nat /\ m = Len(w) - n
  BY <1>1, <1>2, <1>3
<1>b. m >= 1 => n < Len(w) /\ p[1] = w[n + 1] /\ p[1] = allowed[First]
  <2> SUFFICES ASSUME m >= 1
               PROVE  n < Len(w) /\ p[1] = w[n + 1] /\ p[1] = allowed[First]
    OBVIOUS
  <2>1. p[1] = w[n + 1] /\ p[1] = allowed[L - m + 1]
    <3>1. 1 \in 1 .. Len(p)
      BY <1>a
    <3>2. QED
      BY <1>2, <1>3, <3>1
  <2>2. Len(w) \in Nat
    BY <1>1, LenProperties
  <2>3. n < Len(w)
    <3> HIDE DEF w, L, m
    <3> QED
      BY <1>a, <2>2
  <2>4. QED
    BY <2>1, <2>3
<1>c. /\ First .. L \subseteq 1 .. L
      /\ m >= 1 => First \in 1 .. L
      /\ IsFiniteSet(1 .. L)
      /\ Cardinality(First .. L) = m
  <2> HIDE DEF L, m
  <2> QED
    BY <1>a, LastIndices
<1> HIDE DEF L, m
<1>4. ASSUME NEW i \in First .. L PROVE now - allowed[i] < Period[k]
  <2>1. First \in 1 .. L /\ i \in 1 .. L /\ First <= i /\ m >= 1
    BY <1>a, <1>c
  <2>2. now - allowed[First] < Period[k]
    BY <1>b, <2>1 DEF Prunes
  <2>3. allowed[First] <= allowed[i]
    BY <2>1 DEF IInv, Ordered, L
  <2>4. allowed[First] \in Nat /\ allowed[i] \in Nat
    BY <1>1, <2>1
  <2>5. now \in Nat /\ Period[k] \in Nat
    BY <1>1
  <2> HIDE DEF First, w
  <2>6. QED
    BY ONLY <2>2, <2>3, <2>4, <2>5
<1>5. First .. L \subseteq Recent(k) /\ Recent(k) \subseteq 1 .. L
  <2>1. DOMAIN allowed = 1 .. L
    BY <1>1, LenProperties DEF L
  <2> HIDE DEF First
  <2>2. QED
    BY <1>4, <1>c, <2>1 DEF Recent
<1>6. IsFiniteSet(Recent(k))
  BY <1>5, <1>c, FS_Subset
<1>7. Cardinality(First .. L) <= Cardinality(Recent(k))
  BY <1>5, <1>6, FS_Subset
<1>8. QED
  BY <1>7, <1>c DEF m

\* No call is refused for a limit that has room for it: what a window still holds
\* when it is full are calls of the last period.
THEOREM RefusalsAreNeeded == Spec => RefusedOnlyWhenFull
<1>1. IInv /\ [Next]_vars
         => [Refuse => \E k \in Windows : Cardinality(Recent(k)) >= MaxCalls[k]]_vars
  <2> SUFFICES ASSUME IInv, Refuse
               PROVE  \E k \in Windows : Cardinality(Recent(k)) >= MaxCalls[k]
    OBVIOUS
  <2>1. PICK drop \in [Windows -> 0 .. Len(allowed)] :
            /\ \A k \in Windows : drop[k] <= Len(windows[k]) /\ Prunes(k, drop[k])
            /\ Full(Pruned(drop))
    BY DEF Refuse
  <2>2. PICK k \in Windows : Len(Pruned(drop)[k]) >= MaxCalls[k]
    BY <2>1 DEF Full
  <2> DEFINE p == SubSeq(windows[k], drop[k] + 1, Len(windows[k]))
  <2>3. windows[k] \in Seq(Nat) /\ Len(windows[k]) \in Nat
    BY ListOfCalls DEF IInv, TypeOK
  <2>4. drop[k] \in 0 .. Len(windows[k])
    BY <2>1, <2>3
  <2>5. Cardinality(Recent(k)) >= Len(p)
    BY <2>1, <2>4, PrunedIsRecent
  <2>6. Pruned(drop)[k] = p
    BY DEF Pruned
  <2>7. Len(p) \in Nat /\ MaxCalls[k] \in Nat
    <3>1. p \in Seq(Nat)
      BY <2>3, <2>4, DropFirst
    <3>2. QED
      BY <3>1, ListOfCalls, WindowsAssumption
  <2>8. Cardinality(Recent(k)) \in Nat
    <3>1. DOMAIN allowed = 1 .. Len(allowed) /\ Len(allowed) \in Nat
      BY LenProperties DEF IInv, TypeOK
    <3>2. IsFiniteSet(1 .. Len(allowed)) /\ Recent(k) \subseteq 1 .. Len(allowed)
      BY <3>1, FS_Interval DEF Recent
    <3>3. QED
      BY <3>2, FS_Subset, FS_CardinalityType
  <2> HIDE DEF p
  <2>9. QED
    BY <2>2, <2>5, <2>6, <2>7, <2>8
<1>2. QED
  BY <1>1, InvariantHolds, PTL DEF Spec, RefusedOnlyWhenFull
=============================================================================
