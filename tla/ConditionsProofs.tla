--------------------------- MODULE ConditionsProofs ---------------------------
(***************************************************************************)
(* Whatever jobs evaluate, and however their evaluations interleave, the   *)
(* limiter does under them what it does by itself: Conditions implements   *)
(* RateLimiter, and the theorems about the limiter hold for all requests   *)
(* of all weather conditions.                                              *)
(***************************************************************************)
EXTENDS Conditions, RateLimiterProofs, WellFoundedInduction

\* A step of a task, of a cache or of the clock is a call of the limiter, a tick,
\* or nothing to the limiter.
LEMMA StepsOfLimiter == [ConditionsNext]_allVars => [Next]_vars
<1> SUFFICES ASSUME ConditionsNext PROVE Next \/ UNCHANGED vars
  BY DEF allVars
<1>1. ASSUME NEW t \in TaskIds, TaskStep(t) PROVE Next \/ UNCHANGED vars
  <2>1. CASE \E j \in Jobs : Begin(t, j)
    BY <2>1 DEF Begin
  <2>2. CASE Decide(t)
    BY <2>2 DEF Decide
  <2>3. CASE AskWeather(t)
    <3>1. Allow \/ Refuse \/ UNCHANGED vars
      BY <2>3 DEF AskWeather
    <3>2. QED
      BY <3>1 DEF Next
  <2>4. CASE SkyIsClear(t) \/ WeatherFails(t) \/ End(t)
    BY <2>4 DEF SkyIsClear, WeatherFails, End
  <2>5. QED
    BY <1>1, <2>1, <2>2, <2>3, <2>4 DEF TaskStep
<1>2. ASSUME NEW c \in Cached, ClearCache(c) PROVE UNCHANGED vars
  BY <1>2 DEF ClearCache
<1>3. QED
  BY <1>1, <1>2 DEF ConditionsNext, Next

\* Under any evaluations the limiter does what it does by itself.
THEOREM ConditionsImplementLimiter == ConditionsSpec => Spec
<1>1. ConditionsInit => Init
  BY DEF ConditionsInit
<1>2. [ConditionsNext]_allVars => [Next]_vars
  BY StepsOfLimiter
<1>3. QED
  BY <1>1, <1>2, PTL DEF ConditionsSpec, Spec

\* Concurrent evaluations never make more requests than the service allows.
THEOREM EvaluationsWithinLimits == ConditionsSpec => []WithinLimits
BY ConditionsImplementLimiter, LimitsHold, PTL
-----------------------------------------------------------------------------
(***************************************************************************)
(* A condition is evaluated from those that it is built from, which have   *)
(* smaller numbers: what all of them do together exists, and what holds of *)
(* each because it holds of those below it holds of all.                   *)
(***************************************************************************)
LEMMA LeastOf ==
    ASSUME NEW S \in SUBSET Nat, S # {}
    PROVE  \E m \in S : \A n \in S : ~(n < m)
<1>1. PICK m \in S : \A n \in S : ~(<<n, m>> \in OpToRel(<, Nat))
  BY NatLessThanWellFounded, WFMin
<1> QED
  BY <1>1 DEF OpToRel

LEMMA Below ==
    /\ Conditions \in SUBSET Nat /\ \A c \in Conditions : c \in Nat
    /\ \A c \in Conditions : \A d \in Children(c) : d \in Conditions /\ d < c
  BY ConditionsAssumption

\* Of conditions that are not all right there is one above right ones.
LEMMA FirstWrong ==
    ASSUME NEW Right \in SUBSET Conditions,
           \A c \in Conditions : Children(c) \subseteq Right => c \in Right
    PROVE  Right = Conditions
<1> SUFFICES ASSUME Conditions \ Right # {} PROVE FALSE
  OBVIOUS
<1>1. PICK c \in Conditions \ Right : \A d \in Conditions \ Right : ~(d < c)
  BY Below, LeastOf
<1>2. Children(c) \subseteq Right
  BY <1>1, Below
<1> QED
  BY <1>1, <1>2

FromBelow(step, V) ==
    /\ V # {} /\ step \in [[Conditions -> V] \X Conditions -> V]
    /\ \A f, g \in [Conditions -> V] : \A c \in Conditions :
           (\A d \in Children(c) : f[d] = g[d]) => step[<<f, c>>] = step[<<g, c>>]

LEMMA AllTogether ==
    ASSUME NEW V, NEW step, FromBelow(step, V)
    PROVE  \E f \in [Conditions -> V] : \A c \in Conditions : f[c] = step[<<f, c>>]
<1> USE DEF FromBelow
<1> PICK some \in V : TRUE
  OBVIOUS
<1> DEFINE Good(n) == {f \in [Conditions -> V] :
                           \A c \in Conditions : c < n => f[c] = step[<<f, c>>]}
<1>1. \A n \in Nat : Good(n) # {}
  <2> DEFINE Bad == {n \in Nat : Good(n) = {}}
  <2> SUFFICES ASSUME Bad # {} PROVE FALSE
    OBVIOUS
  <2>1. PICK m \in Bad : \A n \in Bad : ~(n < m)
    BY LeastOf
  <2>2. CASE m = 0
    <3>1. [c \in Conditions |-> some] \in Good(0)
      BY Below
    <3> QED
      BY <2>1, <2>2, <3>1
  <2>3. CASE m # 0
    <3>1. PICK k \in Nat : m = k + 1
      <4>1. m - 1 \in Nat /\ m = (m - 1) + 1
        BY <2>1, <2>3
      <4> QED
        BY <4>1
    <3>2. k \notin Bad
      <4>1. m \in Nat /\ k < m
        BY <2>1, <3>1
      <4> HIDE DEF Bad
      <4> QED
        BY <2>1, <4>1
    <3>3. PICK f \in Good(k) : TRUE
      BY <3>2
    <3>4. PICK g \in [Conditions -> V] : \A c \in Conditions : g[c] = step[<<f, c>>]
      <4>1. [c \in Conditions |-> step[<<f, c>>]] \in [Conditions -> V]
        BY <3>3
      <4> QED
        BY <4>1
    <3>5. ASSUME NEW c \in Conditions, c < m PROVE g[c] = step[<<g, c>>]
      <4>1. \A d \in Children(c) : f[d] = g[d]
        <5> SUFFICES ASSUME NEW d \in Children(c) PROVE f[d] = g[d]
          OBVIOUS
        <5>1. /\ d \in Conditions /\ d < c
              /\ d \in Nat /\ c \in Nat /\ m \in Nat
          BY <2>1, Below
        <5>2. d < k
          BY <3>1, <3>5, <5>1
        <5> QED
          BY <3>3, <3>4, <5>1, <5>2
      <4>2. f \in [Conditions -> V] /\ g \in [Conditions -> V]
        BY <3>3, <3>4
      <4> HIDE DEF Good
      <4>3. step[<<f, c>>] = step[<<g, c>>]
        BY <4>1, <4>2
      <4> QED
        BY <3>4, <4>3
    <3>6. g \in Good(m)
      BY <3>4, <3>5
    <3> QED
      BY <2>1, <3>6
  <2> QED
    BY <2>2, <2>3
<1>2. ASSUME NEW m \in Nat, NEW n \in Nat, NEW f \in Good(m), NEW g \in Good(n)
      PROVE  \A c \in Conditions : c < m /\ c < n => f[c] = g[c]
  <2> DEFINE Right == {c \in Conditions : c < m /\ c < n => f[c] = g[c]}
  <2>1. ASSUME NEW c \in Conditions, Children(c) \subseteq Right, c < m, c < n
        PROVE  f[c] = g[c]
    <3>1. \A d \in Children(c) : f[d] = g[d]
      <4> SUFFICES ASSUME NEW d \in Children(c) PROVE f[d] = g[d]
        OBVIOUS
      <4>1. d \in Right /\ d < c /\ d \in Nat /\ c \in Nat
        BY <2>1, Below
      <4> QED
        BY <2>1, <4>1
    <3>2. step[<<f, c>>] = step[<<g, c>>]
      BY <3>1
    <3> QED
      BY <2>1, <3>2
  <2>2. Right = Conditions
    <3>1. \A c \in Conditions : Children(c) \subseteq Right => c \in Right
      BY <2>1
    <3>2. Right \in SUBSET Conditions
      OBVIOUS
    <3> HIDE DEF Right
    <3> QED
      BY <3>1, <3>2, FirstWrong
  <2> QED
    BY <2>2
<1>3. PICK attempt : \A c \in Conditions : attempt[c] \in Good(c + 1)
  <2> DEFINE attempt == [c \in Conditions |-> CHOOSE f \in Good(c + 1) : TRUE]
  <2>1. ASSUME NEW c \in Conditions PROVE attempt[c] \in Good(c + 1)
    <3>1. c + 1 \in Nat
      BY Below
    <3>2. \E f : f \in Good(c + 1)
      BY <1>1, <3>1
    <3> HIDE DEF Good
    <3> QED
      BY <3>2
  <2> HIDE DEF attempt
  <2> QED
    BY <2>1
<1>4. \A c \in Conditions :
        /\ attempt[c] \in [Conditions -> V]
        /\ attempt[c][c] = step[<<attempt[c], c>>]
  <2>1. \A c \in Conditions : c < c + 1
    BY Below
  <2> QED
    BY <1>3, <2>1
<1> DEFINE all == [c \in Conditions |-> attempt[c][c]]
<1>5. all \in [Conditions -> V]
  BY <1>4
<1>6. ASSUME NEW c \in Conditions PROVE all[c] = step[<<all, c>>]
  <2>1. \A d \in Children(c) : attempt[c][d] = all[d]
    <3> SUFFICES ASSUME NEW d \in Children(c) PROVE attempt[c][d] = attempt[d][d]
      BY Below
    <3>1. d \in Conditions /\ d < c + 1 /\ d < d + 1 /\ c + 1 \in Nat /\ d + 1 \in Nat
      <4>1. d \in Conditions /\ d < c /\ d \in Nat /\ c \in Nat
        BY Below
      <4> QED
        BY <4>1
    <3>2. attempt[c] \in Good(c + 1) /\ attempt[d] \in Good(d + 1)
      BY <1>3, <3>1
    <3> HIDE DEF Good
    <3> QED
      BY <1>2, <3>1, <3>2
  <2>2. step[<<attempt[c], c>>] = step[<<all, c>>]
    BY <1>4, <1>5, <2>1
  <2> QED
    BY <1>4, <2>2
<1> QED
  BY <1>5, <1>6

-----------------------------------------------------------------------------
(***************************************************************************)
(* A time window is the time from its start to its end, over midnight or   *)
(* not.                                                                    *)
(***************************************************************************)
LEMMA Multiples ==
    ASSUME NEW m \in Int, NEW n \in Int, m < n
    PROVE  DayLength * m + DayLength <= DayLength * n
<1>1. PICK k \in Nat : n = m + k + 1
  <2>1. n - m - 1 \in Nat /\ n = m + (n - m - 1) + 1
    OBVIOUS
  <2> QED
    BY <2>1
<1>2. DayLength * k >= 0
  BY DayLengthAssumption, <1>1
<1>3. DayLength * n = DayLength * m + DayLength * k + DayLength
  BY <1>1, DayLengthAssumption
<1> QED
  BY <1>2, <1>3, DayLengthAssumption

LEMMA Modulo ==
    ASSUME NEW x \in Int
    PROVE  /\ x % DayLength \in 0 .. DayLength - 1
           /\ 0 <= x /\ x < DayLength => x % DayLength = x
           /\ DayLength <= x /\ x < DayLength + DayLength => x % DayLength = x - DayLength
           /\ -DayLength <= x /\ x < 0 => x % DayLength = x + DayLength
<1>1. DayLength \in Nat \ {0}
  BY DayLengthAssumption
<1>2. PICK q \in Int, r \in 0 .. DayLength - 1 : x = DayLength * q + r /\ r = x % DayLength
  <2>1. /\ x \div DayLength \in Int /\ x % DayLength \in 0 .. DayLength - 1
        /\ x = DayLength * (x \div DayLength) + (x % DayLength)
    BY <1>1
  <2> QED
    BY <2>1
<1>3. /\ DayLength * 0 = 0 /\ DayLength * 1 = DayLength
      /\ DayLength * (-1) = -DayLength /\ DayLength * q \in Int
  BY <1>1
<1>4. /\ q < -1 => DayLength * q + DayLength <= DayLength * (-1)
      /\ q < 0 => DayLength * q + DayLength <= DayLength * 0
      /\ 0 < q => DayLength * 0 + DayLength <= DayLength * q
      /\ 1 < q => DayLength * 1 + DayLength <= DayLength * q
  BY Multiples
<1>5. CASE q < -1
  BY <1>1, <1>2, <1>3, <1>4, <1>5
<1>6. CASE q = -1
  BY <1>1, <1>2, <1>3, <1>6
<1>7. CASE q = 0
  BY <1>1, <1>2, <1>3, <1>7
<1>8. CASE q = 1
  BY <1>1, <1>2, <1>3, <1>8
<1>9. CASE 1 < q
  BY <1>1, <1>2, <1>3, <1>4, <1>9
<1> QED
  BY <1>5, <1>6, <1>7, <1>8, <1>9

LEMMA WindowsMean ==
    ASSUME NEW window, window.zone \in Zone, NEW at \in Int,
           window.start \in 0 .. DayLength - 1, window.end \in 0 .. DayLength - 1
    PROVE  Within(window, at) <=> InWindow(window, at)
<1> DEFINE time == TimeOf(Local(window.zone, at))
<1>1. PICK s \in 0 .. DayLength - 1, e \in 0 .. DayLength - 1 :
        s = window.start /\ e = window.end
  OBVIOUS
<1>2. DayLength \in Nat \ {0} /\ time \in 0 .. DayLength - 1
  <2>1. Local(window.zone, at) \in Int
    BY DayLengthAssumption DEF Zone, Local
  <2> QED
    BY <2>1, DayLengthAssumption, Modulo DEF TimeOf
<1>3. Within(window, at) <=> IF s <= e THEN s <= time /\ time < e ELSE s <= time \/ time < e
  BY <1>1 DEF Within
<1>4. InWindow(window, at) <=>
          \E ticks \in 0 .. ((e - s) % DayLength) - 1 : time = (s + ticks) % DayLength
  BY <1>1 DEF InWindow
<1> HIDE DEF time
<1>5. (e - s) % DayLength = IF s <= e THEN e - s ELSE e - s + DayLength
  <2>1. PICK difference \in Int : difference = e - s
    OBVIOUS
  <2>2. /\ 0 <= difference => difference % DayLength = difference
        /\ difference < 0 => difference % DayLength = difference + DayLength
    BY <1>1, <1>2, <2>1, Modulo
  <2> QED
    BY <1>1, <1>2, <2>1, <2>2
<1>6. ASSUME NEW ticks \in Int, 0 <= ticks, ticks < DayLength
      PROVE  (s + ticks) % DayLength =
                 IF s + ticks < DayLength THEN s + ticks ELSE s + ticks - DayLength
  <2>1. PICK sum \in Int : sum = s + ticks
    BY <1>6
  <2> HIDE DEF time
  <2>2. 0 <= sum /\ sum < DayLength + DayLength
    BY <1>1, <1>2, <1>6, <2>1
  <2>3. sum < DayLength => sum % DayLength = sum
    BY <2>1, <2>2, Modulo
  <2>4. DayLength <= sum => sum % DayLength = sum - DayLength
    BY <2>1, <2>2, Modulo
  <2> QED
    BY <1>1, <1>2, <1>6, <2>1, <2>3, <2>4
<1>7. ASSUME Within(window, at) PROVE InWindow(window, at)
  <2> DEFINE ticks == IF s <= time THEN time - s ELSE time - s + DayLength
  <2>1. /\ ticks \in Int /\ 0 <= ticks /\ ticks < (e - s) % DayLength
        /\ ticks < DayLength /\ (e - s) % DayLength \in Int
    BY <1>2, <1>3, <1>5, <1>7
  <2>2. time = (s + ticks) % DayLength
    BY <1>2, <1>6, <2>1
  <2>3. ticks \in 0 .. ((e - s) % DayLength) - 1
    BY <2>1
  <2> QED
    BY <1>4, <2>2, <2>3
<1>8. ASSUME InWindow(window, at) PROVE Within(window, at)
  <2>1. PICK ticks \in 0 .. ((e - s) % DayLength) - 1 : time = (s + ticks) % DayLength
    BY <1>4, <1>8
  <2>2. ticks \in Int /\ 0 <= ticks /\ ticks < (IF s <= e THEN e - s ELSE e - s + DayLength)
    BY <1>2, <1>5
  <2>3. ticks < DayLength
    BY <1>2, <2>2
  <2>4. time = IF s + ticks < DayLength THEN s + ticks ELSE s + ticks - DayLength
    BY <1>6, <2>1, <2>2, <2>3
  <2> QED
    BY <1>2, <1>3, <2>2, <2>4
<1> QED
  BY <1>7, <1>8

-----------------------------------------------------------------------------
(***************************************************************************)
(* What a condition returns, and what it means, follows from those that it *)
(* is built from.                                                          *)
(***************************************************************************)
LEMMA AllOfTyped ==
    ASSUME NEW n \in Nat, NEW values, DOMAIN values = 1 .. n
    PROVE  AllOf(values) \in {"true", "false", "raises"}
<1> DEFINE ends == {i \in DOMAIN values : IsEnd(values, i)}
<1>1. CASE ends = {}
  BY <1>1 DEF AllOf
<1>2. CASE ends # {}
  <2>1. PICK m \in ends : \A i \in ends : ~(i < m)
    <3>1. ends \in SUBSET Nat
      OBVIOUS
    <3> HIDE DEF ends
    <3> QED
      BY <1>2, <3>1, LeastOf
  <2>2. \A i \in ends : m <= i
    BY <2>1
  <2>3. (CHOOSE i \in ends : \A k \in ends : i <= k) \in ends
    BY <2>1, <2>2
  <2> QED
    BY <1>2, <2>3 DEF AllOf, IsEnd
<1> QED
  BY <1>1, <1>2

LEMMA AllOfFirst ==
    ASSUME NEW n \in Nat, NEW values, DOMAIN values = 1 .. n, NEW i \in 1 .. n,
           IsEnd(values, i), \A k \in 1 .. i - 1 : ~IsEnd(values, k)
    PROVE  AllOf(values) = values[i]
<1> DEFINE ends == {k \in DOMAIN values : IsEnd(values, k)}
<1>1. i \in ends /\ \A k \in ends : i <= k
  BY DEF IsEnd
<1>2. (CHOOSE m \in ends : \A k \in ends : m <= k) = i
  <2> HIDE DEF ends
  <2>1. ends \subseteq Int
    BY DEF ends
  <2>2. \A m \in ends : (\A k \in ends : m <= k) => m = i
    BY <1>1, <2>1
  <2> QED
    BY <1>1, <2>2
<1> QED
  BY <1>1, <1>2 DEF AllOf

LEMMA Kinds ==
    ASSUME NEW c \in Conditions
    PROVE  /\ Node[c].kind \in {"window", "plugin", "weather", "all", "not", "cached", "timeout"}
           /\ Node[c].kind = "all" =>
                  /\ Len(Node[c].of) \in Nat /\ DOMAIN Node[c].of = 1 .. Len(Node[c].of)
                  /\ \A i \in 1 .. Len(Node[c].of) : Node[c].of[i] \in Children(c)
           /\ Node[c].kind \in {"not", "cached", "timeout"} => Node[c].of[1] \in Children(c)
<1>1. Node[c].kind \in {"window", "plugin", "weather", "all", "not", "cached", "timeout"}
  BY NodeAssumption
<1>2. CASE Node[c].kind = "all"
  <2>1. Node[c].of \in Seq(Conditions)
    BY <1>2, NodeAssumption
  <2> QED
    BY <1>2, <2>1 DEF Children
<1>3. CASE Node[c].kind \in {"not", "cached", "timeout"}
  <2>1. Node[c].of \in Seq(Conditions) /\ Len(Node[c].of) = 1
    BY <1>3, NodeAssumption
  <2>2. 1 \in DOMAIN Node[c].of
    BY <2>1
  <2> QED
    BY <1>3, <2>2 DEF Children
<1> QED
  BY <1>1, <1>2, <1>3

Returned == {"true", "false", "raises", "coroutine"}
CacheTyped ==
    \A c \in Cached : \A e \in cache[c] : e.value \in {"true", "false"}

LEMMA EvaluatedTyped ==
    ASSUME CacheTyped, NEW c \in Conditions, NEW value, NEW job \in Jobs,
           NEW at \in 0 .. MaxTime, \A d \in Children(c) : value[d] \in Returned
    PROVE  Evaluated(c, value, job, at) \in Returned
<1>1. CASE Node[c].kind = "window"
  BY <1>1 DEF Evaluated, Truth, Returned
<1>2. CASE Node[c].kind = "plugin"
  BY <1>2, NodeAssumption DEF Evaluated, Returned
<1>3. CASE Node[c].kind = "weather"
  BY <1>3 DEF Evaluated, Returned
<1>4. CASE Node[c].kind = "all"
  <2> DEFINE values == [i \in DOMAIN Node[c].of |-> value[Node[c].of[i]]]
  <2>1. Evaluated(c, value, job, at) = AllOf(values)
    BY <1>4 DEF Evaluated
  <2>2. Len(Node[c].of) \in Nat /\ DOMAIN values = 1 .. Len(Node[c].of)
    BY <1>4, Kinds
  <2> HIDE DEF values
  <2> QED
    BY <2>1, <2>2, AllOfTyped DEF Returned
<1>5. CASE Node[c].kind = "not"
  BY <1>5 DEF Evaluated, Truth, Returned
<1>6. CASE Node[c].kind = "cached"
  <2> DEFINE entries == Hits(c, job, at)
  <2>1. value[Node[c].of[1]] \in Returned
    BY <1>6, Kinds
  <2>2. Evaluated(c, value, job, at) =
            IF entries # {} THEN (CHOOSE e \in entries : TRUE).value
            ELSE IF value[Node[c].of[1]] = "coroutine" THEN "raises" ELSE value[Node[c].of[1]]
    BY <1>6 DEF Evaluated
  <2>3. \A e \in entries : e.value \in Returned
    BY <1>6 DEF CacheTyped, Cached, Returned, Hits
  <2> HIDE DEF entries
  <2>4. entries # {} => (CHOOSE e \in entries : TRUE) \in entries
    OBVIOUS
  <2> QED
    BY <2>1, <2>2, <2>3, <2>4 DEF Returned
<1>7. CASE Node[c].kind = "timeout"
  BY <1>7, Kinds DEF Evaluated, Truth, Returned
<1> QED
  BY <1>1, <1>2, <1>3, <1>4, <1>5, <1>6, <1>7, Kinds

LEMMA EvaluatedFromBelow ==
    ASSUME NEW c \in Conditions, NEW f, NEW g, NEW job, NEW at,
           \A d \in Children(c) : f[d] = g[d]
    PROVE  Evaluated(c, f, job, at) = Evaluated(c, g, job, at)
<1>1. CASE Node[c].kind \in {"window", "plugin", "weather"}
  BY <1>1 DEF Evaluated
<1>2. CASE Node[c].kind = "all"
  <2>1. [i \in DOMAIN Node[c].of |-> f[Node[c].of[i]]] = [i \in DOMAIN Node[c].of |-> g[Node[c].of[i]]]
    BY <1>2, Kinds
  <2>2. /\ Evaluated(c, f, job, at) = AllOf([i \in DOMAIN Node[c].of |-> f[Node[c].of[i]]])
        /\ Evaluated(c, g, job, at) = AllOf([i \in DOMAIN Node[c].of |-> g[Node[c].of[i]]])
    BY <1>2 DEF Evaluated
  <2> QED
    BY <2>1, <2>2
<1>3. CASE Node[c].kind \in {"not", "cached", "timeout"}
  <2>1. f[Node[c].of[1]] = g[Node[c].of[1]]
    BY <1>3, Kinds
  <2> QED
    BY <1>3, <2>1 DEF Evaluated
<1> QED
  BY <1>1, <1>2, <1>3, Kinds

\* What a condition means at each time.
Times == 0 .. MaxTime
Meant == [Times -> SUBSET Answers]

\* A cache asks for what its condition meant at earlier times.
LEMMA MeaningTyped ==
    ASSUME NEW c \in Conditions, NEW meaning, NEW job \in Jobs, NEW at \in Times,
           \A d \in Children(c) : meaning[d] \in Meant
    PROVE  Meaning(c, meaning, job, at) \subseteq Answers
<1>1. CASE Node[c].kind = "window"
  BY <1>1 DEF Meaning, Truth, Answers
<1>2. CASE Node[c].kind = "plugin"
  BY <1>2, NodeAssumption DEF Meaning, Answers, Times
<1>3. CASE Node[c].kind \in {"weather", "all"}
  BY <1>3 DEF Meaning
<1>4. CASE Node[c].kind \in {"not", "cached", "timeout"}
  <2>1. \A then \in Times : meaning[Node[c].of[1]][then] \subseteq Answers
    BY <1>4, Kinds DEF Meant
  <2>2. CASE Node[c].kind = "not"
    BY <2>1, <2>2 DEF Meaning, Truth, Answers
  <2>3. CASE Node[c].kind = "cached"
    BY <2>1, <2>3 DEF Meaning, Times
  <2>4. CASE Node[c].kind = "timeout"
    BY <2>1, <2>4 DEF Meaning
  <2> QED
    BY <1>4, <2>2, <2>3, <2>4
<1> QED
  BY <1>1, <1>2, <1>3, <1>4, Kinds

LEMMA MeaningFromBelow ==
    ASSUME NEW c \in Conditions, NEW f, NEW g, NEW job, NEW at,
           \A d \in Children(c) : f[d] = g[d]
    PROVE  Meaning(c, f, job, at) = Meaning(c, g, job, at)
<1>1. CASE Node[c].kind \in {"window", "plugin", "weather"}
  BY <1>1 DEF Meaning
<1>2. CASE Node[c].kind = "all"
  <2>1. \A i \in DOMAIN Node[c].of : f[Node[c].of[i]][at] = g[Node[c].of[i]][at]
    BY <1>2, Kinds
  <2>2. \A i \in DOMAIN Node[c].of : 1 .. i - 1 \subseteq DOMAIN Node[c].of
    BY <1>2, Kinds
  <2> QED
    BY <1>2, <2>1, <2>2 DEF Meaning
<1>3. CASE Node[c].kind \in {"not", "cached", "timeout"}
  <2>1. f[Node[c].of[1]] = g[Node[c].of[1]]
    BY <1>3, Kinds
  <2> QED
    BY <1>3, <2>1 DEF Meaning
<1> QED
  BY <1>1, <1>2, <1>3, Kinds

\* So there is what conditions return and what they mean, all together.
LEMMA ValuesAre ==
    ASSUME CacheTyped, NEW job \in Jobs, NEW at \in 0 .. MaxTime
    PROVE  \A c \in Conditions :
               /\ Values(job, at)[c] = Evaluated(c, Values(job, at), job, at)
               /\ Values(job, at)[c] \in Returned
<1> DEFINE Total == [Conditions -> Returned]
<1>1. \A f \in Total : \A c \in Conditions : Evaluated(c, f, job, at) \in Returned
  BY EvaluatedTyped, Below
<1>2. PICK step \in [Total \X Conditions -> Returned] :
        \A f \in Total : \A c \in Conditions : step[<<f, c>>] = Evaluated(c, f, job, at)
  <2> DEFINE step == [fc \in Total \X Conditions |-> Evaluated(fc[2], fc[1], job, at)]
  <2> HIDE DEF Total
  <2>1. step \in [Total \X Conditions -> Returned]
    BY <1>1
  <2>2. \A f \in Total : \A c \in Conditions : step[<<f, c>>] = Evaluated(c, f, job, at)
    OBVIOUS
  <2> HIDE DEF step
  <2> QED
    BY <2>1, <2>2
<1>3. \A f, g \in Total : \A c \in Conditions :
        (\A d \in Children(c) : f[d] = g[d]) => step[<<f, c>>] = step[<<g, c>>]
  <2> SUFFICES ASSUME NEW f \in Total, NEW g \in Total, NEW c \in Conditions,
                      \A d \in Children(c) : f[d] = g[d]
               PROVE  step[<<f, c>>] = step[<<g, c>>]
    OBVIOUS
  <2>1. Evaluated(c, f, job, at) = Evaluated(c, g, job, at)
    BY EvaluatedFromBelow
  <2> QED
    BY <1>2, <2>1
<1>4. "true" \in Returned
  BY DEF Returned
<1>5. PICK f \in Total : \A c \in Conditions : f[c] = step[<<f, c>>]
  <2>1. step \in [[Conditions -> Returned] \X Conditions -> Returned]
    BY <1>2
  <2>2. FromBelow(step, Returned)
    BY <1>3, <1>4, <2>1 DEF FromBelow
  <2> QED
    BY <2>2, AllTogether
<1>6. f = [c \in Conditions |-> Evaluated(c, f, job, at)]
  BY <1>2, <1>5
<1>7. Values(job, at) = [c \in Conditions |-> Evaluated(c, Values(job, at), job, at)]
  BY <1>6 DEF Values
<1> DEFINE Right == {c \in Conditions : Values(job, at)[c] \in Returned}
<1>8. \A c \in Conditions : Values(job, at)[c] = Evaluated(c, Values(job, at), job, at)
  BY <1>7
<1>9. ASSUME NEW c \in Conditions, Children(c) \subseteq Right PROVE c \in Right
  BY <1>8, <1>9, EvaluatedTyped
<1>10. Right = Conditions
  BY <1>9, FirstWrong
<1> QED
  BY <1>8, <1>10

LEMMA MeaningsAre ==
    ASSUME NEW job \in Jobs
    PROVE  \A c \in Conditions :
               /\ Meanings(job)[c] \in Meant
               /\ \A at \in Times :
                     Meanings(job)[c][at] = Meaning(c, Meanings(job), job, at)
<1> DEFINE Total == [Conditions -> Meant]
           Course(f, c) == [at \in Times |-> Meaning(c, f, job, at)]
<1>1. \A f \in Total : \A c \in Conditions : Course(f, c) \in Meant
  BY MeaningTyped, Below DEF Meant
<1>2. PICK step \in [Total \X Conditions -> Meant] :
        \A f \in Total : \A c \in Conditions : step[<<f, c>>] = Course(f, c)
  <2> DEFINE step == [fc \in Total \X Conditions |-> Course(fc[1], fc[2])]
  <2> HIDE DEF Total, Course
  <2>1. step \in [Total \X Conditions -> Meant]
    BY <1>1
  <2>2. \A f \in Total : \A c \in Conditions : step[<<f, c>>] = Course(f, c)
    OBVIOUS
  <2> HIDE DEF step
  <2> QED
    BY <2>1, <2>2
<1>3. \A f, g \in Total : \A c \in Conditions :
        (\A d \in Children(c) : f[d] = g[d]) => step[<<f, c>>] = step[<<g, c>>]
  <2> SUFFICES ASSUME NEW f \in Total, NEW g \in Total, NEW c \in Conditions,
                      \A d \in Children(c) : f[d] = g[d]
               PROVE  step[<<f, c>>] = step[<<g, c>>]
    OBVIOUS
  <2>1. \A at \in Times : Meaning(c, f, job, at) = Meaning(c, g, job, at)
    BY MeaningFromBelow
  <2>2. Course(f, c) = Course(g, c)
    BY <2>1
  <2>3. step[<<f, c>>] = Course(f, c) /\ step[<<g, c>>] = Course(g, c)
    BY <1>2
  <2> HIDE DEF Course
  <2> QED
    BY <2>2, <2>3
<1>4. [at \in Times |-> {}] \in Meant
  BY DEF Meant
<1>5. PICK f \in Total : \A c \in Conditions : f[c] = step[<<f, c>>]
  <2>1. step \in [[Conditions -> Meant] \X Conditions -> Meant]
    BY <1>2
  <2>2. FromBelow(step, Meant)
    BY <1>3, <1>4, <2>1 DEF FromBelow
  <2> QED
    BY <2>2, AllTogether
<1>6. f = [c \in Conditions |-> [at \in 0 .. MaxTime |-> Meaning(c, f, job, at)]]
  BY <1>2, <1>5 DEF Times
<1>7. Meanings(job) =
        [c \in Conditions |-> [at \in 0 .. MaxTime |-> Meaning(c, Meanings(job), job, at)]]
  BY <1>6 DEF Meanings
<1> DEFINE Right == {c \in Conditions : Meanings(job)[c] \in Meant}
<1>8. \A c \in Conditions : Meanings(job)[c] = Course(Meanings(job), c)
  BY <1>7 DEF Times
<1>9. ASSUME NEW c \in Conditions, Children(c) \subseteq Right PROVE c \in Right
  <2>1. \A at \in Times : Meaning(c, Meanings(job), job, at) \subseteq Answers
    BY <1>9, MeaningTyped
  <2>2. Meanings(job)[c] = [at \in Times |-> Meaning(c, Meanings(job), job, at)]
    BY <1>8
  <2> QED
    BY <2>1, <2>2 DEF Meant
<1>10. Right = Conditions
  <2> HIDE DEF Right
  <2>1. Right \in SUBSET Conditions
    BY DEF Right
  <2> QED
    BY <1>9, <2>1, FirstWrong
<1> QED
  BY <1>8, <1>10

-----------------------------------------------------------------------------
(***************************************************************************)
(* What a cache keeps its condition meant for the job and at the time of   *)
(* its key; then what is evaluated is what is meant, too.  A condition     *)
(* that returns a coroutine may mean anything.                             *)
(***************************************************************************)
CacheMeans ==
    \A c \in Cached : \A e \in cache[c] :
        /\ e.value \in {"true", "false"}
        /\ \E job \in Jobs, at \in Times :
               /\ e.key = CacheKey(job, at) /\ e.at = at
               /\ e.value \in Meanings(job)[Node[c].of[1]][at]

Fits(value, meaning) ==
    IF value = "coroutine" THEN Answers \subseteq meaning ELSE value \in meaning

LEMMA ValueMeans ==
    ASSUME CacheMeans, NEW job \in Jobs, NEW at \in Times, NEW c \in Conditions,
           \A d \in Children(c) : Fits(Values(job, at)[d], Meanings(job)[d][at])
    PROVE  Fits(Values(job, at)[c], Meanings(job)[c][at])
<1> DEFINE value == Values(job, at)
           Means(d) == Meanings(job)[d][at]
<1>1. CacheTyped
  BY DEF CacheMeans, CacheTyped
<1>2. /\ value[c] = Evaluated(c, value, job, at)
      /\ \A d \in Conditions : value[d] \in Returned
  BY <1>1, ValuesAre DEF Times
<1>3. /\ Means(c) = Meaning(c, Meanings(job), job, at)
      /\ \A d \in Conditions : Means(d) \subseteq Answers
  BY MeaningsAre DEF Meant
<1>4. \A d \in Children(c) : Fits(value[d], Means(d)) /\ d \in Conditions
  BY Below
<1> SUFFICES Fits(value[c], Means(c))
  OBVIOUS
<1> HIDE DEF value
<1>5. CASE Node[c].kind = "window"
  <2>1. at \in Int
    BY WindowsAssumption DEF Times
  <2>2. Within(Node[c], at) <=> InWindow(Node[c], at)
    BY <1>5, <2>1, NodeAssumption, WindowsMean
  <2> QED
    BY <1>2, <1>3, <1>5, <2>2 DEF Evaluated, Meaning, Truth, Fits
<1>6. CASE Node[c].kind = "plugin"
  <2>1. Node[c].result[job][at] \in Answers
    BY <1>6, NodeAssumption DEF Times, Answers
  <2> QED
    BY <1>2, <1>3, <1>6, <2>1 DEF Evaluated, Meaning, Fits, Answers
<1>7. CASE Node[c].kind = "weather"
  BY <1>2, <1>3, <1>7 DEF Evaluated, Meaning, Fits
<1>8. CASE Node[c].kind = "all"
  <2> DEFINE n == Len(Node[c].of)
             values == [i \in DOMAIN Node[c].of |-> value[Node[c].of[i]]]
             M(i) == Means(Node[c].of[i])
             ends == {i \in 1 .. n : IsEnd(values, i)}
  <2>1. value[c] = AllOf(values)
    BY <1>2, <1>8 DEF Evaluated
  <2>2. n \in Nat /\ DOMAIN values = 1 .. n /\ DOMAIN Node[c].of = 1 .. n
    BY <1>8, Kinds
  <2>3. \A i \in 1 .. n : Fits(values[i], M(i)) /\ values[i] \in Returned
    BY <1>2, <1>4, <1>8, Kinds
  <2>4. Means(c) = {answer \in Answers :
            \/ answer = "true" /\ \A i \in 1 .. n : "true" \in M(i)
            \/ /\ answer # "true"
               /\ \E i \in 1 .. n : answer \in M(i) /\ \A k \in 1 .. i - 1 : "true" \in M(k)}
    BY <1>3, <1>8, <2>2 DEF Meaning
  <2> HIDE DEF n, values, M, Means
  <2>5. ASSUME NEW i \in 1 .. n, ~IsEnd(values, i) PROVE "true" \in M(i)
    <3>1. Fits(values[i], M(i)) /\ values[i] \in {"true", "coroutine"}
      BY <2>3, <2>5 DEF IsEnd, Returned
    <3> QED
      BY <3>1 DEF Fits, Answers
  <2>6. CASE ends = {}
    <3>1. AllOf(values) = "true"
      BY <2>2, <2>6 DEF AllOf
    <3> QED
      BY <2>1, <2>4, <2>5, <2>6, <3>1 DEF Fits, Answers
  <2>7. CASE ends # {}
    <3>1. ends \in SUBSET Nat
      OBVIOUS
    <3>2. PICK i \in ends : \A k \in ends : ~(k < i)
      <4> HIDE DEF ends
      <4> QED
        BY <2>7, <3>1, LeastOf
    <3>3. \A k \in 1 .. i - 1 : k \in 1 .. n /\ ~IsEnd(values, k)
      BY <2>2, <3>2
    <3>4. AllOf(values) = values[i]
      BY <2>2, <3>2, <3>3, AllOfFirst
    <3>5. values[i] \in M(i) /\ values[i] \in {"false", "raises"}
      BY <2>3, <3>2 DEF Fits, IsEnd
    <3>6. \A k \in 1 .. i - 1 : "true" \in M(k)
      BY <2>5, <3>3
    <3> QED
      BY <2>1, <2>4, <3>2, <3>4, <3>5, <3>6 DEF Fits, Answers
  <2> QED
    BY <2>6, <2>7
<1>9. CASE Node[c].kind = "not"
  <2>1. Fits(value[Node[c].of[1]], Means(Node[c].of[1])) /\ value[Node[c].of[1]] \in Returned
    BY <1>2, <1>4, <1>9, Kinds
  <2>2. value[c] = IF value[Node[c].of[1]] = "raises" THEN "raises"
                   ELSE Truth(value[Node[c].of[1]] = "false")
    BY <1>2, <1>9 DEF Evaluated
  <2>3. Means(c) = {IF answer = "raises" THEN answer ELSE Truth(answer = "false") :
                        answer \in Means(Node[c].of[1])}
    BY <1>3, <1>9 DEF Meaning
  <2> HIDE DEF Means
  <2> QED
    BY <2>1, <2>2, <2>3 DEF Truth, Fits, Answers
<1>10. CASE Node[c].kind = "cached"
  <2> DEFINE entries == Hits(c, job, at)
             inner == value[Node[c].of[1]]
             Kept == {s \in Times : at - s <= Node[c].ttl}
  <2>1. value[c] = IF entries # {} THEN (CHOOSE e \in entries : TRUE).value
                   ELSE IF inner = "coroutine" THEN "raises" ELSE inner
    BY <1>2, <1>10 DEF Evaluated
  <2>2. Means(c) = UNION {Meanings(job)[Node[c].of[1]][then] : then \in Kept}
    BY <1>3, <1>10 DEF Meaning, Times
  <2>3. at \in Kept
    BY <1>10, NodeAssumption, WindowsAssumption DEF Times
  <2>4. Means(Node[c].of[1]) \subseteq Means(c)
    BY <2>2, <2>3
  <2>5. Fits(inner, Means(Node[c].of[1])) /\ inner \in Returned
    BY <1>2, <1>4, <1>10, Kinds
  <2>6. ASSUME NEW e \in entries PROVE e.value \in Means(c) /\ e.value # "coroutine"
    <3>1. e \in cache[c] /\ e.key = CacheKey(job, at)
      BY DEF Hits
    <3>2. PICK j \in Jobs, a \in Times :
            /\ e.key = CacheKey(j, a)
            /\ e.value \in Meanings(j)[Node[c].of[1]][a]
            /\ e.value \in {"true", "false"}
      BY <1>10, <3>1 DEF CacheMeans, Cached
    <3>3. j = job /\ a = at
      BY <3>1, <3>2 DEF CacheKey
    <3> QED
      BY <2>4, <3>2, <3>3
  <2> HIDE DEF entries, inner, Means
  <2>7. CASE entries # {}
    <3> DEFINE hit == CHOOSE e \in entries : TRUE
    <3>1. (CHOOSE e \in entries : TRUE) \in entries
      BY <2>7
    <3>2. value[c] = hit.value
      BY <2>1, <2>7
    <3>3. hit.value \in Means(c) /\ hit.value # "coroutine"
      BY <2>6, <3>1
    <3> QED
      BY <3>2, <3>3 DEF Fits
  <2>8. CASE entries = {}
    BY <2>1, <2>4, <2>5, <2>8 DEF Fits, Answers
  <2> QED
    BY <2>7, <2>8
<1>11. CASE Node[c].kind = "timeout"
  <2>1. Fits(value[Node[c].of[1]], Means(Node[c].of[1]))
    BY <1>4, <1>11, Kinds
  <2>2. Means(c) = Means(Node[c].of[1])
    BY <1>3, <1>11 DEF Meaning
  <2>3. value[c] = IF value[Node[c].of[1]] = "coroutine" THEN Truth(Node[c].onTimeout)
                   ELSE value[Node[c].of[1]]
    BY <1>2, <1>11 DEF Evaluated
  <2> HIDE DEF Means
  <2> QED
    BY <2>1, <2>2, <2>3 DEF Truth, Fits, Answers
<1> QED
  BY <1>5, <1>6, <1>7, <1>8, <1>9, <1>10, <1>11, Kinds

LEMMA ValuesMean ==
    ASSUME CacheMeans, NEW job \in Jobs, NEW at \in Times
    PROVE  \A c \in Conditions :
               /\ Values(job, at)[c] \in Returned
               /\ Fits(Values(job, at)[c], Meanings(job)[c][at])
<1> DEFINE Right == {c \in Conditions : Fits(Values(job, at)[c], Meanings(job)[c][at])}
<1>1. ASSUME NEW c \in Conditions, Children(c) \subseteq Right PROVE c \in Right
  <2>1. \A d \in Children(c) : Fits(Values(job, at)[d], Meanings(job)[d][at])
    BY <1>1
  <2> QED
    BY <2>1, ValueMeans
<1>2. Right = Conditions
  <2>1. Right \in SUBSET Conditions /\ \A c \in Conditions : Children(c) \subseteq Right => c \in Right
    BY <1>1
  <2> HIDE DEF Right
  <2> QED
    BY <2>1, FirstWrong
<1>3. CacheTyped
  BY DEF CacheMeans, CacheTyped
<1> QED
  BY <1>2, <1>3, ValuesAre DEF Times

\* A cache that has no entry to answer with writes what its condition returns.
LEMMA RememberedMeans ==
    ASSUME CacheMeans, NEW job \in Jobs, NEW at \in Times, NEW S, Remember(job, at, S)
    PROVE  CacheMeans'
<1> SUFFICES ASSUME NEW c \in Cached, NEW e \in cache'[c]
             PROVE  /\ e.value \in {"true", "false"}
                    /\ \E j \in Jobs, a \in Times :
                           /\ e.key = CacheKey(j, a) /\ e.at = a
                           /\ e.value \in Meanings(j)[Node[c].of[1]][a]
  BY DEF CacheMeans, Cached, Times
<1>1. c \in Conditions /\ Node[c].kind = "cached" /\ Node[c].of[1] \in Conditions
  BY Kinds, Below DEF Cached
<1>2. CASE e \in cache[c]
  BY <1>2 DEF CacheMeans
<1>3. CASE /\ Hits(c, job, at) = {} /\ Values(job, at)[c] \in {"true", "false"}
           /\ e = [key |-> CacheKey(job, at), at |-> at, value |-> Values(job, at)[c]]
  <2> DEFINE inner == Values(job, at)[Node[c].of[1]]
  <2>1. CacheTyped
    BY DEF CacheMeans, CacheTyped
  <2>2. Values(job, at)[c] = Evaluated(c, Values(job, at), job, at)
    BY <1>1, <2>1, ValuesAre DEF Times
  <2>3. Values(job, at)[c] = IF inner = "coroutine" THEN "raises" ELSE inner
    BY <1>1, <1>3, <2>2 DEF Evaluated
  <2>4. Fits(inner, Meanings(job)[Node[c].of[1]][at])
    BY <1>1, ValuesMean
  <2>5. e.value = inner /\ inner \in Meanings(job)[Node[c].of[1]][at]
    BY <1>3, <2>3, <2>4 DEF Fits
  <2> QED
    BY <1>3, <2>5
<1> QED
  BY <1>2, <1>3 DEF Remember

-----------------------------------------------------------------------------
(***************************************************************************)
(* The inductive invariant: what a task has passed by means true, and what *)
(* it awaits or has stopped at means what its phase says.                  *)
(***************************************************************************)
Evaluation == [phase : {"evaluating", "http"} \cup Verdicts, job : Jobs, at : 0 .. MaxTime,
               next : Nat \ {0}]
MeansFor(task, i, answer) ==
    answer \in Meanings(task.job)[Required[task.job][i]][task.at]
MeansAny(task, i) == \A answer \in Answers : MeansFor(task, i, answer)
Judged(task) ==
    /\ \A i \in 1 .. task.next - 1 : MeansFor(task, i, "true")
    /\ task.phase = "http" =>
           /\ task.next <= Len(Required[task.job])
           /\ MeansAny(task, task.next)
    /\ task.phase = "passed" => task.next > Len(Required[task.job])
    /\ task.phase = "failed" => MeansFor(task, task.next, "false")
    /\ task.phase = "error" => MeansFor(task, task.next, "raises")
TaskOK(task) ==
    \/ task.phase = "none"
    \/ /\ task \in Evaluation /\ task.next <= Len(Required[task.job]) + 1
       /\ Judged(task)

Sound ==
    /\ now \in 0 .. MaxTime
    /\ DOMAIN cache = Cached /\ CacheMeans
    /\ DOMAIN tasks = TaskIds /\ \A t \in TaskIds : TaskOK(tasks[t])

\* Until it stops, an evaluation goes by conditions that mean true.
LEMMA StopsMean ==
    ASSUME Sound, NEW t \in TaskIds, Phase(t, "evaluating"), NEW k, StopsAt(t, k)
    PROVE  /\ tasks[t] \in Evaluation /\ k \in Nat \ {0} /\ k <= Len(RequiredOf(t)) + 1
           /\ \A i \in 1 .. k - 1 : MeansFor(tasks[t], i, "true")
           /\ k <= Len(RequiredOf(t)) =>
                  LET value == ValuesFor(t)[RequiredOf(t)[k]]
                  IN  /\ value # "coroutine" => MeansFor(tasks[t], k, value)
                      /\ value = "coroutine" => MeansAny(tasks[t], k)
<1> DEFINE n == Len(RequiredOf(t))
<1>1. /\ tasks[t] \in Evaluation /\ tasks[t].next \in Nat \ {0}
      /\ tasks[t].job \in Jobs /\ tasks[t].at \in 0 .. MaxTime /\ CacheMeans
      /\ \A i \in 1 .. tasks[t].next - 1 : MeansFor(tasks[t], i, "true")
  BY DEF Sound, TaskOK, Judged, Phase, Evaluation
<1>2. n \in Nat /\ \A i \in 1 .. n : RequiredOf(t)[i] \in Conditions
  <2>1. RequiredOf(t) \in Seq(Conditions)
    BY <1>1, ConditionsAssumption DEF RequiredOf
  <2> QED
    BY <2>1
<1>3. ASSUME NEW i \in 1 .. n
      PROVE  LET value == ValuesFor(t)[RequiredOf(t)[i]]
             IN  /\ value # "coroutine" => MeansFor(tasks[t], i, value)
                 /\ value = "coroutine" => MeansAny(tasks[t], i)
  <2>1. PICK c \in Conditions : c = RequiredOf(t)[i]
    BY <1>2
  <2>2. Fits(Values(tasks[t].job, tasks[t].at)[c], Meanings(tasks[t].job)[c][tasks[t].at])
    BY <1>1, ValuesMean DEF Times
  <2> QED
    BY <2>1, <2>2 DEF MeansFor, MeansAny, RequiredOf, ValuesFor, Fits, Answers
<1>4. /\ k \in tasks[t].next .. n + 1
      /\ \A i \in tasks[t].next .. k - 1 : ValuesFor(t)[RequiredOf(t)[i]] = "true"
  BY DEF StopsAt
<1>5. k \in Nat \ {0} /\ k <= n + 1
  BY <1>1, <1>2, <1>4
<1> HIDE DEF n
<1>6. ASSUME NEW i \in 1 .. k - 1 PROVE MeansFor(tasks[t], i, "true")
  <2>1. CASE i < tasks[t].next
    BY <1>1, <1>5, <2>1
  <2>2. CASE ~(i < tasks[t].next)
    <3>1. i \in tasks[t].next .. k - 1 /\ i \in 1 .. n
      BY <1>1, <1>2, <1>5, <2>2
    <3>2. ValuesFor(t)[RequiredOf(t)[i]] = "true"
      BY <1>4, <3>1
    <3> QED
      BY <1>3, <3>1, <3>2
  <2> QED
    BY <2>1, <2>2
<1>7. k <= n => k \in 1 .. n
  BY <1>2, <1>5
<1> QED
  BY <1>1, <1>3, <1>5, <1>6, <1>7 DEF n

LEMMA GoesTo ==
    ASSUME Sound, NEW t \in TaskIds, tasks[t] \in Evaluation,
           NEW phase \in {"evaluating", "http"} \cup Verdicts, NEW k \in Nat \ {0},
           k <= Len(RequiredOf(t)) + 1, Goto(t, phase, k),
           \A i \in 1 .. k - 1 : MeansFor(tasks[t], i, "true"),
           phase = "http" => k <= Len(RequiredOf(t)) /\ MeansAny(tasks[t], k),
           phase = "passed" => k > Len(RequiredOf(t)),
           phase = "failed" => MeansFor(tasks[t], k, "false"),
           phase = "error" => MeansFor(tasks[t], k, "raises")
    PROVE  DOMAIN tasks' = TaskIds /\ \A s \in TaskIds : TaskOK(tasks'[s])
<1>1. /\ DOMAIN tasks' = TaskIds
      /\ \A s \in TaskIds : s # t => tasks'[s] = tasks[s]
      /\ tasks'[t] = [[tasks[t] EXCEPT !.phase = phase] EXCEPT !.next = k]
  BY DEF Sound, Goto
<1>2. PICK task \in Evaluation : task = tasks[t]
  OBVIOUS
<1>3. PICK new \in Evaluation :
        /\ new = [[task EXCEPT !.phase = phase] EXCEPT !.next = k]
        /\ new.phase = phase /\ new.next = k /\ new.job = task.job /\ new.at = task.at
  <2> DEFINE new == [phase |-> phase, job |-> task.job, at |-> task.at, next |-> k]
  <2>1. /\ task.job \in Jobs /\ task.at \in 0 .. MaxTime
        /\ task = [phase |-> task.phase, job |-> task.job, at |-> task.at, next |-> task.next]
    BY DEF Evaluation
  <2>2. new \in Evaluation
    BY <2>1 DEF Evaluation
  <2>3. [[task EXCEPT !.phase = phase] EXCEPT !.next = k] = new
    <3> DEFINE mid == [phase |-> phase, job |-> task.job, at |-> task.at, next |-> task.next]
    <3>1. [task EXCEPT !.phase = phase] = mid
      BY <2>1
    <3>2. [mid EXCEPT !.next = k] = new
      OBVIOUS
    <3> HIDE DEF mid, new
    <3> QED
      BY <3>1, <3>2
  <2> QED
    BY <2>2, <2>3
<1>4. \A i : /\ \A answer : MeansFor(new, i, answer) = MeansFor(task, i, answer)
             /\ MeansAny(new, i) = MeansAny(task, i)
  BY <1>3 DEF MeansFor, MeansAny
<1>5. Required[new.job] = RequiredOf(t)
  BY <1>2, <1>3 DEF RequiredOf
<1>6. Judged(new)
  BY <1>2, <1>3, <1>4, <1>5 DEF Judged
<1>7. TaskOK(new)
  BY <1>3, <1>5, <1>6 DEF TaskOK
<1>8. tasks'[t] = new
  BY <1>1, <1>2, <1>3
<1> QED
  BY <1>1, <1>7, <1>8 DEF Sound

LEMMA SoundInit == ConditionsInit => Sound
<1> SUFFICES ASSUME ConditionsInit PROVE Sound
  OBVIOUS
<1>1. now \in 0 .. MaxTime
  BY WindowsAssumption DEF ConditionsInit, Init
<1>2. DOMAIN cache = Cached /\ CacheMeans
  BY DEF ConditionsInit, CacheMeans
<1>3. DOMAIN tasks = TaskIds /\ \A t \in TaskIds : TaskOK(tasks[t])
  BY DEF ConditionsInit, TaskOK, NoTask
<1> QED
  BY <1>1, <1>2, <1>3 DEF Sound

LEMMA SoundStep == Sound /\ [ConditionsNext]_allVars => Sound'
<1> DEFINE TasksOK == DOMAIN tasks = TaskIds /\ \A t \in TaskIds : TaskOK(tasks[t])
           CachesOK == DOMAIN cache = Cached /\ CacheMeans
<1> SUFFICES ASSUME Sound, [ConditionsNext]_allVars PROVE Sound'
  OBVIOUS
<1>1. now \in 0 .. MaxTime /\ CachesOK /\ TasksOK
  BY DEF Sound
<1>2. ASSUME UNCHANGED tasks PROVE TasksOK'
  BY <1>1, <1>2
<1>3. ASSUME UNCHANGED cache PROVE CachesOK'
  BY <1>1, <1>3 DEF CacheMeans
<1>4. ASSUME NEW t \in TaskIds, Phase(t, "evaluating"), NEW k, StopsAt(t, k), RememberUntil(t, k)
      PROVE  CachesOK'
  <2>1. tasks[t].job \in Jobs /\ tasks[t].at \in 0 .. MaxTime
    BY <1>4, StopsMean DEF Evaluation
  <2>2. PICK S : Remember(tasks[t].job, tasks[t].at, S)
    BY <1>4 DEF RememberUntil
  <2>3. CacheMeans'
    BY <1>1, <2>1, <2>2, RememberedMeans DEF Times
  <2>4. DOMAIN cache' = Cached
    BY <2>2 DEF Remember
  <2> QED
    BY <2>3, <2>4
<1>5. (now \in 0 .. MaxTime)'
  <2>1. CASE UNCHANGED vars
    BY <1>1, <2>1 DEF vars
  <2>2. CASE Next
    BY <1>1, <2>2, WindowsAssumption DEF Next, Allow, Refuse, Tick
  <2> QED
    BY <2>1, <2>2, StepsOfLimiter DEF Next
<1> HIDE DEF CachesOK, TasksOK
<1>6. ASSUME NEW t \in TaskIds, TaskStep(t) PROVE (CachesOK /\ TasksOK)'
  <2>1. ASSUME NEW j \in Jobs, Begin(t, j) PROVE (CachesOK /\ TasksOK)'
    <3> DEFINE task == [phase |-> "evaluating", job |-> j, at |-> now, next |-> 1]
    <3>1. TaskOK(task)
      <4>1. /\ task \in Evaluation /\ task.next = 1 /\ task.phase = "evaluating"
            /\ task.job = j
        BY <1>1, <2>1 DEF Evaluation
      <4>2. Len(Required[j]) \in Nat
        BY ConditionsAssumption
      <4> HIDE DEF task
      <4> QED
        BY <4>1, <4>2 DEF TaskOK, Judged
    <3>2. tasks' = [tasks EXCEPT ![t] = task] /\ UNCHANGED cache
      BY <2>1 DEF Begin
    <3> HIDE DEF task
    <3>3. TasksOK'
      BY <1>1, <3>1, <3>2 DEF TasksOK
    <3> QED
      BY <1>3, <3>2, <3>3
  <2>2. CASE Decide(t)
    <3>1. PICK k \in 1 .. Len(RequiredOf(t)) + 1 :
            /\ StopsAt(t, k) /\ RememberUntil(t, k)
            /\ IF k > Len(RequiredOf(t)) THEN Goto(t, "passed", k)
               ELSE \/ ValuesFor(t)[RequiredOf(t)[k]] = "false" /\ Goto(t, "failed", k)
                    \/ ValuesFor(t)[RequiredOf(t)[k]] = "raises" /\ Goto(t, "error", k)
      BY <2>2 DEF Decide
    <3>2. Phase(t, "evaluating")
      BY <2>2 DEF Decide
    <3>3. /\ tasks[t] \in Evaluation /\ k \in Nat \ {0} /\ k <= Len(RequiredOf(t)) + 1
          /\ \A i \in 1 .. k - 1 : MeansFor(tasks[t], i, "true")
          /\ k <= Len(RequiredOf(t)) /\ ValuesFor(t)[RequiredOf(t)[k]] # "coroutine"
                 => MeansFor(tasks[t], k, ValuesFor(t)[RequiredOf(t)[k]])
      BY <3>1, <3>2, StopsMean
    <3>4. Len(RequiredOf(t)) \in Nat
      BY <3>3, ConditionsAssumption DEF RequiredOf, Evaluation
    <3>5. ASSUME k > Len(RequiredOf(t)), Goto(t, "passed", k) PROVE TasksOK'
      BY <3>3, <3>5, GoesTo DEF TasksOK, Verdicts
    <3>6. ASSUME k <= Len(RequiredOf(t)), ValuesFor(t)[RequiredOf(t)[k]] = "false",
                 Goto(t, "failed", k)
          PROVE  TasksOK'
      BY <3>3, <3>6, GoesTo DEF TasksOK, Verdicts
    <3>7. ASSUME k <= Len(RequiredOf(t)), ValuesFor(t)[RequiredOf(t)[k]] = "raises",
                 Goto(t, "error", k)
          PROVE  TasksOK'
      BY <3>3, <3>7, GoesTo DEF TasksOK, Verdicts
    <3>8. CachesOK'
      BY <1>4, <3>1, <3>2
    <3> QED
      BY <3>1, <3>3, <3>4, <3>5, <3>6, <3>7, <3>8
  <2>3. CASE AskWeather(t)
    <3>1. PICK k \in 1 .. Len(RequiredOf(t)) :
            /\ StopsAt(t, k) /\ RememberUntil(t, k)
            /\ ValuesFor(t)[RequiredOf(t)[k]] = "coroutine"
            /\ Goto(t, "http", k) \/ Goto(t, "failed", k)
      BY <2>3 DEF AskWeather
    <3>2. Phase(t, "evaluating")
      BY <2>3 DEF AskWeather
    <3>3. /\ tasks[t] \in Evaluation /\ k \in Nat \ {0} /\ k <= Len(RequiredOf(t)) + 1
          /\ k <= Len(RequiredOf(t))
          /\ \A i \in 1 .. k - 1 : MeansFor(tasks[t], i, "true")
          /\ MeansAny(tasks[t], k)
      BY <3>1, <3>2, StopsMean
    <3>4. MeansFor(tasks[t], k, "false")
      BY <3>3 DEF MeansAny, Answers
    <3>5. TasksOK'
      BY <3>1, <3>3, <3>4, GoesTo DEF TasksOK, Verdicts
    <3> QED
      BY <1>4, <3>1, <3>2, <3>5
  <2>4. CASE SkyIsClear(t) \/ WeatherFails(t)
    <3>1. Phase(t, "http") /\ UNCHANGED cache
      BY <2>4 DEF SkyIsClear, WeatherFails
    <3>2. PICK k \in Nat \ {0} : k = tasks[t].next
      BY <1>1, <3>1 DEF TasksOK, TaskOK, Phase, Evaluation
    <3>3. /\ tasks[t] \in Evaluation /\ k <= Len(RequiredOf(t))
          /\ \A i \in 1 .. k - 1 : MeansFor(tasks[t], i, "true")
          /\ MeansAny(tasks[t], k)
      BY <1>1, <3>1, <3>2 DEF TasksOK, TaskOK, Judged, Phase, RequiredOf
    <3>4. /\ MeansFor(tasks[t], k, "false") /\ MeansFor(tasks[t], k, "raises")
          /\ MeansFor(tasks[t], k, "true")
      BY <3>3 DEF MeansAny, Answers
    <3>5. Len(RequiredOf(t)) \in Nat
      BY <3>3, ConditionsAssumption DEF RequiredOf, Evaluation
    <3>6. CASE SkyIsClear(t)
      <4>1. PICK after \in Nat \ {0} : after = k + 1
        BY <3>2
      <4>2. Goto(t, "evaluating", after) /\ after <= Len(RequiredOf(t)) + 1
        BY <3>2, <3>3, <3>5, <3>6, <4>1 DEF SkyIsClear
      <4>3. \A i \in 1 .. after - 1 : MeansFor(tasks[t], i, "true")
        <5>1. \A i \in 1 .. after - 1 : i = k \/ i \in 1 .. k - 1
          BY <3>2, <4>1
        <5> QED
          BY <3>3, <3>4, <5>1
      <4>4. TasksOK'
        BY <3>3, <4>2, <4>3, GoesTo DEF TasksOK, Verdicts
      <4> QED
        BY <1>3, <3>1, <4>4
    <3>7. CASE WeatherFails(t)
      <4>1. PICK verdict \in {"failed", "error", "timeout"} : Goto(t, verdict, k)
        BY <3>2, <3>7 DEF WeatherFails
      <4>2. k <= Len(RequiredOf(t)) + 1
        BY <3>2, <3>3, <3>5
      <4>3. TasksOK'
        BY <3>3, <3>4, <4>1, <4>2, GoesTo DEF TasksOK, Verdicts
      <4> QED
        BY <1>3, <3>1, <4>3
    <3> QED
      BY <2>4, <3>6, <3>7
  <2>5. CASE End(t)
    <3>1. TaskOK(NoTask)
      BY DEF TaskOK, NoTask
    <3>2. tasks' = [tasks EXCEPT ![t] = NoTask] /\ UNCHANGED cache
      BY <2>5 DEF End
    <3>3. TasksOK'
      BY <1>1, <3>1, <3>2 DEF TasksOK
    <3> QED
      BY <1>3, <3>2, <3>3
  <2> QED
    BY <1>6, <2>1, <2>2, <2>3, <2>4, <2>5 DEF TaskStep
<1>7. ASSUME NEW c \in Cached, ClearCache(c) PROVE (CachesOK /\ TasksOK)'
  <2>1. cache' = [cache EXCEPT ![c] = {}] /\ UNCHANGED tasks
    BY <1>7 DEF ClearCache
  <2>2. CachesOK'
    BY <1>1, <2>1 DEF CachesOK, CacheMeans
  <2> QED
    BY <1>2, <2>1, <2>2
<1>8. CASE UNCHANGED conditionVars
  BY <1>2, <1>3, <1>5, <1>8 DEF conditionVars, Sound, CachesOK, TasksOK
<1>9. CASE ConditionsNext
  BY <1>5, <1>6, <1>7, <1>8, <1>9 DEF ConditionsNext, Sound, CachesOK, TasksOK
<1> QED
  BY <1>8, <1>9 DEF allVars

\* A job runs exactly if all of its conditions hold (below a cache, at a time
\* whose result has not expired), for any tree of windows, plugins, combinators,
\* caches, timeouts and weather, any number of executions and every interleaving
\* of them with the clock and with clear_cache.
THEOREM VerdictsAreMeanings == ConditionsSpec => []VerdictIsMeaning
<1>1. Sound => VerdictIsMeaning
  <2> SUFFICES ASSUME Sound, NEW t \in TaskIds, tasks[t].phase \in Verdicts
               PROVE  LET Means(i, answer) ==
                              answer \in Meanings(tasks[t].job)[RequiredOf(t)[i]][tasks[t].at]
                      IN  /\ \A i \in 1 .. tasks[t].next - 1 : Means(i, "true")
                          /\ Phase(t, "passed") => tasks[t].next > Len(RequiredOf(t))
                          /\ Phase(t, "failed") => Means(tasks[t].next, "false")
                          /\ Phase(t, "error") => Means(tasks[t].next, "raises")
    BY DEF VerdictIsMeaning
  <2>1. Judged(tasks[t])
    BY DEF Sound, TaskOK, Verdicts
  <2> QED
    BY <2>1 DEF Judged, MeansFor, RequiredOf, Phase
<1> QED
  BY <1>1, SoundInit, SoundStep, PTL DEF ConditionsSpec

=============================================================================
