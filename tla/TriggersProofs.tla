---------------------------- MODULE TriggersProofs ----------------------------
(***************************************************************************)
(* Theorems about Triggers, for any targets, timezones and solar events.   *)
(***************************************************************************)
EXTENDS Triggers, WellFoundedInduction, TLAPS

\* A multiple of a day is at least a day more than a smaller one.
LEMMA DaysApart ==
    ASSUME NEW m \in Int, NEW n \in Int, m < n
    PROVE  DayLength * m + DayLength <= DayLength * n
<1>1. n - m - 1 \in Nat
  OBVIOUS
<1>2. PICK k \in Nat : k = n - m - 1
  BY <1>1
<1>3. DayLength * k >= 0
  BY DayLengthAssumption, <1>2
<1>4. n = m + k + 1
  BY <1>2
<1>5. DayLength * n = DayLength * m + DayLength * k + DayLength
  BY <1>4, DayLengthAssumption
<1> QED
  BY <1>3, <1>5, DayLengthAssumption

\* The date and the time of day of a local time make it up.
LEMMA DateAndTime ==
    ASSUME NEW local \in Int
    PROVE  /\ DateOf(local) \in Int
           /\ TimeOf(local) \in 0 .. DayLength - 1
           /\ local = Combine(DateOf(local), TimeOf(local))
  BY DayLengthAssumption DEF DateOf, TimeOf, Combine

\* Two local times less than a day apart do not read the same.
LEMMA SameReading ==
    ASSUME NEW m \in Int, NEW n \in Int, m < n, TimeOf(m) = TimeOf(n)
    PROVE  m + DayLength <= n
<1> DEFINE d == DateOf(m)  e == DateOf(n)  v == TimeOf(m)
<1>1. d \in Int /\ e \in Int /\ v \in Int
  BY DateAndTime
<1>2. m = DayLength * d + v /\ n = DayLength * e + v
  BY DateAndTime DEF Combine
<1>3. DayLength \in Nat /\ DayLength * d \in Int /\ DayLength * e \in Int
  BY <1>1, DayLengthAssumption
<1> HIDE DEF d, e, v
<1>4. d < e
  <2>1. CASE e < d
    <3>1. DayLength * e + DayLength <= DayLength * d
      BY <2>1, <1>1, DaysApart
    <3> QED
      BY <3>1, <1>1, <1>2, <1>3
  <2>2. CASE e = d
    BY <2>2, <1>2, <1>3
  <2> QED
    BY <2>1, <2>2, <1>1
<1>5. DayLength * d + DayLength <= DayLength * e
  BY <1>1, <1>4, DaysApart
<1> QED
  BY <1>1, <1>2, <1>3, <1>5

\* The date and the time of day that a combined local time reads.
LEMMA CombinedReads ==
    ASSUME NEW date \in Int, NEW value \in 0 .. DayLength - 1
    PROVE  /\ Combine(date, value) \in Int
           /\ TimeOf(Combine(date, value)) = value
           /\ DateOf(Combine(date, value)) = date
<1> DEFINE m == Combine(date, value)  d == DateOf(m)  v == TimeOf(m)
<1>1. m \in Int
  BY DayLengthAssumption DEF Combine
<1>2. /\ d \in Int /\ v \in 0 .. DayLength - 1 /\ value \in Int
      /\ DayLength * date + value = DayLength * d + v
  BY <1>1, DateAndTime, DayLengthAssumption DEF Combine
<1>3. DayLength \in Nat /\ DayLength * d \in Int /\ DayLength * date \in Int
  BY <1>2, DayLengthAssumption
<1> HIDE DEF d, v
<1>4. ~(d < date)
  <2> SUFFICES ASSUME d < date PROVE FALSE
    OBVIOUS
  <2>1. DayLength * d + DayLength <= DayLength * date
    BY <1>2, DaysApart
  <2> QED
    BY <2>1, <1>2, <1>3
<1>5. ~(date < d)
  <2> SUFFICES ASSUME date < d PROVE FALSE
    OBVIOUS
  <2>1. DayLength * date + DayLength <= DayLength * d
    BY <1>2, DaysApart
  <2> QED
    BY <2>1, <1>2, <1>3
<1>6. d = date
  BY <1>2, <1>4, <1>5
<1>7. v = value
  BY <1>2, <1>3, <1>6
<1> QED
  BY <1>1, <1>6, <1>7 DEF v, d

-----------------------------------------------------------------------------
\* The local time _next_time_after converts back: the first reading of the
\* value after a local time, on a clock that neither skips nor repeats.
NextReading(localAfter, value) ==
    LET candidate == Combine(DateOf(localAfter), value)
    IN  IF candidate <= localAfter THEN candidate + DayLength ELSE candidate

LEMMA NextReadingIsNext ==
    ASSUME NEW localAfter \in Int, NEW value \in 0 .. DayLength - 1
    PROVE  LET next == NextReading(localAfter, value)
           IN  /\ next \in Int
               /\ TimeOf(next) = value
               /\ localAfter < next /\ next <= localAfter + DayLength
               /\ \A m \in Int : localAfter < m /\ m < next + DayLength
                                     /\ TimeOf(m) = value => m = next
<1> DEFINE date == DateOf(localAfter)  time == TimeOf(localAfter)
           candidate == Combine(date, value)
           next == NextReading(localAfter, value)
<1>1. /\ date \in Int /\ time \in 0 .. DayLength - 1
      /\ localAfter = DayLength * date + time
  BY DateAndTime DEF Combine
<1>2. DayLength \in Nat \ {0} /\ value \in Int /\ DayLength * date \in Int
  BY <1>1, DayLengthAssumption
<1>3. candidate = DayLength * date + value /\ candidate \in Int
  BY <1>2 DEF Combine
<1>4. next = IF candidate <= localAfter THEN candidate + DayLength ELSE candidate
  BY DEF NextReading
<1>5. candidate + DayLength = Combine(date + 1, value)
  <2>1. DayLength * (date + 1) = DayLength * date + DayLength
    BY <1>1, <1>2
  <2> QED
    BY <2>1, <1>2, <1>3 DEF Combine
<1>6. TimeOf(candidate) = value /\ TimeOf(candidate + DayLength) = value
  BY <1>1, <1>5, CombinedReads
<1> HIDE DEF date, time, candidate, next
<1>7. next \in Int /\ TimeOf(next) = value
  BY <1>2, <1>3, <1>4, <1>6
<1>8. localAfter < next /\ next <= localAfter + DayLength
  BY <1>1, <1>2, <1>3, <1>4
<1>9. ASSUME NEW m \in Int, localAfter < m, m < next + DayLength, TimeOf(m) = value
      PROVE  m = next
  <2>1. ~(next < m)
    BY <1>2, <1>7, <1>9, SameReading
  <2>2. ~(m < next)
    <3> SUFFICES ASSUME m < next PROVE FALSE
      OBVIOUS
    <3>1. m + DayLength <= next
      BY <1>7, <1>9, SameReading
    <3> QED
      BY <3>1, <1>2, <1>7, <1>8, <1>9
  <2> QED
    BY <2>1, <2>2, <1>7, <1>9
<1> QED
  BY <1>7, <1>8, <1>9 DEF next

\* Converted back it is later than the instant asked about, and it is the first
\* reading of the local clock, whose offset may change once.
First(zone, value, instant) ==
    Reads(zone, value, instant) /\ ~IsRepeat(zone, instant)

LEMMA NextTimeIsNext ==
    ASSUME NEW zone \in Zone, NEW value \in 0 .. DayLength - 1, NEW after \in Int,
           ~IsRepeat(zone, after)
    PROVE  LET next == NextTimeAfter(after, value, zone)
           IN  /\ next \in Int
               /\ after < next
               /\ First(zone, value, next) \/ JustChanged(zone, next)
               /\ \A instant \in after + 1 .. next - 1 : ~First(zone, value, instant)
<1> DEFINE c == zone.change  b == zone.before  a == zone.after
           localAfter == Local(zone, after)
           localNext == NextReading(localAfter, value)
           next == ToUtc(zone, localNext)
<1>1. /\ c \in Int /\ b \in Int /\ a \in Int /\ DayLength \in Nat
      /\ -DayLength <= a - b /\ a - b <= DayLength
  BY DayLengthAssumption DEF Zone
<1> HIDE DEF c, b, a
<1>2. \A instant \in Int : Local(zone, instant) = IF instant < c THEN instant + b
                                                  ELSE instant + a
  BY <1>1 DEF Local, c, b, a
<1>3. \A local \in Int : ToUtc(zone, local) =
          IF local < c + (IF b < a THEN a ELSE b) THEN local - b ELSE local - a
  BY <1>1 DEF ToUtc, Larger, c, b, a
<1>4. localAfter \in Int
  BY <1>1, <1>2
<1> HIDE DEF localAfter
<1>5. /\ localNext \in Int
      /\ TimeOf(localNext) = value
      /\ localAfter < localNext
      /\ \A m \in Int : localAfter < m /\ m < localNext + DayLength
                            /\ TimeOf(m) = value => m = localNext
  BY <1>4, NextReadingIsNext
<1>6. next = NextTimeAfter(after, value, zone)
  BY DEF NextTimeAfter, NextReading, localAfter
<1> HIDE DEF localNext, next
<1>7. next = IF localNext < c + (IF b < a THEN a ELSE b) THEN localNext - b
             ELSE localNext - a
  BY <1>3, <1>5 DEF next
<1>8. localAfter = IF after < c THEN after + b ELSE after + a
  BY <1>2 DEF localAfter
<1>9. ~(c <= after /\ localAfter < c + b)
  <2> SUFFICES ASSUME c <= after, localAfter < c + b PROVE FALSE
    OBVIOUS
  <2>1. ToUtc(zone, localAfter) = after
    BY DEF IsRepeat, localAfter
  <2> QED
    BY <1>1, <1>3, <1>4, <1>8, <2>1
<1>10. next \in Int /\ after < next
  BY <1>1, <1>4, <1>5, <1>7, <1>8, <1>9
<1>11. First(zone, value, next) \/ JustChanged(zone, next)
  <2>1. CASE Local(zone, next) = localNext
    BY <2>1, <1>5 DEF First, Reads, IsRepeat, next
  <2>2. CASE Local(zone, next) # localNext
    <3>1. c <= next /\ next < c + (a - b)
      BY <2>2, <1>1, <1>2, <1>5, <1>7, <1>10
    <3> QED
      BY <3>1, <1>1, <1>10 DEF JustChanged, Larger, c, b, a
  <2> QED
    BY <2>1, <2>2
<1>12. ASSUME NEW instant \in after + 1 .. next - 1, First(zone, value, instant)
       PROVE  FALSE
  <2> DEFINE local == Local(zone, instant)
  <2>1. instant \in Int /\ after < instant /\ instant < next
    BY <1>10
  <2>2. local = IF instant < c THEN instant + b ELSE instant + a
    BY <1>2, <2>1
  <2>3. local \in Int /\ TimeOf(local) = value /\ ToUtc(zone, local) = instant
    BY <1>1, <1>12, <2>1, <2>2 DEF First, Reads, IsRepeat
  <2> HIDE DEF local
  <2>4. ~(c <= instant /\ local < c + b)
    BY <1>1, <1>3, <2>1, <2>2, <2>3
  <2>5. localAfter < local
    BY <1>1, <1>8, <2>1, <2>2, <2>4
  <2>6. local < localNext + DayLength /\ local # localNext
    <3>1. CASE localNext < c + (IF b < a THEN a ELSE b)
      BY <3>1, <1>1, <1>5, <1>7, <2>1, <2>2, <2>4
    <3>2. CASE ~(localNext < c + (IF b < a THEN a ELSE b))
      BY <3>2, <1>1, <1>5, <1>7, <2>1, <2>2, <2>4
    <3> QED
      BY <3>1, <3>2
  <2> QED
    BY <1>5, <2>3, <2>5, <2>6
<1> QED
  BY <1>6, <1>10, <1>11, <1>12

LEMMA NextTimeTyped ==
    ASSUME NEW zone \in Zone, NEW value \in 0 .. DayLength - 1, NEW after \in Int
    PROVE  NextTimeAfter(after, value, zone) \in Int
<1>1. \A m \in Int : Local(zone, m) \in Int /\ ToUtc(zone, m) \in Int
  BY DEF Zone, Local, ToUtc
<1>2. NextReading(Local(zone, after), value) \in Int
  BY <1>1, NextReadingIsNext
<1>3. NextTimeAfter(after, value, zone) = ToUtc(zone, NextReading(Local(zone, after), value))
  BY DEF NextTimeAfter, NextReading
<1> QED
  BY <1>1, <1>2, <1>3

-----------------------------------------------------------------------------
\* What is due is the answer to the last question, whatever came in between.
Answered == target \in Targets /\ due = ResolveAfter(target, asked)

LEMMA AlwaysAnswered == Spec => []Answered
<1>1. Init => Answered
  BY DEF Init, Answered
<1>2. Answered /\ [Next]_vars => Answered'
  BY DEF Answered, Next, ScheduleNext, RefreshJob, Ask, vars
<1> QED
  BY <1>1, <1>2, PTL DEF Spec

\* It is asked at instants, as long as the answers are.
LEMMA AskedAtInstants ==
    ASSUME NEW Kinds,
           \A t \in Targets : t.kind \in Kinds =>
               \A instant \in Int : ResolveAfter(t, instant) \in Int \cup {NoTime},
           Answered, target.kind \in Kinds => asked \in Int,
           [Next]_vars, target'.kind \in Kinds
    PROVE  asked' \in Int
<1>1. target' = target /\ asked \in Int
  BY DEF Next, ScheduleNext, RefreshJob, Ask, vars
<1>2. due \in Int \cup {NoTime}
  BY <1>1 DEF Answered
<1>3. CASE ScheduleNext
  BY <1>1, <1>2, <1>3 DEF ScheduleNext, Ask, Larger
<1>4. CASE RefreshJob \/ UNCHANGED vars
  BY <1>1, <1>4 DEF RefreshJob, Ask, vars
<1> QED
  BY <1>3, <1>4 DEF Next

\* A time of day is due at the next instant at which the local clock of any
\* timezone reads it, whenever it is asked for.
THEOREM ClockTimesAreNext == Spec => []ClockIsNext
<1>1. ASSUME Answered, target.kind = "clock" => asked \in Int PROVE ClockIsNext
  <2> SUFFICES ASSUME target.kind = "clock", ~IsRepeat(target.zone, asked)
               PROVE  ClockIsNext
    BY DEF ClockIsNext
  <2>1. /\ target.zone \in Zone /\ target.value \in 0 .. DayLength - 1
        /\ asked \in Int /\ due = NextTimeAfter(asked, target.value, target.zone)
    BY <1>1, TargetsAssumption DEF Answered, ResolveAfter
  <2>2. /\ asked < due
        /\ First(target.zone, target.value, due) \/ JustChanged(target.zone, due)
        /\ \A instant \in asked + 1 .. due - 1 :
               ~First(target.zone, target.value, instant)
    BY <2>1, NextTimeIsNext
  <2> QED
    BY <2>2 DEF ClockIsNext, First
<1>2. \A t \in Targets : t.kind \in {"clock"} =>
          \A instant \in Int : ResolveAfter(t, instant) \in Int \cup {NoTime}
  BY TargetsAssumption, NextTimeTyped DEF ResolveAfter
<1> DEFINE Asked == target.kind \in {"clock"} => asked \in Int
<1>3. Init => Asked
  BY DEF Init
<1>4. Answered /\ Asked /\ [Next]_vars => Asked'
  BY <1>2, AskedAtInstants
<1>5. Asked /\ Answered => ClockIsNext
  BY <1>1
<1> QED
  BY <1>3, <1>4, <1>5, AlwaysAnswered, PTL DEF Spec

-----------------------------------------------------------------------------
(***************************************************************************)
(* Local times and instants.                                               *)
(***************************************************************************)
LEMMA Conversions ==
    ASSUME NEW zone \in Zone, NEW m \in Int
    PROVE  /\ Local(zone, m) \in Int /\ ToUtc(zone, m) \in Int
           /\ ToUtc(zone, Local(zone, m)) <= m
           /\ ~JustChanged(zone, m) =>
                  \A local \in Int : m < ToUtc(zone, local) => Local(zone, m) < local
<1> DEFINE c == zone.change  b == zone.before  a == zone.after
<1>1. c \in Int /\ b \in Int /\ a \in Int
  BY DayLengthAssumption DEF Zone
<1> HIDE DEF c, b, a
<1>2. Local(zone, m) = IF m < c THEN m + b ELSE m + a
  BY <1>1 DEF Local, c, b, a
<1>3. \A local \in Int : ToUtc(zone, local) =
          IF local < c + (IF b < a THEN a ELSE b) THEN local - b ELSE local - a
  BY <1>1 DEF ToUtc, Larger, c, b, a
<1>4. JustChanged(zone, m) <=> /\ c <= m
                               /\ m < c + (IF a - b < b - a THEN b - a ELSE a - b)
  BY <1>1 DEF JustChanged, Larger, c, b, a
<1>5. Local(zone, m) \in Int /\ ToUtc(zone, m) \in Int
  BY <1>1, <1>2, <1>3
<1>6. ToUtc(zone, Local(zone, m)) <= m
  BY <1>1, <1>2, <1>3, <1>5
<1>7. ASSUME NEW local \in Int, ~JustChanged(zone, m), m < ToUtc(zone, local)
      PROVE  Local(zone, m) < local
  BY <1>1, <1>2, <1>3, <1>4, <1>7
<1> QED
  BY <1>5, <1>6, <1>7

\* The local clock goes on by a tick, unless its offset changes.
LEMMA ClockTicks ==
    ASSUME NEW zone \in Zone, NEW m \in Int
    PROVE  \/ Local(zone, m + 1) = Local(zone, m) + 1
           \/ /\ m + 1 = zone.change
              /\ Local(zone, m) + 1 = zone.change + zone.before
              /\ Local(zone, m + 1) = zone.change + zone.after
              /\ zone.before # zone.after
<1>1. zone.change \in Int /\ zone.before \in Int /\ zone.after \in Int
  BY DayLengthAssumption DEF Zone
<1> QED
  BY <1>1 DEF Local

\* A date lasts from midnight to midnight.
LEMMA Midnights ==
    ASSUME NEW local \in Int, NEW date \in Int
    PROVE  /\ Combine(date, 0) \in Int
           /\ date <= DateOf(local) <=> Combine(date, 0) <= local
<1>1. Combine(date, 0) = DayLength * date /\ DayLength * date \in Int /\ DayLength \in Nat \ {0}
  BY DayLengthAssumption DEF Combine
<1>2. /\ DateOf(local) \in Int /\ TimeOf(local) \in 0 .. DayLength - 1
      /\ local = DayLength * DateOf(local) + TimeOf(local)
  BY DateAndTime DEF Combine
<1>3. DayLength * DateOf(local) \in Int
  BY <1>1, <1>2
<1>4. CASE date < DateOf(local)
  <2>1. DayLength * date + DayLength <= DayLength * DateOf(local)
    BY <1>2, <1>4, DaysApart
  <2> QED
    BY <2>1, <1>1, <1>2, <1>3, <1>4
<1>5. CASE date = DateOf(local)
  BY <1>1, <1>2, <1>5
<1>6. CASE DateOf(local) < date
  <2>1. DayLength * DateOf(local) + DayLength <= DayLength * date
    BY <1>2, <1>6, DaysApart
  <2> QED
    BY <2>1, <1>1, <1>2, <1>3, <1>6
<1> QED
  BY <1>2, <1>4, <1>5, <1>6

\* So a date that the next tick begins begins at midnight.
LEMMA NextDate ==
    ASSUME NEW local \in Int
    PROVE  \/ DateOf(local + 1) = DateOf(local)
           \/ /\ DateOf(local + 1) = DateOf(local) + 1
              /\ local + 1 = Combine(DateOf(local) + 1, 0)
<1>1. DateOf(local) \in Int /\ DateOf(local + 1) \in Int
  BY DateAndTime
<1> DEFINE d == DateOf(local)  e == DateOf(local + 1)
<1>2. Combine(d, 0) <= local /\ Combine(d, 0) \in Int
  BY <1>1, Midnights
<1>3. Combine(e, 0) <= local + 1 /\ Combine(e, 0) \in Int
  BY <1>1, Midnights
<1>4. local < Combine(d + 1, 0) /\ Combine(d + 1, 0) \in Int
  BY <1>1, Midnights
<1>5. d <= e
  BY <1>1, <1>2, Midnights
<1>6. CASE local + 1 < Combine(d + 1, 0)
  <2>1. ~(d + 1 <= e)
    BY <1>1, <1>6, Midnights
  <2> QED
    BY <1>1, <1>5, <2>1
<1>7. CASE local + 1 = Combine(d + 1, 0)
  <2>1. d + 1 <= e
    BY <1>1, <1>7, Midnights
  <2>2. ~(d + 2 <= e)
    <3>1. Combine(d + 2, 0) = Combine(d + 1, 0) + DayLength
      BY <1>1, DayLengthAssumption DEF Combine
    <3> QED
      BY <3>1, <1>1, <1>4, <1>7, DayLengthAssumption, Midnights
  <2> QED
    BY <1>1, <1>7, <2>1, <2>2
<1> QED
  BY <1>4, <1>6, <1>7

-----------------------------------------------------------------------------
(***************************************************************************)
(* Anchors and phrases of a persona.                                       *)
(***************************************************************************)
LEMMA Least ==
    ASSUME NEW S \in SUBSET Nat, S # {}
    PROVE  \E m \in S : \A n \in S : m <= n
<1>1. PICK m \in S : \A n \in S : ~(<<n, m>> \in OpToRel(<, Nat))
  BY NatLessThanWellFounded, WFMin
<1>2. \A n \in S : ~(n < m)
  BY <1>1 DEF OpToRel
<1> QED
  BY <1>2

LEMMA AnchorsTyped ==
    ASSUME NEW p \in Persona, NEW date \in Int
    PROVE  Wake(p, date) \in Int /\ Sleep(p, date) \in Int /\ Hour \in Int
<1>1. /\ p.wake \in Int /\ p.sleep \in Int /\ p.wakeShift \in Int /\ p.sleepShift \in Int
      /\ DayLength \in Int
  BY DayLengthAssumption DEF Persona
<1>2. \A d \in Int, v \in Int : Combine(d, v) \in Int
  BY <1>1 DEF Combine
<1>3. Wake(p, date) \in Int
  <2>1. PICK shift \in Int : Wake(p, date) = Combine(date, p.wake) + shift
    BY <1>1 DEF Wake
  <2>2. Combine(date, p.wake) \in Int
    BY <1>1, <1>2
  <2> QED
    BY <2>1, <2>2
<1>4. DateOf(Wake(p, date)) \in Int
  BY <1>3, DateAndTime
<1>5. Sleep(p, date) \in Int
  <2>1. PICK shift \in Int : shift = IF IsWeekend(date) THEN p.sleepShift ELSE 0
    BY <1>1
  <2>2. PICK candidate \in Int : candidate = Combine(DateOf(Wake(p, date)), p.sleep) + shift
    <3>1. Combine(DateOf(Wake(p, date)), p.sleep) \in Int
      BY <1>1, <1>2, <1>4
    <3> QED
      BY <2>1, <3>1
  <2>3. Sleep(p, date) = IF candidate <= Wake(p, date) THEN candidate + DayLength ELSE candidate
    BY <2>1, <2>2 DEF Sleep
  <2> QED
    BY <1>1, <2>3
<1>6. Hour \in Int
  BY DayLengthAssumption DEF Hour
<1> QED
  BY <1>3, <1>5, <1>6

LEMMA BlocksTyped ==
    ASSUME NEW p \in Persona, NEW label \in Labels, NEW date \in Int
    PROVE  Block(p, label, date).start \in Int /\ Block(p, label, date).end \in Int
<1> DEFINE w == Wake(p, date)  s == Sleep(p, date)
<1>1. w \in Int /\ s \in Int /\ Hour \in Int
  BY AnchorsTyped
<1> HIDE DEF w, s
<1>2. \A n \in {20, 21, 33, 39, 40, 45} : Part(p, date, n) \in Int
  BY <1>1 DEF Part, w, s
<1>3. /\ Block(p, label, date).start \in Int
      /\ Block(p, label, date).end \in Int
  <2>1. CASE label = "first_thing_in_the_morning"
    BY <2>1, <1>1 DEF Block, w
  <2>2. CASE label = "morning"
    BY <2>2, <1>1 DEF Block, w
  <2>3. CASE label = "late_morning"
    BY <2>3, <1>1 DEF Block, w
  <2>4. CASE label = "wake_plus"
    BY <2>4, <1>1 DEF Block, w, PhraseHours
  <2>5. CASE label = "evening"
    BY <2>5, <1>1 DEF Block, s
  <2>6. CASE label = "tonight"
    BY <2>6, <1>1 DEF Block, s
  <2>7. CASE label = "sleep_minus"
    BY <2>7, <1>1 DEF Block, s, PhraseHours
  <2>8. CASE label \in {"afternoon", "late_afternoon", "middle_third"}
    BY <2>8, <1>2 DEF Block
  <2> QED
    BY <2>1, <2>2, <2>3, <2>4, <2>5, <2>6, <2>7, <2>8 DEF Labels
<1> QED
  BY <1>3

LEMMA PhrasesTyped ==
    ASSUME NEW p \in Persona, NEW label \in Labels, NEW reference \in Int
    PROVE  \E days \in 0 .. 7 :
               /\ ParseForward(p, label, reference) = Block(p, label, DateOf(reference) + days)
               /\ \/ days = 7
                  \/ reference + days * DayLength <
                         Block(p, label, DateOf(reference) + days).end
<1> DEFINE EndOf(days) == Block(p, label, DateOf(reference) + days).end
           Over(days) == EndOf(days) <= reference + days * DayLength
           Stops(days) == days = 7 \/ ~Over(days)
           stop == CHOOSE m \in 0 .. 7 : Stops(m) /\ \A n \in 0 .. 7 : Stops(n) => m <= n
<1>1. ParseForward(p, label, reference) = Block(p, label, DateOf(reference) + stop)
  BY DEF ParseForward
<1> DEFINE S == {n \in 0 .. 7 : Stops(n)}
<1>2. S \in SUBSET Nat /\ 7 \in S
  OBVIOUS
<1>3. \E m \in S : \A n \in S : m <= n
  BY <1>2, Least
<1>4. stop \in 0 .. 7 /\ Stops(stop)
  BY <1>3
<1> HIDE DEF stop
<1>5. /\ DateOf(reference) + stop \in Int /\ EndOf(stop) \in Int
      /\ stop * DayLength \in Int
  <2>1. DateOf(reference) + stop \in Int
    BY <1>4, DateAndTime
  <2>2. EndOf(stop) \in Int
    BY <2>1, BlocksTyped
  <2> QED
    BY <1>4, <2>1, <2>2, DayLengthAssumption
<1> HIDE DEF EndOf
<1>6. stop = 7 \/ reference + stop * DayLength < EndOf(stop)
  BY <1>4, <1>5
<1> QED
  BY <1>1, <1>4, <1>6 DEF EndOf

\* Whatever a callable answers is an instant.
LEMMA CallableTyped ==
    ASSUME NEW t \in Targets, t.kind = "callable", NEW instant \in Int
    PROVE  /\ t.zone \in Zone /\ t.persona \in Persona
           /\ ResolveAfter(t, instant) = Called(t, instant)
         /\ Called(t, instant) \in Int
<1>1. /\ t.zone \in Zone /\ t.persona \in Persona
      /\ \/ t.anchor \in {"wake", "next_wake", "next_sleep"} /\ t.hours \in Int
         \/ t.anchor = "phrase" /\ t.label \in Labels
  BY TargetsAssumption
<1>2. ResolveAfter(t, instant) = Called(t, instant)
  BY DEF ResolveAfter
<1> DEFINE reference == Local(t.zone, instant)
<1>3. reference \in Int /\ DateOf(reference) \in Int
  BY <1>1, Conversions, DateAndTime
<1> HIDE DEF reference
<1>4. \A m \in Int : ToUtc(t.zone, m) \in Int
  BY <1>1, Conversions
<1>5. /\ Wake(t.persona, DateOf(reference)) \in Int /\ Hour \in Int
      /\ NextWake(t.persona, reference) \in Int /\ NextSleep(t.persona, reference) \in Int
  BY <1>1, <1>3, AnchorsTyped DEF NextWake, NextSleep
<1>6. CASE t.anchor = "wake"
  BY <1>1, <1>2, <1>4, <1>5, <1>6 DEF Called, reference
<1>7. CASE t.anchor = "next_wake"
  BY <1>1, <1>2, <1>4, <1>5, <1>7 DEF Called, reference
<1>8. CASE t.anchor = "next_sleep"
  BY <1>1, <1>2, <1>4, <1>5, <1>8 DEF Called, reference
<1>9. CASE t.anchor = "phrase"
  <2>1. PICK days \in 0 .. 7 :
          ParseForward(t.persona, t.label, reference) =
              Block(t.persona, t.label, DateOf(reference) + days)
    BY <1>1, <1>3, <1>9, PhrasesTyped
  <2>2. ParseForward(t.persona, t.label, reference).start \in Int
    BY <1>1, <1>3, <1>9, <2>1, BlocksTyped
  <2>3. Called(t, instant) = ToUtc(t.zone, ParseForward(t.persona, t.label, reference).start)
    BY <1>9 DEF Called, Parsed, reference
  <2> QED
    BY <1>1, <1>2, <1>4, <2>2, <2>3
<1> QED
  BY <1>1, <1>2, <1>6, <1>7, <1>8, <1>9

-----------------------------------------------------------------------------
(***************************************************************************)
(* A recalibration moves no occurrence that is still ahead.                *)
(***************************************************************************)
LEMMA SteadyClock ==
    ASSUME NEW zone \in Zone, NEW m \in Int, ~JustChanged(zone, m + 1)
    PROVE  Local(zone, m + 1) = Local(zone, m) + 1
<1>1. zone.change \in Int /\ zone.before \in Int /\ zone.after \in Int
  BY DayLengthAssumption DEF Zone
<1>2. ~(m + 1 = zone.change /\ zone.before # zone.after)
  BY <1>1 DEF JustChanged, Larger
<1> QED
  BY <1>2, ClockTicks

LEMMA ClockKept ==
    ASSUME NEW zone \in Zone, NEW value \in 0 .. DayLength - 1, NEW m \in Int,
           ~JustChanged(zone, m + 1), m + 1 < NextTimeAfter(m, value, zone)
    PROVE  NextTimeAfter(m + 1, value, zone) = NextTimeAfter(m, value, zone)
<1> DEFINE l == Local(zone, m)
           next == NextReading(l, value)
           later == NextReading(l + 1, value)
<1>1. l \in Int /\ Local(zone, m + 1) = l + 1 /\ DayLength \in Nat
  BY Conversions, SteadyClock, DayLengthAssumption
<1> HIDE DEF l
<1>2. /\ NextTimeAfter(m, value, zone) = ToUtc(zone, next)
      /\ NextTimeAfter(m + 1, value, zone) = ToUtc(zone, later)
  BY <1>1 DEF NextTimeAfter, NextReading, l
<1>3. /\ next \in Int /\ TimeOf(next) = value /\ next <= l + DayLength
  BY <1>1, NextReadingIsNext
<1>4. /\ later \in Int /\ l + 1 < later
      /\ \A n \in Int : l + 1 < n /\ n < later + DayLength /\ TimeOf(n) = value => n = later
  BY <1>1, NextReadingIsNext
<1> HIDE DEF next, later
<1>5. l + 1 < next
  BY <1>1, <1>2, <1>3, Conversions
<1> QED
  BY <1>1, <1>2, <1>3, <1>4, <1>5

\* An anchor that is ahead is that of today, or of the first day after: no matter
\* whether the day begins in between.
NextAnchor(anchor, reference) ==
    LET today == DateOf(reference)
    IN  IF anchor[today] > reference THEN anchor[today] ELSE anchor[today + 1]

LEMMA AnchorKept ==
    ASSUME NEW anchor \in [Int -> Int], NEW l \in Int, l + 1 < NextAnchor(anchor, l),
           ~(l + 1 < anchor[DateOf(l + 1) - 1])
    PROVE  NextAnchor(anchor, l + 1) = NextAnchor(anchor, l)
<1>1. DateOf(l) \in Int
  BY DateAndTime
<1>2. CASE DateOf(l + 1) = DateOf(l)
  BY <1>1, <1>2 DEF NextAnchor
<1>3. CASE DateOf(l + 1) = DateOf(l) + 1
  BY <1>1, <1>3 DEF NextAnchor
<1> QED
  BY <1>2, <1>3, NextDate

LEMMA AnchorsKept ==
    ASSUME NEW p \in Persona, NEW l \in Int
    PROVE  /\ /\ l + 1 < NextWake(p, l)
              /\ ~(l + 1 < Wake(p, DateOf(l + 1) - 1))
              => NextWake(p, l + 1) = NextWake(p, l)
           /\ /\ l + 1 < NextSleep(p, l)
              /\ ~(l + 1 < Sleep(p, DateOf(l + 1) - 1))
              => NextSleep(p, l + 1) = NextSleep(p, l)
<1>1. DateOf(l) \in Int /\ DateOf(l + 1) \in Int
  BY DateAndTime
<1> DEFINE wakes == [date \in Int |-> Wake(p, date)]
           sleeps == [date \in Int |-> Sleep(p, date)]
<1>2. wakes \in [Int -> Int] /\ sleeps \in [Int -> Int]
  BY AnchorsTyped
<1>3. /\ NextWake(p, l) = NextAnchor(wakes, l) /\ NextWake(p, l + 1) = NextAnchor(wakes, l + 1)
      /\ NextSleep(p, l) = NextAnchor(sleeps, l) /\ NextSleep(p, l + 1) = NextAnchor(sleeps, l + 1)
  BY <1>1 DEF NextWake, NextSleep, NextAnchor
<1>4. /\ Wake(p, DateOf(l + 1) - 1) = wakes[DateOf(l + 1) - 1]
      /\ Sleep(p, DateOf(l + 1) - 1) = sleeps[DateOf(l + 1) - 1]
  BY <1>1
<1> HIDE DEF wakes, sleeps
<1> QED
  BY <1>2, <1>3, <1>4, AnchorKept

LEMMA CallableKept ==
    ASSUME NEW t \in Targets, t.kind = "callable", t.anchor # "phrase", NEW m \in Int,
           ~JustChanged(t.zone, m + 1), m + 1 < Called(t, m),
           LET today == DateOf(Local(t.zone, m + 1))
           IN  ~(Local(t.zone, m + 1) <
                     IF t.anchor = "next_sleep" THEN Sleep(t.persona, today - 1)
                     ELSE Wake(t.persona, today - 1) + t.hours * Hour),
           t.anchor \in {"next_wake", "next_sleep"} => t.hours = 0
    PROVE  Called(t, m + 1) = Called(t, m)
<1> DEFINE l == Local(t.zone, m)
           today == DateOf(l + 1)
<1>1. /\ t.zone \in Zone /\ t.persona \in Persona /\ t.hours \in Int
      /\ t.anchor \in {"wake", "next_wake", "next_sleep"}
  BY TargetsAssumption
<1>2. l \in Int /\ Local(t.zone, m + 1) = l + 1
  BY <1>1, Conversions, SteadyClock
<1> HIDE DEF l
<1>3. \A local \in Int : m + 1 < ToUtc(t.zone, local) => l + 1 < local
  BY <1>1, <1>2, Conversions
<1>4. /\ DateOf(l) \in Int /\ today \in Int
      /\ \A date \in Int : /\ Wake(t.persona, date) \in Int /\ Sleep(t.persona, date) \in Int
                           /\ Hour \in Int
      /\ t.hours * Hour \in Int
  BY <1>1, <1>2, DateAndTime, AnchorsTyped
<1>5. CASE t.anchor = "wake"
  <2>1. /\ Called(t, m) = ToUtc(t.zone, Wake(t.persona, DateOf(l)) + t.hours * Hour)
        /\ Called(t, m + 1) = ToUtc(t.zone, Wake(t.persona, today) + t.hours * Hour)
    BY <1>2, <1>5 DEF Called, l
  <2>2. l + 1 < Wake(t.persona, DateOf(l)) + t.hours * Hour
    BY <1>3, <1>4, <2>1
  <2>3. ~(l + 1 < Wake(t.persona, today - 1) + t.hours * Hour)
    BY <1>2, <1>5
  <2>4. today = DateOf(l)
    <3>1. today # DateOf(l) + 1
      BY <1>4, <2>2, <2>3
    <3> QED
      BY <1>2, <3>1, NextDate
  <2> QED
    BY <2>1, <2>4
<1>6. CASE t.anchor = "next_wake"
  <2>1. /\ t.hours * Hour = 0
        /\ NextWake(t.persona, l) \in Int /\ NextWake(t.persona, l + 1) \in Int
    BY <1>2, <1>4, <1>6 DEF NextWake
  <2>2. /\ Called(t, m) = ToUtc(t.zone, NextWake(t.persona, l))
        /\ Called(t, m + 1) = ToUtc(t.zone, NextWake(t.persona, l + 1))
    BY <1>2, <1>6, <2>1 DEF Called, l
  <2>3. l + 1 < NextWake(t.persona, l)
    BY <1>3, <2>1, <2>2
  <2>4. ~(l + 1 < Wake(t.persona, today - 1))
    BY <1>2, <1>4, <1>6, <2>1
  <2> QED
    BY <1>1, <1>2, <2>2, <2>3, <2>4, AnchorsKept
<1>7. CASE t.anchor = "next_sleep"
  <2>1. /\ t.hours * Hour = 0
        /\ NextSleep(t.persona, l) \in Int /\ NextSleep(t.persona, l + 1) \in Int
    BY <1>2, <1>4, <1>7 DEF NextSleep
  <2>2. /\ Called(t, m) = ToUtc(t.zone, NextSleep(t.persona, l))
        /\ Called(t, m + 1) = ToUtc(t.zone, NextSleep(t.persona, l + 1))
    BY <1>2, <1>7, <2>1 DEF Called, l
  <2>3. l + 1 < NextSleep(t.persona, l)
    BY <1>3, <2>1, <2>2
  <2>4. ~(l + 1 < Sleep(t.persona, today - 1))
    BY <1>2, <1>7
  <2> QED
    BY <1>1, <1>2, <2>2, <2>3, <2>4, AnchorsKept
<1> QED
  BY <1>1, <1>5, <1>6, <1>7

-----------------------------------------------------------------------------
(***************************************************************************)
(* The search for events.                                                  *)
(***************************************************************************)
\* The formulas of math_engine.py compute times.
EventsTyped(event) == \A date \in Int : EventAt(event, date) \in Int \cup {NoEvent}

LEMMA LeastAbove ==
    ASSUME NEW bound \in Int, NEW S \in SUBSET Int, S # {}, \A n \in S : bound <= n
    PROVE  \E m \in S : \A n \in S : m <= n
<1> DEFINE Above == {n \in Nat : bound + n \in S}
<1>1. \A n \in S : n - bound \in Above
  OBVIOUS
<1>2. Above \in SUBSET Nat /\ Above # {}
  BY <1>1
<1>3. PICK m \in Above : \A n \in Above : m <= n
  BY <1>2, Least
<1>4. \A n \in S : bound + m <= n
  BY <1>1, <1>3
<1> QED
  BY <1>3, <1>4

\* An instant lies on the date that the clock reads, or a day off.
LEMMA UtcDates ==
    ASSUME NEW zone \in Zone, NEW date \in Int, NEW time \in 0 .. DayLength - 1
    PROVE  /\ ToUtc(zone, Combine(date, time)) \in Int
           /\ DateOf(ToUtc(zone, Combine(date, time))) \in date - 1 .. date + 1
<1> DEFINE local == Combine(date, time)
           utc == ToUtc(zone, local)
<1>1. local = DayLength * date + time /\ DayLength * date \in Int /\ DayLength \in Nat \ {0}
  BY DayLengthAssumption DEF Combine
<1>2. local \in Int /\ time \in Int /\ 0 <= time /\ time < DayLength
  BY <1>1
<1> HIDE DEF local
<1>3. utc \in Int /\ local - DayLength <= utc /\ utc <= local + DayLength
  BY <1>1, <1>2 DEF ToUtc, Zone
<1> HIDE DEF utc
<1>4. /\ DayLength * (date - 1) = DayLength * date - DayLength
      /\ DayLength * (date + 2) = DayLength * date + DayLength + DayLength
  BY <1>1
<1>5. /\ Combine(date - 1, 0) = DayLength * date - DayLength
      /\ Combine(date + 2, 0) = DayLength * date + DayLength + DayLength
  BY <1>1, <1>4 DEF Combine
<1>6. Combine(date - 1, 0) <= utc /\ ~(Combine(date + 2, 0) <= utc)
  BY <1>1, <1>2, <1>3, <1>5
<1>7. date - 1 <= DateOf(utc) /\ ~(date + 2 <= DateOf(utc))
  BY <1>3, <1>6, Midnights
<1> QED
  BY <1>3, <1>7, DateAndTime DEF utc, local

LEMMA Candidates ==
    ASSUME NEW zone \in Zone, NEW date \in Int
    PROVE  CandidateDates(zone, date) \subseteq date - 1 .. date + 2
<1>1. \A hour \in ProbedHours : (DayLength * hour) \div 24 \in 0 .. DayLength - 1
  BY DayLengthAssumption DEF ProbedHours
<1>2. 0 \in 0 .. DayLength - 1
  BY DayLengthAssumption
<1>3. DateOf(DateStart(zone, date)) \in date - 1 .. date + 1
  BY <1>2, UtcDates DEF DateStart
<1>4. DateOf(DateStart(zone, date + 1)) \in date .. date + 2
  <2>1. PICK tomorrow \in Int : tomorrow = date + 1
    OBVIOUS
  <2>2. DateOf(DateStart(zone, tomorrow)) \in tomorrow - 1 .. tomorrow + 1
    BY <1>2, UtcDates DEF DateStart
  <2> QED
    BY <2>1, <2>2
<1>5. \A hour \in ProbedHours :
        DateOf(ToUtc(zone, Combine(date, (DayLength * hour) \div 24))) \in date - 1 .. date + 1
  BY <1>1, UtcDates
<1> QED
  BY <1>3, <1>4, <1>5 DEF CandidateDates

\* The event of a local date is the first candidate that lies in it.
Hits(zone, event, date) ==
    {d \in CandidateDates(zone, date) :
        EventAt(event, d) # NoEvent /\ InDate(zone, date, EventAt(event, d))}

LEMMA EventOnDate ==
    ASSUME NEW zone \in Zone, NEW event, NEW date \in Int, EventsTyped(event)
    PROVE  \/ EventOn(zone, event, date) = NoEvent /\ Hits(zone, event, date) = {}
           \/ /\ EventOn(zone, event, date) \in Int
              /\ InDate(zone, date, EventOn(zone, event, date))
              /\ \E d \in Hits(zone, event, date) :
                    /\ d \in date - 1 .. date + 2
                    /\ EventOn(zone, event, date) = EventAt(event, d)
                    /\ \A e \in Hits(zone, event, date) : d <= e
<1> DEFINE hits == Hits(zone, event, date)
           first == CHOOSE d \in hits : \A e \in hits : d <= e
<1>1. EventOn(zone, event, date) = IF hits = {} THEN NoEvent ELSE EventAt(event, first)
  BY DEF EventOn, Hits
<1>2. hits \subseteq date - 1 .. date + 2 /\ hits \in SUBSET Int
  BY Candidates DEF Hits
<1>3. ASSUME hits # {}
      PROVE  first \in hits /\ \A e \in hits : first <= e
  <2> HIDE DEF hits
  <2>1. PICK bound \in Int : \A n \in hits : bound <= n
    BY <1>2
  <2>2. \E m \in hits : \A n \in hits : m <= n
    BY <1>2, <1>3, <2>1, LeastAbove
  <2> QED
    BY <2>2
<1> HIDE DEF first
<1>4. ASSUME hits # {}
      PROVE  /\ EventAt(event, first) \in Int
             /\ InDate(zone, date, EventAt(event, first))
  BY <1>2, <1>3, <1>4 DEF Hits, EventsTyped
<1> HIDE DEF hits
<1> QED
  BY <1>1, <1>2, <1>3, <1>4 DEF hits

\* The search ends at the first local date with an event that is later.
Later(zone, event, after, date) ==
    EventOn(zone, event, date) # NoEvent /\ EventOn(zone, event, date) > after
FirstLater(zone, event, after, days) ==
    LET today == DateOf(Local(zone, after))
    IN  /\ days \in 0 .. SearchDays
        /\ Later(zone, event, after, today + days)
        /\ \A n \in 0 .. days - 1 : ~Later(zone, event, after, today + n)

LEMMA SearchEnds ==
    ASSUME NEW zone, NEW event, NEW after
    PROVE  LET today == DateOf(Local(zone, after))
           IN  \/ /\ NextSolarEvent(after, zone, event) = NoEvent
                  /\ \A n \in 0 .. SearchDays : ~Later(zone, event, after, today + n)
               \/ \E days : /\ FirstLater(zone, event, after, days)
                            /\ NextSolarEvent(after, zone, event) =
                                   EventOn(zone, event, today + days)
<1> DEFINE today == DateOf(Local(zone, after))
           later == {n \in 0 .. SearchDays : Later(zone, event, after, today + n)}
           days == CHOOSE m \in later : \A n \in later : m <= n
<1>1. NextSolarEvent(after, zone, event) =
          IF later = {} THEN NoEvent ELSE EventOn(zone, event, today + days)
  BY DEF NextSolarEvent, Later
<1>2. CASE later = {}
  BY <1>1, <1>2
<1>3. CASE later # {}
  <2>1. later \in SUBSET Nat
    BY SearchAssumption
  <2>2. \E m \in later : \A n \in later : m <= n
    BY <1>3, <2>1, Least
  <2>3. days \in later /\ \A n \in later : days <= n
    BY <2>2
  <2> HIDE DEF days
  <2>4. FirstLater(zone, event, after, days)
    BY <2>3, SearchAssumption DEF FirstLater
  <2> QED
    BY <1>1, <1>3, <2>4
<1> QED
  BY <1>2, <1>3

LEMMA SearchFinds ==
    ASSUME NEW zone, NEW event, NEW after, NEW days, FirstLater(zone, event, after, days)
    PROVE  NextSolarEvent(after, zone, event) =
               EventOn(zone, event, DateOf(Local(zone, after)) + days)
<1> DEFINE today == DateOf(Local(zone, after))
<1>1. /\ days \in 0 .. SearchDays /\ Later(zone, event, after, today + days)
      /\ \A n \in 0 .. days - 1 : ~Later(zone, event, after, today + n)
  BY DEF FirstLater
<1>2. PICK m : /\ FirstLater(zone, event, after, m)
               /\ NextSolarEvent(after, zone, event) = EventOn(zone, event, today + m)
  BY <1>1, SearchEnds
<1>3. /\ m \in 0 .. SearchDays /\ Later(zone, event, after, today + m)
      /\ \A n \in 0 .. m - 1 : ~Later(zone, event, after, today + n)
  BY <1>2 DEF FirstLater
<1>4. ~(m < days) /\ ~(days < m)
  BY <1>1, <1>3, SearchAssumption
<1>5. m = days
  BY <1>1, <1>3, <1>4, SearchAssumption
<1> QED
  BY <1>2, <1>5

LEMMA SolarTyped ==
    ASSUME NEW zone \in Zone, NEW event, EventsTyped(event), NEW after \in Int
    PROVE  NextSolarEvent(after, zone, event) \in Int \cup {NoEvent}
<1>1. DateOf(Local(zone, after)) \in Int
  BY Conversions, DateAndTime
<1>2. \A days \in 0 .. SearchDays :
        EventOn(zone, event, DateOf(Local(zone, after)) + days) \in Int \cup {NoEvent}
  BY <1>1, SearchAssumption, EventOnDate
<1> QED
  BY <1>2, SearchEnds DEF FirstLater

\* The date the clock reads a tick later, if the local date does not jump.
LEMMA NextLocalDate ==
    ASSUME NEW zone \in Zone, NEW m \in Int,
           ~(m + 1 = zone.change
               /\ DateOf(zone.change + zone.before) # DateOf(zone.change + zone.after))
    PROVE  LET today == DateOf(Local(zone, m))
               next == DateOf(Local(zone, m + 1))
           IN  \/ next = today
               \/ next = today + 1 /\ DateStart(zone, next) <= m + 1
<1> DEFINE l == Local(zone, m)
           next == Local(zone, m + 1)
<1>1. l \in Int /\ next \in Int /\ ToUtc(zone, next) <= m + 1
  BY Conversions
<1>2. CASE next = l + 1
  <2>1. \/ DateOf(next) = DateOf(l)
        \/ DateOf(next) = DateOf(l) + 1 /\ next = Combine(DateOf(next), 0)
    BY <1>1, <1>2, NextDate
  <2> QED
    BY <1>1, <2>1 DEF DateStart
<1>3. CASE /\ m + 1 = zone.change /\ l + 1 = zone.change + zone.before
           /\ next = zone.change + zone.after /\ zone.before # zone.after
  <2>1. zone.change \in Int /\ zone.before \in Int /\ zone.after \in Int
    BY DayLengthAssumption DEF Zone
  <2>2. DateOf(next) = DateOf(l + 1)
    BY <1>3
  <2>3. CASE DateOf(l + 1) = DateOf(l)
    BY <2>2, <2>3
  <2>4. CASE DateOf(l + 1) = DateOf(l) + 1 /\ l + 1 = Combine(DateOf(l) + 1, 0)
    <3>1. DateOf(next) \in Int
      BY <1>1, DateAndTime
    <3>2. l + 1 <= next
      BY <1>1, <2>2, <2>4, <3>1, Midnights
    <3>3. ToUtc(zone, l + 1) = m + 1
      BY <1>1, <1>3, <2>1, <3>2 DEF ToUtc, Larger
    <3> QED
      BY <2>2, <2>4, <3>3, <1>1 DEF DateStart
  <2> QED
    BY <1>1, <2>3, <2>4, NextDate
<1> QED
  BY <1>2, <1>3, ClockTicks

LEMMA SolarKept ==
    ASSUME NEW zone \in Zone, NEW event, EventsTyped(event), NEW m \in Int,
           ~(m + 1 = zone.change
               /\ DateOf(zone.change + zone.before) # DateOf(zone.change + zone.after)),
           NextSolarEvent(m, zone, event) # NoEvent, m + 1 < NextSolarEvent(m, zone, event)
    PROVE  NextSolarEvent(m + 1, zone, event) = NextSolarEvent(m, zone, event)
<1> DEFINE today == DateOf(Local(zone, m))
           next == DateOf(Local(zone, m + 1))
<1>1. today \in Int /\ next \in Int
  BY Conversions, DateAndTime
<1>2. PICK days : /\ FirstLater(zone, event, m, days)
                  /\ NextSolarEvent(m, zone, event) = EventOn(zone, event, today + days)
  BY SearchEnds
<1>3. /\ days \in 0 .. SearchDays /\ SearchDays \in Nat
      /\ \A n \in 0 .. days - 1 : ~Later(zone, event, m, today + n)
  BY <1>2, SearchAssumption DEF FirstLater
<1>4. \A date \in Int : EventOn(zone, event, date) \in Int \cup {NoEvent}
  BY EventOnDate
<1>5. Later(zone, event, m + 1, today + days)
  BY <1>2 DEF Later
<1>6. \A n \in 0 .. days - 1 : ~Later(zone, event, m + 1, today + n)
  BY <1>1, <1>3, <1>4 DEF Later
<1>7. next = today \/ (next = today + 1 /\ DateStart(zone, next) <= m + 1)
  BY NextLocalDate
<1> HIDE DEF today, next
<1>8. CASE next = today
  <2>1. FirstLater(zone, event, m + 1, days)
    BY <1>3, <1>5, <1>6, <1>8 DEF FirstLater, next
  <2> QED
    BY <1>2, <1>8, <2>1, SearchFinds DEF next
<1>9. CASE next = today + 1 /\ DateStart(zone, next) <= m + 1
  <2>1. days # 0
    <3> SUFFICES ASSUME days = 0 PROVE FALSE
      OBVIOUS
    <3>1. Later(zone, event, m + 1, today)
      BY <1>1, <1>5
    <3>2. InDate(zone, today, EventOn(zone, event, today)) /\ EventOn(zone, event, today) \in Int
      BY <1>1, <3>1, EventOnDate DEF Later
    <3>3. DateStart(zone, next) \in Int
      <4>1. Combine(next, 0) \in Int
        BY <1>1, Midnights
      <4> QED
        BY <4>1, Conversions DEF DateStart
    <3> QED
      BY <1>9, <3>1, <3>2, <3>3 DEF InDate, Later
  <2>2. PICK before \in 0 .. SearchDays : days = before + 1
    BY <1>3, <2>1
  <2>3. next + before = today + days
    BY <1>1, <1>9, <2>2
  <2>4. \A n \in 0 .. before - 1 : ~Later(zone, event, m + 1, next + n)
    <3>1. \A n \in 0 .. before - 1 : n + 1 \in 0 .. days - 1 /\ next + n = today + (n + 1)
      BY <1>1, <1>9, <2>2
    <3> QED
      BY <1>6, <3>1
  <2>5. FirstLater(zone, event, m + 1, before)
    BY <1>5, <2>2, <2>3, <2>4 DEF FirstLater, next
  <2> QED
    BY <1>2, <2>3, <2>5, SearchFinds DEF next
<1> QED
  BY <1>7, <1>8, <1>9

\* Midnight's recalibration, or any other, moves no occurrence that is still
\* ahead, for any timezones, personas and events, but where the target is
\* Unsteady: phrases, anchors of the date before, times after the next anchor,
\* clocks and anchors in the hours after a change of offset, and events where
\* that change is one of the local date.
THEOREM RecalibrationsKeep ==
    ASSUME \A t \in Targets : t.kind = "solar" => EventsTyped(t.event)
    PROVE  Spec => RecalibrationKeeps
<1>1. \A t \in Targets : \A instant \in Int : ResolveAfter(t, instant) \in Int \cup {NoTime}
  <2> SUFFICES ASSUME NEW t \in Targets, NEW instant \in Int
               PROVE  ResolveAfter(t, instant) \in Int \cup {NoTime}
    OBVIOUS
  <2>1. CASE t.kind = "clock"
    BY <2>1, TargetsAssumption, NextTimeTyped DEF ResolveAfter
  <2>2. CASE t.kind = "solar"
    BY <2>2, TargetsAssumption, SolarTyped DEF ResolveAfter, NoTime
  <2>3. CASE t.kind = "callable"
    BY <2>3, CallableTyped
  <2>4. CASE t.kind \in {"once", "text"}
    BY <2>4, TargetsAssumption DEF ResolveAfter
  <2> QED
    BY <2>1, <2>2, <2>3, <2>4, TargetsAssumption
<1>2. ASSUME Answered, asked \in Int, RefreshJob, due # NoTime, due > asked', ~Unsteady'
      PROVE  due' = due
  <2>1. /\ target \in Targets /\ due = ResolveAfter(target, asked)
        /\ target' = target /\ asked' = asked + 1 /\ due' = ResolveAfter(target, asked + 1)
    BY <1>2 DEF Answered, RefreshJob, Ask
  <2>2. CASE target.kind = "clock"
    BY <1>2, <2>1, <2>2, TargetsAssumption, ClockKept DEF Unsteady, JustChanged, ResolveAfter
  <2>3. CASE target.kind = "solar"
    BY <1>2, <2>1, <2>3, TargetsAssumption, SolarKept
    DEF Unsteady, DateJumps, ResolveAfter, NoTime
  <2>4. CASE target.kind = "callable"
    BY <1>2, <2>1, <2>4, CallableTyped, CallableKept
    DEF Unsteady, AnchorOfYesterday, JustChanged
  <2>5. CASE target.kind \in {"once", "text"}
    BY <1>2, <2>1, <2>5, TargetsAssumption DEF ResolveAfter
  <2> QED
    BY <2>1, <2>2, <2>3, <2>4, <2>5, TargetsAssumption
<1>3. Init => asked \in Int
  BY DEF Init
<1>4. Answered /\ asked \in Int /\ [Next]_vars => (asked \in Int)'
  <2> DEFINE Kinds == {"clock", "solar", "callable", "once", "text"}
  <2>1. ASSUME Answered, asked \in Int, [Next]_vars
        PROVE  target' \in Targets /\ target'.kind \in Kinds
    BY <2>1, TargetsAssumption DEF Answered, Next, ScheduleNext, RefreshJob, Ask, vars
  <2> QED
    BY <1>1, <2>1, AskedAtInstants
<1>5. Answered /\ asked \in Int /\ [Next]_vars
        => [RefreshJob /\ due # NoTime /\ due > asked' /\ ~Unsteady' => due' = due]_vars
  BY <1>2
<1> QED
  BY <1>3, <1>4, <1>5, AlwaysAnswered, PTL DEF Spec, RecalibrationKeeps
-----------------------------------------------------------------------------
(***************************************************************************)
(* Solar targets and anchors skip nothing.                                 *)
(***************************************************************************)
\* Local times that are clear of the change are in the order of the instants.
LEMMA ClearTimes ==
    ASSUME NEW zone \in Zone, NEW local \in Int, ClearOfChange(zone, local), NEW instant \in Int
    PROVE  ToUtc(zone, local) <= instant <=> local <= Local(zone, instant)
<1> DEFINE c == zone.change  b == zone.before  a == zone.after
<1>1. c \in Int /\ b \in Int /\ a \in Int
  BY DayLengthAssumption DEF Zone
<1> HIDE DEF c, b, a
<1>2. Local(zone, instant) = IF instant < c THEN instant + b ELSE instant + a
  BY <1>1 DEF Local, c, b, a
<1>3. ToUtc(zone, local) = IF local < c + (IF b < a THEN a ELSE b) THEN local - b ELSE local - a
  BY <1>1 DEF ToUtc, Larger, c, b, a
<1>4. ~(c + b < local /\ local < c + a) /\ ~(c + a < local /\ local < c + b)
  BY <1>1 DEF ClearOfChange, c, b, a
<1>5. CASE b < a
  BY <1>1, <1>2, <1>3, <1>4, <1>5
<1>6. CASE ~(b < a)
  BY <1>1, <1>2, <1>3, <1>4, <1>6
<1> QED
  BY <1>5, <1>6

\* So a local date is what the clock reads from its start to the next.
LEMMA WholeDates ==
    ASSUME NEW zone \in Zone, \A date \in Int : ClearOfChange(zone, Combine(date, 0)),
           NEW instant \in Int
    PROVE  /\ DateOf(Local(zone, instant)) \in Int
           /\ \A date \in Int :
                  /\ DateStart(zone, date) \in Int
                  /\ DateStart(zone, date) <= instant <=> date <= DateOf(Local(zone, instant))
                  /\ InDate(zone, date, instant) <=> date = DateOf(Local(zone, instant))
<1> DEFINE today == DateOf(Local(zone, instant))
<1>1. Local(zone, instant) \in Int /\ today \in Int
  BY Conversions, DateAndTime
<1>2. ASSUME NEW date \in Int
      PROVE  /\ DateStart(zone, date) \in Int
             /\ DateStart(zone, date) <= instant <=> date <= today
  <2>1. PICK midnight \in Int : midnight = Combine(date, 0)
    BY Midnights
  <2>2. ToUtc(zone, midnight) \in Int
    BY <2>1, Conversions
  <2>3. ToUtc(zone, midnight) <= instant <=> midnight <= Local(zone, instant)
    BY <2>1, ClearTimes
  <2> QED
    BY <1>1, <2>1, <2>2, <2>3, Midnights DEF DateStart
<1>3. ASSUME NEW date \in Int
      PROVE  InDate(zone, date, instant) <=> date = today
  <2>1. PICK tomorrow \in Int : tomorrow = date + 1
    OBVIOUS
  <2>2. /\ DateStart(zone, date) <= instant <=> date <= today
        /\ DateStart(zone, tomorrow) <= instant <=> tomorrow <= today
        /\ DateStart(zone, tomorrow) \in Int
    BY <1>2
  <2> HIDE DEF today
  <2>3. InDate(zone, date, instant) <=> date <= today /\ ~(tomorrow <= today)
    BY <2>1, <2>2 DEF InDate
  <2> QED
    BY <1>1, <2>1, <2>3
<1> QED
  BY <1>1, <1>2, <1>3

LEMMA DatesGoOn ==
    ASSUME NEW zone \in Zone, \A date \in Int : ClearOfChange(zone, Combine(date, 0)),
           NEW m \in Int, NEW n \in Int, m <= n
    PROVE  DateOf(Local(zone, m)) <= DateOf(Local(zone, n))
<1> DEFINE start == DateStart(zone, DateOf(Local(zone, m)))
<1>1. start \in Int /\ start <= m
  BY WholeDates
<1>2. start <= n
  BY <1>1
<1> QED
  BY <1>2, WholeDates

\* The clock reads the UTC date, or one next to it.
LEMMA LocalDates ==
    ASSUME NEW zone \in Zone, NEW m \in Int
    PROVE  DateOf(Local(zone, m)) \in DateOf(m) - 1 .. DateOf(m) + 1
<1> DEFINE utc == DateOf(m)
           today == DateOf(Local(zone, m))
<1>1. /\ DayLength \in Nat \ {0} /\ utc \in Int /\ today \in Int
      /\ Local(zone, m) \in Int
      /\ m - DayLength <= Local(zone, m) /\ Local(zone, m) <= m + DayLength
  <2>1. Local(zone, m) \in Int /\ utc \in Int /\ today \in Int
    BY Conversions, DateAndTime
  <2> QED
    BY <2>1, DayLengthAssumption DEF Zone, Local
<1> HIDE DEF utc, today
<1>2. /\ Combine(utc, 0) = DayLength * utc /\ DayLength * utc \in Int
      /\ Combine(utc - 1, 0) = DayLength * utc - DayLength
      /\ Combine(utc + 1, 0) = DayLength * utc + DayLength
      /\ Combine(utc + 2, 0) = DayLength * utc + DayLength + DayLength
  BY <1>1 DEF Combine
<1>3. Combine(utc, 0) <= m /\ ~(Combine(utc + 1, 0) <= m)
  <2>1. utc <= utc /\ ~(utc + 1 <= utc) /\ utc + 1 \in Int
    BY <1>1
  <2> QED
    BY <1>1, <2>1, Midnights DEF utc
<1>4. Combine(utc - 1, 0) <= Local(zone, m) /\ ~(Combine(utc + 2, 0) <= Local(zone, m))
  BY <1>1, <1>2, <1>3
<1>5. utc - 1 <= today /\ ~(utc + 2 <= today)
  <2>1. utc - 1 \in Int /\ utc + 2 \in Int
    BY <1>1
  <2> QED
    BY <1>1, <1>4, <2>1, Midnights DEF today
<1> QED
  BY <1>1, <1>5 DEF utc, today

\* An event of a local date that is the first of that date is its event.
LEMMA FirstIsEventOn ==
    ASSUME NEW zone \in Zone, NEW event, RegularEvents(zone, event, Int),
           NEW d \in Int, EventAt(event, d) # NoEvent,
           NEW date \in Int, date = DateOf(Local(zone, EventAt(event, d))),
           \A other \in date - 1 .. date + 2 :
               /\ EventAt(event, other) # NoEvent
               /\ DateOf(Local(zone, EventAt(event, other))) = date
               => EventAt(event, d) <= EventAt(event, other)
    PROVE  EventOn(zone, event, date) = EventAt(event, d)
<1>1. EventsTyped(event) /\ \A day \in Int : ClearOfChange(zone, Combine(day, 0))
  BY DEF RegularEvents, EventsTyped
<1>2. EventAt(event, d) \in Int
  BY <1>1 DEF EventsTyped
<1>3. InDate(zone, date, EventAt(event, d))
  BY <1>1, <1>2, WholeDates
<1>4. d \in Hits(zone, event, date)
  BY <1>3 DEF RegularEvents, Hits
<1>5. PICK f \in Hits(zone, event, date) :
        /\ f \in date - 1 .. date + 2
        /\ EventOn(zone, event, date) = EventAt(event, f)
        /\ EventOn(zone, event, date) \in Int
        /\ InDate(zone, date, EventAt(event, f))
        /\ \A e \in Hits(zone, event, date) : f <= e
  BY <1>1, <1>4, EventOnDate
<1>6. f \in Int /\ EventAt(event, f) \in Int /\ EventAt(event, f) # NoEvent
  BY <1>5, SearchAssumption
<1>7. DateOf(Local(zone, EventAt(event, f))) = date
  BY <1>1, <1>5, <1>6, WholeDates
<1>8. EventAt(event, d) <= EventAt(event, f)
  BY <1>5, <1>6, <1>7
<1>9. f <= d
  BY <1>4, <1>5
<1>10. EventAt(event, f) <= EventAt(event, d)
  BY <1>6, <1>9 DEF RegularEvents
<1> QED
  BY <1>2, <1>5, <1>6, <1>8, <1>10

\* The answer is an event that is later, from among those around its date.
LEMMA AnswerIsLater ==
    ASSUME NEW zone \in Zone, NEW event, EventsTyped(event), NEW after \in Int,
           NEW next, next = NextSolarEvent(after, zone, event), next # NoEvent
    PROVE  /\ next \in Int /\ after < next
           /\ \E days \in 0 .. SearchDays :
                  LET date == DateOf(Local(zone, after)) + days
                  IN  /\ FirstLater(zone, event, after, days)
                      /\ next = EventOn(zone, event, date)
                      /\ InDate(zone, date, next)
                      /\ \E d \in date - 1 .. date + 2 : next = EventAt(event, d)
<1> DEFINE today == DateOf(Local(zone, after))
<1>1. today \in Int /\ SearchDays \in Nat
  BY Conversions, DateAndTime, SearchAssumption
<1>2. PICK days : /\ FirstLater(zone, event, after, days)
                  /\ next = EventOn(zone, event, today + days)
  BY SearchEnds
<1>3. days \in 0 .. SearchDays /\ Later(zone, event, after, today + days)
  BY <1>2 DEF FirstLater
<1>4. PICK date \in Int : date = today + days
  BY <1>1, <1>3
<1> HIDE DEF today
<1>5. next # NoEvent /\ next > after /\ next = EventOn(zone, event, date)
  BY <1>2, <1>3, <1>4 DEF Later
<1>6. /\ next \in Int /\ InDate(zone, date, next)
      /\ \E d \in date - 1 .. date + 2 : next = EventAt(event, d)
  BY <1>5, EventOnDate
<1> QED
  BY <1>2, <1>3, <1>4, <1>5, <1>6 DEF today

LEMMA NoneIsPassedOver ==
    ASSUME NEW zone \in Zone, NEW event, RegularEvents(zone, event, Int), NEW after \in Int,
           NEW next, next = NextSolarEvent(after, zone, event),
           NEW d \in Int, EventAt(event, d) # NoEvent, after < EventAt(event, d),
           LET today == DateOf(Local(zone, after))
           IN  EventAt(event, d) < IF next = NoEvent
                                   THEN DateStart(zone, today + SearchDays + 1) ELSE next
    PROVE  \E other \in DateOf(after) - 2 .. DateOf(after) + SearchDays + 3 :
               /\ EventAt(event, other) # NoEvent
               /\ DateOf(Local(zone, EventAt(event, other))) =
                      DateOf(Local(zone, EventAt(event, d)))
               /\ ~(EventAt(event, d) <= EventAt(event, other))
<1> DEFINE today == DateOf(Local(zone, after))
           date == DateOf(Local(zone, EventAt(event, d)))
<1>1. EventsTyped(event) /\ \A day \in Int : ClearOfChange(zone, Combine(day, 0))
  BY DEF RegularEvents, EventsTyped
<1>2. /\ EventAt(event, d) \in Int /\ today \in Int /\ date \in Int /\ SearchDays \in Nat
      /\ DateOf(after) \in Int
  BY <1>1, Conversions, DateAndTime, SearchAssumption DEF EventsTyped
<1>3. today <= date
  BY <1>1, <1>2, DatesGoOn
<1>4. ASSUME next # NoEvent
      PROVE  \E days \in 0 .. SearchDays :
                 /\ FirstLater(zone, event, after, days)
                 /\ next = EventOn(zone, event, today + days)
                 /\ date <= today + days
  <2>1. PICK days \in 0 .. SearchDays :
          /\ FirstLater(zone, event, after, days)
          /\ next \in Int
          /\ next = EventOn(zone, event, today + days)
          /\ InDate(zone, today + days, next)
    BY <1>1, <1>4, AnswerIsLater
  <2>2. DateOf(Local(zone, next)) = today + days
    BY <1>1, <1>2, <2>1, WholeDates
  <2>3. date <= today + days
    BY <1>1, <1>2, <1>4, <2>1, <2>2, DatesGoOn
  <2> QED
    BY <2>1, <2>3
<1>5. date <= today + SearchDays
  <2>1. CASE next = NoEvent
    <3>1. PICK end \in Int : end = today + SearchDays + 1
      BY <1>2
    <3>2. DateStart(zone, end) \in Int /\ EventAt(event, d) < DateStart(zone, end)
      BY <1>1, <1>2, <2>1, <3>1, WholeDates
    <3>3. ~(end <= date)
      BY <1>1, <1>2, <3>2, WholeDates
    <3> QED
      BY <1>2, <3>1, <3>3
  <2>2. CASE next # NoEvent
    BY <1>2, <1>4, <2>2
  <2> QED
    BY <2>1, <2>2
<1>6. SUFFICES ASSUME \A other \in date - 1 .. date + 2 :
                          /\ EventAt(event, other) # NoEvent
                          /\ DateOf(Local(zone, EventAt(event, other))) = date
                          => EventAt(event, d) <= EventAt(event, other)
               PROVE  FALSE
  <2>1. today \in DateOf(after) - 1 .. DateOf(after) + 1
    BY LocalDates
  <2>2. date - 1 .. date + 2 \subseteq DateOf(after) - 2 .. DateOf(after) + SearchDays + 3
    <3> HIDE DEF today, date
    <3> QED
      BY <1>2, <1>3, <1>5, <2>1
  <2> QED
    BY <2>2
<1>7. EventOn(zone, event, date) = EventAt(event, d)
  BY <1>2, <1>6, FirstIsEventOn
<1>8. PICK n \in 0 .. SearchDays : today + n = date
  <2>1. date - today \in 0 .. SearchDays /\ today + (date - today) = date
    BY <1>2, <1>3, <1>5
  <2> QED
    BY <2>1
<1>9. Later(zone, event, after, today + n)
  BY <1>2, <1>7, <1>8 DEF Later
<1>10. next # NoEvent
  <2>1. \/ next = NoEvent /\ \A m \in 0 .. SearchDays : ~Later(zone, event, after, today + m)
        \/ \E days : /\ FirstLater(zone, event, after, days)
                     /\ next = EventOn(zone, event, today + days)
    BY SearchEnds
  <2>2. ASSUME NEW days, FirstLater(zone, event, after, days)
        PROVE  EventOn(zone, event, today + days) # NoEvent
    BY <2>2 DEF FirstLater, Later
  <2> QED
    BY <1>8, <1>9, <2>1, <2>2
<1>11. PICK days \in 0 .. SearchDays :
         /\ FirstLater(zone, event, after, days)
         /\ next = EventOn(zone, event, today + days)
         /\ date <= today + days
  BY <1>4, <1>10
<1>12. ~(n < days)
  <2> SUFFICES ASSUME n < days PROVE FALSE
    OBVIOUS
  <2>1. n \in 0 .. days - 1
    BY <1>2
  <2> QED
    BY <1>9, <1>11, <2>1 DEF FirstLater
<1>13. days = n
  <2> HIDE DEF today, date
  <2> QED
    BY <1>2, <1>8, <1>11, <1>12
<1> QED
  BY <1>2, <1>7, <1>8, <1>10, <1>11, <1>13

\* A solar target is due at an event, and none that is the first of its local
\* date is passed over or given up for, wherever and however often it is asked.
THEOREM EventsAreNext ==
    ASSUME \A t \in Targets : t.kind = "solar" => RegularEvents(t.zone, t.event, Int)
    PROVE  Spec => []SolarIsNext
<1>1. \A t \in Targets : t.kind = "solar" => t.zone \in Zone /\ EventsTyped(t.event)
  BY TargetsAssumption DEF RegularEvents, EventsTyped
<1>2. \A t \in Targets : t.kind \in {"solar"} =>
          \A instant \in Int : ResolveAfter(t, instant) \in Int \cup {NoTime}
  BY <1>1, SolarTyped DEF ResolveAfter, NoTime
<1>3. ASSUME NEW zone \in Zone, NEW event, RegularEvents(zone, event, Int), NEW after \in Int
      PROVE  LET window == DateOf(after) - 2 .. DateOf(after) + SearchDays + 3
                 events == {EventAt(event, date) : date \in window} \ {NoEvent}
                 LocalDate(instant) == DateOf(Local(zone, instant))
                 next == NextSolarEvent(after, zone, event)
                 end == IF next = NoEvent THEN DateStart(zone, LocalDate(after) + SearchDays + 1)
                        ELSE next
             IN  /\ next # NoEvent => next \in events /\ after < next
                 /\ \A e \in events : after < e /\ e < end =>
                        ~ \A other \in events : LocalDate(other) = LocalDate(e) => e <= other
  <2> DEFINE window == DateOf(after) - 2 .. DateOf(after) + SearchDays + 3
             events == {EventAt(event, date) : date \in window} \ {NoEvent}
             LocalDate(instant) == DateOf(Local(zone, instant))
             next == NextSolarEvent(after, zone, event)
             end == IF next = NoEvent THEN DateStart(zone, LocalDate(after) + SearchDays + 1)
                    ELSE next
  <2>1. /\ EventsTyped(event) /\ SearchDays \in Nat /\ DateOf(after) \in Int
        /\ window \subseteq Int
    BY <1>3, SearchAssumption, DateAndTime DEF RegularEvents, EventsTyped
  <2>2. ASSUME next # NoEvent PROVE next \in events /\ after < next
    <3>1. PICK today \in DateOf(after) - 1 .. DateOf(after) + 1 : today = LocalDate(after)
      BY <1>3, LocalDates
    <3>2. PICK days \in 0 .. SearchDays :
            \E d \in today + days - 1 .. today + days + 2 : next = EventAt(event, d)
      BY <1>3, <2>1, <2>2, <3>1, AnswerIsLater
    <3>3. PICK d \in today + days - 1 .. today + days + 2 : next = EventAt(event, d)
      BY <3>2
    <3>4. d \in window
      BY <2>1, <3>1, <3>2, <3>3
    <3>5. after < next
      BY <1>3, <2>1, <2>2, AnswerIsLater
    <3> QED
      BY <2>2, <3>3, <3>4, <3>5
  <2>3. ASSUME NEW d \in window, EventAt(event, d) # NoEvent,
               after < EventAt(event, d), EventAt(event, d) < end
        PROVE  \E other \in window :
                   /\ EventAt(event, other) # NoEvent
                   /\ LocalDate(EventAt(event, other)) = LocalDate(EventAt(event, d))
                   /\ ~(EventAt(event, d) <= EventAt(event, other))
    BY <1>3, <2>1, <2>3, NoneIsPassedOver
  <2> HIDE DEF window, LocalDate, next, end
  <2>4. next # NoEvent => next \in events /\ after < next
    BY <2>2
  <2>5. ASSUME NEW e \in events, after < e, e < end
        PROVE  ~ \A other \in events : LocalDate(other) = LocalDate(e) => e <= other
    BY <2>3, <2>5
  <2> QED
    BY <2>4, <2>5 DEF window, LocalDate, next, end
<1> DEFINE Asked == target.kind \in {"solar"} => asked \in Int
<1>4. Asked /\ Answered => SolarIsNext
  <2> SUFFICES ASSUME target.kind = "solar", Asked, Answered PROVE SolarIsNext
    BY DEF SolarIsNext
  <2>1. /\ target.zone \in Zone /\ RegularEvents(target.zone, target.event, Int)
        /\ asked \in Int /\ due = NextSolarEvent(asked, target.zone, target.event)
    BY <1>1 DEF Answered, ResolveAfter
  <2> QED
    BY <1>3, <2>1 DEF SolarIsNext, Events, NoTime
<1>5. Init => Asked
  BY DEF Init
<1>6. Answered /\ Asked /\ [Next]_vars => Asked'
  BY <1>2, AskedAtInstants
<1> QED
  BY <1>4, <1>5, <1>6, AlwaysAnswered, PTL DEF Spec

LEMMA ClearOrder ==
    ASSUME NEW zone \in Zone, NEW m \in Int, NEW n \in Int, m <= n, ClearOfChange(zone, m),
           ClearOfChange(zone, n)
    PROVE  /\ ToUtc(zone, m) <= ToUtc(zone, n)
           /\ m < n /\ Local(zone, ToUtc(zone, m)) = m => ToUtc(zone, m) < ToUtc(zone, n)
<1> DEFINE first == ToUtc(zone, m)
           second == ToUtc(zone, n)
<1>1. first \in Int /\ second \in Int /\ Local(zone, first) \in Int /\ Local(zone, second) \in Int
  BY Conversions
<1>2. /\ second <= second <=> n <= Local(zone, second)
      /\ first <= second <=> m <= Local(zone, second)
      /\ second <= first <=> n <= Local(zone, first)
  BY <1>1, ClearTimes
<1> HIDE DEF first, second
<1>3. first <= second
  BY <1>1, <1>2
<1>4. m < n /\ Local(zone, first) = m => first < second
  BY <1>1, <1>2
<1> QED
  BY <1>3, <1>4 DEF first, second

\* A wake is on its date, so that wakes are in the order of dates.
LEMMA WakesOfDates ==
    ASSUME NEW p \in Persona, RegularWakes(p, Int), NEW date \in Int
    PROVE  /\ Wake(p, date) \in Int
           /\ \A local \in Int :
                  /\ date < DateOf(local) => Wake(p, date) < local
                  /\ DateOf(local) < date => local < Wake(p, date)
<1>1. PICK time \in 0 .. DayLength - 1 : Wake(p, date) = Combine(date, time)
  <2>1. /\ p.wake \in Nat /\ p.wakeShift \in Int /\ p.wake < DayLength
        /\ p.wake + p.wakeShift \in 0 .. DayLength - 1
        /\ DayLength \in Nat \ {0} /\ DayLength * date \in Int
    BY DayLengthAssumption DEF Persona, RegularWakes
  <2>2. CASE IsWeekend(date)
    <3>1. Wake(p, date) = Combine(date, p.wake + p.wakeShift)
      BY <2>1, <2>2 DEF Wake, Combine
    <3> QED
      BY <2>1, <3>1
  <2>3. CASE ~IsWeekend(date)
    <3>1. Wake(p, date) = Combine(date, p.wake)
      BY <2>1, <2>3 DEF Wake, Combine
    <3> QED
      BY <2>1, <3>1
  <2> QED
    BY <2>2, <2>3
<1>2. Wake(p, date) \in Int /\ DateOf(Wake(p, date)) = date
  BY <1>1, CombinedReads, AnchorsTyped
<1> DEFINE wake == Wake(p, date)
<1> HIDE DEF wake
<1>3. ASSUME NEW local \in Int, date < DateOf(local)
      PROVE  wake < local
  <2>1. PICK today \in Int : today = DateOf(local)
    BY DateAndTime
  <2>2. Combine(today, 0) \in Int /\ Combine(today, 0) <= local /\ ~(Combine(today, 0) <= wake)
    BY <1>2, <1>3, <2>1, Midnights DEF wake
  <2> QED
    BY <1>2, <2>2 DEF wake
<1>4. ASSUME NEW local \in Int, DateOf(local) < date
      PROVE  local < wake
  <2>1. DateOf(local) \in Int
    BY DateAndTime
  <2>2. Combine(date, 0) \in Int /\ Combine(date, 0) <= wake /\ ~(Combine(date, 0) <= local)
    BY <1>2, <1>4, <2>1, Midnights DEF wake
  <2> QED
    BY <1>2, <2>2 DEF wake
<1> QED
  BY <1>2, <1>3, <1>4 DEF wake

LEMMA NextWakeIsNext ==
    ASSUME NEW p \in Persona, RegularWakes(p, Int), NEW reference \in Int
    PROVE  /\ NextWake(p, reference) \in Int /\ reference < NextWake(p, reference)
           /\ \E date \in DateOf(reference) .. DateOf(reference) + 1 :
                  NextWake(p, reference) = Wake(p, date)
           /\ \A date \in Int :
                  reference < Wake(p, date) => NextWake(p, reference) <= Wake(p, date)
<1>1. PICK today \in Int : today = DateOf(reference)
  BY DateAndTime
<1>2. PICK tomorrow \in Int : tomorrow = today + 1
  OBVIOUS
<1>3. NextWake(p, reference) =
          IF Wake(p, today) > reference THEN Wake(p, today) ELSE Wake(p, tomorrow)
  BY <1>1, <1>2 DEF NextWake
<1>4. \A date \in Int :
        /\ Wake(p, date) \in Int
        /\ date < today => Wake(p, date) < reference
        /\ today < date => reference < Wake(p, date)
  BY <1>1, WakesOfDates
<1>5. \A m \in Int, n \in Int : m < n => Wake(p, m) <= Wake(p, n)
  <2> SUFFICES ASSUME NEW m \in Int, NEW n \in Int, m < n PROVE Wake(p, m) <= Wake(p, n)
    OBVIOUS
  <2>1. PICK between \in Int : between = Combine(n, 0) /\ DateOf(between) = n
    <3>1. 0 \in 0 .. DayLength - 1
      BY DayLengthAssumption
    <3> QED
      BY <3>1, CombinedReads, Midnights
  <2>2. Wake(p, m) < between
    BY <2>1, WakesOfDates
  <2>3. between <= Wake(p, n)
    <3>1. Wake(p, n) \in Int /\ DateOf(Wake(p, n)) \in Int /\ ~(DateOf(Wake(p, n)) < n)
      BY WakesOfDates, DateAndTime
    <3> QED
      BY <2>1, <3>1, Midnights
  <2> QED
    BY <1>4, <2>1, <2>2, <2>3
<1>6. ASSUME NEW date \in Int, reference < Wake(p, date)
      PROVE  NextWake(p, reference) <= Wake(p, date)
  <2>1. ~(date < today)
    BY <1>4, <1>6
  <2>2. CASE date = today
    BY <1>3, <1>4, <1>6, <2>2
  <2>3. CASE date = tomorrow
    BY <1>2, <1>3, <1>4, <1>5, <2>3
  <2>4. CASE tomorrow < date
    BY <1>2, <1>3, <1>4, <1>5, <2>4
  <2> QED
    BY <1>2, <2>1, <2>2, <2>3, <2>4
<1>7. NextWake(p, reference) \in Int /\ reference < NextWake(p, reference)
  BY <1>2, <1>3, <1>4
<1>8. \E date \in today .. today + 1 : NextWake(p, reference) = Wake(p, date)
  BY <1>2, <1>3
<1> QED
  BY <1>1, <1>6, <1>7, <1>8

\* "The next wake" is that: none of a weekday or a weekend is passed over.
THEOREM WakesAreNext ==
    ASSUME \A t \in Targets : t.kind = "callable" => RegularWakes(t.persona, Int)
    PROVE  Spec => []WakeIsNext
<1>1. ASSUME NEW p \in Persona, RegularWakes(p, Int), NEW m \in Int
      PROVE  LET wakes == {ToUtc(p.zone, Wake(p, date)) : date \in DateOf(m) - 1 .. DateOf(m) + 3}
                 next == ToUtc(p.zone, NextWake(p, Local(p.zone, m)))
             IN  /\ next \in wakes /\ m < next
                 /\ \A wake \in wakes : m < wake => next <= wake
  <2> DEFINE zone == p.zone
             reference == Local(zone, m)
  <2>1. zone \in Zone /\ reference \in Int /\ DateOf(m) \in Int
    BY Conversions, DateAndTime DEF Persona
  <2>2. PICK today \in DateOf(m) - 1 .. DateOf(m) + 1 : today = DateOf(reference)
    BY <2>1, LocalDates
  <2>3. PICK date \in today .. today + 1 : NextWake(p, reference) = Wake(p, date)
    BY <1>1, <2>1, <2>2, NextWakeIsNext
  <2>4. date \in DateOf(m) - 1 .. DateOf(m) + 3 /\ date \in Int
    BY <2>1, <2>2, <2>3
  <2>5. \A d \in Int : Wake(p, d) \in Int /\ ClearOfChange(zone, Wake(p, d))
    BY <1>1, AnchorsTyped DEF RegularWakes
  <2>6. \A d \in Int : m < ToUtc(zone, Wake(p, d)) <=> reference < Wake(p, d)
    <3> SUFFICES ASSUME NEW d \in Int
                 PROVE  m < ToUtc(zone, Wake(p, d)) <=> reference < Wake(p, d)
      OBVIOUS
    <3>1. Wake(p, d) \in Int /\ ClearOfChange(zone, Wake(p, d)) /\ ToUtc(zone, Wake(p, d)) \in Int
      BY <2>1, <2>5, Conversions
    <3>2. ToUtc(zone, Wake(p, d)) <= m <=> Wake(p, d) <= reference
      BY <1>1, <2>1, <3>1, ClearTimes
    <3> QED
      BY <1>1, <2>1, <3>1, <3>2
  <2>7. m < ToUtc(zone, NextWake(p, reference))
    BY <1>1, <2>1, <2>3, <2>4, <2>6, NextWakeIsNext
  <2>8. ASSUME NEW d \in Int, m < ToUtc(zone, Wake(p, d))
        PROVE  ToUtc(zone, NextWake(p, reference)) <= ToUtc(zone, Wake(p, d))
    <3>1. Wake(p, date) <= Wake(p, d)
      BY <1>1, <2>1, <2>3, <2>6, <2>8, NextWakeIsNext
    <3> QED
      BY <2>1, <2>3, <2>4, <2>5, <3>1, ClearOrder
  <2> QED
    BY <2>1, <2>3, <2>4, <2>7, <2>8
<1>2. \A t \in Targets : t.kind \in {"callable"} =>
          \A instant \in Int : ResolveAfter(t, instant) \in Int \cup {NoTime}
  BY CallableTyped
<1> DEFINE Asked == target.kind \in {"callable"} => asked \in Int
<1>3. Asked /\ Answered => WakeIsNext
  <2> SUFFICES ASSUME target.kind = "callable", target.anchor = "next_wake", target.hours = 0,
                      Asked, Answered
               PROVE  WakeIsNext
    BY DEF WakeIsNext
  <2>1. /\ target.persona \in Persona /\ target.persona.zone = target.zone
        /\ RegularWakes(target.persona, Int) /\ target.zone \in Zone
        /\ asked \in Int /\ due = Called(target, asked)
    BY TargetsAssumption, CallableTyped DEF Answered
  <2>2. /\ NextWake(target.persona, Local(target.zone, asked)) \in Int /\ Hour \in Int
    BY <2>1, Conversions, NextWakeIsNext, AnchorsTyped
  <2>3. due = ToUtc(target.zone, NextWake(target.persona, Local(target.zone, asked)))
    BY <2>1, <2>2 DEF Called
  <2> QED
    BY <1>1, <2>1, <2>3 DEF WakeIsNext
<1>4. Init => Asked
  BY DEF Init
<1>5. Answered /\ Asked /\ [Next]_vars => Asked'
  BY <1>2, AskedAtInstants
<1> QED
  BY <1>3, <1>4, <1>5, AlwaysAnswered, PTL DEF Spec

-----------------------------------------------------------------------------
(***************************************************************************)
(* A phrase means a part of a time awake that is not over.                 *)
(***************************************************************************)
LEMMA BlocksOfDays ==
    ASSUME NEW p \in Persona, NEW label \in Labels, NEW date \in Int, DayLength >= 24,
           6 * Hour <= Sleep(p, date) - Wake(p, date)
    PROVE  /\ Wake(p, date) <= Block(p, label, date).start
           /\ Block(p, label, date).start < Block(p, label, date).end
           /\ Block(p, label, date).end <= Sleep(p, date)
<1> DEFINE w == Wake(p, date)  s == Sleep(p, date)  h == Hour
<1>1. w \in Int /\ s \in Int /\ h \in Int /\ 1 <= h /\ 6 * h <= s - w
  BY AnchorsTyped, DayLengthAssumption DEF Hour
<1> HIDE DEF w, s, h
<1>2. PICK awake \in Int : awake = s - w /\ s = w + awake /\ 6 <= awake
  BY <1>1
<1>3. \A n \in {20, 21, 33, 39, 40, 45} : Part(p, date, n) = w + (n * awake) \div 60
  BY <1>2 DEF Part, w, s
<1>4. /\ 0 <= (21 * awake) \div 60 /\ (21 * awake) \div 60 < (39 * awake) \div 60
      /\ (39 * awake) \div 60 <= awake
  BY <1>2
<1>5. /\ 0 <= (33 * awake) \div 60 /\ (33 * awake) \div 60 < (45 * awake) \div 60
      /\ (45 * awake) \div 60 <= awake
  BY <1>2
<1>6. /\ 0 <= (20 * awake) \div 60 /\ (20 * awake) \div 60 < (40 * awake) \div 60
      /\ (40 * awake) \div 60 <= awake
  BY <1>2
<1>7. CASE label = "first_thing_in_the_morning"
  BY <1>1, <1>7 DEF Block, w, s, h
<1>8. CASE label = "morning"
  BY <1>1, <1>8 DEF Block, w, s, h
<1>9. CASE label = "late_morning"
  BY <1>1, <1>9 DEF Block, w, s, h
<1>10. CASE label = "wake_plus"
  BY <1>1, <1>10 DEF Block, PhraseHours, w, s, h
<1>11. CASE label = "evening"
  BY <1>1, <1>11 DEF Block, w, s, h
<1>12. CASE label = "tonight"
  BY <1>1, <1>12 DEF Block, w, s, h
<1>13. CASE label = "sleep_minus"
  BY <1>1, <1>13 DEF Block, PhraseHours, w, s, h
<1>14. CASE label = "afternoon"
  <2>1. Block(p, label, date) = [start |-> Part(p, date, 21), end |-> Part(p, date, 39)]
    BY <1>14 DEF Block
  <2> QED
    BY <1>1, <1>2, <1>3, <1>4, <2>1 DEF w, s
<1>15. CASE label = "late_afternoon"
  <2>1. Block(p, label, date) = [start |-> Part(p, date, 33), end |-> Part(p, date, 45)]
    BY <1>15 DEF Block
  <2> QED
    BY <1>1, <1>2, <1>3, <1>5, <2>1 DEF w, s
<1>16. CASE label = "middle_third"
  <2>1. Block(p, label, date) = [start |-> Part(p, date, 20), end |-> Part(p, date, 40)]
    BY <1>16 DEF Block
  <2> QED
    BY <1>1, <1>2, <1>3, <1>6, <2>1 DEF w, s
<1> QED
  BY <1>7, <1>8, <1>9, <1>10, <1>11, <1>12, <1>13, <1>14, <1>15, <1>16 DEF Labels

LEMMA ParsedIsAhead ==
    ASSUME NEW p \in Persona, NEW label \in Labels, RegularBlocks(p, label, Int),
           DayLength >= 24, NEW reference \in Int
    PROVE  \E date \in DateOf(reference) .. DateOf(reference) + 7 :
               /\ ParseForward(p, label, reference) = Block(p, label, date)
               /\ reference < Block(p, label, date).end
<1>1. PICK today \in Int : today = DateOf(reference)
  BY DateAndTime
<1>2. PICK days \in 0 .. 7 :
        /\ ParseForward(p, label, reference) = Block(p, label, today + days)
        /\ days = 7 \/ reference + days * DayLength < Block(p, label, today + days).end
  BY <1>1, PhrasesTyped
<1>3. PICK date \in Int : date = today + days
  BY <1>1, <1>2
<1>4. Block(p, label, date).end \in Int /\ Block(p, label, date).start \in Int
  BY BlocksTyped
<1>5. days * DayLength \in Nat
  BY DayLengthAssumption
<1>6. CASE days = 7
  <2>1. reference < Wake(p, date) /\ Wake(p, date) \in Int
    BY <1>1, <1>3, <1>6, WakesOfDates DEF RegularBlocks
  <2>2. /\ Wake(p, date) <= Block(p, label, date).start
        /\ Block(p, label, date).start < Block(p, label, date).end
    BY BlocksOfDays DEF RegularBlocks
  <2>3. reference < Block(p, label, date).end
    BY <1>4, <2>1, <2>2
  <2> QED
    BY <1>1, <1>2, <1>3, <2>3
<1>7. CASE days # 7
  <2>1. reference + days * DayLength < Block(p, label, date).end
    BY <1>2, <1>3, <1>7
  <2>2. reference < Block(p, label, date).end
    BY <1>4, <1>5, <2>1
  <2> QED
    BY <1>1, <1>2, <1>3, <2>2
<1> QED
  BY <1>6, <1>7

\* A phrase never means what is over, nor hours of sleep: not for night workers,
\* whose day ends on the next date, and not where "advance" gives up.
THEOREM PhrasesAreAhead ==
    ASSUME DayLength >= 24,
           \A t \in Targets : t.kind = "callable" /\ t.anchor = "phrase" =>
               RegularBlocks(t.persona, t.label, Int)
    PROVE  Spec => []PhraseIsAhead
<1>1. ASSUME NEW p \in Persona, NEW label \in Labels, RegularBlocks(p, label, Int),
             NEW m \in Int
      PROVE  LET local == ParseForward(p, label, Local(p.zone, m))
                 block == [start |-> ToUtc(p.zone, local.start), end |-> ToUtc(p.zone, local.end)]
             IN  /\ m < block.end /\ block.start < block.end
                 /\ \E date \in DateOf(m) - 1 .. DateOf(m) + 8 :
                        /\ ToUtc(p.zone, Wake(p, date)) <= block.start
                        /\ block.end <= ToUtc(p.zone, Sleep(p, date))
  <2>1. PICK zone \in Zone : zone = p.zone
    BY DEF Persona
  <2>2. PICK reference \in Int : reference = Local(zone, m)
    BY Conversions
  <2>3. PICK today \in DateOf(m) - 1 .. DateOf(m) + 1 : today = DateOf(reference)
    BY <2>2, LocalDates
  <2>4. PICK date \in today .. today + 7 :
          /\ ParseForward(p, label, reference) = Block(p, label, date)
          /\ reference < Block(p, label, date).end
    BY <1>1, <2>3, ParsedIsAhead
  <2>5. date \in Int /\ date \in DateOf(m) - 1 .. DateOf(m) + 8
    BY <2>3, <2>4, DateAndTime
  <2> DEFINE b == Block(p, label, date)
  <2>6. /\ b.start \in Int /\ b.end \in Int
        /\ Wake(p, date) \in Int /\ Sleep(p, date) \in Int
    BY <2>5, BlocksTyped, AnchorsTyped
  <2>7. Wake(p, date) <= b.start /\ b.start < b.end /\ b.end <= Sleep(p, date)
    BY <1>1, <2>5, BlocksOfDays DEF RegularBlocks
  <2>8. /\ ClearOfChange(zone, Wake(p, date)) /\ ClearOfChange(zone, Sleep(p, date))
        /\ ClearOfChange(zone, b.start) /\ ClearOfChange(zone, b.end)
        /\ Local(zone, ToUtc(zone, b.start)) = b.start
    BY <1>1, <2>1, <2>5 DEF RegularBlocks, RegularWakes
  <2> HIDE DEF b
  <2>9. m < ToUtc(zone, b.end)
    <3>1. ToUtc(zone, b.end) <= m <=> b.end <= reference
      BY <1>1, <2>2, <2>6, <2>8, ClearTimes
    <3>2. ToUtc(zone, b.end) \in Int
      BY <2>6, Conversions
    <3> QED
      BY <1>1, <2>4, <2>6, <3>1, <3>2 DEF b
  <2>10. ToUtc(zone, b.start) < ToUtc(zone, b.end)
    BY <2>6, <2>7, <2>8, ClearOrder
  <2>11. /\ ToUtc(zone, Wake(p, date)) <= ToUtc(zone, b.start)
         /\ ToUtc(zone, b.end) <= ToUtc(zone, Sleep(p, date))
    BY <2>6, <2>7, <2>8, ClearOrder
  <2>12. ParseForward(p, label, Local(p.zone, m)) = b
    BY <2>1, <2>2, <2>4 DEF b
  <2> HIDE DEF ClearOfChange
  <2> QED
    BY <2>1, <2>5, <2>9, <2>10, <2>11, <2>12
<1>2. \A t \in Targets : t.kind \in {"callable"} =>
          \A instant \in Int : ResolveAfter(t, instant) \in Int \cup {NoTime}
  BY CallableTyped
<1> DEFINE Asked == target.kind \in {"callable"} => asked \in Int
<1>3. Asked /\ Answered => PhraseIsAhead
  <2> SUFFICES ASSUME target.kind = "callable", target.anchor = "phrase", Asked, Answered
               PROVE  PhraseIsAhead
    BY DEF PhraseIsAhead
  <2>1. /\ target.persona \in Persona /\ target.persona.zone = target.zone
        /\ target.label \in Labels /\ RegularBlocks(target.persona, target.label, Int)
        /\ asked \in Int
    BY TargetsAssumption DEF Answered
  <2> QED
    BY <1>1, <2>1 DEF PhraseIsAhead, Parsed
<1>4. Init => Asked
  BY DEF Init
<1>5. Answered /\ Asked /\ [Next]_vars => Asked'
  BY <1>2, AskedAtInstants
<1> QED
  BY <1>3, <1>4, <1>5, AlwaysAnswered, PTL DEF Spec

=============================================================================
