------------------------------- MODULE Personas -------------------------------
(***************************************************************************)
(* PersonaProfile (personas/profile.py) and PersonaParser (personas/       *)
(* parser.py): the anchors of a day, and what a phrase means after a       *)
(* reference.  All of it computes in the local time of the profile.        *)
(*                                                                         *)
(* A phrase is named by the label of its block; "wake_plus" and            *)
(* "sleep_minus" are for one number of hours.                              *)
(***************************************************************************)
EXTENDS LocalTime

Hour == DayLength \div 24
Persona == [wake: Nat, sleep: Nat, wakeShift: Int, sleepShift: Int, zone: Zone]

-----------------------------------------------------------------------------
\* wake_datetime, of the local date of the reference.
Wake(p, date) ==
    Combine(date, p.wake) + (IF IsWeekend(date) THEN p.wakeShift ELSE 0)

\* sleep_datetime: on the day of the wake, or the next when it is not later.
Sleep(p, date) ==
    LET shift == IF IsWeekend(date) THEN p.sleepShift ELSE 0
        candidate == Combine(DateOf(Wake(p, date)), p.sleep) + shift
    IN  IF candidate <= Wake(p, date) THEN candidate + DayLength ELSE candidate

\* Variant of NextWake: tomorrow's wake is today's a day later.
NextWakeUnshifted(p, reference) ==
    LET today == Wake(p, DateOf(reference))
    IN  IF today > reference THEN today ELSE today + DayLength

\* next_wake_datetime and next_sleep_datetime look at two days.
NextWake(p, reference) ==
    LET today == DateOf(reference)
    IN  IF Wake(p, today) > reference THEN Wake(p, today) ELSE Wake(p, today + 1)
NextSleep(p, reference) ==
    LET today == DateOf(reference)
    IN  IF Sleep(p, today) > reference THEN Sleep(p, today) ELSE Sleep(p, today + 1)

\* proportional_block: sixtieths of the time awake, rounded down to a tick.
Part(p, date, sixtieths) ==
    Wake(p, date) + (sixtieths * (Sleep(p, date) - Wake(p, date))) \div 60

-----------------------------------------------------------------------------
\* _parse: the block of a phrase on the date of the reference.
Labels == {"first_thing_in_the_morning", "morning", "late_morning", "afternoon",
           "late_afternoon", "evening", "tonight", "middle_third", "wake_plus",
           "sleep_minus"}
PhraseHours == 2
Block(p, label, date) ==
    LET From(a, b) == [start |-> Wake(p, date) + a, end |-> Wake(p, date) + b]
        Until(a, b) == [start |-> Sleep(p, date) - a, end |-> Sleep(p, date) - b]
        Parts(a, b) == [start |-> Part(p, date, a), end |-> Part(p, date, b)]
    IN  CASE label = "first_thing_in_the_morning" -> From(0, (3 * Hour) \div 2)
          [] label = "morning"        -> From(Hour, 4 * Hour)
          [] label = "late_morning"   -> From(4 * Hour, 6 * Hour)
          [] label = "afternoon"      -> Parts(21, 39)
          [] label = "late_afternoon" -> Parts(33, 45)
          [] label = "evening"        -> Until(4 * Hour, Hour)
          [] label = "tonight"        -> Until(3 * Hour, 0)
          [] label = "middle_third"   -> Parts(20, 40)
          [] label = "wake_plus"      -> From(PhraseHours * Hour, (PhraseHours + 1) * Hour)
          [] label = "sleep_minus"    -> Until(PhraseHours * Hour, 0)

\* Variant of ParseForward: today's block, over or not.
ParseToday(p, label, reference) == Block(p, label, DateOf(reference))

\* _parse_forward: as long as the block is over, the reference advances by a
\* day, seven times at most.  The block is compared with the advanced reference.
ParseForward(p, label, reference) ==
    LET Over(days) ==
            Block(p, label, DateOf(reference) + days).end <= reference + days * DayLength
        Stops(days) == days = 7 \/ ~Over(days)
        stop == CHOOSE m \in 0 .. 7 : Stops(m) /\ \A n \in 0 .. 7 : Stops(n) => m <= n
    IN  Block(p, label, DateOf(reference) + stop)
=============================================================================
