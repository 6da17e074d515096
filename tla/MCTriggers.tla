------------------------------ MODULE MCTriggers ------------------------------
(***************************************************************************)
(* A finite instance of Triggers for TLC: ten days from a Monday in half   *)
(* hours, so that every target is asked for on weekdays, over a weekend    *)
(* and on the Sunday on which two of the timezones change their offset.    *)
(***************************************************************************)
EXTENDS Triggers

CONSTANT None

Tokyo == FixedZone(9 * 2)
Samoa == FixedZone(-11 * 2)
\* Back at 03:00 local time on Sunday, forward at 02:00.
Berlin == [change |-> 6 * 48 + 2, before |-> 4, after |-> 2]
NewYork == [change |-> 6 * 48 + 14, before |-> -10, after |-> -8]

\* Events that reach and leave local midnight, earlier or later every other
\* date; one whose time lies on the UTC date before; one that a polar night
\* interrupts; one that stops.
MCMinutes(event, date) ==
    CASE event = "dusk"  -> 46 - date \div 2
      [] event = "dawn"  -> 40 + date \div 2
      [] event = "noon"  -> 1 - (date % 3)
      [] event = "polar" -> IF date \in 2 .. 5 THEN None ELSE 30
      [] event = "last"  -> IF date > 2 THEN None ELSE 47

Worker == [wake |-> 13, sleep |-> 45, wakeShift |-> 2, sleepShift |-> 2]
NightShift == [Worker EXCEPT !.wake = 26, !.sleep = 10]
Of(persona, zone) == [wake |-> persona.wake, sleep |-> persona.sleep, zone |-> zone,
                      wakeShift |-> persona.wakeShift, sleepShift |-> persona.sleepShift]

Clocks ==
    [kind: {"clock"}, zone: {UTC, Tokyo, Berlin, NewYork}, value: {0, 3, 4, 5, 24, 47}]
Suns ==
    [kind: {"solar"}, zone: {UTC, Tokyo, Samoa, Berlin, NewYork},
     event: {"dusk", "dawn", "noon", "polar", "last"}]
Calls(persona, zone) ==
    [kind: {"callable"}, zone: {zone}, persona: {Of(persona, zone)},
     anchor: {"wake", "next_wake", "next_sleep"}, hours: {0, 2}]
Phrases(persona, zone) ==
    [kind: {"callable"}, zone: {zone}, persona: {Of(persona, zone)},
     anchor: {"phrase"}, label: Labels]
Others == {[kind |-> "once", at |-> 100], [kind |-> "text"]}

MCTargets ==
    Clocks \cup Suns \cup Others \cup
    UNION {Calls(persona, zone) \cup Phrases(persona, zone) :
               persona \in {Worker, NightShift}, zone \in {Tokyo, Berlin}}

\* "2 hours after waking" of a StandardWorker (README.md:270-273), here in the
\* default timezone.
DocumentedTargets ==
    {[kind |-> "callable", zone |-> UTC, persona |-> Of(Worker, UTC),
      anchor |-> "wake", hours |-> 2]}

\* The hypotheses of the theorems, on the dates that a run computes with.
ASSUME RegularAssumption ==
    \A t \in Targets :
        RegularTarget(t, IF t.kind = "solar" THEN -2 .. 15 ELSE -1 .. 19)
=============================================================================
