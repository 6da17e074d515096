------------------------------ MODULE LocalTime ------------------------------
(***************************************************************************)
(* The arithmetic of datetime and zoneinfo the package relies on, modelled *)
(* from how it is used.  Instants and local times are integers, in ticks   *)
(* since a Monday's midnight; day 0 begins at 0.                           *)
(*                                                                         *)
(* A timezone changes its offset once: before the instant `change` local   *)
(* time is UTC + before, from then on UTC + after.  Where after < before   *)
(* the local clock repeats some hours, where before < after it skips some. *)
(* Datetimes of one timezone are compared and added to by their local      *)
(* time, so that a local time stands for the datetime.                     *)
(***************************************************************************)
EXTENDS Integers

CONSTANT DayLength      \* ticks of a day

ASSUME DayLengthAssumption == DayLength \in Nat \ {0}

\* An offset is less than a day (utcoffset()), no change of it exceeds a day.
Zone == {zone \in [change: Int, before: -DayLength .. DayLength,
                   after: -DayLength .. DayLength] :
            zone.after - zone.before \in -DayLength .. DayLength}
FixedZone(offset) == [change |-> 0, before |-> offset, after |-> offset]
UTC == FixedZone(0)

\* instant.astimezone(zone)
Local(zone, instant) ==
    instant + (IF instant < zone.change THEN zone.before ELSE zone.after)

\* local.astimezone(UTC), with fold = 0: a repeated time is read as the first
\* of the two, a skipped one with the offset before the change.
Larger(m, n) == IF m < n THEN n ELSE m
ToUtc(zone, local) ==
    IF local < zone.change + Larger(zone.before, zone.after)
    THEN local - zone.before
    ELSE local - zone.after

\* The second reading of the local clock, which fold = 0 never denotes.
IsRepeat(zone, instant) == ToUtc(zone, Local(zone, instant)) # instant

DateOf(local) == local \div DayLength
TimeOf(local) == local % DayLength

\* datetime.combine(date, time)
Combine(date, time) == DayLength * date + time

\* date.weekday() >= 5
IsWeekend(date) == date % 7 >= 5
=============================================================================
