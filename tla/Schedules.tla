------------------------------ MODULE Schedules ------------------------------
(***************************************************************************)
(* LazySchedule.resolve_after (context/scheduler.py): the instant at which *)
(* a target is due next, NoTime where it raises ScheduleError or finds no  *)
(* event.                                                                  *)
(*                                                                         *)
(* A callable target is a function of the user's; here are those for which *)
(* personas are made: a time after an anchor, and the block of a phrase.   *)
(* `zone` is the timezone of the schedule, or that of the persona.         *)
(***************************************************************************)
EXTENDS SolarSearch, Personas

NoTime == NoEvent

\* Variant of NextTimeAfter: a time that is now is not in the past.
NextTimeFrom(after, value, zone) ==
    LET localAfter == Local(zone, after)
        candidate == Combine(DateOf(localAfter), value)
    IN  ToUtc(zone, IF candidate < localAfter THEN candidate + DayLength ELSE candidate)

\* _next_time_after
NextTimeAfter(after, value, zone) ==
    LET localAfter == Local(zone, after)
        candidate == Combine(DateOf(localAfter), value)
    IN  ToUtc(zone, IF candidate <= localAfter THEN candidate + DayLength ELSE candidate)

\* The block a phrase means; PersonaParser.parse converts it to UTC.
Parsed(target, after) ==
    LET block == ParseForward(target.persona, target.label, Local(target.zone, after))
    IN  [start |-> ToUtc(target.zone, block.start), end |-> ToUtc(target.zone, block.end)]

\* What a callable target returns: a time after an anchor, or the start of a
\* block.
Called(target, after) ==
    LET reference == Local(target.zone, after)
        Shifted(anchor) == ToUtc(target.zone, anchor + target.hours * Hour)
    IN  CASE target.anchor = "wake"   -> Shifted(Wake(target.persona, DateOf(reference)))
          [] target.anchor = "next_wake"  -> Shifted(NextWake(target.persona, reference))
          [] target.anchor = "next_sleep" -> Shifted(NextSleep(target.persona, reference))
          [] target.anchor = "phrase" -> Parsed(target, after).start

ResolveAfter(target, after) ==
    CASE target.kind = "solar"  -> NextSolarEvent(after, target.zone, target.event)
      [] target.kind = "once"   -> IF target.at <= after THEN NoTime ELSE target.at
      [] target.kind = "clock"  -> NextTimeAfter(after, target.value, target.zone)
      [] target.kind = "callable" -> Called(target, after)
      [] target.kind = "text"   -> NoTime
=============================================================================
