------------------------------- MODULE Triggers -------------------------------
(***************************************************************************)
(* A job's trigger in use: resolve_after is asked for the next occurrence  *)
(* whenever an occurrence has been executed (_schedule_next) and, between  *)
(* two occurrences, by every recalibration (_refresh_job), which discards  *)
(* the answer of the call before.                                          *)
(***************************************************************************)
EXTENDS Schedules

CONSTANTS
    Targets,        \* the target of the job is one of them
    MaxTime         \* bound of a run

ASSUME MaxTimeAssumption == MaxTime \in Nat
ASSUME TargetsAssumption ==
    \A t \in Targets :
        /\ t.kind \in {"clock", "solar", "callable", "once", "text"}
        /\ t.kind \in {"clock", "solar", "callable"} => t.zone \in Zone
        /\ t.kind = "clock" => t.value \in 0 .. DayLength - 1
        /\ t.kind = "once" => t.at \in Int
        /\ t.kind = "callable" =>
               /\ t.persona \in Persona /\ t.persona.zone = t.zone
               /\ \/ t.anchor \in {"wake", "next_wake", "next_sleep"} /\ t.hours \in Int
                  \/ t.anchor = "phrase" /\ t.label \in Labels

VARIABLES
    target,         \* trigger.target
    asked,          \* the instant of the last call of resolve_after
    due             \* its answer

vars == <<target, asked, due>>

Init ==
    /\ target \in Targets
    /\ asked = 0
    /\ due = ResolveAfter(target, 0)

Ask(instant) ==
    /\ instant <= MaxTime
    /\ asked' = instant
    /\ due' = ResolveAfter(target, instant)
    /\ UNCHANGED target

\* _schedule_next, as soon as the occurrence is over.
ScheduleNext ==
    /\ due # NoTime
    /\ Ask(Larger(asked, due))

\* _refresh_job, a tick after the last call; several of them make up any delay.
RefreshJob == Ask(asked + 1)

Next == ScheduleNext \/ RefreshJob

Spec == Init /\ [][Next]_vars

-----------------------------------------------------------------------------
\* What the theorems of TriggersProofs ask of timezones, events and personas, on
\* the dates given: that no midnight, wake, sleep or block begins or ends within
\* the hours that a change of offset skips or repeats,
ClearOfChange(zone, local) ==
    LET first == zone.change + zone.before
        second == zone.change + zone.after
    IN  ~(first < local /\ local < second) /\ ~(second < local /\ local < first)

\* that events come in the order of their UTC dates, and the candidates of a
\* local date include all that lie in it,
RegularEvents(zone, event, dates) ==
    \A date \in dates :
        /\ EventAt(event, date) \in Int \cup {NoEvent}
        /\ ClearOfChange(zone, Combine(date, 0))
        /\ \A other \in dates : EventAt(event, other) # NoEvent =>
               /\ InDate(zone, date, EventAt(event, other)) => other \in CandidateDates(zone, date)
               /\ date <= other /\ EventAt(event, date) # NoEvent
                      => EventAt(event, date) <= EventAt(event, other)

\* that a wake is on its own date,
RegularWakes(persona, dates) ==
    /\ persona.wake < DayLength
    /\ persona.wake + persona.wakeShift \in 0 .. DayLength - 1
    /\ \A date \in dates : ClearOfChange(persona.zone, Wake(persona, date))

\* and that a day has six hours awake and the clock reads the start of a block.
RegularBlocks(persona, label, dates) ==
    /\ RegularWakes(persona, dates)
    /\ \A date \in dates :
           /\ 6 * Hour <= Sleep(persona, date) - Wake(persona, date)
           /\ ClearOfChange(persona.zone, Sleep(persona, date))
           /\ ClearOfChange(persona.zone, Block(persona, label, date).start)
           /\ ClearOfChange(persona.zone, Block(persona, label, date).end)
           /\ LET start == Block(persona, label, date).start
              IN  Local(persona.zone, ToUtc(persona.zone, start)) = start

RegularTarget(t, dates) ==
    /\ t.kind = "solar" => RegularEvents(t.zone, t.event, dates)
    /\ t.kind = "callable" => RegularWakes(t.persona, dates)
    /\ t.kind = "callable" /\ t.anchor = "phrase" => RegularBlocks(t.persona, t.label, dates)

-----------------------------------------------------------------------------
\* A time of day is due at the next instant at which the local clock reads it.
\* On the day the offset changes it is due at the first of two readings, and a
\* reading that the clock skips is made up for as soon as the clock goes on.
\* (Asked in the repeated hours the code may answer with the past.)
Reads(zone, value, instant) == TimeOf(Local(zone, instant)) = value
JustChanged(zone, instant) ==
    instant - zone.change \in
        0 .. Larger(zone.after - zone.before, zone.before - zone.after) - 1
ClockIsNext ==
    target.kind = "clock" =>
        LET zone == target.zone
            First(instant) ==
                Reads(zone, target.value, instant) /\ ~IsRepeat(zone, instant)
        IN  \/ IsRepeat(zone, asked)
            \/ /\ asked < due
               /\ \A instant \in asked + 1 .. due - 1 : ~First(instant)
               /\ First(due) \/ JustChanged(zone, due)

\* A solar target is due at an event, however far from its UTC date, and no
\* event is passed over, nor given up for, that is the first of its local date:
\* neither at a local midnight that the event moves across nor over a polar
\* night that ends within the days of the search.
Events ==
    {EventAt(target.event, date) :
        date \in DateOf(asked) - 2 .. DateOf(asked) + SearchDays + 3} \ {NoEvent}
SolarIsNext ==
    target.kind = "solar" =>
        LET zone == target.zone
            LocalDate(instant) == DateOf(Local(zone, instant))
            FirstOfDate(event) ==
                \A other \in Events : LocalDate(other) = LocalDate(event) => event <= other
            end == IF due = NoTime THEN DateStart(zone, LocalDate(asked) + SearchDays + 1)
                   ELSE due
        IN  /\ due # NoTime => due \in Events /\ asked < due
            /\ \A event \in Events :
                   asked < event /\ event < end => ~FirstOfDate(event)

\* The next wake is the first of all wakes, of weekdays and weekends, that is
\* after the reference.
WakeIsNext ==
    target.kind = "callable" /\ target.anchor = "next_wake" /\ target.hours = 0 =>
        LET wakes == {ToUtc(target.zone, Wake(target.persona, date)) :
                          date \in DateOf(asked) - 1 .. DateOf(asked) + 3}
        IN  /\ due \in wakes /\ asked < due
            /\ \A wake \in wakes : asked < wake => due <= wake

\* What a phrase means after a reference is not over, and is part of the time
\* awake of a day, be it that of a night worker.
PhraseIsAhead ==
    target.kind = "callable" /\ target.anchor = "phrase" =>
        LET block == Parsed(target, asked)
            Utc(local) == ToUtc(target.zone, local)
        IN  /\ asked < block.end
            /\ block.start < block.end
            /\ \E date \in DateOf(asked) - 1 .. DateOf(asked) + 8 :
                   /\ Utc(Wake(target.persona, date)) <= block.start
                   /\ block.end <= Utc(Sleep(target.persona, date))

\* A recalibration, at midnight or at any time, does not move an occurrence that
\* is still ahead.  This excepts times of day and anchors right after a change of
\* offset; events when that change is one of the local date, too; an anchor of the
\* day before that is still ahead, which is forgotten at midnight (see SleepIsNext
\* below); a time after the next anchor (once that anchor has passed the one after
\* it counts); and phrases, for which see PhraseIsNext.
DateJumps(zone) ==
    /\ asked = zone.change
    /\ DateOf(asked + zone.before) # DateOf(asked + zone.after)
AnchorOfYesterday ==
    LET yesterday == DateOf(Local(target.zone, asked)) - 1
    IN  IF target.anchor = "next_sleep"
        THEN Sleep(target.persona, yesterday)
        ELSE Wake(target.persona, yesterday) + target.hours * Hour
Unsteady ==
    \/ target.kind = "clock" /\ JustChanged(target.zone, asked)
    \/ target.kind = "solar" /\ DateJumps(target.zone)
    \/ /\ target.kind = "callable"
       /\ \/ target.anchor = "phrase"
          \/ JustChanged(target.zone, asked)
          \/ Local(target.zone, asked) < AnchorOfYesterday
          \/ target.anchor \in {"next_wake", "next_sleep"} /\ target.hours # 0
RecalibrationKeeps ==
    [][RefreshJob /\ due # NoTime /\ due > asked' /\ ~Unsteady'
           => due' = due]_vars

-----------------------------------------------------------------------------
\* "Resolve the next trigger time after the given datetime." (scheduler.py:133)
\* The function of README.md:270-273, a time after the wake of the day asked
\* about, lies in the past for the rest of that day: the job is due again as soon
\* as it has run.
ResolvesLater == due # NoTime => asked < due

\* "Find the next UTC occurrence of a solar target after a datetime."
\* (math_engine.py:349)  The second event of a local date is passed over.
SolarSkipsNone ==
    target.kind = "solar" /\ due # NoTime =>
        \A event \in Events : ~(asked < event /\ event < due)

\* "Return the next sleep anchor strictly after *reference*." (profile.py:105)
\* After midnight that of the evening before is forgotten: recalibrated every
\* midnight, a job due at a sleep after midnight never runs.
SleepIsNext ==
    target.kind = "callable" /\ target.anchor = "next_sleep" /\ target.hours = 0 =>
        \A date \in DateOf(asked) - 1 .. DateOf(asked) + 1 :
            LET sleep == ToUtc(target.zone, Sleep(target.persona, date))
            IN  ~(asked < sleep /\ sleep < due)

\* PersonaParser.parse: while the block is over "advance" the reference
\* (parser.py:47).  The next day's block is compared with the advanced reference
\* and is over, too: "morning" in the afternoon is that of a week later.
PhraseIsNext ==
    target.kind = "callable" /\ target.anchor = "phrase" =>
        \A date \in DateOf(asked) - 1 .. DateOf(asked) + 8 :
            LET end == ToUtc(target.zone, Block(target.persona, target.label, date).end)
            IN  ~(asked < end /\ end < Parsed(target, asked).end)
=============================================================================
