----------------------------- MODULE SolarSearch -----------------------------
(***************************************************************************)
(* The search for solar events of astro/math_engine.py.  Its formulas are  *)
(* floating point and stay outside: Minutes is what they compute, for each *)
(* target and UTC date the time of the event counted from the midnight of  *)
(* that date.  It may lie on the day before or after.                      *)
(***************************************************************************)
EXTENDS LocalTime

CONSTANTS
    NoMinutes,          \* None: the sun does not reach the altitude
    NoEvent,            \* SolarEventNotFoundError
    Minutes(_, _),      \* _cached_event_minutes, _cached_transit_minutes
    SearchDays          \* search_days

ASSUME SearchAssumption ==
    /\ SearchDays \in Nat
    /\ NoEvent \notin Int

\* The instants at which the event occurs.
EventAt(target, utcDate) ==
    IF Minutes(target, utcDate) = NoMinutes THEN NoEvent
    ELSE DayLength * utcDate + Minutes(target, utcDate)

\* start_utc and end_utc of a local date: it does not contain its end.
DateStart(zone, date) == ToUtc(zone, Combine(date, 0))
InDate(zone, date, instant) ==
    DateStart(zone, date) <= instant /\ instant < DateStart(zone, date + 1)

\* candidate_dates: the UTC dates of both ends and of some hours between.
ProbedHours == {0, 6, 12, 18, 23}
CandidateDates(zone, date) ==
    {DateOf(DateStart(zone, date)), DateOf(DateStart(zone, date + 1))} \cup
    {DateOf(ToUtc(zone, Combine(date, (DayLength * hour) \div 24))) : hour \in ProbedHours}

\* Variant of EventOn: the event of a UTC date is that of the local date.
EventOnUtcDate(zone, target, date) == EventAt(target, date)

\* event_utc_datetime and solar_noon_utc_datetime: the first in order of UTC
\* dates that lies in the local date.
EventOn(zone, target, date) ==
    LET Hits(d) == EventAt(target, d) # NoEvent /\ InDate(zone, date, EventAt(target, d))
        hits == {d \in CandidateDates(zone, date) : Hits(d)}
    IN  IF hits = {} THEN NoEvent
        ELSE EventAt(target, CHOOSE d \in hits : \A e \in hits : d <= e)

\* Variant of NextSolarEvent: the search starts on the day after.
NextSolarEventFromTomorrow(after, zone, target) ==
    LET On(offset) == EventOn(zone, target, DateOf(Local(zone, after)) + offset)
        later == {offset \in 1 .. SearchDays : On(offset) # NoEvent /\ On(offset) > after}
    IN  IF later = {} THEN NoEvent
        ELSE On(CHOOSE m \in later : \A n \in later : m <= n)

\* next_solar_event_utc
NextSolarEvent(after, zone, target) ==
    LET On(offset) == EventOn(zone, target, DateOf(Local(zone, after)) + offset)
        later == {offset \in 0 .. SearchDays : On(offset) # NoEvent /\ On(offset) > after}
    IN  IF later = {} THEN NoEvent
        ELSE On(CHOOSE m \in later : \A n \in later : m <= n)
=============================================================================
