------------------------------ MODULE TimeSlots ------------------------------
(***************************************************************************)
(* The calendar arithmetic of the web client, web/src/lib/time.ts.         *)
(* Instants are whole ticks of a quarter of an hour, the finest            *)
(* granularity, counted from a midnight; there are no changes between      *)
(* summer and winter time.                                                 *)
(***************************************************************************)
EXTENDS Integers, Sequences, FiniteSets

CONSTANT DayHours   \* hours in a day: 24, or fewer to keep an instance small

TicksPerHour == 4
DayTicks == DayHours * TicksPerHour

\* "15min", "30min" and "1hour".
Granularities == {1, 2, TicksPerHour}

Hour(t) == (t \div TicksPerHour) % DayHours
Day(t) == t \div DayTicks

\* Daily hours that the grid leaves out: from hour "from" until hour "to".
HiddenRange == [from : 0 .. DayHours - 1, to : 0 .. DayHours - 1]
IsHidden(t, hidden) == \E r \in hidden : r.from <= Hour(t) /\ Hour(t) < r.to

\* The elements of a finite set from first to last, where R holds who comes
\* before whom, and of a set of numbers from the least on.
InOrder(S, R) ==
    [k \in 1 .. Cardinality(S) |-> CHOOSE x \in S : Cardinality({y \in S : <<y, x>> \in R}) = k - 1]
Ascending(S) == InOrder(S, {p \in S \X S : p[1] < p[2]})

\* The grid's columns, counted from the event's start and not from the hour.
GenerateTimeSlots(start, end, gran, hidden) ==
    Ascending({t \in start .. end - 1 : (t - start) % gran = 0 /\ ~IsHidden(t, hidden)})

\* Round the minutes of an instant to the nearest multiple of the granularity,
\* half way up; the hour is counted from midnight, so the result need not be
\* on the grid of an event that starts off the hour.
SnapToGranularity(t, gran) ==
    LET minute == t % TicksPerHour
    IN  t - minute + ((minute + gran \div 2) \div gran) * gran

\* The midnights of the calendar days an event touches.
EventDays(start, end) == {d \in {k * DayTicks : k \in 0 .. Day(end)} : d + DayTicks > start /\ d < end}

=============================================================================
