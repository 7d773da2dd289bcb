------------------------------ MODULE Calendar ------------------------------
(***************************************************************************)
(* The local days of internal/dashboard/timezone.go, the two-hour windows  *)
(* of home.go and the windows that internal/dashboard/home/build.go cuts   *)
(* out of a range of dates.                                                *)
(*                                                                         *)
(* An instant is a number of hours in UTC and a date the number of a day.  *)
(* A zone has one transition: `before' and `after' are its offsets and     *)
(* `at' is the instant between them.                                       *)
(***************************************************************************)
EXTENDS Integers, Sequences, SequencesExt

CONSTANTS
    Zones,      \* records [before, after, at]
    FirstDates, \* the dates at which a range begins
    Lengths,    \* the numbers of days of a range
    MonthDays   \* the length of every month

ASSUME CalendarAssumption ==
    /\ Zones \subseteq [before: Int, after: Int, at: Int]
    /\ FirstDates \subseteq Nat /\ Lengths \subseteq Nat \ {0} /\ MonthDays \in Nat \ {0}

DayHours == 24

VARIABLES
    zone, range,    \* the query: a zone and its first and last dates
    progress,       \* "count", "cut", "done" or "refused"
    day, days,      \* the loop that counts the days
    bounds          \* the boundaries cut so far

calendarVars == <<zone, range, progress, day, days, bounds>>
-----------------------------------------------------------------------------
(* Go's time package *)

ZoneOffset(z, u) == IF u < z.at THEN z.before ELSE z.after
DateOf(z, u) == (u + ZoneOffset(z, u)) \div DayHours
ClockOf(z, u) == (u + ZoneOffset(z, u)) % DayHours
SameRegime(z, u, w) == u < z.at <=> w < z.at

\* time.Date: the offset at the wall clock read as UTC, corrected once.
GoDate(z, date, clock) ==
    LET naive == date * DayHours + clock
        utc == naive - ZoneOffset(z, naive)
    IN IF ZoneOffset(z, naive) = 0 \/ SameRegime(z, naive, utc) THEN utc ELSE naive - ZoneOffset(z, utc)

AddDate(z, u, n) == GoDate(z, DateOf(z, u) + n, ClockOf(z, u))
-----------------------------------------------------------------------------
(* timezone.go and home.go *)

DayOf(z, u) ==
    LET start == GoDate(z, DateOf(z, u), 0) IN [start |-> start, end |-> AddDate(z, start, 1)]

PreviousDay(z, d) == [start |-> AddDate(z, d.start, -1), end |-> d.start]

LastDays(z, now, n) ==
    LET today == DayOf(z, now)
    IN IF n <= 1 THEN today ELSE [start |-> AddDate(z, today.start, -(n - 1)), end |-> today.end]

TwoHours == 2
TwoHourWindows(d) ==
    [i \in 1..((d.end - d.start + TwoHours - 1) \div TwoHours) |->
        [start |-> d.start + (i - 1) * TwoHours,
         end |-> IF d.start + i * TwoHours > d.end THEN d.end ELSE d.start + i * TwoHours]]

\* The number of the window, an instant outside the day in the nearest one.
TwoHourIndex(d, u, n) ==
    LET i == (u - d.start) \div TwoHours + 1
    IN IF u < d.start THEN 1 ELSE IF i > n THEN n ELSE i

\* The days of breakdown.go's rows, one after the other from the first.
NextDay(z, d) == [start |-> d.end, end |-> AddDate(z, d.end, 1)]
-----------------------------------------------------------------------------
(* queryWindows *)

Start == GoDate(zone, range.first, 0)
LastStart == GoDate(zone, range.last, 0)
RangeEnd == AddDate(zone, LastStart, 1)
MaxRange == 399

Unit(n) == CASE n = 1 -> [unit |-> "hour", size |-> 2]
             [] n = 2 -> [unit |-> "hour", size |-> 6]
             [] n \in 3..31 -> [unit |-> "day", size |-> 1]
             [] n \in 32..120 -> [unit |-> "week", size |-> 7]
             [] OTHER -> [unit |-> "month", size |-> 1]

Earlier(u, w) == IF u < w THEN u ELSE w

\* Mutant: a window of hours goes on beyond the midnight.
HourWindowUncut(u, size) == u + size

\* A window of hours ends at the local midnight at the latest.
HourWindow(u, size) == Earlier(u + size, GoDate(zone, DateOf(zone, u) + 1, 0))

MonthWindow(u) == GoDate(zone, (DateOf(zone, u) \div MonthDays + 1) * MonthDays, 0)

NextBound(u) ==
    LET w == Unit(days)
    IN Earlier(RangeEnd,
               CASE w.unit = "hour" -> HourWindow(u, w.size)
                 [] w.unit = "month" -> MonthWindow(u)
                 [] OTHER -> AddDate(zone, u, w.size))

CalendarInit ==
    /\ zone \in Zones
    /\ range \in {[first |-> f, last |-> f + n - 1] : f \in FirstDates, n \in Lengths}
    /\ progress = IF LastStart > AddDate(zone, Start, MaxRange) THEN "refused" ELSE "count"
    /\ day = Start /\ days = 1
    /\ bounds = <<>>

CountDay ==
    /\ progress = "count" /\ day < LastStart
    /\ day' = AddDate(zone, day, 1) /\ days' = days + 1
    /\ UNCHANGED <<zone, range, progress, bounds>>

ChooseUnit ==
    /\ progress = "count" /\ day >= LastStart
    /\ progress' = "cut" /\ bounds' = <<Start>>
    /\ UNCHANGED <<zone, range, day, days>>

CutWindow ==
    /\ progress = "cut" /\ Last(bounds) < RangeEnd
    /\ bounds' = Append(bounds, NextBound(Last(bounds)))
    /\ UNCHANGED <<zone, range, progress, day, days>>

AllCut ==
    /\ progress = "cut" /\ Last(bounds) >= RangeEnd
    /\ progress' = "done"
    /\ UNCHANGED <<zone, range, day, days, bounds>>

CalendarNext == CountDay \/ ChooseUnit \/ CutWindow \/ AllCut
CalendarSpec == CalendarInit /\ [][CalendarNext]_calendarVars
-----------------------------------------------------------------------------
(* Properties *)

\* Every window ends after it begins: the loop of queryWindows gets on.
WindowsAdvance == \A i \in 1..(Len(bounds) - 1) : bounds[i] < bounds[i + 1]

Midnight(date) == GoDate(zone, date, 0)

\* Once the range is cut, its windows lie end to end from the first
\* midnight to the one after the last day, no window of hours crosses a
\* midnight, and the windows of days are the dates that were asked for.
WindowsCoverRange ==
    LET w == Unit(days) IN
    /\ days = range.last - range.first + 1
    /\ bounds[1] = Midnight(range.first) /\ Last(bounds) = Midnight(range.last + 1)
    /\ w.unit = "hour" =>
         /\ \A i \in 1..(Len(bounds) - 1) : bounds[i + 1] - bounds[i] <= w.size
         /\ \A d \in range.first..range.last : Midnight(d) \in Range(bounds)
    /\ w.unit = "day" => \A i \in 1..days : bounds[i] = Midnight(range.first + i - 1)

\* Every hour of the first day belongs to that day alone, to one of its
\* two-hour windows, and the days next to it meet it without gap or overlap.
DaysMeet ==
    LET today == DayOf(zone, Start)
        windows == TwoHourWindows(today)
    IN \A u \in today.start..(today.end - 1) :
         /\ DayOf(zone, u) = today
         /\ DayOf(zone, today.end).start = today.end /\ NextDay(zone, today) = DayOf(zone, today.end)
         /\ PreviousDay(zone, today) = DayOf(zone, today.start - 1)
         /\ LastDays(zone, u, 2) = [start |-> DayOf(zone, today.start - 1).start, end |-> today.end]
         /\ LET w == windows[TwoHourIndex(today, u, Len(windows))] IN u \in w.start..(w.end - 1)

\* Between two readings of the clock there is no midnight.
NoMidnight(from, to) == (from - 1) \div DayHours = (to - 1) \div DayHours

\* The days of a zone all begin at midnight, once, and Go finds it: its change
\* neither skips a midnight nor comes back to one, unless Go takes the earlier.
BeginsAtMidnight(z) ==
    LET from == z.at + z.before
        to == z.at + z.after
    IN  /\ from < to => NoMidnight(from, to)
        /\ to < from => NoMidnight(IF z.after < 0 THEN to + 1 ELSE to, from)

AllBeginAtMidnight == \A z \in Zones : BeginsAtMidnight(z)

\* In a zone whose days all begin at midnight, the windows of a query tile
\* its days, also over a day of 23 or 25 hours.
WindowsTile ==
    /\ WindowsAdvance
    /\ progress = "done" => WindowsCoverRange /\ DaysMeet
=============================================================================
