------------------------------ MODULE Calendar ------------------------------
(***************************************************************************)
(* Dates and recurrence rules (add_months and next_occurrence in           *)
(* src/server/src/domain/events.rs).  A date is a day number, and the      *)
(* calendar is the list of the days on which a month begins, so that a     *)
(* small calendar keeps what the code depends on: months of different      *)
(* lengths, to whose last day a monthly rule clamps.                       *)
(***************************************************************************)
EXTENDS Integers, Sequences

CONSTANTS
    FirstDay,     \* FirstDay[m]: the first day of month m; the last entry closes the calendar
    DaysInWeek    \* 7 in the code

Months == 1..(Len(FirstDay) - 1)
Days == FirstDay[1]..(FirstDay[Len(FirstDay)] - 1)

ASSUME CalendarAssumption ==
    /\ FirstDay \in Seq(Nat)
    /\ Len(FirstDay) > 1
    /\ FirstDay[1] > 0
    /\ \A m, n \in 1..Len(FirstDay) : m < n => FirstDay[m] < FirstDay[n]
    /\ \A d \in Days : \E m \in Months : FirstDay[m] <= d /\ d < FirstDay[m + 1]
    /\ DaysInWeek \in Nat \ {0}

\* The day after the calendar's last: what lies beyond is one day.
Never == FirstDay[Len(FirstDay)]

MonthOf(d) == CHOOSE m \in Months : FirstDay[m] <= d /\ d < FirstDay[m + 1]
DayOf(d) == d - FirstDay[MonthOf(d)] + 1
MonthLength(m) == FirstDay[m + 1] - FirstDay[m]

\* add_months: the day is clamped to the length of the month it falls in.
AddMonths(d, n) ==
    LET m == MonthOf(d) + n
    IN  IF m \notin Months THEN Never
        ELSE FirstDay[m] - 1 + (IF DayOf(d) <= MonthLength(m) THEN DayOf(d)
                                                              ELSE MonthLength(m))

AddDays(d, n) == IF d + n \in Days THEN d + n ELSE Never

Frequencies == {"daily", "weekly", "monthly"}

\* next_occurrence: the rule applied to the occurrence before, not to the start.
NextOccurrence(d, frequency, interval) ==
    CASE frequency = "daily"   -> AddDays(d, interval)
      [] frequency = "weekly"  -> AddDays(d, DaysInWeek * interval)
      [] frequency = "monthly" -> AddMonths(d, interval)
=============================================================================
