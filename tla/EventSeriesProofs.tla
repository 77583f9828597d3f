------------------------- MODULE EventSeriesProofs --------------------------
(***************************************************************************)
(* The recurrence rules and the events of a club, for every calendar.  A   *)
(* rule moves forward, so that the loop of materialize_series ends, and a  *)
(* monthly rule lands on its day or, in a shorter month, on the last day   *)
(* before it.                                                              *)
(*                                                                         *)
(* Of any series, requests and bounds, whatever overlaps or stops          *)
(* half-way: nothing is deleted before its time, an event is a whole       *)
(* number of steps of its rule from the start or, after a month too short  *)
(* for the day, earlier in the month of that step, and a watermark is      *)
(* never ahead of the events.  Of requests served one at a time: a date is *)
(* generated once, a listing generates what is due and clears the past, a  *)
(* game keeps its event, and nothing is added to a cancelled series.       *)
(***************************************************************************)
EXTENDS EventSeries, FiniteSetTheorems, SequenceTheorems, TLAPS

-----------------------------------------------------------------------------
\* The rules.

LEMMA MonthOfDay ==
    ASSUME NEW d \in Days
    PROVE  /\ MonthOf(d) \in Months
           /\ FirstDay[MonthOf(d)] <= d /\ d < FirstDay[MonthOf(d) + 1]
BY CalendarAssumption DEF MonthOf

LEMMA FirstDays ==
    /\ Len(FirstDay) \in Nat /\ Len(FirstDay) > 1
    /\ \A m \in 1..Len(FirstDay) : FirstDay[m] \in Nat
    /\ \A m \in Months : m \in Nat /\ m \in 1..Len(FirstDay) /\ m + 1 \in 1..Len(FirstDay)
<1>1. FirstDay \in Seq(Nat) /\ Len(FirstDay) > 1
  BY CalendarAssumption
<1>. HIDE DEF Days
<1>. QED BY <1>1 DEF Months

LEMMA FirstDaysGrow ==
    ASSUME NEW m \in 1..Len(FirstDay), NEW n \in 1..Len(FirstDay), m <= n
    PROVE  FirstDay[m] <= FirstDay[n]
<1>1. FirstDay[m] \in Nat /\ FirstDay[n] \in Nat
  BY FirstDays
<1>2. CASE m = n
  BY <1>1, <1>2
<1>3. CASE m # n
  <2>1. m < n
    BY <1>3
  <2>2. FirstDay[m] < FirstDay[n]
    BY <2>1, CalendarAssumption
  <2>. QED BY <1>1, <2>2
<1>. QED BY <1>2, <1>3

LEMMA AddDaysMovesOn ==
    ASSUME NEW d \in Days, NEW n \in Nat \ {0}
    PROVE  AddDays(d, n) \in Days \cup {Never} /\ d < AddDays(d, n)
<1>1. FirstDay[1] \in Nat /\ FirstDay[Len(FirstDay)] \in Nat
  BY FirstDays, CalendarAssumption
<1>. QED BY <1>1 DEF AddDays, Days, Never

LEMMA DayOfDay ==
    ASSUME NEW d \in Days
    PROVE  d \in Nat /\ DayOf(d) \in Nat /\ 1 <= DayOf(d)
<1>. DEFINE first == FirstDay[MonthOf(d)]
<1>1. FirstDay[1] \in Nat /\ FirstDay[Len(FirstDay)] \in Nat
  BY FirstDays
<1>2. d \in Nat
  BY <1>1 DEF Days
<1>3. first \in Nat /\ first <= d
  BY MonthOfDay, FirstDays
<1>4. DayOf(d) = d - first + 1
  BY DEF DayOf
<1>. HIDE DEF first
<1>. QED BY <1>2, <1>3, <1>4

LEMMA AddMonthsMovesOn ==
    ASSUME NEW d \in Days, NEW n \in Nat \ {0}
    PROVE  AddMonths(d, n) \in Days \cup {Never} /\ d < AddMonths(d, n)
<1>. DEFINE m == MonthOf(d) + n
<1>1. /\ MonthOf(d) \in Months
      /\ FirstDay[MonthOf(d)] <= d /\ d < FirstDay[MonthOf(d) + 1]
  BY MonthOfDay
<1>2. d \in Nat /\ MonthOf(d) \in Nat /\ m \in Nat
  <2>1. FirstDay[1] \in Nat /\ FirstDay[Len(FirstDay)] \in Nat
    BY FirstDays
  <2>2. d \in Nat
    BY <2>1 DEF Days
  <2>3. MonthOf(d) \in Nat
    BY <1>1, FirstDays
  <2>. QED BY <2>2, <2>3
<1>3. CASE m \notin Months
  BY <1>3, FirstDays, CalendarAssumption DEF AddMonths, Never, Days
<1>4. CASE m \in Months
  <2>1. m + 1 \in 1..Len(FirstDay) /\ m \in 1..Len(FirstDay)
        /\ MonthOf(d) + 1 \in 1..Len(FirstDay) /\ MonthOf(d) \in 1..Len(FirstDay)
        /\ 1 \in 1..Len(FirstDay) /\ Len(FirstDay) \in 1..Len(FirstDay)
    BY <1>1, <1>4, FirstDays
  <2>2. MonthOf(d) + 1 <= m /\ 1 <= m /\ m + 1 <= Len(FirstDay)
    BY <1>2, <1>4, <2>1, FirstDays
  <2>3. /\ FirstDay[MonthOf(d) + 1] <= FirstDay[m]
        /\ FirstDay[1] <= FirstDay[m]
        /\ FirstDay[m + 1] <= FirstDay[Len(FirstDay)]
    BY <2>1, <2>2, FirstDaysGrow
  <2>4. FirstDay[m] < FirstDay[m + 1]
    <3>1. m < m + 1
      BY <1>2
    <3>. QED BY <2>1, <3>1, CalendarAssumption
  <2>5. /\ FirstDay[m] \in Nat /\ FirstDay[m + 1] \in Nat
        /\ FirstDay[MonthOf(d)] \in Nat /\ FirstDay[MonthOf(d) + 1] \in Nat
        /\ FirstDay[1] \in Nat /\ FirstDay[Len(FirstDay)] \in Nat
    BY <2>1, FirstDays
  <2>. DEFINE day == IF DayOf(d) <= MonthLength(m) THEN DayOf(d) ELSE MonthLength(m)
  <2>6. AddMonths(d, n) = FirstDay[m] - 1 + day
    BY <1>4 DEF AddMonths
  <2>8. MonthLength(m) = FirstDay[m + 1] - FirstDay[m]
    BY DEF MonthLength
  <2>. HIDE DEF m
  <2>9. DayOf(d) \in Nat /\ 1 <= DayOf(d)
    BY DayOfDay
  <2>10. MonthLength(m) \in Nat /\ 1 <= MonthLength(m)
    <3>. DEFINE first == FirstDay[m]
                next == FirstDay[m + 1]
    <3>1. first < next /\ first \in Nat /\ next \in Nat
      BY <2>4, <2>5
    <3>. HIDE DEF first, next
    <3>2. next - first \in Nat /\ 1 <= next - first
      BY <3>1
    <3>. QED BY <2>8, <3>2 DEF first, next
  <2>11. day \in Nat /\ 1 <= day /\ day <= MonthLength(m)
    BY <2>9, <2>10
  <2>. HIDE DEF day
  <2>12. /\ FirstDay[m] - 1 + day \in Nat /\ FirstDay[m] <= FirstDay[m] - 1 + day
         /\ FirstDay[m] - 1 + day < FirstDay[m + 1]
    <3>. DEFINE first == FirstDay[m]
                next == FirstDay[m + 1]
                length == MonthLength(m)
    <3>1. first \in Nat /\ next \in Nat /\ length \in Nat /\ length = next - first
      BY <2>5, <2>8, <2>10
    <3>2. day \in Nat /\ 1 <= day /\ day <= length
      BY <2>11
    <3>. HIDE DEF first, next, length
    <3>3. first - 1 + day \in Nat /\ first <= first - 1 + day /\ first - 1 + day < next
      BY <3>1, <3>2
    <3>. QED BY <3>3 DEF first, next
  <2>13. AddMonths(d, n) \in Nat /\ FirstDay[m] <= AddMonths(d, n)
         /\ AddMonths(d, n) < FirstDay[m + 1]
    BY <2>6, <2>12
  <2>14. d < AddMonths(d, n)
    <3>. DEFINE next == FirstDay[MonthOf(d) + 1]
                first == FirstDay[m]
                date == AddMonths(d, n)
    <3>1. d < next /\ next <= first /\ first <= date
      BY <1>1, <2>3, <2>13
    <3>2. d \in Nat /\ next \in Nat /\ first \in Nat /\ date \in Nat
      BY <1>2, <2>5, <2>13
    <3>. HIDE DEF next, first, date
    <3>3. d < date
      BY <3>1, <3>2
    <3>. QED BY <3>3 DEF date
  <2>15. FirstDay[1] <= AddMonths(d, n) /\ AddMonths(d, n) < FirstDay[Len(FirstDay)]
    <3>. DEFINE last == FirstDay[Len(FirstDay)]
                next == FirstDay[m + 1]
                first == FirstDay[m]
                date == AddMonths(d, n)
    <3>1. FirstDay[1] <= first /\ first <= date /\ date < next /\ next <= last
      BY <2>3, <2>13
    <3>2. /\ FirstDay[1] \in Nat /\ first \in Nat /\ date \in Nat
          /\ next \in Nat /\ last \in Nat
      BY <2>5, <2>13
    <3>. HIDE DEF last, next, first, date
    <3>3. FirstDay[1] <= date /\ date < last
      BY <3>1, <3>2
    <3>. QED BY <3>3 DEF date, last
  <2>. QED BY <2>5, <2>13, <2>14, <2>15 DEF Days
<1>. QED BY <1>3, <1>4

\* Every rule moves on from every date (events.rs:196-213; the interval is at
\* least 1, events.rs:206), so that no listing runs forever.
THEOREM NextOccurrenceMovesOn ==
    ASSUME NEW d \in Days, NEW frequency \in Frequencies, NEW interval \in Nat \ {0}
    PROVE  /\ NextOccurrence(d, frequency, interval) \in Days \cup {Never}
           /\ d < NextOccurrence(d, frequency, interval)
<1>1. DaysInWeek * interval \in Nat \ {0}
  BY CalendarAssumption
<1>2. CASE frequency = "daily"
  BY <1>2, AddDaysMovesOn DEF NextOccurrence
<1>3. CASE frequency = "weekly"
  BY <1>1, <1>3, AddDaysMovesOn DEF NextOccurrence
<1>4. CASE frequency = "monthly"
  BY <1>4, AddMonthsMovesOn DEF NextOccurrence
<1>. QED BY <1>2, <1>3, <1>4 DEF Frequencies

-----------------------------------------------------------------------------
\* What a request may rely on.

Fields == {"now", "todo", "date", "mark", "manage", "rows", "target", "value"}

\* A series to be materialized, and an event to be managed, as read.
Read == [id : Series, row : {row \in SeriesRow : row.rule \in Templates}]
Past == [id : Nat, complete : BOOLEAN]

TablesOK ==
    /\ today \in Today
    /\ series \in [Series -> SeriesRow]
    /\ \A s \in Series : series[s].state = "active" => series[s].rule \in Templates
    /\ events \in Seq(EventRow)
    /\ cancelledOn \in [Series -> Today \cup {NoDate}]
    /\ \A s \in Series : cancelledOn[s] <= today

\* What a request has read, and what it knows is still so.
LocalsOK(l) ==
    /\ DOMAIN l = Fields
    /\ l.now \in Int /\ l.now <= today
    /\ l.todo \in Seq(Read)
    /\ l.todo # <<>> => l.date \in Days \cup {Never}
    /\ l.mark \in Days \cup {NoDate}
    /\ l.value \in BOOLEAN
    /\ l.rows \in Seq(Past)
    /\ \A i \in 1..Len(l.rows) :
          l.rows[i].id \in EventIds /\ Overdue(events[l.rows[i].id].date, l.now)

RequestOK(r) ==
    /\ LocalsOK(loc[r])
    /\ pc[r] \in {"complete", "count", "delete"} => loc[r].rows # <<>>
    /\ pc[r] = "readSeries" => loc[r].mark = NoDate
    /\ pc[r] = "dropFuture" =>
         /\ loc[r].target \in Series /\ series[loc[r].target].state = "cancelled"
         /\ cancelledOn[loc[r].target] # NoDate /\ cancelledOn[loc[r].target] <= loc[r].now
    /\ pc[r] \in {"writeComplete", "link"} => loc[r].target \in EventIds

SeriesInv ==
    /\ TablesOK
    /\ pc \in [Requests -> Labels] /\ DOMAIN loc = Requests
    /\ \A r \in Requests : RequestOK(r)

-----------------------------------------------------------------------------
\* Sets made into sequences.

LEMMA SetToSeqType ==
    ASSUME NEW S, IsFiniteSet(S)
    PROVE  SetToSeq(S) \in Seq(S)
<1>1. Cardinality(S) \in Nat /\ ExistsBijection(1..Cardinality(S), S)
  BY FS_CardinalityType
<1>2. PICK f \in [1..Cardinality(S) -> S] : IsInjective(f)
  BY <1>1 DEF ExistsBijection, Bijection, Injection
<1>3. SetToSeq(S) \in [1..Cardinality(S) -> S]
  BY <1>2 DEF SetToSeq
<1>. QED BY <1>1, <1>3

\* Each member once.
LEMMA SetToSeqBijects ==
    ASSUME NEW S, IsFiniteSet(S), NEW seq, seq = SetToSeq(S)
    PROVE  /\ \A i \in 1..Len(seq) : seq[i] \in S
           /\ \A x \in S : \E i \in 1..Len(seq) : seq[i] = x
           /\ \A i, j \in 1..Len(seq) : seq[i] = seq[j] => i = j
<1>. DEFINE n == Cardinality(S)
<1>1. n \in Nat /\ ExistsBijection(1..n, S)
  BY FS_CardinalityType
<1>2. PICK f \in [1..n -> S] : IsInjective(f)
  BY <1>1 DEF ExistsBijection, Bijection, Injection
<1>3. seq \in [1..n -> S] /\ IsInjective(seq)
  BY <1>2 DEF SetToSeq
<1>4. Len(seq) = n
  <2>. HIDE DEF n
  <2>. QED BY <1>1, <1>3
<1>5. seq \in Injection(1..n, S)
  BY <1>3 DEF Injection
<1>6. Cardinality(1..n) = n
  <2>. HIDE DEF n
  <2>. QED BY <1>1, FS_Interval
<1>7. seq \in Surjection(1..n, S)
  BY <1>5, <1>6, FS_Injection
<1>8. \A x \in S : \E i \in 1..n : seq[i] = x
  BY <1>7 DEF Surjection
<1>9. \A i, j \in 1..n : seq[i] = seq[j] => i = j
  BY <1>3 DEF IsInjective
<1>. QED BY <1>3, <1>4, <1>8, <1>9

\* The series a listing has to generate, and the events it has to manage.
TodoOf(rows) == SetToSeq({[id |-> s, row |-> rows[s]] : s \in ToGenerate(rows)})

LEMMA TodoType ==
    ASSUME NEW rows \in [Series -> SeriesRow],
           \A s \in Series : rows[s].state = "active" => rows[s].rule \in Templates
    PROVE  TodoOf(rows) \in Seq(Read)
<1>. DEFINE T == {[id |-> s, row |-> rows[s]] : s \in ToGenerate(rows)}
            f == [s \in ToGenerate(rows) |-> [id |-> s, row |-> rows[s]]]
<1>1. IsFiniteSet(ToGenerate(rows))
  BY BoundsAssumption, FS_Subset DEF ToGenerate
<1>2. f \in Surjection(ToGenerate(rows), T)
  BY DEF Surjection
<1>3. IsFiniteSet(T)
  BY <1>1, <1>2, FS_Surjection
<1>4. T \subseteq Read
  BY DEF ToGenerate, Read, SeriesRow
<1>. QED BY <1>3, <1>4, SetToSeqType, SeqMonotonic DEF TodoOf

LEMMA RowsType ==
    ASSUME TablesOK, NEW E \in SUBSET EventIds
    PROVE  LET rows == SetToSeq({[id |-> e, complete |-> events[e].complete] : e \in E})
           IN  /\ rows \in Seq(Past)
               /\ \A i \in 1..Len(rows) : rows[i].id \in E
<1>. DEFINE T == {[id |-> e, complete |-> events[e].complete] : e \in E}
            f == [e \in E |-> [id |-> e, complete |-> events[e].complete]]
<1>0. Len(events) \in Nat
  BY DEF TablesOK
<1>1. IsFiniteSet(E)
  <2>1. IsFiniteSet(EventIds)
    BY <1>0, FS_Interval DEF EventIds
  <2>. QED BY <2>1, FS_Subset
<1>2. f \in Surjection(E, T)
  BY DEF Surjection
<1>3. IsFiniteSet(T)
  BY <1>1, <1>2, FS_Surjection
<1>4. T \subseteq Past
  <2>1. \A e \in EventIds : e \in Nat /\ events[e] \in EventRow
    BY <1>0 DEF EventIds, TablesOK
  <2>. QED BY <2>1 DEF Past, EventRow
<1>5. \A t \in T : t.id \in E
  OBVIOUS
<1>6. SetToSeq(T) \in Seq(T)
  BY <1>3, SetToSeqType
<1>. HIDE DEF T
<1>7. \A i \in 1..Len(SetToSeq(T)) : SetToSeq(T)[i] \in T
  BY <1>6, ElementOfSeq
<1>. QED BY <1>4, <1>5, <1>6, <1>7, SeqMonotonic DEF T

-----------------------------------------------------------------------------
\* Dates.

LEMMA DaysAreNumbers ==
    /\ Days \subseteq Nat \ {0} /\ Never \in Nat
    /\ \A d \in Days : d < Never
    /\ Today \subseteq Days /\ Horizon \in Nat /\ Grace \in Nat
<1>1. /\ FirstDay[1] \in Nat \ {0} /\ FirstDay[Len(FirstDay)] \in Nat
  BY FirstDays, CalendarAssumption
<1>2. Today \subseteq Days /\ Horizon \in Nat /\ Grace \in Nat
  BY BoundsAssumption
<1>. QED BY <1>1, <1>2 DEF Days, Never

LEMMA AfterType ==
    ASSUME NEW rule \in Templates, NEW d \in Days
    PROVE  After(rule, d) \in Days \cup {Never} /\ d < After(rule, d)
<1>1. rule.frequency \in Frequencies /\ rule.interval \in Nat \ {0}
  BY TemplatesAssumption
<1>. QED BY <1>1, NextOccurrenceMovesOn DEF After

LEMMA FirstDateType ==
    ASSUME NEW rule \in Templates, NEW through \in Days \cup {NoDate}
    PROVE  FirstDate(rule, through) \in Days \cup {Never}
BY TemplatesAssumption, AfterType DEF FirstDate

LEMMA ReadDateType ==
    ASSUME NEW todo \in Seq(Read), todo # <<>>
    PROVE  ReadDate(todo) \in Days \cup {Never}
<1>1. todo[1] \in Read
  BY EmptySeq, ElementOfSeq
<1>2. todo[1].row.rule \in Templates /\ todo[1].row.through \in Days \cup {NoDate}
  BY <1>1 DEF Read, SeriesRow
<1>. QED BY <1>2, FirstDateType DEF ReadDate

\* A date that is generated is in the calendar.
LEMMA ConsideredType ==
    ASSUME NEW r \in Requests, RequestOK(r), Considers(r)
    PROVE  /\ loc[r].todo[1] \in Read /\ loc[r].date \in Days
           /\ After(loc[r].todo[1].row.rule, loc[r].date) \in Days \cup {Never}
<1>. DEFINE l == loc[r]
<1>1. l.todo \in Seq(Read) /\ l.todo # <<>> /\ l.date \in Days \cup {Never} /\ l.now \in Int
  BY DEF RequestOK, LocalsOK, Considers
<1>2. l.todo[1] \in Read
  BY <1>1, EmptySeq, ElementOfSeq
<1>3. l.todo[1].row \in SeriesRow /\ l.todo[1].row.rule \in Templates
  BY <1>2 DEF Read
<1>4. l.todo[1].row.rule.end \in Days
  BY <1>3, TemplatesAssumption
<1>5. ASSUME NEW date \in Days \cup {Never}, NEW end \in Days, NEW limit \in Int,
             date <= (IF end <= limit THEN end ELSE limit)
      PROVE  date \in Days
  <2>1. date \in Int /\ end \in Int /\ Never \in Int /\ end < Never
    BY DaysAreNumbers
  <2>2. date <= end
    BY <1>5, <2>1
  <2>. QED BY <2>1, <2>2
<1>6. l.now + Horizon \in Int
  BY <1>1, DaysAreNumbers
<1>7. l.date \in Days
  BY <1>1, <1>4, <1>5, <1>6 DEF Considers, Limit
<1>. QED BY <1>2, <1>3, <1>7, AfterType

-----------------------------------------------------------------------------
\* What no step undoes.

\* The events of a table are still there, of the same series and date.
Onward ==
    /\ today <= today'
    /\ Len(events) <= Len(events')
    /\ \A e \in EventIds : /\ events'[e].series = events[e].series
                           /\ events'[e].date = events[e].date
    /\ \A s \in Series : series[s].state = "cancelled" => series'[s].state = "cancelled"
    /\ \A s \in Series : cancelledOn[s] # NoDate => cancelledOn'[s] = cancelledOn[s]

LEMMA LocalsKept ==
    ASSUME TablesOK, TablesOK', Onward, NEW l, LocalsOK(l)
    PROVE  /\ DOMAIN l = Fields
           /\ l.now \in Int /\ l.now <= today'
           /\ \A i \in 1..Len(l.rows) :
                 l.rows[i].id \in EventIds' /\ Overdue(events'[l.rows[i].id].date, l.now)
<1>1. today \in Int /\ today' \in Int /\ Len(events) \in Nat /\ Len(events') \in Nat
  BY DaysAreNumbers DEF TablesOK
<1>2. EventIds \subseteq EventIds'
  BY <1>1 DEF Onward, EventIds
<1>3. DOMAIN l = Fields /\ l.now \in Int /\ l.now <= today'
  BY <1>1 DEF Onward, LocalsOK
<1>4. ASSUME NEW i \in 1..Len(l.rows)
      PROVE  l.rows[i].id \in EventIds' /\ Overdue(events'[l.rows[i].id].date, l.now)
  <2>. PICK e : e = l.rows[i].id
    OBVIOUS
  <2>1. e \in EventIds /\ Overdue(events[e].date, l.now)
    BY DEF LocalsOK
  <2>2. events'[e].date = events[e].date
    BY <2>1 DEF Onward
  <2>. QED BY <1>2, <2>1, <2>2
<1>. QED BY <1>3, <1>4

\* A request that does nothing knows what it knew.
LEMMA RequestKept ==
    ASSUME TablesOK, TablesOK', Onward, NEW r \in Requests, RequestOK(r),
           UNCHANGED <<pc[r], loc[r]>>
    PROVE  RequestOK(r)'
<1>1. LocalsOK(loc[r])'
  BY LocalsKept DEF RequestOK, LocalsOK
<1>2. Len(events) \in Nat /\ Len(events') \in Nat
  BY DEF TablesOK
<1>3. EventIds \subseteq EventIds'
  BY <1>2 DEF Onward, EventIds
<1>. QED BY <1>1, <1>3 DEF RequestOK, Onward

-----------------------------------------------------------------------------
\* The statements that write events.

\* Every event stays as it was, but for its flags and its games.
EventsStay ==
    /\ events' \in Seq(EventRow)
    /\ Len(events) <= Len(events')
    /\ \A e \in EventIds : /\ events'[e].series = events[e].series
                           /\ events'[e].date = events[e].date

NothingDeleted == \A e \in EventIds : events'[e].live = events[e].live

LEMMA UnchangedEvents ==
    ASSUME TablesOK, UNCHANGED events
    PROVE  EventsStay /\ NothingDeleted
<1>1. Len(events) \in Nat
  BY DEF TablesOK
<1>. QED BY <1>1 DEF EventsStay, NothingDeleted, TablesOK

LEMMA AppendEvent ==
    ASSUME TablesOK, NEW s \in Series \cup {None}, NEW d \in Days \cup {NoDate},
           events' = Append(events, NewEvent(s, d))
    PROVE  EventsStay /\ NothingDeleted
<1>1. NewEvent(s, d) \in EventRow
  BY DEF NewEvent, EventRow
<1>. HIDE DEF EventRow
<1>2. events \in Seq(EventRow) /\ Len(events) \in Nat
  BY DEF TablesOK
<1>3. events' \in Seq(EventRow) /\ Len(events') = Len(events) + 1
      /\ \A e \in 1..Len(events) : events'[e] = events[e]
  BY <1>1, <1>2
<1>. QED BY <1>2, <1>3 DEF EventsStay, NothingDeleted, EventIds

LEMMA WrittenEvent ==
    ASSUME TablesOK, NEW e \in EventIds, NEW row \in EventRow,
           events' = [events EXCEPT ![e] = row],
           row.series = events[e].series, row.date = events[e].date, row.live = events[e].live
    PROVE  EventsStay /\ NothingDeleted
<1>1. events \in Seq(EventRow) /\ Len(events) \in Nat /\ e \in 1..Len(events)
  BY DEF TablesOK, EventIds
<1>2. /\ events' \in Seq(EventRow) /\ Len(events') = Len(events)
      /\ \A i \in 1..Len(events) : events'[i] = IF i = e THEN row ELSE events[i]
  BY <1>1, ExceptSeq
<1>. QED BY <1>1, <1>2 DEF EventsStay, NothingDeleted, EventIds

LEMMA UpdateEvent ==
    ASSUME TablesOK, NEW e \in EventIds, NEW row \in EventRow, Update(e, row),
           row.series = events[e].series, row.date = events[e].date, row.live = events[e].live
    PROVE  EventsStay /\ NothingDeleted
BY UnchangedEvents, WrittenEvent DEF Update

LEMMA DeleteEvents ==
    ASSUME TablesOK, NEW es, Delete(es)
    PROVE  EventsStay /\ \A e \in EventIds \ es : events'[e].live = events[e].live
<1>1. events \in Seq(EventRow) /\ Len(events) \in Nat
  BY DEF TablesOK
<1>2. \A e \in EventIds : events[e] \in EventRow
  BY <1>1 DEF EventIds
<1>3. \A e \in EventIds : /\ events'[e] \in EventRow
                          /\ events'[e].series = events[e].series
                          /\ events'[e].date = events[e].date
                          /\ e \notin es => events'[e] = events[e]
  <2>. TAKE e \in EventIds
  <2>1. CASE e \notin es
    BY <1>2, <2>1 DEF Delete
  <2>2. CASE e \in es
    <3>. DEFINE row == NewEvent(events[e].series, events[e].date)
                gone == [row EXCEPT !.live = FALSE]
    <3>1. row \in EventRow /\ row.series = events[e].series /\ row.date = events[e].date
      BY <1>2 DEF NewEvent, EventRow
    <3>2. gone \in EventRow /\ gone.series = row.series /\ gone.date = row.date
      <4>. HIDE DEF row
      <4>. QED BY <3>1 DEF EventRow
    <3>3. events'[e] = gone
      BY <2>2 DEF Delete
    <3>. QED BY <2>2, <3>1, <3>2, <3>3
  <2>. QED BY <2>1, <2>2
<1>4. events' \in [1..Len(events) -> EventRow]
  BY <1>3 DEF Delete, EventIds
<1>5. events' \in Seq(EventRow) /\ Len(events') = Len(events)
  <2>. HIDE DEF EventRow
  <2>. QED BY <1>1, <1>4
<1>. QED BY <1>1, <1>3, <1>5 DEF EventsStay

-----------------------------------------------------------------------------
\* The steps of a request.

\* What is deleted is past, or was to come and is of a cancelled series.
DeletedInTime ==
    \A e \in EventIds : events[e].live /\ ~events'[e].live =>
        \/ Overdue(events[e].date, today)
        \/ /\ events[e].series # None
           /\ series[events[e].series].state = "cancelled"
           /\ events[e].date > cancelledOn[events[e].series]

\* Request r has moved to a label, with locals.
Moved(r, label, l) ==
    /\ pc' = [pc EXCEPT ![r] = label] /\ label \in Labels
    /\ loc' = [loc EXCEPT ![r] = l]
    /\ UNCHANGED today

SeriesStay ==
    /\ series' \in [Series -> SeriesRow]
    /\ \A s \in Series :
          /\ series'[s].state = "active" => series'[s].rule \in Templates
          /\ series[s].state = "cancelled" => series'[s].state = "cancelled"
    /\ cancelledOn' \in [Series -> Today \cup {NoDate}]
    /\ \A s \in Series : cancelledOn'[s] <= today
    /\ \A s \in Series : cancelledOn[s] # NoDate => cancelledOn'[s] = cancelledOn[s]

LEMMA UnchangedSeries ==
    ASSUME SeriesInv, UNCHANGED <<series, cancelledOn>>
    PROVE  SeriesStay
BY DEF SeriesInv, TablesOK, SeriesStay

LEMMA GotoStays ==
    ASSUME SeriesInv, NEW r, NEW label, NEW l, Goto(r, label, l), UNCHANGED series
    PROVE  SeriesStay
BY UnchangedSeries DEF Goto

LEMMA MovedInv ==
    ASSUME SeriesInv, NEW r \in Requests, NEW label, NEW l, Moved(r, label, l),
           SeriesStay, EventsStay, RequestOK(r)'
    PROVE  SeriesInv'
<1>1. TablesOK' /\ Onward
  BY DaysAreNumbers DEF SeriesInv, Moved, SeriesStay, EventsStay, TablesOK, Onward
<1>2. /\ pc' \in [Requests -> Labels] /\ DOMAIN loc' = Requests
      /\ \A q \in Requests \ {r} : UNCHANGED <<pc[q], loc[q]>>
  BY DEF SeriesInv, Moved
<1>3. \A q \in Requests \ {r} : RequestOK(q)'
  BY <1>1, <1>2, RequestKept DEF SeriesInv
<1>. QED BY <1>1, <1>2, <1>3 DEF SeriesInv

\* What of its locals a request may keep while events are written.
LEMMA MovedLocals ==
    ASSUME SeriesInv, NEW r \in Requests, SeriesStay, EventsStay, UNCHANGED today
    PROVE  /\ loc[r].now <= today'
           /\ \A i \in 1..Len(loc[r].rows) :
                 /\ loc[r].rows[i].id \in EventIds'
                 /\ Overdue(events'[loc[r].rows[i].id].date, loc[r].now)
           /\ EventIds \subseteq EventIds'
<1>0. today \in Int
  BY DaysAreNumbers DEF SeriesInv, TablesOK
<1>1. TablesOK' /\ Onward
  BY <1>0 DEF SeriesInv, SeriesStay, EventsStay, TablesOK, Onward
<1>2. Len(events) \in Nat /\ Len(events') \in Nat
  BY <1>1 DEF SeriesInv, TablesOK
<1>3. EventIds \subseteq EventIds'
  BY <1>1, <1>2 DEF Onward, EventIds
<1>. QED BY <1>1, <1>3, LocalsKept DEF SeriesInv, RequestOK

\* The locals of a request that has read nothing yet but the clock.
Fresh(l) ==
    /\ DOMAIN l = Fields /\ l.now \in {NoDate, today}
    /\ l.todo = <<>> /\ l.mark = NoDate /\ l.rows = <<>> /\ l.value \in BOOLEAN

LEMMA FreshOK ==
    ASSUME SeriesInv, UNCHANGED today, NEW l, Fresh(l)
    PROVE  LocalsOK(l)'
<1>1. l.now \in Int /\ l.now <= today'
  BY DaysAreNumbers DEF SeriesInv, TablesOK, NoDate, Fresh
<1>2. <<>> \in Seq(Read) /\ <<>> \in Seq(Past) /\ Len(<<>>) = 0
  BY EmptySeq
<1>. QED BY <1>1, <1>2 DEF Fresh, LocalsOK

LEMMA FreshLocals ==
    /\ Fresh(NoLocals) /\ Fresh(AsOf(today)) /\ Fresh([AsOf(today) EXCEPT !.manage = TRUE])
    /\ \A target : /\ Fresh([AsOf(today) EXCEPT !.target = target])
                   /\ [AsOf(today) EXCEPT !.target = target].target = target
                   /\ [AsOf(today) EXCEPT !.target = target].now = today
                   /\ Fresh([NoLocals EXCEPT !.target = target])
                   /\ [NoLocals EXCEPT !.target = target].target = target
    /\ \A target : \A value \in BOOLEAN :
          /\ Fresh([NoLocals EXCEPT !.target = target, !.value = value])
          /\ [NoLocals EXCEPT !.target = target, !.value = value].target = target
<1>1. Fresh(NoLocals) /\ Fresh(AsOf(today)) /\ Fresh([AsOf(today) EXCEPT !.manage = TRUE])
  BY DEF Fresh, NoLocals, AsOf, Fields
<1>2. ASSUME NEW target
      PROVE  /\ Fresh([AsOf(today) EXCEPT !.target = target])
             /\ [AsOf(today) EXCEPT !.target = target].target = target
             /\ [AsOf(today) EXCEPT !.target = target].now = today
             /\ Fresh([NoLocals EXCEPT !.target = target])
             /\ [NoLocals EXCEPT !.target = target].target = target
  BY DEF Fresh, NoLocals, AsOf, Fields
<1>3. ASSUME NEW target, NEW value \in BOOLEAN
      PROVE  /\ Fresh([NoLocals EXCEPT !.target = target, !.value = value])
             /\ [NoLocals EXCEPT !.target = target, !.value = value].target = target
  BY DEF Fresh, NoLocals, Fields
<1>. QED BY <1>1, <1>2, <1>3

\* A request that begins.
LEMMA FreshInv ==
    ASSUME SeriesInv, NEW r \in Requests, NEW l, Fresh(l), SeriesStay, EventsStay,
           NEW label \in {"readSeries", "dropFuture", "writeComplete", "link"},
           Start(r, label, l),
           label = "dropFuture" =>
              /\ l.target \in Series /\ series'[l.target].state = "cancelled"
              /\ cancelledOn'[l.target] # NoDate /\ cancelledOn'[l.target] <= l.now,
           label \in {"writeComplete", "link"} => l.target \in EventIds'
    PROVE  SeriesInv'
<1>1. Moved(r, label, l)
  BY DEF Start, Moved, Labels
<1>2. pc'[r] = label /\ loc'[r] = l
  BY <1>1 DEF Moved, SeriesInv
<1>3. LocalsOK(l)'
  BY <1>1, FreshOK DEF Moved
<1>4. LocalsOK(loc[r])'
  BY <1>2, <1>3 DEF LocalsOK
<1>5. RequestOK(r)'
  BY <1>2, <1>4 DEF RequestOK, Fresh
<1>. QED BY <1>1, <1>5, MovedInv

\* A request that ends.
LEMMA DoneInv ==
    ASSUME SeriesInv, NEW r \in Requests, Done(r), UNCHANGED series, EventsStay
    PROVE  SeriesInv'
<1>1. Moved(r, "idle", NoLocals)
  BY DEF Done, Goto, Moved, Labels
<1>2. LocalsOK(NoLocals)'
  BY <1>1, FreshOK, FreshLocals DEF Moved
<1>3. pc'[r] = "idle" /\ loc'[r] = NoLocals
  BY <1>1 DEF Moved, SeriesInv
<1>4. RequestOK(r)'
  BY <1>2, <1>3 DEF RequestOK, LocalsOK
<1>. QED BY <1>1, <1>4, GotoStays, MovedInv DEF Done

\* A request that goes on with what it has read.
LEMMA GoesOnInv ==
    ASSUME SeriesInv, NEW r \in Requests, NEW label \in Labels, Goto(r, label, loc[r]),
           UNCHANGED series, EventsStay,
           label \in {"complete", "count", "delete"} => loc[r].rows # <<>>,
           label \notin {"readSeries", "dropFuture", "writeComplete", "link"}
    PROVE  SeriesInv'
<1>1. Moved(r, label, loc[r])
  BY DEF Goto, Moved
<1>2. pc'[r] = label /\ loc'[r] = loc[r]
  BY <1>1 DEF Moved, SeriesInv
<1>3. LocalsOK(loc[r])
  BY DEF SeriesInv, RequestOK
<1>4. LocalsOK(loc[r])'
  BY <1>1, <1>2, <1>3, GotoStays, MovedLocals DEF Moved, LocalsOK
<1>5. RequestOK(r)'
  BY <1>2, <1>4 DEF RequestOK
<1>. QED BY <1>1, <1>5, GotoStays, MovedInv

\* A request that has read the active series.
LEMMA ReadingFields ==
    ASSUME NEW rows, NEW k, DOMAIN k = Fields, NEW l, l = Reading(rows, k)
    PROVE  /\ DOMAIN l = Fields
           /\ l.todo = TodoOf(rows)
           /\ l.todo # <<>> => l.date = ReadDate(l.todo)
           /\ l.mark = k.mark /\ l.now = k.now /\ l.rows = k.rows /\ l.value = k.value
<1>. DEFINE todo == TodoOf(rows)
            date == IF todo = <<>> THEN NoDate ELSE ReadDate(todo)
<1>1. l = [k EXCEPT !.todo = todo, !.date = date]
  BY DEF Reading, TodoOf
<1>2. todo # <<>> => date = ReadDate(todo)
  OBVIOUS
<1>. HIDE DEF todo, date
<1>3. /\ DOMAIN l = Fields /\ l.todo = todo /\ l.date = date
      /\ l.mark = k.mark /\ l.now = k.now /\ l.rows = k.rows /\ l.value = k.value
  BY <1>1 DEF Fields
<1>. QED BY <1>2, <1>3 DEF todo

LEMMA ReadSeriesInv ==
    ASSUME SeriesInv, NEW r \in Requests, ReadSeries(r)
    PROVE  SeriesInv' /\ EventsStay /\ NothingDeleted
<1>. PICK k : k = loc[r]
  OBVIOUS
<1>. PICK l : l = Reading(series, k)
  OBVIOUS
<1>0. LocalsOK(k) /\ Goto(r, "materialize", l) /\ UNCHANGED <<series, events>>
  BY DEF SeriesInv, RequestOK, ReadSeries, database
<1>1. /\ DOMAIN l = Fields
      /\ l.todo = TodoOf(series)
      /\ l.todo # <<>> => l.date = ReadDate(l.todo)
      /\ l.mark = k.mark /\ l.now = k.now /\ l.rows = k.rows /\ l.value = k.value
  <2>1. DOMAIN k = Fields
    BY <1>0 DEF LocalsOK
  <2>. QED BY <2>1, ReadingFields
<1>2. l.todo \in Seq(Read)
  BY <1>1, TodoType DEF SeriesInv, TablesOK
<1>3. l.todo # <<>> => l.date \in Days \cup {Never}
  BY <1>1, <1>2, ReadDateType
<1>4. Moved(r, "materialize", l)
  BY <1>0 DEF Goto, Moved, Labels
<1>5. pc'[r] = "materialize" /\ loc'[r] = l
  BY <1>4 DEF Moved, SeriesInv
<1>6. SeriesStay /\ EventsStay /\ NothingDeleted
  BY <1>0, GotoStays, UnchangedEvents DEF SeriesInv
<1>7. LocalsOK(l)'
  <2>1. /\ k.now <= today'
        /\ \A i \in 1..Len(k.rows) :
              k.rows[i].id \in EventIds' /\ Overdue(events'[k.rows[i].id].date, k.now)
    BY <1>4, <1>6, MovedLocals DEF Moved
  <2>. QED BY <1>0, <1>1, <1>2, <1>3, <2>1 DEF LocalsOK
<1>8. RequestOK(r)'
  BY <1>5, <1>7 DEF RequestOK, LocalsOK
<1>. QED BY <1>4, <1>6, <1>8, MovedInv

-----------------------------------------------------------------------------
\* Generation.

\* A request that has passed an occurrence.
LEMMA PassedInv ==
    ASSUME SeriesInv, NEW r \in Requests, Considers(r),
           Goto(r, "materialize", Passed(loc[r])), UNCHANGED series, EventsStay
    PROVE  SeriesInv'
<1>. DEFINE next == After(loc[r].todo[1].row.rule, loc[r].date)
<1>1. loc[r].date \in Days /\ next \in Days \cup {Never}
  BY ConsideredType DEF SeriesInv
<1>2. LocalsOK(loc[r])
  BY DEF SeriesInv, RequestOK
<1>3. Moved(r, "materialize", Passed(loc[r]))
  BY DEF Goto, Moved, Labels
<1>4. pc'[r] = "materialize" /\ loc'[r] = Passed(loc[r])
  BY <1>3 DEF Moved, SeriesInv
<1>5. /\ DOMAIN loc'[r] = Fields /\ loc'[r].now = loc[r].now /\ loc'[r].todo = loc[r].todo
      /\ loc'[r].date = next /\ loc'[r].mark = loc[r].date
      /\ loc'[r].rows = loc[r].rows /\ loc'[r].value = loc[r].value
  <2>. HIDE DEF next
  <2>1. loc'[r] = [loc[r] EXCEPT !.mark = loc[r].date, !.date = next]
    BY <1>4 DEF Passed, next
  <2>. QED BY <1>2, <2>1 DEF LocalsOK, Fields
<1>6. LocalsOK(loc[r])'
  <2>. HIDE DEF next
  <2>. QED BY <1>1, <1>2, <1>3, <1>5, GotoStays, MovedLocals DEF Moved, LocalsOK
<1>7. RequestOK(r)'
  BY <1>4, <1>6 DEF RequestOK
<1>. QED BY <1>3, <1>7, GotoStays, MovedInv

LEMMA SkipPastInv ==
    ASSUME SeriesInv, NEW r \in Requests, SkipPast(r)
    PROVE  SeriesInv' /\ EventsStay /\ NothingDeleted
BY PassedInv, UnchangedEvents DEF SkipPast, database, SeriesInv

LEMMA InsertInstanceInv ==
    ASSUME SeriesInv, NEW r \in Requests, InsertInstance(r)
    PROVE  SeriesInv' /\ EventsStay /\ NothingDeleted
<1>1. loc[r].todo[1] \in Read /\ loc[r].date \in Days
  BY ConsideredType DEF SeriesInv, InsertInstance
<1>2. loc[r].todo[1].id \in Series
  BY <1>1 DEF Read
<1>3. EventsStay /\ NothingDeleted
  BY <1>1, <1>2, AppendEvent DEF SeriesInv, InsertInstance
<1>. QED BY <1>3, PassedInv DEF InsertInstance

LEMMA WriteWatermarkInv ==
    ASSUME SeriesInv, NEW r \in Requests, WriteWatermark(r)
    PROVE  SeriesInv' /\ EventsStay /\ NothingDeleted
<1>. DEFINE l == loc[r]
            rest == Tail(l.todo)
            date == IF rest = <<>> THEN NoDate ELSE ReadDate(rest)
            next == [l EXCEPT !.todo = rest, !.mark = NoDate, !.date = date]
<1>1. LocalsOK(l)
  BY DEF SeriesInv, RequestOK
<1>2. l.todo \in Seq(Read) /\ l.todo # <<>> /\ l.mark \in Days \cup {NoDate}
  BY <1>1 DEF LocalsOK, WriteWatermark
<1>3. l.todo[1] \in Read /\ rest \in Seq(Read)
  BY <1>2, EmptySeq, ElementOfSeq, HeadTailProperties
<1>4. l.todo[1].id \in Series
  BY <1>3 DEF Read
<1>5. SeriesStay
  <2>1. CASE UNCHANGED series
    BY <2>1, GotoStays DEF WriteWatermark
  <2>2. CASE series' = [series EXCEPT ![l.todo[1].id].through = l.mark]
    <3>1. \A s \in Series : series[s] \in SeriesRow
      BY DEF SeriesInv, TablesOK
    <3>2. \A s \in Series : /\ series'[s] \in SeriesRow
                            /\ series'[s].state = series[s].state
                            /\ series'[s].rule = series[s].rule
      <4>. TAKE s \in Series
      <4>1. CASE s = l.todo[1].id
        <5>1. series'[s] = [series[s] EXCEPT !.through = l.mark]
          BY <2>2, <4>1 DEF SeriesInv, TablesOK
        <5>. HIDE DEF l
        <5>. QED BY <1>2, <3>1, <5>1 DEF SeriesRow
      <4>2. CASE s # l.todo[1].id
        BY <2>2, <3>1, <4>2 DEF SeriesInv, TablesOK
      <4>. QED BY <4>1, <4>2
    <3>3. series' \in [Series -> SeriesRow]
      BY <2>2, <3>2 DEF SeriesInv, TablesOK
    <3>4. UNCHANGED cancelledOn
      BY DEF WriteWatermark, Goto
    <3>. QED BY <3>2, <3>3, <3>4 DEF SeriesInv, TablesOK, SeriesStay
  <2>. QED BY <2>1, <2>2 DEF WriteWatermark, Mark
<1>6. EventsStay /\ NothingDeleted
  BY UnchangedEvents DEF WriteWatermark, SeriesInv
<1>7. rest # <<>> => date \in Days \cup {Never}
  <2>. HIDE DEF rest
  <2>. QED BY <1>3, ReadDateType
<1>8. Moved(r, "materialize", next)
  BY DEF WriteWatermark, Goto, Moved, Labels
<1>9. pc'[r] = "materialize" /\ loc'[r] = next
  BY <1>8 DEF Moved, SeriesInv
<1>10. /\ DOMAIN loc'[r] = Fields /\ loc'[r].now = l.now /\ loc'[r].todo = rest
       /\ loc'[r].date = date /\ loc'[r].mark = NoDate
       /\ loc'[r].rows = l.rows /\ loc'[r].value = l.value
  <2>1. DOMAIN l = Fields
    BY <1>1 DEF LocalsOK
  <2>. HIDE DEF l, rest, date
  <2>. QED BY <1>9, <2>1 DEF Fields
<1>11. LocalsOK(loc[r])'
  <2>1. /\ loc[r].now <= today'
        /\ \A i \in 1..Len(loc[r].rows) :
              /\ loc[r].rows[i].id \in EventIds'
              /\ Overdue(events'[loc[r].rows[i].id].date, loc[r].now)
    BY <1>5, <1>6, <1>8, MovedLocals DEF Moved
  <2>2. /\ loc'[r].now \in Int /\ loc'[r].now <= today'
        /\ loc'[r].todo \in Seq(Read)
        /\ loc'[r].todo # <<>> => loc'[r].date \in Days \cup {Never}
        /\ loc'[r].mark \in Days \cup {NoDate}
        /\ loc'[r].value \in BOOLEAN /\ loc'[r].rows \in Seq(Past)
    <3>. HIDE DEF rest, date
    <3>. QED BY <1>1, <1>3, <1>7, <1>10, <2>1 DEF LocalsOK
  <2>3. \A i \in 1..Len(loc'[r].rows) :
           /\ loc'[r].rows[i].id \in EventIds'
           /\ Overdue(events'[loc'[r].rows[i].id].date, loc'[r].now)
    BY <1>10, <2>1
  <2>. QED BY <1>10, <2>2, <2>3 DEF LocalsOK
<1>12. RequestOK(r)'
  BY <1>9, <1>11 DEF RequestOK
<1>. HIDE DEF next
<1>. QED BY <1>5, <1>6, <1>8, <1>12, MovedInv

LEMMA MaterializedInv ==
    ASSUME SeriesInv, NEW r \in Requests, Materialized(r)
    PROVE  SeriesInv' /\ EventsStay /\ NothingDeleted
<1>1. EventsStay /\ NothingDeleted /\ UNCHANGED series
  BY UnchangedEvents DEF Materialized, database, SeriesInv
<1>2. CASE Done(r)
  BY <1>1, <1>2, DoneInv
<1>3. CASE Goto(r, "selectEvents", AsOf(today))
  <2>. PICK l : l = AsOf(today)
    OBVIOUS
  <2>1. Moved(r, "selectEvents", l)
    BY <1>3 DEF Goto, Moved, Labels
  <2>2. pc'[r] = "selectEvents" /\ loc'[r] = l /\ LocalsOK(l)'
    BY <2>1, FreshOK, FreshLocals DEF Moved, SeriesInv
  <2>3. RequestOK(r)'
    BY <2>2 DEF RequestOK, LocalsOK
  <2>. QED BY <1>1, <1>3, <2>1, <2>3, GotoStays, MovedInv
<1>. QED BY <1>2, <1>3 DEF Materialized

-----------------------------------------------------------------------------
\* Management.

\* A request that is managing, with the events it has still to manage.
LEMMA ManagingInv ==
    ASSUME SeriesInv, NEW r \in Requests, NEW rows \in Seq(Past),
           Goto(r, "complete", [loc[r] EXCEPT !.rows = rows]),
           rows # <<>>,
           \A i \in 1..Len(rows) :
              rows[i].id \in EventIds /\ Overdue(events[rows[i].id].date, loc[r].now),
           UNCHANGED series, EventsStay
    PROVE  SeriesInv'
<1>. DEFINE next == [loc[r] EXCEPT !.rows = rows]
<1>1. LocalsOK(loc[r])
  BY DEF SeriesInv, RequestOK
<1>2. Moved(r, "complete", next)
  BY DEF Goto, Moved, Labels
<1>3. pc'[r] = "complete" /\ loc'[r] = next
  BY <1>2 DEF Moved, SeriesInv
<1>4. /\ DOMAIN loc'[r] = Fields /\ loc'[r].now = loc[r].now /\ loc'[r].todo = loc[r].todo
      /\ loc'[r].date = loc[r].date /\ loc'[r].mark = loc[r].mark
      /\ loc'[r].rows = rows /\ loc'[r].value = loc[r].value
  BY <1>1, <1>3 DEF LocalsOK, Fields
<1>5. EventIds \subseteq EventIds'
  BY <1>2, GotoStays, MovedLocals DEF Moved
<1>6. \A i \in 1..Len(loc'[r].rows) :
         /\ loc'[r].rows[i].id \in EventIds'
         /\ Overdue(events'[loc'[r].rows[i].id].date, loc'[r].now)
  BY <1>4, <1>5 DEF EventsStay
<1>7. LocalsOK(loc[r])'
  BY <1>1, <1>2, <1>4, <1>6 DEF LocalsOK, Moved
<1>8. RequestOK(r)'
  BY <1>3, <1>4, <1>7 DEF RequestOK
<1>. HIDE DEF next
<1>. QED BY <1>2, <1>8, GotoStays, MovedInv

LEMMA NextRowInv ==
    ASSUME SeriesInv, NEW r \in Requests, NextRow(r), loc[r].rows # <<>>,
           UNCHANGED series, EventsStay
    PROVE  SeriesInv'
<1>. DEFINE rest == Tail(loc[r].rows)
<1>1. LocalsOK(loc[r])
  BY DEF SeriesInv, RequestOK
<1>2. CASE Done(r)
  BY <1>2, DoneInv
<1>3. CASE rest # <<>> /\ Goto(r, "complete", [loc[r] EXCEPT !.rows = rest])
  <2>1. /\ rest \in Seq(Past) /\ Len(loc[r].rows) \in Nat
        /\ Len(rest) = Len(loc[r].rows) - 1
        /\ \A i \in 1..Len(rest) : rest[i] = loc[r].rows[i + 1]
    BY <1>1, HeadTailProperties DEF LocalsOK
  <2>2. ASSUME NEW i \in 1..Len(rest)
        PROVE  rest[i].id \in EventIds /\ Overdue(events[rest[i].id].date, loc[r].now)
    <3>1. i + 1 \in 1..Len(loc[r].rows) /\ rest[i] = loc[r].rows[i + 1]
      BY <2>1
    <3>. QED BY <1>1, <3>1 DEF LocalsOK
  <2>. HIDE DEF rest
  <2>. QED BY <1>3, <2>1, <2>2, ManagingInv
<1>. QED BY <1>2, <1>3 DEF NextRow

LEMMA SelectEventsInv ==
    ASSUME SeriesInv, NEW r \in Requests, SelectEvents(r)
    PROVE  SeriesInv' /\ EventsStay /\ NothingDeleted
<1>. DEFINE overdue == {e \in EventIds : events[e].live /\ Overdue(events[e].date, loc[r].now)}
            rows == SetToSeq({[id |-> e, complete |-> events[e].complete] : e \in overdue})
<1>1. EventsStay /\ NothingDeleted /\ UNCHANGED series
  BY UnchangedEvents DEF SelectEvents, database, SeriesInv
<1>2. CASE Done(r)
  BY <1>1, <1>2, DoneInv
<1>3. CASE rows # <<>> /\ Goto(r, "complete", [loc[r] EXCEPT !.rows = rows])
  <2>2. overdue \in SUBSET EventIds
    OBVIOUS
  <2>3. rows \in Seq(Past) /\ \A i \in 1..Len(rows) : rows[i].id \in overdue
    <3>. HIDE DEF overdue
    <3>. QED BY <2>2, RowsType DEF SeriesInv
  <2>4. \A i \in 1..Len(rows) :
           rows[i].id \in EventIds /\ Overdue(events[rows[i].id].date, loc[r].now)
    <3>. HIDE DEF rows
    <3>. QED BY <2>3
  <2>. HIDE DEF rows
  <2>5. rows # <<>> /\ Goto(r, "complete", [loc[r] EXCEPT !.rows = rows])
    BY <1>3
  <2>6. rows \in Seq(Past)
    BY <2>3
  <2>. QED BY <1>1, <2>4, <2>5, <2>6, ManagingInv
<1>. QED BY <1>2, <1>3 DEF SelectEvents

\* The event a listing manages is overdue.
LEMMA ManagedType ==
    ASSUME SeriesInv, NEW r \in Requests, pc[r] \in {"complete", "count", "delete"}
    PROVE  /\ loc[r].rows # <<>>
           /\ loc[r].rows[1].id \in EventIds
           /\ events[loc[r].rows[1].id] \in EventRow
           /\ Overdue(events[loc[r].rows[1].id].date, today)
<1>1. LocalsOK(loc[r]) /\ loc[r].rows # <<>>
  BY DEF SeriesInv, RequestOK
<1>2. 1 \in 1..Len(loc[r].rows)
  BY <1>1, EmptySeq DEF LocalsOK
<1>3. loc[r].rows[1].id \in EventIds /\ Overdue(events[loc[r].rows[1].id].date, loc[r].now)
  BY <1>1, <1>2 DEF LocalsOK
<1>4. events[loc[r].rows[1].id] \in EventRow
  BY <1>3, ElementOfSeq DEF SeriesInv, TablesOK, EventIds
<1>5. /\ today \in Int /\ loc[r].now \in Int /\ loc[r].now <= today /\ Grace \in Int
      /\ Days \cup {NoDate} \subseteq Int
  <2>1. today \in Int /\ Grace \in Int
    BY DaysAreNumbers DEF SeriesInv, TablesOK
  <2>2. Days \cup {NoDate} \subseteq Int
    BY DaysAreNumbers DEF NoDate
  <2>3. loc[r].now \in Int /\ loc[r].now <= today
    BY <1>1 DEF LocalsOK
  <2>. QED BY <2>1, <2>2, <2>3
<1>6. events[loc[r].rows[1].id].date \in Int
  BY <1>4, <1>5 DEF EventRow
<1>7. Overdue(events[loc[r].rows[1].id].date, today)
  BY <1>3, <1>5, <1>6 DEF Overdue
<1>. QED BY <1>1, <1>3, <1>4, <1>7

LEMMA CompletePastInv ==
    ASSUME SeriesInv, NEW r \in Requests, CompletePast(r)
    PROVE  SeriesInv' /\ EventsStay /\ NothingDeleted
<1>. DEFINE e == loc[r].rows[1].id
            row == [events[e] EXCEPT !.complete = TRUE]
<1>1. loc[r].rows # <<>> /\ e \in EventIds /\ events[e] \in EventRow
  BY ManagedType DEF CompletePast
<1>2. EventsStay /\ NothingDeleted
  <2>1. CASE UNCHANGED events
    BY <2>1, UnchangedEvents DEF SeriesInv
  <2>2. CASE Update(e, row)
    <3>. HIDE DEF e
    <3>1. /\ row \in EventRow /\ row.series = events[e].series /\ row.date = events[e].date
          /\ row.live = events[e].live
      BY <1>1 DEF EventRow
    <3>. QED BY <1>1, <2>2, <3>1, UpdateEvent DEF SeriesInv
  <2>. QED BY <2>1, <2>2 DEF CompletePast
<1>. QED BY <1>1, <1>2, GoesOnInv DEF CompletePast, Labels

LEMMA CountGamesInv ==
    ASSUME SeriesInv, NEW r \in Requests, CountGames(r)
    PROVE  SeriesInv' /\ EventsStay /\ NothingDeleted
<1>1. EventsStay /\ NothingDeleted /\ UNCHANGED series
  BY UnchangedEvents DEF CountGames, database, SeriesInv
<1>2. loc[r].rows # <<>>
  BY ManagedType DEF CountGames
<1>. QED BY <1>1, <1>2, GoesOnInv, NextRowInv DEF CountGames, Labels

LEMMA DeleteEmptyInv ==
    ASSUME SeriesInv, NEW r \in Requests, DeleteEmpty(r)
    PROVE  SeriesInv' /\ EventsStay /\ DeletedInTime
<1>. DEFINE e == loc[r].rows[1].id
<1>1. loc[r].rows # <<>> /\ e \in EventIds /\ Overdue(events[e].date, today)
  BY ManagedType DEF DeleteEmpty
<1>2. EventsStay /\ \A other \in EventIds \ {e} : events'[other].live = events[other].live
  BY DeleteEvents DEF SeriesInv, DeleteEmpty
<1>3. SeriesInv'
  BY <1>1, <1>2, NextRowInv DEF DeleteEmpty
<1>. QED BY <1>1, <1>2, <1>3 DEF DeletedInTime

-----------------------------------------------------------------------------
\* Listings, and what admins do.

LEMMA BeginListInv ==
    ASSUME SeriesInv, NEW r \in Requests, BeginList(r)
    PROVE  SeriesInv' /\ EventsStay /\ NothingDeleted
<1>1. UNCHANGED <<series, events, cancelledOn>>
  BY DEF BeginList, database
<1>2. SeriesStay /\ EventsStay /\ NothingDeleted
  BY <1>1, UnchangedSeries, UnchangedEvents DEF SeriesInv
<1>3. Start(r, "readSeries", [AsOf(today) EXCEPT !.manage = TRUE])
  BY DEF BeginList
<1>. QED BY <1>2, <1>3, FreshInv, FreshLocals

\* One row of the series is written.
LEMMA SeriesWritten ==
    ASSUME SeriesInv, NEW s \in Series, NEW row \in SeriesRow,
           series' = [series EXCEPT ![s] = row], UNCHANGED cancelledOn,
           row.state = "active" => row.rule \in Templates,
           series[s].state = "cancelled" => row.state = "cancelled"
    PROVE  SeriesStay
<1>. HIDE DEF SeriesRow
<1>. QED BY DEF SeriesInv, TablesOK, SeriesStay

LEMMA CreateSeriesInv ==
    ASSUME SeriesInv, NEW r \in Requests, NEW s \in Series, NEW rule \in Templates,
           CreateSeries(r, s, rule)
    PROVE  SeriesInv' /\ EventsStay /\ NothingDeleted
<1>. DEFINE row == [state |-> "active", rule |-> rule, through |-> NoDate]
<1>1. row \in SeriesRow /\ row.rule \in Templates
  BY DEF SeriesRow
<1>2. SeriesStay
  <2>. HIDE DEF row
  <2>. QED BY <1>1, SeriesWritten DEF CreateSeries, row
<1>3. UNCHANGED events /\ EventsStay /\ NothingDeleted
  BY UnchangedEvents DEF CreateSeries, SeriesInv
<1>4. Start(r, "readSeries", AsOf(today))
  BY DEF CreateSeries
<1>. QED BY <1>2, <1>3, <1>4, FreshInv, FreshLocals

LEMMA BeginCancelInv ==
    ASSUME SeriesInv, NEW r \in Requests, NEW s \in Series, BeginCancel(r, s)
    PROVE  SeriesInv' /\ EventsStay /\ NothingDeleted
<1>. DEFINE row == [series[s] EXCEPT !.state = "cancelled"]
            day == IF cancelledOn[s] = NoDate THEN today ELSE cancelledOn[s]
<1>1. series[s] \in SeriesRow
  BY DEF SeriesInv, TablesOK
<1>2. row \in SeriesRow /\ row.state = "cancelled"
  BY <1>1 DEF SeriesRow
<1>3. /\ series' = [series EXCEPT ![s] = row]
      /\ cancelledOn' = [cancelledOn EXCEPT ![s] = day]
  BY DEF BeginCancel
<1>4. day \in Today /\ day <= today /\ today \in Int /\ day # NoDate
      /\ (cancelledOn[s] # NoDate => day = cancelledOn[s])
  <2>1. today \in Today /\ cancelledOn[s] \in Today \cup {NoDate} /\ cancelledOn[s] <= today
    BY DEF SeriesInv, TablesOK
  <2>2. Today \subseteq Nat \ {0} /\ NoDate = 0
    BY DaysAreNumbers DEF NoDate
  <2>. QED BY <2>1, <2>2
<1>. HIDE DEF row, day
<1>5. /\ series' \in [Series -> SeriesRow]
      /\ \A t \in Series :
            /\ series'[t].state = "active" => series'[t].rule \in Templates
            /\ series[t].state = "cancelled" => series'[t].state = "cancelled"
  BY <1>2, <1>3 DEF SeriesInv, TablesOK
<1>6. /\ cancelledOn' \in [Series -> Today \cup {NoDate}]
      /\ \A t \in Series : cancelledOn'[t] <= today
      /\ \A t \in Series : cancelledOn[t] # NoDate => cancelledOn'[t] = cancelledOn[t]
  BY <1>3, <1>4 DEF SeriesInv, TablesOK
<1>7. SeriesStay
  BY <1>5, <1>6 DEF SeriesStay
<1>8. series'[s].state = "cancelled" /\ cancelledOn'[s] = day
  BY <1>2, <1>3 DEF SeriesInv, TablesOK
<1>9. EventsStay /\ NothingDeleted
  BY UnchangedEvents DEF BeginCancel, SeriesInv
<1>. PICK l : l = [AsOf(today) EXCEPT !.target = s]
  OBVIOUS
<1>10. Start(r, "dropFuture", l) /\ Fresh(l) /\ l.target = s /\ l.now = today
  BY FreshLocals DEF BeginCancel
<1>. QED BY <1>4, <1>7, <1>8, <1>9, <1>10, FreshInv

LEMMA DropFutureInv ==
    ASSUME SeriesInv, NEW r \in Requests, DropFuture(r)
    PROVE  SeriesInv' /\ EventsStay /\ DeletedInTime
<1>. PICK l : l = loc[r]
  OBVIOUS
<1>. PICK s : s = l.target
  OBVIOUS
<1>1. /\ s \in Series /\ series[s].state = "cancelled" /\ LocalsOK(l)
      /\ cancelledOn[s] <= l.now
  BY DEF SeriesInv, RequestOK, DropFuture
<1>2. EventsStay
      /\ \A e \in EventIds \ DroppedByCancel(l) : events'[e].live = events[e].live
  BY DeleteEvents DEF SeriesInv, DropFuture
<1>3. SeriesInv'
  BY <1>2, DoneInv DEF DropFuture
<1>4. s # None
  BY <1>1, BoundsAssumption
<1>5. ASSUME NEW e \in DroppedByCancel(l)
      PROVE  events[e].series = s /\ events[e].date > cancelledOn[s]
  <2>1. events[e].series = s /\ events[e].date > l.now /\ e \in EventIds
    BY DEF DroppedByCancel
  <2>2. events[e].date \in Days \cup {NoDate} /\ cancelledOn[s] \in Today \cup {NoDate}
    <3>1. events[e] \in EventRow
      BY <2>1, ElementOfSeq DEF SeriesInv, TablesOK, EventIds
    <3>. QED BY <1>1, <3>1 DEF EventRow, SeriesInv, TablesOK
  <2>3. Days \cup {NoDate} \subseteq Int /\ Today \cup {NoDate} \subseteq Int
    BY DaysAreNumbers DEF NoDate
  <2>4. l.now \in Int
    BY <1>1 DEF LocalsOK
  <2>5. events[e].date \in Int /\ cancelledOn[s] \in Int
    BY <2>2, <2>3
  <2>. QED BY <1>1, <2>1, <2>4, <2>5
<1>6. DeletedInTime
  BY <1>1, <1>2, <1>4, <1>5 DEF DeletedInTime
<1>. QED BY <1>2, <1>3, <1>6

\* A statement that is a request of its own.
LEMMA AtOnceInv ==
    ASSUME SeriesInv, UNCHANGED <<today, series, cancelledOn, pc, loc>>, EventsStay
    PROVE  SeriesInv'
<1>1. today \in Int
  BY DaysAreNumbers DEF SeriesInv, TablesOK
<1>2. TablesOK' /\ Onward
  BY <1>1, UnchangedSeries DEF SeriesInv, SeriesStay, EventsStay, TablesOK, Onward
<1>3. \A r \in Requests : RequestOK(r)'
  BY <1>2, RequestKept DEF SeriesInv
<1>. QED BY <1>2, <1>3 DEF SeriesInv

LEMMA CreateEventInv ==
    ASSUME SeriesInv, NEW r \in Requests, NEW d \in OneOffDates, CreateEvent(r, d)
    PROVE  SeriesInv' /\ EventsStay /\ NothingDeleted
<1>1. d \in Days \cup {NoDate}
  BY BoundsAssumption DEF NoDate
<1>2. EventsStay /\ NothingDeleted
  BY <1>1, AppendEvent DEF SeriesInv, CreateEvent
<1>. QED BY <1>2, AtOnceInv DEF CreateEvent

LEMMA EventType ==
    ASSUME SeriesInv, NEW e \in EventIds
    PROVE  events[e] \in EventRow
BY ElementOfSeq DEF SeriesInv, TablesOK, EventIds

LEMMA BeginToggleInv ==
    ASSUME SeriesInv, NEW r \in Requests, NEW e \in EventIds, BeginToggle(r, e)
    PROVE  SeriesInv' /\ EventsStay /\ NothingDeleted
<1>1. SeriesStay /\ EventsStay /\ NothingDeleted /\ UNCHANGED events
  BY UnchangedSeries, UnchangedEvents DEF BeginToggle, database, SeriesInv
<1>2. e \in EventIds'
  BY <1>1 DEF EventIds
<1>. PICK value : value = ~events[e].complete
  OBVIOUS
<1>. PICK l : l = [NoLocals EXCEPT !.target = e, !.value = value]
  OBVIOUS
<1>3. Start(r, "writeComplete", l) /\ Fresh(l) /\ l.target = e
  <2>1. value \in BOOLEAN
    OBVIOUS
  <2>. QED BY <2>1, FreshLocals DEF BeginToggle
<1>. QED BY <1>1, <1>2, <1>3, FreshInv

LEMMA BeginGameInv ==
    ASSUME SeriesInv, NEW r \in Requests, NEW e \in EventIds, BeginGame(r, e)
    PROVE  SeriesInv' /\ EventsStay /\ NothingDeleted
<1>1. SeriesStay /\ EventsStay /\ NothingDeleted /\ UNCHANGED events
  BY UnchangedSeries, UnchangedEvents DEF BeginGame, database, SeriesInv
<1>2. e \in EventIds'
  BY <1>1 DEF EventIds
<1>. PICK l : l = [NoLocals EXCEPT !.target = e]
  OBVIOUS
<1>3. Start(r, "link", l) /\ Fresh(l) /\ l.target = e
  BY FreshLocals DEF BeginGame
<1>. QED BY <1>1, <1>2, <1>3, FreshInv

LEMMA WriteCompleteInv ==
    ASSUME SeriesInv, NEW r \in Requests, WriteComplete(r)
    PROVE  SeriesInv' /\ EventsStay /\ NothingDeleted
<1>. DEFINE e == loc[r].target
            row == [events[e] EXCEPT !.complete = loc[r].value]
<1>1. e \in EventIds /\ loc[r].value \in BOOLEAN
  BY DEF SeriesInv, RequestOK, LocalsOK, WriteComplete
<1>2. /\ row \in EventRow /\ row.series = events[e].series /\ row.date = events[e].date
      /\ row.live = events[e].live
  <2>1. events[e] \in EventRow
    BY <1>1, EventType
  <2>. HIDE DEF e
  <2>. QED BY <1>1, <2>1 DEF EventRow
<1>3. EventsStay /\ NothingDeleted
  BY <1>1, <1>2, UpdateEvent DEF SeriesInv, WriteComplete
<1>. QED BY <1>3, DoneInv DEF WriteComplete

LEMMA LinkGameInv ==
    ASSUME SeriesInv, NEW r \in Requests, LinkGame(r)
    PROVE  SeriesInv' /\ EventsStay /\ NothingDeleted
<1>. DEFINE e == loc[r].target
            row == [events[e] EXCEPT !.games = @ + 1]
<1>1. e \in EventIds
  BY DEF SeriesInv, RequestOK, LinkGame
<1>2. /\ row \in EventRow /\ row.series = events[e].series /\ row.date = events[e].date
      /\ row.live = events[e].live
  <2>1. events[e] \in EventRow
    BY <1>1, EventType
  <2>. HIDE DEF e
  <2>. QED BY <2>1 DEF EventRow
<1>3. EventsStay /\ NothingDeleted
  BY <1>1, <1>2, UpdateEvent DEF SeriesInv, LinkGame
<1>. QED BY <1>3, DoneInv DEF LinkGame

LEMMA UnlinkGameInv ==
    ASSUME SeriesInv, NEW r \in Requests, NEW e \in EventIds, UnlinkGame(r, e)
    PROVE  SeriesInv' /\ EventsStay /\ NothingDeleted
<1>. DEFINE row == [events[e] EXCEPT !.games = @ - 1]
<1>1. /\ row \in EventRow /\ row.series = events[e].series /\ row.date = events[e].date
      /\ row.live = events[e].live
  BY EventType DEF UnlinkGame, EventRow
<1>2. events' = [events EXCEPT ![e] = row]
  BY DEF UnlinkGame
<1>3. EventsStay /\ NothingDeleted
  BY <1>1, <1>2, WrittenEvent DEF SeriesInv
<1>. QED BY <1>3, AtOnceInv DEF UnlinkGame

-----------------------------------------------------------------------------
\* Every step keeps the invariant, and deletes only in time.

LEMMA DropInv ==
    ASSUME SeriesInv, NEW r \in Requests, Drop(r)
    PROVE  SeriesInv' /\ EventsStay /\ NothingDeleted
<1>1. EventsStay /\ NothingDeleted /\ SeriesStay
  BY UnchangedEvents, UnchangedSeries DEF Drop, database, SeriesInv
<1>2. Moved(r, "idle", NoLocals)
  BY DEF Drop, Moved, Labels
<1>3. pc'[r] = "idle" /\ loc'[r] = NoLocals /\ LocalsOK(NoLocals)'
  BY <1>2, FreshOK, FreshLocals DEF Moved, SeriesInv
<1>4. RequestOK(r)'
  BY <1>3 DEF RequestOK, LocalsOK
<1>. QED BY <1>1, <1>2, <1>4, MovedInv

LEMMA MidnightInv ==
    ASSUME SeriesInv, Midnight
    PROVE  SeriesInv' /\ EventsStay /\ NothingDeleted
<1>1. EventsStay /\ NothingDeleted /\ SeriesStay
  BY UnchangedEvents, UnchangedSeries DEF Midnight, database, SeriesInv
<1>2. today \in Int /\ today' \in Int /\ today < today' /\ today' \in Today
  BY DaysAreNumbers DEF SeriesInv, TablesOK, Midnight
<1>3. TablesOK'
  <2>1. TablesOK /\ \A s \in Series : cancelledOn'[s] \in Int /\ cancelledOn'[s] <= today
    <3>1. Today \cup {NoDate} \subseteq Int
      BY DaysAreNumbers DEF NoDate
    <3>. QED BY <1>1, <3>1 DEF SeriesInv, SeriesStay
  <2>2. \A s \in Series : cancelledOn'[s] <= today'
    BY <1>2, <2>1
  <2>. QED BY <1>1, <1>2, <2>1, <2>2 DEF SeriesStay, EventsStay, TablesOK
<1>5. Onward
  BY <1>1, <1>2 DEF SeriesStay, EventsStay, Onward
<1>4. \A r \in Requests : RequestOK(r)'
  BY <1>3, <1>5, RequestKept DEF SeriesInv, Midnight
<1>. QED BY <1>1, <1>3, <1>4 DEF SeriesInv, Midnight

LEMMA StepInv ==
    ASSUME SeriesInv, NEW r \in Requests, Step(r)
    PROVE  SeriesInv' /\ EventsStay /\ DeletedInTime
<1>1. NothingDeleted => DeletedInTime
  BY DEF NothingDeleted, DeletedInTime
<1>2. CASE SkipPast(r)
  BY <1>1, <1>2, SkipPastInv
<1>3. CASE InsertInstance(r)
  BY <1>1, <1>3, InsertInstanceInv
<1>4. CASE WriteWatermark(r)
  BY <1>1, <1>4, WriteWatermarkInv
<1>5. CASE Materialized(r)
  BY <1>1, <1>5, MaterializedInv
<1>6. CASE SelectEvents(r)
  BY <1>1, <1>6, SelectEventsInv
<1>7. CASE CompletePast(r)
  BY <1>1, <1>7, CompletePastInv
<1>8. CASE CountGames(r)
  BY <1>1, <1>8, CountGamesInv
<1>9. CASE DeleteEmpty(r)
  BY <1>9, DeleteEmptyInv
<1>10. CASE DropFuture(r)
  BY <1>10, DropFutureInv
<1>11. CASE WriteComplete(r)
  BY <1>1, <1>11, WriteCompleteInv
<1>12. CASE LinkGame(r)
  BY <1>1, <1>12, LinkGameInv
<1>13. CASE ReadSeries(r)
  BY <1>1, <1>13, ReadSeriesInv
<1>. QED BY <1>2, <1>3, <1>4, <1>5, <1>6, <1>7, <1>8, <1>9, <1>10, <1>11, <1>12,
            <1>13 DEF Step

LEMMA BeginInv ==
    ASSUME SeriesInv, NEW r \in Requests, Begin(r)
    PROVE  SeriesInv' /\ EventsStay /\ NothingDeleted
<1>1. CASE BeginList(r)
  BY <1>1, BeginListInv
<1>2. CASE \E s \in Series, rule \in Templates : CreateSeries(r, s, rule)
  BY <1>2, CreateSeriesInv
<1>3. CASE \E s \in Series : BeginCancel(r, s)
  BY <1>3, BeginCancelInv
<1>4. CASE \E d \in OneOffDates : CreateEvent(r, d)
  BY <1>4, CreateEventInv
<1>5. CASE \E e \in EventIds : BeginToggle(r, e) \/ BeginGame(r, e) \/ UnlinkGame(r, e)
  BY <1>5, BeginToggleInv, BeginGameInv, UnlinkGameInv
<1>. QED BY <1>1, <1>2, <1>3, <1>4, <1>5 DEF Begin

LEMMA SeriesInvInit == Init => SeriesInv
<1>. SUFFICES ASSUME Init PROVE SeriesInv
  OBVIOUS
<1>1. /\ DOMAIN NoLocals = Fields /\ NoLocals.now = NoDate /\ NoLocals.todo = <<>>
      /\ NoLocals.mark = NoDate /\ NoLocals.rows = <<>> /\ NoLocals.value = FALSE
  BY DEF NoLocals, Fields
<1>2. NoDate \in Int /\ NoDate <= today
  BY DaysAreNumbers DEF Init, NoDate
<1>3. <<>> \in Seq(Read) /\ <<>> \in Seq(Past) /\ <<>> \in Seq(EventRow) /\ Len(<<>>) = 0
  BY EmptySeq
<1>4. LocalsOK(NoLocals)
  <2>1. Len(NoLocals.rows) = 0 /\ NoLocals.rows \in Seq(Past) /\ NoLocals.todo \in Seq(Read)
    BY <1>1, <1>3
  <2>. QED BY <1>2, <1>3, <2>1 DEF NoLocals, LocalsOK, Fields
<1>5. \A r \in Requests : pc[r] = "idle" /\ loc[r] = NoLocals
  BY DEF Init
<1>6. \A r \in Requests : RequestOK(r)
  BY <1>4, <1>5 DEF RequestOK
<1>7. TablesOK
  <2>1. \A s \in Series : cancelledOn[s] <= today
    BY <1>2 DEF Init
  <2>. QED BY <1>3, <2>1 DEF Init, TablesOK, SeriesRow
<1>. QED BY <1>6, <1>7 DEF Init, SeriesInv, Labels

LEMMA SeriesInvStep == SeriesInv /\ [Next]_vars => SeriesInv' /\ EventsStay /\ DeletedInTime
<1>. SUFFICES ASSUME SeriesInv, [Next]_vars PROVE SeriesInv' /\ EventsStay /\ DeletedInTime
  OBVIOUS
<1>1. NothingDeleted => DeletedInTime
  BY DEF NothingDeleted, DeletedInTime
<1>2. CASE UNCHANGED vars
  BY <1>1, <1>2, AtOnceInv, UnchangedEvents DEF vars, database, SeriesInv
<1>3. CASE Midnight
  BY <1>1, <1>3, MidnightInv
<1>4. CASE \E r \in Requests : Begin(r) \/ Step(r) \/ Drop(r)
  BY <1>1, <1>4, BeginInv, StepInv, DropInv
<1>. QED BY <1>2, <1>3, <1>4 DEF Next

(***************************************************************************)
(* Nothing happens to an event before its time (events.rs:685, 1163-1178), *)
(* though each request acts on the day it read before it waited for its    *)
(* statement: a listing deletes what was Grace days past on that day, and  *)
(* an event keeps its date and days only pass; a cancellation deletes what *)
(* was to come on that day, which is not before the day the series was     *)
(* first cancelled.                                                        *)
(***************************************************************************)
THEOREM NothingIsDeletedBeforeItsTime == Spec => OnlyPastOrCancelledAreDeleted
<1>1. SeriesInv /\ [Next]_vars =>
        [\A e \in EventIds : events[e].live /\ ~events'[e].live =>
            \/ Overdue(events[e].date, today)
            \/ /\ events[e].series # None
               /\ series[events[e].series].state = "cancelled"
               /\ events[e].date > cancelledOn[events[e].series]]_vars
  BY SeriesInvStep DEF DeletedInTime
<1>. QED BY <1>1, SeriesInvInit, SeriesInvStep, PTL DEF Spec, OnlyPastOrCancelledAreDeleted

-----------------------------------------------------------------------------
\* The dates of a rule.

LEMMA OccurrencesFollow ==
    ASSUME NEW rule \in Templates
    PROVE  /\ Occurrences[rule] \subseteq Days
           /\ Follows(rule, Occurrences[rule])
<1>. DEFINE O == {d \in Days : \A D \in SUBSET Days : Follows(rule, D) => d \in D}
<1>1. Occurrences[rule] = O
  BY DEF Occurrences
<1>2. rule.start \in O
  BY TemplatesAssumption DEF Follows
<1>3. ASSUME NEW d \in O, After(rule, d) # Never PROVE After(rule, d) \in O
  <2>1. After(rule, d) \in Days
    BY <1>3, AfterType
  <2>2. \A D \in SUBSET Days : Follows(rule, D) => After(rule, d) \in D
    BY <1>3 DEF Follows
  <2>. QED BY <2>1, <2>2
<1>. QED BY <1>1, <1>2, <1>3 DEF Follows

LEMMA OccurrencesAreLeast ==
    ASSUME NEW rule \in Templates, NEW D \in SUBSET Days, Follows(rule, D)
    PROVE  Occurrences[rule] \subseteq D
BY DEF Occurrences

LEMMA OccurrencesStart ==
    ASSUME NEW rule \in Templates, NEW d \in Occurrences[rule]
    PROVE  rule.start <= d
<1>. DEFINE D == {x \in Days : rule.start <= x}
<1>1. rule.start \in Days
  BY TemplatesAssumption
<1>2. ASSUME NEW x \in D PROVE After(rule, x) \in D \cup {Never}
  <2>1. After(rule, x) \in Days \cup {Never} /\ x < After(rule, x) /\ rule.start <= x
    BY AfterType
  <2>2. rule.start \in Nat /\ x \in Nat /\ (After(rule, x) \in Days => After(rule, x) \in Nat)
    BY <1>1, DaysAreNumbers
  <2>. QED BY <2>1, <2>2
<1>3. Follows(rule, D)
  <2>1. rule.start \in Nat
    BY <1>1, DaysAreNumbers
  <2>2. rule.start \in D
    BY <1>1, <2>1
  <2>. HIDE DEF D
  <2>. QED BY <1>2, <2>2 DEF Follows
<1>. HIDE DEF D
<1>4. d \in D
  BY <1>3, OccurrencesAreLeast DEF D
<1>. QED BY <1>4 DEF D

\* Between an occurrence and the one after it there is no other.
LEMMA NothingBetween ==
    ASSUME NEW rule \in Templates, NEW d \in Occurrences[rule], NEW e \in Occurrences[rule]
    PROVE  e <= d \/ After(rule, d) <= e
<1>. DEFINE O == Occurrences[rule]
            Reached(x) == \A y \in O : y < x => After(rule, y) <= x
            D == {x \in O : Reached(x)}
<1>1. O \subseteq Days /\ Follows(rule, O)
  BY OccurrencesFollow
<1>2. \A x \in O : /\ x \in Nat /\ After(rule, x) \in Nat
                   /\ x < After(rule, x) /\ rule.start <= x
                   /\ After(rule, x) \in O \cup {Never}
  BY <1>1, AfterType, OccurrencesStart, DaysAreNumbers DEF Follows
<1>3. rule.start \in O /\ rule.start \in Nat
  BY <1>1, <1>2 DEF Follows
<1>. HIDE DEF O
<1>4. ASSUME NEW x \in D
      PROVE  \A y \in O : y <= x \/ After(rule, x) <= y
  <2>. DEFINE H == {y \in O : y <= x \/ After(rule, x) <= y}
  <2>0. x \in O /\ Reached(x)
    BY <1>4
  <2>. HIDE DEF D
  <2>1. rule.start \in H
    BY <1>2, <1>3, <2>0
  <2>2. ASSUME NEW y \in H PROVE After(rule, y) \in H \cup {Never}
    <3>1. y \in O
      OBVIOUS
    <3>2. CASE y < x
      BY <1>2, <2>0, <3>1, <3>2
    <3>3. CASE y = x
      BY <1>2, <2>0, <3>3
    <3>4. CASE After(rule, x) <= y
      <4>1. After(rule, x) <= After(rule, y)
        BY <1>2, <2>0, <3>1, <3>4
      <4>. QED BY <1>2, <3>1, <4>1
    <3>. QED BY <1>2, <2>0, <3>1, <3>2, <3>3, <3>4
  <2>3. Follows(rule, H) /\ H \subseteq Days
    BY <1>1, <2>1, <2>2 DEF Follows
  <2>. HIDE DEF H
  <2>4. O \subseteq H
    BY <2>3, OccurrencesAreLeast DEF O
  <2>. QED BY <2>4 DEF H
<1>5. rule.start \in D
  <2>1. Reached(rule.start)
    BY <1>2, <1>3
  <2>. QED BY <1>3, <2>1
<1>6. ASSUME NEW x \in D PROVE After(rule, x) \in D \cup {Never}
  <2>. DEFINE next == After(rule, x)
  <2>1. x \in O /\ Reached(x)
    BY <1>6
  <2>2. \A y \in O : y <= x \/ next <= y
    BY <1>4, <1>6
  <2>3. next \in O \cup {Never} /\ next \in Nat /\ x < next /\ x \in Nat
    BY <1>2, <2>1
  <2>4. Reached(next)
    <3>. SUFFICES ASSUME NEW y \in O, y < next PROVE After(rule, y) <= next
      OBVIOUS
    <3>1. y \in Nat /\ After(rule, y) \in Nat
      BY <1>2
    <3>. HIDE DEF next
    <3>2. y <= x
      BY <2>2, <2>3, <3>1
    <3>3. CASE y < x
      BY <2>1, <2>3, <3>1, <3>3
    <3>4. CASE y = x
      BY <2>3, <3>4 DEF next
    <3>. QED BY <2>3, <3>1, <3>2, <3>3, <3>4
  <2>. QED BY <2>3, <2>4
<1>7. Follows(rule, D) /\ D \subseteq Days
  BY <1>1, <1>5, <1>6 DEF Follows
<1>. HIDE DEF D
<1>8. O \subseteq D
  BY <1>7, OccurrencesAreLeast DEF O
<1>9. d \in D /\ e \in O
  BY <1>8 DEF O
<1>. QED BY <1>4, <1>9

\* From a date of a rule, or from before the first, generation resumes at the
\* next one.
LEMMA FirstDateIsNext ==
    ASSUME NEW rule \in Templates, NEW reached \in Occurrences[rule] \cup {NoDate}
    PROVE  /\ FirstDate(rule, reached) \in Occurrences[rule] \cup {Never}
           /\ reached < FirstDate(rule, reached)
           /\ \A d \in Occurrences[rule] : d <= reached \/ FirstDate(rule, reached) <= d
<1>1. Occurrences[rule] \subseteq Days /\ Follows(rule, Occurrences[rule])
  BY OccurrencesFollow
<1>2. CASE reached = NoDate
  <2>1. FirstDate(rule, reached) = rule.start
    BY <1>2 DEF FirstDate
  <2>2. rule.start \in Occurrences[rule] /\ rule.start \in Nat \ {0}
    BY <1>1, DaysAreNumbers DEF Follows
  <2>3. \A d \in Occurrences[rule] : rule.start <= d
    BY OccurrencesStart
  <2>. QED BY <1>2, <2>1, <2>2, <2>3 DEF NoDate
<1>3. CASE reached # NoDate
  <2>1. reached \in Occurrences[rule] /\ reached \in Days
    BY <1>1, <1>3
  <2>2. FirstDate(rule, reached) = After(rule, reached)
    BY <1>3 DEF FirstDate
  <2>3. After(rule, reached) \in Occurrences[rule] \cup {Never}
    BY <1>1, <2>1 DEF Follows
  <2>4. reached < After(rule, reached)
    BY <2>1, AfterType
  <2>5. \A d \in Occurrences[rule] : d <= reached \/ After(rule, reached) <= d
    BY <2>1, NothingBetween
  <2>. QED BY <2>2, <2>3, <2>4, <2>5
<1>. QED BY <1>2, <1>3

-----------------------------------------------------------------------------
\* What has been generated of a series.

Generated(s, d) == \E e \in EventIds : events[e].series = s /\ events[e].date = d

\* Every date of the series from today up to the day, itself a date of the
\* series, has been generated.
GeneratedTo(s, day) ==
    /\ series[s].state # "absent" /\ series[s].rule \in Templates
    /\ day \in Occurrences[series[s].rule] \cup {NoDate}
    /\ \A d \in Occurrences[series[s].rule] :
          today <= d /\ d <= day => Generated(s, d)

\* The last date passed of the series a request is generating.
Reached(l) == IF l.mark = NoDate THEN l.todo[1].row.through ELSE l.mark

\* The series read are as they were read, though their watermarks may have
\* been written since, and the first is generated from where it was reached.
TodoOK(l) ==
    /\ \A i \in 1..Len(l.todo) :
          /\ l.todo[i].row.rule = series[l.todo[i].id].rule
          /\ GeneratedTo(l.todo[i].id, l.todo[i].row.through)
    /\ l.todo # <<>> =>
          /\ GeneratedTo(l.todo[1].id, Reached(l))
          /\ l.date = FirstDate(l.todo[1].row.rule, Reached(l))

SeriesRuled ==
    \A s \in Series : series[s].state # "absent" => GeneratedTo(s, series[s].through)

EventRuled(e) ==
    LET row == series[events[e].series]
    IN  events[e].series # None =>
          /\ row.state # "absent" /\ row.rule \in Templates
          /\ events[e].date \in Occurrences[row.rule] /\ events[e].date <= row.rule.end

RuleInv ==
    /\ SeriesRuled
    /\ \A e \in EventIds : EventRuled(e)
    /\ \A r \in Requests : TodoOK(loc[r])

-----------------------------------------------------------------------------
\* What stays generated.

SeriesKept ==
    \A s \in Series : series[s].state # "absent" =>
        series'[s].state # "absent" /\ series'[s].rule = series[s].rule

Kept == today <= today' /\ SeriesKept /\ EventsStay

LEMMA GeneratedKept ==
    ASSUME TablesOK, TablesOK', Kept, NEW s \in Series, NEW day, GeneratedTo(s, day)
    PROVE  GeneratedTo(s, day)'
<1>. DEFINE O == Occurrences[series[s].rule]
<1>1. /\ series[s].state # "absent" /\ series[s].rule \in Templates
      /\ day \in O \cup {NoDate}
      /\ \A d \in O : today <= d /\ d <= day => Generated(s, d)
  BY DEF GeneratedTo
<1>2. series'[s].state # "absent" /\ series'[s].rule = series[s].rule
  BY <1>1 DEF Kept, SeriesKept
<1>3. today \in Int /\ today' \in Int /\ today <= today' /\ O \subseteq Int
  <2>1. today \in Int /\ today' \in Int /\ today <= today'
    BY DaysAreNumbers DEF TablesOK, Kept
  <2>2. O \subseteq Days
    BY <1>1, OccurrencesFollow
  <2>. HIDE DEF O
  <2>. QED BY <2>1, <2>2, DaysAreNumbers
<1>4. Len(events) \in Nat /\ Len(events') \in Nat /\ EventIds \subseteq EventIds'
  BY DEF TablesOK, Kept, EventsStay, EventIds
<1>5. \A d : Generated(s, d) => Generated(s, d)'
  BY <1>4 DEF Kept, EventsStay, Generated
<1>6. ASSUME NEW d \in O, today' <= d, d <= day PROVE Generated(s, d)'
  <2>1. today <= d
    BY <1>3, <1>6
  <2>2. Generated(s, d)
    BY <1>1, <1>6, <2>1
  <2>. QED BY <1>5, <2>2
<1>. QED BY <1>1, <1>2, <1>6 DEF GeneratedTo

\* The locals of a request are what they are said to be.
LEMMA TodoPrimed ==
    ASSUME NEW r, NEW l, l = loc'[r], TodoOK(l)'
    PROVE  TodoOK(loc[r])'
BY DEF TodoOK, GeneratedTo, Generated, Reached, EventIds

LEMMA TodoKept ==
    ASSUME TablesOK, TablesOK', Kept, NEW l, NEW m, LocalsOK(l), TodoOK(l),
           m.todo = <<>> \/ (m.todo = l.todo /\ m.date = l.date /\ m.mark = l.mark)
    PROVE  TodoOK(m)'
<1>1. CASE m.todo = <<>>
  BY <1>1 DEF TodoOK
<1>2. CASE m.todo = l.todo /\ m.date = l.date /\ m.mark = l.mark
  <2>1. ASSUME NEW i \in 1..Len(l.todo)
        PROVE  /\ l.todo[i].id \in Series
               /\ l.todo[i].row.rule = series[l.todo[i].id].rule
               /\ GeneratedTo(l.todo[i].id, l.todo[i].row.through)
    <3>1. l.todo[i] \in Read
      BY ElementOfSeq DEF LocalsOK
    <3>. QED BY <3>1 DEF TodoOK, Read
  <2>2. ASSUME NEW i \in 1..Len(l.todo)
        PROVE  /\ l.todo[i].row.rule = series'[l.todo[i].id].rule
               /\ GeneratedTo(l.todo[i].id, l.todo[i].row.through)'
    <3>1. series[l.todo[i].id].state # "absent"
      BY <2>1 DEF GeneratedTo
    <3>. QED BY <2>1, <3>1, GeneratedKept DEF Kept, SeriesKept
  <2>3. Reached(m) = Reached(l)
    BY <1>2 DEF Reached
  <2>4. ASSUME l.todo # <<>>
        PROVE  /\ GeneratedTo(l.todo[1].id, Reached(l))'
               /\ l.date = FirstDate(l.todo[1].row.rule, Reached(l))
    <3>1. 1 \in 1..Len(l.todo)
      BY <2>4, EmptySeq DEF LocalsOK
    <3>2. l.todo[1].id \in Series
      BY <2>1, <3>1
    <3>3. GeneratedTo(l.todo[1].id, Reached(l))
      BY <2>4 DEF TodoOK
    <3>. QED BY <2>4, <3>2, <3>3, GeneratedKept DEF TodoOK
  <2>. QED BY <1>2, <2>2, <2>3, <2>4 DEF TodoOK
<1>. QED BY <1>1, <1>2

LEMMA SeriesKeptStep ==
    ASSUME SeriesInv, [Next]_vars
    PROVE  Kept
<1>1. EventsStay /\ SeriesInv'
  BY SeriesInvStep
<1>2. today <= today'
  <2>1. today \in Int /\ today' \in Int
    BY <1>1, DaysAreNumbers DEF SeriesInv, TablesOK
  <2>2. UNCHANGED today \/ today' > today
    BY ZenonT(60) DEF Next, vars, Midnight, Begin, Step, Drop, BeginList, CreateSeries, BeginCancel,
           CreateEvent, BeginToggle, BeginGame, UnlinkGame, SkipPast, InsertInstance,
           ReadSeries, WriteWatermark, Materialized, SelectEvents, CompletePast, CountGames,
           DeleteEmpty, DropFuture, WriteComplete, LinkGame, NextRow, Done, Goto, Start
  <2>. QED BY <2>1, <2>2
<1>3. ASSUME UNCHANGED series PROVE SeriesKept
  BY <1>3 DEF SeriesKept
<1>4. ASSUME NEW s \in Series, NEW row, series' = [series EXCEPT ![s] = row],
             series[s].state # "absent" =>
                row.state # "absent" /\ row.rule = series[s].rule
      PROVE  SeriesKept
  BY <1>4 DEF SeriesKept, SeriesInv, TablesOK
<1>5. ASSUME NEW r \in Requests, NEW s \in Series, NEW rule \in Templates,
             CreateSeries(r, s, rule)
      PROVE  SeriesKept
  BY <1>4, <1>5 DEF CreateSeries
<1>6. ASSUME NEW r \in Requests, NEW s \in Series, BeginCancel(r, s)
      PROVE  SeriesKept
  <2>. DEFINE row == [series[s] EXCEPT !.state = "cancelled"]
  <2>1. series[s] \in SeriesRow
    BY DEF SeriesInv, TablesOK
  <2>2. row.state = "cancelled" /\ row.rule = series[s].rule
    BY <2>1 DEF SeriesRow
  <2>3. series' = [series EXCEPT ![s] = row]
    BY <1>6 DEF BeginCancel
  <2>. HIDE DEF row
  <2>. QED BY <1>4, <2>2, <2>3
<1>7. ASSUME NEW r \in Requests, WriteWatermark(r) PROVE SeriesKept
  <2>. DEFINE s == loc[r].todo[1].id
              row == [series[s] EXCEPT !.through = loc[r].mark]
  <2>1. s \in Series
    <3>1. loc[r].todo \in Seq(Read) /\ loc[r].todo # <<>>
      BY <1>7 DEF WriteWatermark, SeriesInv, RequestOK, LocalsOK
    <3>2. loc[r].todo[1] \in Read
      BY <3>1, EmptySeq, ElementOfSeq
    <3>. QED BY <3>2 DEF Read
  <2>2. CASE UNCHANGED series
    BY <1>3, <2>2
  <2>3. CASE series' = [series EXCEPT ![s].through = loc[r].mark]
    <3>. HIDE DEF s
    <3>1. series[s] \in SeriesRow
      BY <2>1 DEF SeriesInv, TablesOK
    <3>2. row.state = series[s].state /\ row.rule = series[s].rule
      BY <3>1 DEF SeriesRow
    <3>3. series' = [series EXCEPT ![s] = row]
      BY <2>3
    <3>. HIDE DEF row
    <3>. QED BY <1>4, <2>1, <3>2, <3>3
  <2>. QED BY <1>7, <2>2, <2>3 DEF WriteWatermark, Mark
<1>8. \/ UNCHANGED series
      \/ \E r \in Requests : \/ \E s \in Series, rule \in Templates : CreateSeries(r, s, rule)
                             \/ \E s \in Series : BeginCancel(r, s)
                             \/ WriteWatermark(r)
  BY DEF Next, vars, database, Midnight, Begin, Step, Drop, BeginList,
         CreateEvent, BeginToggle, BeginGame, UnlinkGame, SkipPast, InsertInstance,
         ReadSeries, Materialized, SelectEvents, CompletePast, CountGames, DeleteEmpty,
         DropFuture, WriteComplete, LinkGame
<1>. QED BY <1>1, <1>2, <1>3, <1>5, <1>6, <1>7, <1>8 DEF Kept

-----------------------------------------------------------------------------
\* The steps that generate nothing.

\* No event is added, no series gets another row, and no request reads.
Aside ==
    /\ Len(events') = Len(events)
    /\ \A s \in Series : series'[s].state # "absent" =>
          series[s].state # "absent" /\ series'[s].through = series[s].through
    /\ \A q \in Requests :
          \/ loc'[q].todo = <<>>
          \/ /\ loc'[q].todo = loc[q].todo /\ loc'[q].date = loc[q].date
             /\ loc'[q].mark = loc[q].mark

LEMMA SeriesRuledKept ==
    ASSUME TablesOK, TablesOK', Kept, SeriesRuled, NEW s \in Series,
           series[s].state # "absent", series'[s].through = series[s].through
    PROVE  GeneratedTo(s, series[s].through)'
<1>. PICK through : through = series[s].through
  OBVIOUS
<1>1. GeneratedTo(s, through)
  BY DEF SeriesRuled
<1>2. GeneratedTo(s, through)'
  BY <1>1, GeneratedKept
<1>. QED BY <1>2 DEF GeneratedTo, Generated, EventIds

LEMMA EventRuledKept ==
    ASSUME TablesOK, TablesOK', Kept, NEW e \in EventIds, EventRuled(e)
    PROVE  EventRuled(e)'
<1>1. events[e].series # None => events[e].series \in Series
  <2>1. events[e] \in EventRow
    BY ElementOfSeq DEF TablesOK, EventIds
  <2>. QED BY <2>1 DEF EventRow
<1>. QED BY <1>1 DEF Kept, EventsStay, SeriesKept, EventRuled

LEMMA RequestTodoKept ==
    ASSUME SeriesInv, SeriesInv', Kept, NEW q \in Requests, TodoOK(loc[q]),
           \/ loc'[q].todo = <<>>
           \/ /\ loc'[q].todo = loc[q].todo /\ loc'[q].date = loc[q].date
              /\ loc'[q].mark = loc[q].mark
    PROVE  TodoOK(loc[q])'
<1>. PICK l : l = loc[q]
  OBVIOUS
<1>. PICK m : m = loc'[q]
  OBVIOUS
<1>1. LocalsOK(l) /\ TodoOK(l)
  BY DEF SeriesInv, RequestOK
<1>2. TodoOK(m)'
  BY <1>1, TodoKept DEF SeriesInv
<1>. QED BY <1>2, TodoPrimed

LEMMA AsideRule ==
    ASSUME SeriesInv, SeriesInv', RuleInv, Kept, Aside
    PROVE  RuleInv'
<1>1. SeriesRuled'
  BY SeriesRuledKept DEF SeriesRuled, Aside, RuleInv, SeriesInv
<1>2. \A e \in EventIds' : EventRuled(e)'
  BY EventRuledKept DEF RuleInv, SeriesInv, Aside, EventIds
<1>3. \A q \in Requests : TodoOK(loc[q])'
  BY RequestTodoKept DEF RuleInv, Aside
<1>. QED BY <1>1, <1>2, <1>3 DEF RuleInv

\* A request that moves, with nothing more to generate than it had.
LEMMA AsideMoved ==
    ASSUME SeriesInv, NEW r \in Requests, NEW l, loc' = [loc EXCEPT ![r] = l],
           \/ l.todo = <<>>
           \/ /\ l.todo = loc[r].todo /\ l.date = loc[r].date /\ l.mark = loc[r].mark,
           UNCHANGED series, Len(events') = Len(events)
    PROVE  Aside
BY DEF SeriesInv, Aside

LEMMA AsideDone ==
    ASSUME SeriesInv, NEW r \in Requests, Done(r), UNCHANGED series, Len(events') = Len(events)
    PROVE  Aside
<1>1. NoLocals.todo = <<>> /\ loc' = [loc EXCEPT ![r] = NoLocals]
  BY DEF NoLocals, Done, Goto
<1>. QED BY <1>1, AsideMoved

LEMMA AsideNextRow ==
    ASSUME SeriesInv, NEW r \in Requests, NextRow(r), UNCHANGED series,
           Len(events') = Len(events)
    PROVE  Aside
<1>. DEFINE l == [loc[r] EXCEPT !.rows = Tail(loc[r].rows)]
<1>1. CASE Done(r)
  BY <1>1, AsideDone
<1>2. CASE Goto(r, "complete", l)
  <2>1. l.todo = loc[r].todo /\ l.date = loc[r].date /\ l.mark = loc[r].mark
    BY DEF SeriesInv, RequestOK, LocalsOK, Fields
  <2>2. loc' = [loc EXCEPT ![r] = l]
    BY <1>2 DEF Goto
  <2>. HIDE DEF l
  <2>. QED BY <2>1, <2>2, AsideMoved
<1>. QED BY <1>1, <1>2 DEF NextRow

LEMMA WrittenLength ==
    ASSUME TablesOK, NEW e \in EventIds, NEW row, events' = [events EXCEPT ![e] = row]
    PROVE  Len(events') = Len(events)
BY DEF TablesOK, EventIds

LEMMA DeletedLength ==
    ASSUME TablesOK, NEW es, Delete(es)
    PROVE  Len(events') = Len(events)
<1>1. events \in Seq(EventRow) /\ Len(events) \in Nat
  BY DEF TablesOK
<1>2. DOMAIN events' = 1..Len(events)
  BY DEF Delete, EventIds
<1>3. events' \in Seq(EventRow)
  BY DeleteEvents DEF EventsStay
<1>4. Len(events') \in Nat /\ DOMAIN events' = 1..Len(events')
  BY <1>3
<1>. QED BY <1>1, <1>2, <1>4

LEMMA AsideStep ==
    ASSUME SeriesInv, NEW r \in Requests,
           \/ Materialized(r) \/ SelectEvents(r) \/ CompletePast(r) \/ CountGames(r)
           \/ DeleteEmpty(r) \/ DropFuture(r) \/ WriteComplete(r) \/ LinkGame(r)
    PROVE  Aside
<1>0. TablesOK
  BY DEF SeriesInv
<1>1. CASE Materialized(r)
  <2>1. UNCHANGED <<series, events>> /\ AsOf(today).todo = <<>>
    BY <1>1 DEF Materialized, database, NoLocals, AsOf
  <2>2. CASE Goto(r, "selectEvents", AsOf(today))
    BY <2>1, <2>2, AsideMoved DEF Goto
  <2>3. CASE Done(r)
    BY <2>1, <2>3, AsideDone
  <2>. QED BY <1>1, <2>2, <2>3 DEF Materialized
<1>2. CASE SelectEvents(r)
  <2>. PICK rows : Done(r) \/ Goto(r, "complete", [loc[r] EXCEPT !.rows = rows])
    BY <1>2 DEF SelectEvents
  <2>. DEFINE l == [loc[r] EXCEPT !.rows = rows]
  <2>1. UNCHANGED <<series, events>>
    BY <1>2 DEF SelectEvents, database
  <2>2. l.todo = loc[r].todo /\ l.date = loc[r].date /\ l.mark = loc[r].mark
    BY DEF SeriesInv, RequestOK, LocalsOK, Fields
  <2>3. Done(r) \/ loc' = [loc EXCEPT ![r] = l]
    BY DEF Goto
  <2>. HIDE DEF l
  <2>. QED BY <2>1, <2>2, <2>3, AsideMoved, AsideDone
<1>3. CASE CompletePast(r)
  <2>1. loc[r].rows[1].id \in EventIds
    BY <1>3, ManagedType DEF CompletePast
  <2>2. Len(events') = Len(events)
    BY <1>0, <1>3, <2>1, WrittenLength DEF CompletePast, Update
  <2>. QED BY <1>3, <2>2, AsideMoved DEF CompletePast, Goto
<1>4. CASE CountGames(r)
  <2>1. UNCHANGED <<series, events>>
    BY <1>4 DEF CountGames, database
  <2>. QED BY <1>4, <2>1, AsideMoved, AsideNextRow DEF CountGames, Goto
<1>5. CASE DeleteEmpty(r)
  BY <1>0, <1>5, DeletedLength, AsideNextRow DEF DeleteEmpty
<1>6. CASE DropFuture(r)
  BY <1>0, <1>6, DeletedLength, AsideDone DEF DropFuture
<1>7. CASE WriteComplete(r)
  <2>1. loc[r].target \in EventIds
    BY <1>7 DEF SeriesInv, RequestOK, WriteComplete
  <2>2. Len(events') = Len(events)
    BY <1>0, <1>7, <2>1, WrittenLength DEF WriteComplete, Update
  <2>. QED BY <1>7, <2>2, AsideDone DEF WriteComplete
<1>8. CASE LinkGame(r)
  <2>1. loc[r].target \in EventIds
    BY <1>8 DEF SeriesInv, RequestOK, LinkGame
  <2>2. Len(events') = Len(events)
    BY <1>0, <1>8, <2>1, WrittenLength DEF LinkGame, Update
  <2>. QED BY <1>8, <2>2, AsideDone DEF LinkGame
<1>. QED BY <1>1, <1>2, <1>3, <1>4, <1>5, <1>6, <1>7, <1>8

LEMMA AsideBegin ==
    ASSUME SeriesInv, NEW r \in Requests,
           \/ BeginList(r)
           \/ \E s \in Series : BeginCancel(r, s)
           \/ \E e \in EventIds : BeginToggle(r, e) \/ BeginGame(r, e) \/ UnlinkGame(r, e)
           \/ Drop(r)
    PROVE  Aside
<1>1. ASSUME NEW label, NEW l, Start(r, label, l), Fresh(l), UNCHANGED <<series, events>>
      PROVE  Aside
  <2>1. l.todo = <<>> /\ loc' = [loc EXCEPT ![r] = l]
    BY <1>1 DEF Start, Fresh
  <2>. QED BY <1>1, <2>1, AsideMoved
<1>2. ASSUME NEW s \in Series, BeginCancel(r, s) PROVE Aside
  <2>. DEFINE l == [AsOf(today) EXCEPT !.target = s]
              row == [series[s] EXCEPT !.state = "cancelled"]
  <2>1. l.todo = <<>> /\ loc' = [loc EXCEPT ![r] = l] /\ UNCHANGED events
    BY <1>2 DEF BeginCancel, Start, NoLocals, AsOf
  <2>2. series' = [series EXCEPT ![s] = row] /\ series[s].state # "absent"
    BY <1>2 DEF BeginCancel
  <2>3. row.through = series[s].through
    <3>1. series[s] \in SeriesRow
      BY DEF SeriesInv, TablesOK
    <3>. QED BY <3>1 DEF SeriesRow
  <2>. HIDE DEF l, row
  <2>. QED BY <2>1, <2>2, <2>3 DEF SeriesInv, TablesOK, Aside
<1>3. ASSUME NEW e \in EventIds, BeginToggle(r, e) PROVE Aside
  <2>. PICK value : value = ~events[e].complete
    OBVIOUS
  <2>. PICK l : l = [NoLocals EXCEPT !.target = e, !.value = value]
    OBVIOUS
  <2>1. value \in BOOLEAN
    OBVIOUS
  <2>2. Start(r, "writeComplete", l) /\ Fresh(l)
    BY <1>3, <2>1, FreshLocals DEF BeginToggle
  <2>. QED BY <1>1, <1>3, <2>2 DEF BeginToggle, database
<1>4. ASSUME NEW e \in EventIds, BeginGame(r, e) PROVE Aside
  <2>. PICK l : l = [NoLocals EXCEPT !.target = e]
    OBVIOUS
  <2>1. Start(r, "link", l) /\ Fresh(l)
    BY <1>4, FreshLocals DEF BeginGame
  <2>. QED BY <1>1, <1>4, <2>1 DEF BeginGame, database
<1>5. ASSUME NEW e \in EventIds, UnlinkGame(r, e) PROVE Aside
  <2>. PICK row : events' = [events EXCEPT ![e] = row]
    BY <1>5 DEF UnlinkGame
  <2>1. Len(events') = Len(events)
    BY WrittenLength DEF SeriesInv
  <2>. QED BY <1>5, <2>1 DEF UnlinkGame, Aside
<1>6. CASE Drop(r)
  <2>1. NoLocals.todo = <<>>
    BY DEF NoLocals
  <2>. QED BY <1>6, <2>1, AsideMoved DEF Drop, database
<1>7. CASE BeginList(r)
  <2>. PICK l : l = [AsOf(today) EXCEPT !.manage = TRUE]
    OBVIOUS
  <2>1. Start(r, "readSeries", l) /\ Fresh(l)
    BY <1>7, FreshLocals DEF BeginList
  <2>. QED BY <1>1, <1>7, <2>1 DEF BeginList, database
<1>. QED BY <1>2, <1>3, <1>4, <1>5, <1>6, <1>7
-----------------------------------------------------------------------------
\* The steps that generate.

LEMMA RuledPrimed ==
    ASSUME SeriesRuled', NEW s \in Series, series'[s].state # "absent",
           NEW through, through = series'[s].through
    PROVE  GeneratedTo(s, through)'
BY DEF SeriesRuled, GeneratedTo, Generated, EventIds

\* The series read are those that are active, each with its row.
LEMMA TodoRows ==
    ASSUME NEW rows \in [Series -> SeriesRow],
           \A s \in Series : rows[s].state = "active" => rows[s].rule \in Templates,
           NEW todo, todo = TodoOf(rows)
    PROVE  /\ todo \in Seq(Read)
           /\ \A i \in 1..Len(todo) :
                 todo[i].id \in ToGenerate(rows) /\ todo[i].row = rows[todo[i].id]
           /\ \A s \in ToGenerate(rows) : \E i \in 1..Len(todo) : todo[i].id = s
           /\ \A i, j \in 1..Len(todo) : todo[i].id = todo[j].id => i = j
<1>. DEFINE T == {[id |-> s, row |-> rows[s]] : s \in ToGenerate(rows)}
            f == [s \in ToGenerate(rows) |-> [id |-> s, row |-> rows[s]]]
<1>1. IsFiniteSet(ToGenerate(rows))
  BY BoundsAssumption, FS_Subset DEF ToGenerate
<1>2. f \in Surjection(ToGenerate(rows), T)
  BY DEF Surjection
<1>3. IsFiniteSet(T)
  BY <1>1, <1>2, FS_Surjection
<1>4. todo \in Seq(Read)
  BY TodoType
<1>5. \A t \in T : t.id \in ToGenerate(rows) /\ t.row = rows[t.id]
  OBVIOUS
<1>6. ASSUME NEW s \in ToGenerate(rows) PROVE \E t \in T : t.id = s
  <2>1. [id |-> s, row |-> rows[s]] \in T
    OBVIOUS
  <2>. HIDE DEF T
  <2>. QED BY <2>1
<1>7. \A t \in T : t = [id |-> t.id, row |-> rows[t.id]]
  <2>. TAKE t \in T
  <2>1. PICK s \in ToGenerate(rows) : t = [id |-> s, row |-> rows[s]]
    OBVIOUS
  <2>2. t.id = s
    BY <2>1
  <2>. QED BY <2>1, <2>2
<1>8. todo = SetToSeq(T)
  BY DEF TodoOf
<1>. HIDE DEF T, f
<1>9. /\ \A i \in 1..Len(todo) : todo[i] \in T
      /\ \A t \in T : \E i \in 1..Len(todo) : todo[i] = t
      /\ \A i, j \in 1..Len(todo) : todo[i] = todo[j] => i = j
  BY <1>3, <1>8, SetToSeqBijects
<1>10. \A t, u \in T : t.id = u.id => t = u
  BY <1>7
<1>11. \A i \in 1..Len(todo) : todo[i].id \in ToGenerate(rows) /\ todo[i].row = rows[todo[i].id]
  BY <1>5, <1>9
<1>12. \A s \in ToGenerate(rows) : \E i \in 1..Len(todo) : todo[i].id = s
  BY <1>6, <1>9
<1>13. \A i, j \in 1..Len(todo) : todo[i].id = todo[j].id => i = j
  BY <1>9, <1>10
<1>. QED BY <1>4, <1>11, <1>12, <1>13

LEMMA ReadingRule ==
    ASSUME SeriesInv', SeriesRuled', NEW rows, rows = series',
           NEW k, DOMAIN k = Fields, k.mark = NoDate, NEW l, l = Reading(rows, k)
    PROVE  TodoOK(l)'
<1>1. /\ rows \in [Series -> SeriesRow]
      /\ \A s \in Series : rows[s].state = "active" => rows[s].rule \in Templates
  BY DEF SeriesInv, TablesOK
<1>2. /\ l.todo = TodoOf(rows)
      /\ l.todo # <<>> => l.date = ReadDate(l.todo)
      /\ l.mark = NoDate
  BY ReadingFields
<1>3. /\ l.todo \in Seq(Read)
      /\ \A i \in 1..Len(l.todo) :
            l.todo[i].id \in ToGenerate(rows) /\ l.todo[i].row = rows[l.todo[i].id]
  BY <1>1, <1>2, TodoRows
<1>4. ASSUME NEW i \in 1..Len(l.todo)
      PROVE  /\ l.todo[i].row.rule = series'[l.todo[i].id].rule
             /\ GeneratedTo(l.todo[i].id, l.todo[i].row.through)'
  <2>. DEFINE s == l.todo[i].id
              through == l.todo[i].row.through
  <2>1. s \in Series /\ series'[s].state # "absent" /\ l.todo[i].row = series'[s]
    BY <1>3 DEF ToGenerate
  <2>2. through = series'[s].through
    BY <2>1
  <2>. HIDE DEF s, through
  <2>3. GeneratedTo(s, through)'
    BY <2>1, <2>2, RuledPrimed
  <2>. QED BY <2>1, <2>3 DEF s, through
<1>5. ASSUME l.todo # <<>>
      PROVE  /\ GeneratedTo(l.todo[1].id, Reached(l))'
             /\ l.date = FirstDate(l.todo[1].row.rule, Reached(l))
  <2>1. Reached(l) = l.todo[1].row.through
    BY <1>2 DEF Reached
  <2>2. 1 \in 1..Len(l.todo)
    BY <1>3, <1>5, EmptySeq
  <2>. QED BY <1>2, <1>4, <1>5, <2>1, <2>2 DEF ReadDate
<1>. QED BY <1>4, <1>5 DEF TodoOK

\* What a request that considers an occurrence knows of it.
LEMMA ConsideredRule ==
    ASSUME SeriesInv, RuleInv, NEW r \in Requests, Considers(r),
           NEW l, l = loc[r], NEW s, s = l.todo[1].id
    PROVE  /\ s \in Series /\ l.todo[1].row.rule = series[s].rule
           /\ GeneratedTo(s, Reached(l)) /\ LocalsOK(l)
           /\ l.date \in Occurrences[series[s].rule] /\ l.date \in Days
           /\ l.date <= series[s].rule.end /\ Reached(l) < l.date
           /\ \A d \in Occurrences[series[s].rule] : d <= Reached(l) \/ l.date <= d
<1>1. l.todo \in Seq(Read) /\ l.todo # <<>> /\ l.todo[1] \in Read /\ l.date \in Days /\ LocalsOK(l)
  BY ConsideredType DEF SeriesInv, RequestOK, LocalsOK, Considers
<1>2. s \in Series
  BY <1>1 DEF Read
<1>3. /\ l.todo[1].row.rule = series[s].rule /\ GeneratedTo(s, Reached(l))
      /\ l.date = FirstDate(l.todo[1].row.rule, Reached(l))
  <2>1. 1 \in 1..Len(l.todo)
    BY <1>1, EmptySeq
  <2>. QED BY <1>1, <2>1 DEF RuleInv, TodoOK
<1>4. series[s].rule \in Templates /\ Reached(l) \in Occurrences[series[s].rule] \cup {NoDate}
  BY <1>3 DEF GeneratedTo
<1>5. /\ l.date \in Occurrences[series[s].rule] \cup {Never} /\ Reached(l) < l.date
      /\ \A d \in Occurrences[series[s].rule] : d <= Reached(l) \/ l.date <= d
  <2>. PICK rule : rule = series[s].rule
    OBVIOUS
  <2>. PICK reached : reached = Reached(l)
    OBVIOUS
  <2>1. rule \in Templates /\ reached \in Occurrences[rule] \cup {NoDate}
        /\ l.date = FirstDate(rule, reached)
    BY <1>3, <1>4
  <2>2. /\ FirstDate(rule, reached) \in Occurrences[rule] \cup {Never}
        /\ reached < FirstDate(rule, reached)
        /\ \A d \in Occurrences[rule] : d <= reached \/ FirstDate(rule, reached) <= d
    BY <2>1, FirstDateIsNext
  <2>. QED BY <2>1, <2>2
<1>6. l.date \in Occurrences[series[s].rule]
  <2>1. Never \notin Days
    BY DaysAreNumbers, FirstDays DEF Never, Days
  <2>. QED BY <1>1, <1>5, <2>1
<1>7. l.date <= series[s].rule.end
  <2>. DEFINE end == series[s].rule.end
  <2>1. l.date <= (IF end <= l.now + Horizon THEN end ELSE l.now + Horizon)
    BY <1>3 DEF Considers, Limit
  <2>2. end \in Nat
    BY <1>4, TemplatesAssumption, DaysAreNumbers
  <2>3. l.date \in Nat /\ l.now + Horizon \in Int
    <3>1. l.now \in Int
      BY <1>1 DEF LocalsOK
    <3>2. l.date \in Nat /\ Horizon \in Nat
      BY <1>1, DaysAreNumbers
    <3>. HIDE DEF end
    <3>. QED BY <3>1, <3>2
  <2>. HIDE DEF end
  <2>4. l.date <= end
    BY <2>1, <2>2, <2>3
  <2>. QED BY <2>4 DEF end
<1>. QED BY <1>1, <1>2, <1>3, <1>5, <1>6, <1>7

\* An occurrence passed has been generated, unless it is past.
LEMMA PassedRule ==
    ASSUME SeriesInv, SeriesInv', RuleInv, Kept, NEW r \in Requests, Considers(r),
           Goto(r, "materialize", Passed(loc[r])), UNCHANGED series,
           NEW l, l = loc[r], l.date < l.now \/ Generated(l.todo[1].id, l.date)'
    PROVE  TodoOK(loc[r])'
<1>. PICK m : m = loc'[r]
  OBVIOUS
<1>. PICK s : s = l.todo[1].id
  OBVIOUS
<1>. DEFINE O == Occurrences[series[s].rule]
<1>1. /\ s \in Series /\ l.todo[1].row.rule = series[s].rule
      /\ GeneratedTo(s, Reached(l)) /\ LocalsOK(l)
      /\ l.date \in O /\ l.date \in Days
      /\ \A d \in O : d <= Reached(l) \/ l.date <= d
  BY ConsideredRule, SMTT(30)
<1>2. m.todo = l.todo /\ m.mark = l.date /\ m.date = After(series[s].rule, l.date)
  <2>1. m = [l EXCEPT !.mark = l.date, !.date = After(series[s].rule, l.date)]
    BY <1>1 DEF Goto, Passed, SeriesInv
  <2>. QED BY <1>1, <2>1 DEF LocalsOK, Fields
<1>3. ASSUME NEW i \in 1..Len(l.todo)
      PROVE  /\ l.todo[i].row.rule = series'[l.todo[i].id].rule
             /\ GeneratedTo(l.todo[i].id, l.todo[i].row.through)'
  <2>. PICK t : t = l.todo[i]
    OBVIOUS
  <2>1. t \in Read
    BY <1>1, ElementOfSeq DEF LocalsOK
  <2>2. t.row.rule = series[t.id].rule /\ GeneratedTo(t.id, t.row.through)
    BY DEF RuleInv, TodoOK
  <2>3. t.id \in Series
    BY <2>1 DEF Read
  <2>4. GeneratedTo(t.id, t.row.through)'
    BY <2>2, <2>3, GeneratedKept DEF SeriesInv
  <2>. QED BY <2>2, <2>4
<1>4. m.mark # NoDate /\ Reached(m) = l.date
  BY <1>1, <1>2, DaysAreNumbers DEF Reached, NoDate
<1>5. GeneratedTo(s, l.date)'
  <2>1. GeneratedTo(s, Reached(l))'
    BY <1>1, GeneratedKept DEF SeriesInv
  <2>2. /\ series'[s].state # "absent" /\ series'[s].rule \in Templates
        /\ \A d \in O : today' <= d /\ d <= Reached(l) => Generated(s, d)'
    BY <2>1 DEF GeneratedTo
  <2>3. ASSUME NEW d \in O, today' <= d, d <= l.date PROVE Generated(s, d)'
    <3>1. CASE d <= Reached(l)
      BY <2>2, <2>3, <3>1
    <3>2. CASE l.date <= d
      <4>1. d \in Nat /\ l.date \in Nat /\ l.now \in Int /\ l.now <= today /\ today \in Int
            /\ today' = today
        <5>1. O \subseteq Days
          BY <2>2, OccurrencesFollow
        <5>2. l.now \in Int /\ l.now <= today /\ today \in Today
          BY <1>1 DEF LocalsOK, SeriesInv, TablesOK
        <5>3. today' = today
          BY DEF Goto
        <5>4. d \in Days /\ l.date \in Days
          BY <1>1, <5>1
        <5>. HIDE DEF O
        <5>. QED BY <5>2, <5>3, <5>4, DaysAreNumbers
      <4>2. d = l.date /\ ~(l.date < l.now)
        BY <2>3, <3>2, <4>1
      <4>. QED BY <4>2
    <3>. QED BY <1>1, <3>1, <3>2
  <2>. QED BY <1>1, <2>2, <2>3 DEF GeneratedTo
<1>6. m.date = FirstDate(l.todo[1].row.rule, Reached(m))
  BY <1>1, <1>2, <1>4 DEF FirstDate
<1>7. TodoOK(m)'
  BY <1>2, <1>3, <1>4, <1>5, <1>6 DEF TodoOK
<1>. QED BY <1>7, TodoPrimed

\* The other requests know what they knew.
LEMMA OthersTodo ==
    ASSUME SeriesInv, SeriesInv', RuleInv, Kept, NEW r \in Requests, NEW l,
           loc' = [loc EXCEPT ![r] = l], TodoOK(loc[r])'
    PROVE  \A q \in Requests : TodoOK(loc[q])'
<1>. TAKE q \in Requests
<1>1. CASE q # r
  <2>1. loc'[q] = loc[q]
    BY <1>1 DEF SeriesInv
  <2>. QED BY <2>1, RequestTodoKept DEF RuleInv
<1>. QED BY <1>1

LEMMA SkipPastRule ==
    ASSUME SeriesInv, SeriesInv', RuleInv, Kept, NEW r \in Requests, SkipPast(r)
    PROVE  RuleInv'
<1>1. TodoOK(loc[r])'
  BY PassedRule DEF SkipPast, database
<1>2. \A q \in Requests : TodoOK(loc[q])'
  BY <1>1, OthersTodo DEF SkipPast, Goto
<1>3. UNCHANGED <<series, events>>
  BY DEF SkipPast, database
<1>4. SeriesRuled'
  BY <1>3, SeriesRuledKept DEF SeriesRuled, RuleInv, SeriesInv
<1>5. \A e \in EventIds' : EventRuled(e)'
  BY <1>3, EventRuledKept DEF RuleInv, SeriesInv, EventIds
<1>. QED BY <1>2, <1>4, <1>5 DEF RuleInv

\* A row appended is the last, and nothing else is new.
LEMMA Appended ==
    ASSUME TablesOK, NEW row, events' = Append(events, row)
    PROVE  /\ EventIds' = EventIds \cup {Len(events) + 1}
           /\ events'[Len(events) + 1] = row
           /\ \A e \in EventIds : events'[e] = events[e]
<1>1. events \in Seq(EventRow) /\ Len(events) \in Nat
  BY DEF TablesOK
<1>2. /\ Len(events') = Len(events) + 1
      /\ events'[Len(events) + 1] = row
      /\ \A e \in 1..Len(events) : events'[e] = events[e]
  BY <1>1
<1>. QED BY <1>1, <1>2 DEF EventIds

LEMMA InsertInstanceRule ==
    ASSUME SeriesInv, SeriesInv', RuleInv, Kept, NEW r \in Requests, InsertInstance(r)
    PROVE  RuleInv'
<1>. PICK l : l = loc[r]
  OBVIOUS
<1>. PICK s : s = l.todo[1].id
  OBVIOUS
<1>1. /\ s \in Series /\ GeneratedTo(s, Reached(l))
      /\ l.date \in Occurrences[series[s].rule] /\ l.date <= series[s].rule.end
  BY ConsideredRule DEF InsertInstance
<1>2. events' = Append(events, NewEvent(s, l.date))
  BY DEF InsertInstance
<1>. DEFINE new == Len(events) + 1
<1>3. /\ EventIds' = EventIds \cup {new} /\ events'[new] = NewEvent(s, l.date)
      /\ \A e \in EventIds : events'[e] = events[e]
  BY <1>2, Appended DEF SeriesInv
<1>. PICK n : n = new
  OBVIOUS
<1>4. events'[n].series = s /\ events'[n].date = l.date /\ n \in EventIds'
  BY <1>3 DEF NewEvent
<1>5. Generated(s, l.date)'
  BY <1>4 DEF Generated
<1>6. TodoOK(loc[r])'
  BY <1>5, PassedRule DEF InsertInstance
<1>7. \A q \in Requests : TodoOK(loc[q])'
  BY <1>6, OthersTodo DEF InsertInstance, Goto
<1>8. SeriesRuled'
  BY SeriesRuledKept DEF SeriesRuled, RuleInv, SeriesInv, InsertInstance
<1>9. EventRuled(n)'
  <2>1. UNCHANGED series
    BY DEF InsertInstance
  <2>. QED BY <1>1, <1>4, <2>1 DEF EventRuled, GeneratedTo
<1>10. \A e \in EventIds : EventRuled(e)'
  BY EventRuledKept DEF RuleInv, SeriesInv
<1>. QED BY <1>3, <1>7, <1>8, <1>9, <1>10 DEF RuleInv

LEMMA CreateEventRule ==
    ASSUME SeriesInv, SeriesInv', RuleInv, Kept, NEW r \in Requests,
           NEW d \in OneOffDates, CreateEvent(r, d)
    PROVE  RuleInv'
<1>1. UNCHANGED <<series, loc>> /\ events' = Append(events, NewEvent(None, d))
  BY DEF CreateEvent
<1>. PICK n : n = Len(events) + 1
  OBVIOUS
<1>2. EventIds' = EventIds \cup {n} /\ events'[n] = NewEvent(None, d)
  BY <1>1, Appended DEF SeriesInv
<1>3. EventRuled(n)'
  BY <1>2 DEF NewEvent, EventRuled
<1>4. \A e \in EventIds : EventRuled(e)'
  BY EventRuledKept DEF RuleInv, SeriesInv
<1>5. SeriesRuled'
  BY <1>1, SeriesRuledKept DEF SeriesRuled, RuleInv, SeriesInv
<1>6. \A q \in Requests : TodoOK(loc[q])'
  BY <1>1, RequestTodoKept DEF RuleInv
<1>. QED BY <1>2, <1>3, <1>4, <1>5, <1>6 DEF RuleInv

\* The request that reads knows what it read.
LEMMA ReadLocals ==
    ASSUME SeriesInv, NEW r \in Requests, ReadSeries(r)
    PROVE  /\ DOMAIN loc[r] = Fields /\ loc[r].mark = NoDate
           /\ pc'[r] = "materialize" /\ loc'[r] = Reading(series, loc[r])
           /\ loc' = [loc EXCEPT ![r] = Reading(series, loc[r])]
           /\ UNCHANGED <<series, events>>
BY DEF SeriesInv, RequestOK, LocalsOK, ReadSeries, Goto, database

LEMMA ReadSeriesRule ==
    ASSUME SeriesInv, SeriesInv', RuleInv, Kept, NEW r \in Requests, ReadSeries(r)
    PROVE  RuleInv'
<1>1. UNCHANGED <<series, events>>
  BY ReadLocals
<1>. PICK rows : rows = series'
  OBVIOUS
<1>. PICK k : k = loc[r]
  OBVIOUS
<1>. PICK l : l = Reading(rows, k)
  OBVIOUS
<1>2. loc' = [loc EXCEPT ![r] = l] /\ DOMAIN k = Fields /\ k.mark = NoDate
  BY <1>1, ReadLocals
<1>3. SeriesRuled'
  BY <1>1, SeriesRuledKept DEF SeriesRuled, RuleInv, SeriesInv
<1>4. TodoOK(l)'
  BY <1>2, <1>3, ReadingRule
<1>5. TodoOK(loc[r])'
  BY <1>2, <1>4, TodoPrimed DEF SeriesInv
<1>6. \A q \in Requests : TodoOK(loc[q])'
  BY <1>2, <1>5, OthersTodo
<1>7. \A e \in EventIds' : EventRuled(e)'
  BY <1>1, EventRuledKept DEF RuleInv, SeriesInv, EventIds
<1>. QED BY <1>3, <1>6, <1>7 DEF RuleInv

LEMMA CreateSeriesRule ==
    ASSUME SeriesInv, SeriesInv', RuleInv, Kept, NEW r \in Requests,
           NEW s \in Series, NEW rule \in Templates, CreateSeries(r, s, rule)
    PROVE  RuleInv'
<1>1. /\ UNCHANGED events /\ series[s].state = "absent"
      /\ series' = [series EXCEPT ![s] =
                       [state |-> "active", rule |-> rule, through |-> NoDate]]
      /\ Start(r, "readSeries", AsOf(today))
  BY DEF CreateSeries
<1>2. /\ series'[s].state = "active" /\ series'[s].rule = rule /\ series'[s].through = NoDate
      /\ \A t \in Series \ {s} : series'[t] = series[t]
  BY <1>1 DEF SeriesInv, TablesOK
<1>3. ASSUME NEW through, through = NoDate PROVE GeneratedTo(s, through)'
  <2>1. ASSUME NEW d \in Occurrences[rule], d <= through PROVE FALSE
    <3>1. d \in Nat \ {0}
      BY OccurrencesFollow, DaysAreNumbers
    <3>. QED BY <1>3, <2>1, <3>1 DEF NoDate
  <2>. QED BY <1>2, <1>3, <2>1 DEF GeneratedTo
<1>4. GeneratedTo(s, series[s].through)'
  <2>. PICK through : through = series'[s].through
    OBVIOUS
  <2>1. GeneratedTo(s, through)'
    BY <1>2, <1>3
  <2>. QED BY <2>1 DEF GeneratedTo, Generated, EventIds
<1>5. ASSUME NEW t \in Series \ {s}, series'[t].state # "absent"
      PROVE  GeneratedTo(t, series[t].through)'
  BY <1>2, <1>5, SeriesRuledKept DEF RuleInv, SeriesInv
<1>6. SeriesRuled'
  BY <1>4, <1>5 DEF SeriesRuled
<1>. PICK l : l = AsOf(today)
  OBVIOUS
<1>7. loc' = [loc EXCEPT ![r] = l] /\ l.todo = <<>>
  BY <1>1, FreshLocals DEF Start, Fresh
<1>8. TodoOK(l)'
  <2>1. Len(l.todo) = 0
    BY <1>7, EmptySeq
  <2>. QED BY <1>7, <2>1 DEF TodoOK
<1>9. TodoOK(loc[r])'
  BY <1>7, <1>8, TodoPrimed DEF SeriesInv
<1>10. \A q \in Requests : TodoOK(loc[q])'
  BY <1>7, <1>9, OthersTodo
<1>11. \A e \in EventIds' : EventRuled(e)'
  BY <1>1, EventRuledKept DEF RuleInv, SeriesInv, EventIds
<1>. QED BY <1>6, <1>10, <1>11 DEF RuleInv

\* What a request knows when it takes up its next series.
LEMMA RestRule ==
    ASSUME SeriesInv, SeriesInv', RuleInv, Kept, NEW r \in Requests, WriteWatermark(r)
    PROVE  TodoOK(loc[r])'
<1>. PICK l : l = loc[r]
  OBVIOUS
<1>. PICK m : m = loc'[r]
  OBVIOUS
<1>. DEFINE rest == Tail(l.todo)
<1>1. LocalsOK(l) /\ TodoOK(l) /\ l.todo \in Seq(Read) /\ l.todo # <<>>
  BY DEF SeriesInv, RequestOK, RuleInv, LocalsOK, WriteWatermark
<1>2. m.todo = rest /\ m.mark = NoDate /\ (rest # <<>> => m.date = ReadDate(rest))
  <2>. DEFINE date == IF rest = <<>> THEN NoDate ELSE ReadDate(rest)
  <2>1. m = [l EXCEPT !.todo = rest, !.mark = NoDate, !.date = date]
    BY DEF WriteWatermark, Goto, SeriesInv
  <2>2. DOMAIN l = Fields
    BY <1>1 DEF LocalsOK
  <2>3. rest # <<>> => date = ReadDate(rest)
    OBVIOUS
  <2>. HIDE DEF rest, date
  <2>. QED BY <2>1, <2>2, <2>3 DEF Fields
<1>3. /\ rest \in Seq(Read) /\ Len(l.todo) \in Nat /\ Len(rest) = Len(l.todo) - 1
      /\ \A i \in 1..Len(rest) : rest[i] = l.todo[i + 1]
  BY <1>1, HeadTailProperties
<1>4. ASSUME NEW i \in 1..Len(rest)
      PROVE  /\ rest[i].row.rule = series'[rest[i].id].rule
             /\ GeneratedTo(rest[i].id, rest[i].row.through)'
  <2>. PICK t : t = rest[i]
    OBVIOUS
  <2>. PICK j : j = i + 1
    OBVIOUS
  <2>1. j \in 1..Len(l.todo) /\ t = l.todo[j]
    <3>. HIDE DEF rest
    <3>. QED BY <1>3
  <2>2. t \in Read
    BY <1>1, <2>1, ElementOfSeq
  <2>3. t.row.rule = series[t.id].rule /\ GeneratedTo(t.id, t.row.through)
    BY <1>1, <2>1 DEF TodoOK
  <2>4. t.id \in Series /\ series[t.id].state # "absent"
    BY <2>2, <2>3 DEF Read, GeneratedTo
  <2>5. GeneratedTo(t.id, t.row.through)'
    BY <2>3, <2>4, GeneratedKept DEF SeriesInv
  <2>. QED BY <2>3, <2>4, <2>5 DEF Kept, SeriesKept
<1>. HIDE DEF rest
<1>5. ASSUME rest # <<>>
      PROVE  /\ GeneratedTo(rest[1].id, Reached(m))'
             /\ m.date = FirstDate(rest[1].row.rule, Reached(m))
  <2>1. Reached(m) = rest[1].row.through
    BY <1>2 DEF Reached
  <2>2. 1 \in 1..Len(rest)
    BY <1>3, <1>5, EmptySeq
  <2>. QED BY <1>2, <1>4, <1>5, <2>1, <2>2 DEF ReadDate
<1>6. TodoOK(m)'
  BY <1>2, <1>4, <1>5 DEF TodoOK
<1>. QED BY <1>6, TodoPrimed

LEMMA WriteWatermarkRule ==
    ASSUME SeriesInv, SeriesInv', RuleInv, Kept, NEW r \in Requests, WriteWatermark(r)
    PROVE  RuleInv'
<1>. PICK l : l = loc[r]
  OBVIOUS
<1>. PICK s : s = l.todo[1].id
  OBVIOUS
<1>1. /\ l.todo \in Seq(Read) /\ l.todo # <<>> /\ TodoOK(l)
      /\ UNCHANGED events
      /\ series' = IF l.mark = NoDate THEN series ELSE [series EXCEPT ![s].through = l.mark]
  BY DEF SeriesInv, RequestOK, LocalsOK, RuleInv, WriteWatermark, Mark
<1>2. s \in Series
  <2>1. l.todo[1] \in Read
    BY <1>1, EmptySeq, ElementOfSeq
  <2>. QED BY <2>1 DEF Read
<1>3. GeneratedTo(s, Reached(l))
  BY <1>1 DEF TodoOK
<1>4. SeriesRuled'
  <2>1. CASE l.mark = NoDate
    BY <1>1, <2>1, SeriesRuledKept DEF SeriesRuled, RuleInv, SeriesInv
  <2>2. CASE l.mark # NoDate
    <3>. PICK row : row = [series[s] EXCEPT !.through = l.mark]
      OBVIOUS
    <3>1. row.through = l.mark
      <4>1. series[s] \in SeriesRow
        BY <1>2 DEF SeriesInv, TablesOK
      <4>. QED BY <4>1 DEF SeriesRow
    <3>2. series' = [series EXCEPT ![s] = row]
      BY <1>1, <2>2
    <3>3. series'[s].through = l.mark /\ \A t \in Series \ {s} : series'[t] = series[t]
      BY <1>2, <3>1, <3>2 DEF SeriesInv, TablesOK
    <3>4. GeneratedTo(s, l.mark)'
      BY <1>2, <1>3, <2>2, GeneratedKept DEF SeriesInv, Reached
    <3>5. GeneratedTo(s, series[s].through)'
      BY <3>3, <3>4 DEF GeneratedTo, Generated, EventIds
    <3>6. ASSUME NEW t \in Series \ {s}, series'[t].state # "absent"
          PROVE  GeneratedTo(t, series[t].through)'
      BY <3>3, <3>6, SeriesRuledKept DEF RuleInv, SeriesInv
    <3>. QED BY <3>5, <3>6 DEF SeriesRuled
  <2>. QED BY <2>1, <2>2
<1>5. TodoOK(loc[r])'
  BY RestRule
<1>6. \A q \in Requests : TodoOK(loc[q])'
  BY <1>5, OthersTodo DEF WriteWatermark, Goto
<1>7. \A e \in EventIds' : EventRuled(e)'
  BY <1>1, EventRuledKept DEF RuleInv, SeriesInv, EventIds
<1>. QED BY <1>4, <1>6, <1>7 DEF RuleInv

-----------------------------------------------------------------------------
\* Series follow their rules, whatever overlaps or stops half-way.

LEMMA RuleInvInit == Init => RuleInv
<1>. SUFFICES ASSUME Init PROVE RuleInv
  OBVIOUS
<1>1. \A s \in Series : series[s].state = "absent"
  BY DEF Init
<1>2. EventIds = {}
  BY DEF Init, EventIds
<1>3. ASSUME NEW r \in Requests PROVE TodoOK(loc[r])
  <2>1. loc[r] = NoLocals /\ NoLocals.todo = <<>>
    BY DEF Init, NoLocals
  <2>2. loc[r].todo = <<>> /\ Len(loc[r].todo) = 0
    BY <2>1
  <2>. QED BY <2>2 DEF TodoOK
<1>. QED BY <1>1, <1>2, <1>3 DEF RuleInv, SeriesRuled

LEMMA RuleInvStep == SeriesInv /\ RuleInv /\ [Next]_vars => RuleInv'
<1>. SUFFICES ASSUME SeriesInv, RuleInv, [Next]_vars PROVE RuleInv'
  OBVIOUS
<1>1. SeriesInv' /\ Kept
  BY SeriesInvStep, SeriesKeptStep
<1>2. CASE UNCHANGED vars \/ Midnight
  <2>1. Aside
    BY <1>2 DEF Midnight, vars, database, Aside
  <2>. QED BY <1>1, <2>1, AsideRule
<1>3. ASSUME NEW r \in Requests, Step(r) PROVE RuleInv'
  <2>1. CASE SkipPast(r)
    BY <1>1, <2>1, SkipPastRule
  <2>2. CASE InsertInstance(r)
    BY <1>1, <2>2, InsertInstanceRule
  <2>3. CASE WriteWatermark(r)
    BY <1>1, <2>3, WriteWatermarkRule
  <2>4. CASE ReadSeries(r)
    BY <1>1, <2>4, ReadSeriesRule
  <2>. QED BY <1>1, <1>3, <2>1, <2>2, <2>3, <2>4, AsideStep, AsideRule DEF Step
<1>4. ASSUME NEW r \in Requests, Begin(r) PROVE RuleInv'
  <2>2. CASE \E s \in Series, rule \in Templates : CreateSeries(r, s, rule)
    BY <1>1, <2>2, CreateSeriesRule
  <2>3. CASE \E d \in OneOffDates : CreateEvent(r, d)
    BY <1>1, <2>3, CreateEventRule
  <2>. QED BY <1>1, <1>4, <2>2, <2>3, AsideBegin, AsideRule DEF Begin
<1>5. ASSUME NEW r \in Requests, Drop(r) PROVE RuleInv'
  BY <1>1, <1>5, AsideBegin, AsideRule
<1>. QED BY <1>2, <1>3, <1>4, <1>5 DEF Next

LEMMA SeriesInvariants == Spec => [](SeriesInv /\ RuleInv)
BY SeriesInvInit, SeriesInvStep, RuleInvInit, RuleInvStep, PTL DEF Spec

LEMMA DropsCounted == [Next]_vars => UNCHANGED drops \/ (drops < MaxDrops /\ drops' = drops + 1)
BY ZenonT(60) DEF Next, vars, Midnight, Begin, Step, Drop, BeginList, CreateSeries, BeginCancel,
   CreateEvent, BeginToggle, BeginGame, UnlinkGame, SkipPast, InsertInstance,
   ReadSeries, WriteWatermark, Materialized, SelectEvents, CompletePast, CountGames,
   DeleteEmpty, DropFuture, WriteComplete, LinkGame, NextRow, Done, Goto, Start

\* Every row and every request is what the schema and the handlers say.
THEOREM SeriesAreTyped == Spec => []TypeOK
<1>. DEFINE DropsOK == drops \in 0..MaxDrops
<1>1. Init => DropsOK
  BY BoundsAssumption DEF Init
<1>2. DropsOK /\ [Next]_vars => DropsOK'
  <2>1. MaxDrops \in Nat
    BY BoundsAssumption
  <2>. QED BY <2>1, DropsCounted
<1>3. SeriesInv /\ DropsOK => TypeOK
  BY DEF SeriesInv, TablesOK, TypeOK
<1>. QED BY <1>1, <1>2, <1>3, SeriesInvInit, SeriesInvStep, PTL DEF Spec

(***************************************************************************)
(* Whatever requests overlap, stop half-way or write a watermark they read *)
(* long ago, the watermark of a series is never ahead of its events        *)
(* (events.rs:597-636): a date is passed only when it is generated or      *)
(* past, and between the dates of a rule there is no other.                *)
(***************************************************************************)
THEOREM WatermarksAreCovered == Spec => []WatermarkIsCovered
<1>1. SeriesInv /\ RuleInv => WatermarkIsCovered
  BY DEF RuleInv, SeriesRuled, GeneratedTo, Generated, WatermarkIsCovered, Instances
<1>. QED BY <1>1, SeriesInvariants, PTL

-----------------------------------------------------------------------------
\* The cadence of a rule.

LEMMA DayInMonth ==
    ASSUME NEW d \in Days
    PROVE  /\ MonthOf(d) \in Months /\ MonthOf(d) \in Nat
           /\ DayOf(d) \in 1..MonthLength(MonthOf(d)) /\ MonthLength(MonthOf(d)) \in Nat
           /\ d = FirstDay[MonthOf(d)] - 1 + DayOf(d)
<1>. PICK m : m = MonthOf(d)
  OBVIOUS
<1>. PICK first : first = FirstDay[m]
  OBVIOUS
<1>. PICK next : next = FirstDay[m + 1]
  OBVIOUS
<1>1. m \in Months /\ first <= d /\ d < next
  BY MonthOfDay
<1>2. m \in Nat /\ first \in Nat /\ next \in Nat /\ d \in Nat
  BY <1>1, FirstDays, DaysAreNumbers
<1>3. DayOf(d) = d - first + 1 /\ MonthLength(m) = next - first
  BY DEF DayOf, MonthLength
<1>. QED BY <1>1, <1>2, <1>3

\* A day of a month is a date, of that month and no other.
LEMMA DateOfMonth ==
    ASSUME NEW m \in Months, NEW day \in 1..MonthLength(m), NEW d, d = FirstDay[m] - 1 + day
    PROVE  d \in Days /\ MonthOf(d) = m /\ DayOf(d) = day
<1>1. /\ m \in 1..Len(FirstDay) /\ m + 1 \in 1..Len(FirstDay) /\ m \in Nat
      /\ 1 \in 1..Len(FirstDay) /\ Len(FirstDay) \in 1..Len(FirstDay) /\ Len(FirstDay) \in Nat
  BY FirstDays
<1>2. /\ FirstDay[1] <= FirstDay[m] /\ FirstDay[m + 1] <= FirstDay[Len(FirstDay)]
      /\ FirstDay[m] \in Nat /\ FirstDay[m + 1] \in Nat
      /\ FirstDay[1] \in Nat /\ FirstDay[Len(FirstDay)] \in Nat
  BY <1>1, FirstDays, FirstDaysGrow
<1>3. FirstDay[m] <= d /\ d < FirstDay[m + 1] /\ d \in Nat
  <2>. DEFINE first == FirstDay[m]
              next == FirstDay[m + 1]
  <2>1. MonthLength(m) = next - first /\ first \in Nat /\ next \in Nat
    BY <1>2 DEF MonthLength
  <2>. HIDE DEF first, next
  <2>2. day \in 1..(next - first)
    BY <2>1
  <2>3. d = first - 1 + day
    BY DEF first
  <2>4. first <= d /\ d < next /\ d \in Nat
    BY <2>1, <2>2, <2>3
  <2>. QED BY <2>4 DEF first, next
<1>4. d \in Days
  <2>. DEFINE first == FirstDay[m]
              next == FirstDay[m + 1]
              last == FirstDay[Len(FirstDay)]
  <2>1. /\ FirstDay[1] <= first /\ first <= d /\ d < next /\ next <= last
        /\ first \in Nat /\ next \in Nat /\ last \in Nat
    BY <1>2, <1>3
  <2>. HIDE DEF first, next, last
  <2>. PICK one : one = FirstDay[1]
    OBVIOUS
  <2>2. one \in Nat /\ d \in Nat /\ one <= first
    BY <1>2, <1>3, <2>1
  <2>3. one <= d /\ d < last
    BY <2>1, <2>2
  <2>. QED BY <2>1, <2>2, <2>3 DEF Days, last
<1>5. MonthOf(d) = m
  <2>. PICK n : n = MonthOf(d)
    OBVIOUS
  <2>. DEFINE first == FirstDay[m]
              next == FirstDay[m + 1]
              first2 == FirstDay[n]
              next2 == FirstDay[n + 1]
  <2>1. n \in Months /\ first2 <= d /\ d < next2
    BY <1>4, MonthOfDay
  <2>2. /\ n \in Nat /\ n \in 1..Len(FirstDay) /\ n + 1 \in 1..Len(FirstDay)
        /\ first2 \in Nat /\ next2 \in Nat /\ first \in Nat /\ next \in Nat
    BY <1>2, <2>1, FirstDays
  <2>3. n + 1 <= m => next2 <= first
    BY <1>1, <2>2, FirstDaysGrow
  <2>4. m + 1 <= n => next <= first2
    BY <1>1, <2>2, FirstDaysGrow
  <2>5. first <= d /\ d < next /\ d \in Nat
    BY <1>3
  <2>. HIDE DEF first, next, first2, next2
  <2>6. ~(n + 1 <= m) /\ ~(m + 1 <= n)
    BY <2>1, <2>2, <2>3, <2>4, <2>5
  <2>. QED BY <1>1, <2>2, <2>6
<1>6. DayOf(d) = day
  BY <1>2, <1>5 DEF DayOf
<1>. QED BY <1>4, <1>5, <1>6

\* The day a month has for a date of another: its last, if it is too short.
Clamped(day, m) == IF day <= MonthLength(m) THEN day ELSE MonthLength(m)

LEMMA MonthsHaveDays ==
    ASSUME NEW m \in Months
    PROVE  MonthLength(m) \in Nat \ {0}
<1>1. /\ m \in 1..Len(FirstDay) /\ m + 1 \in 1..Len(FirstDay) /\ m \in Nat
      /\ FirstDay[m] \in Nat /\ FirstDay[m + 1] \in Nat
  BY FirstDays
<1>2. FirstDay[m] < FirstDay[m + 1]
  <2>1. m < m + 1
    BY <1>1
  <2>. QED BY <1>1, <2>1, CalendarAssumption
<1>. QED BY <1>1, <1>2 DEF MonthLength

LEMMA AddMonthsLands ==
    ASSUME NEW d \in Days, NEW n \in Nat, NEW m, m = MonthOf(d) + n
    PROVE  IF m \in Months
           THEN /\ AddMonths(d, n) \in Days /\ MonthOf(AddMonths(d, n)) = m
                /\ DayOf(AddMonths(d, n)) = Clamped(DayOf(d), m)
                /\ AddMonths(d, n) = FirstDay[m] - 1 + Clamped(DayOf(d), m)
           ELSE AddMonths(d, n) = Never
<1>1. CASE m \notin Months
  BY <1>1 DEF AddMonths
<1>2. CASE m \in Months
  <2>. PICK day : day = Clamped(DayOf(d), m)
    OBVIOUS
  <2>1. AddMonths(d, n) = FirstDay[m] - 1 + day
    BY <1>2 DEF AddMonths, Clamped
  <2>2. DayOf(d) \in Nat \ {0} /\ MonthLength(m) \in Nat \ {0}
    BY <1>2, DayOfDay, MonthsHaveDays
  <2>3. day \in 1..MonthLength(m)
    BY <2>2 DEF Clamped
  <2>. QED BY <1>2, <2>1, <2>3, DateOfMonth
<1>. QED BY <1>1, <1>2

\* The dates near the cadence of a rule: what InstancesAreAligned allows.
NearStep(rule, k, d) ==
    \/ d = Nth(rule, k)
    \/ ShortMonthBefore(rule, k) /\ SameMonth(d, Nth(rule, k)) /\ d <= Nth(rule, k)

LEMMA StartIsNear ==
    ASSUME NEW rule \in Templates
    PROVE  NearStep(rule, 0, rule.start)
<1>. PICK d : d = rule.start
  OBVIOUS
<1>1. d \in Days /\ rule.frequency \in Frequencies /\ rule.interval \in Nat /\ DaysInWeek \in Nat
  BY TemplatesAssumption, CalendarAssumption
<1>2. 0 * rule.interval = 0 /\ DaysInWeek * 0 = 0
  BY <1>1
<1>3. AddDays(d, 0) = d
  BY <1>1, DaysAreNumbers DEF AddDays
<1>4. AddMonths(d, 0) = d
  <2>. PICK m : m = MonthOf(d)
    OBVIOUS
  <2>1. /\ m \in Months /\ m + 0 = m /\ DayOf(d) \in 1..MonthLength(m) /\ MonthLength(m) \in Nat
        /\ d = FirstDay[m] - 1 + DayOf(d)
    BY <1>1, DayInMonth
  <2>2. Clamped(DayOf(d), m) = DayOf(d)
    BY <2>1 DEF Clamped
  <2>. QED BY <1>1, <2>1, <2>2, AddMonthsLands
<1>. QED BY <1>1, <1>2, <1>3, <1>4 DEF NearStep, Nth, NextOccurrence, Frequencies

\* Steps add up.
LEMMA Multiples ==
    ASSUME NEW k \in Nat, NEW i \in Nat, NEW w \in Nat
    PROVE  /\ k * i \in Nat /\ (k + 1) * i = k * i + i /\ (k + 1) * i \in Nat
           /\ w * (k * i) \in Nat /\ w * i \in Nat
           /\ w * ((k + 1) * i) = w * (k * i) + w * i
OBVIOUS

LEMMA DaysAreSteady ==
    ASSUME NEW start \in Days, NEW m \in Nat, NEW n \in Nat, NEW d \in Days,
           d = AddDays(start, m)
    PROVE  AddDays(d, n) = AddDays(start, m + n)
BY DaysAreNumbers DEF AddDays

\* The step after a date that is near the cadence is near it too: the day of
\* the month, once clamped, only falls back.
LEMMA MonthsStayNear ==
    ASSUME NEW rule \in Templates, rule.frequency = "monthly", NEW k \in Nat,
           NEW d \in Days, NearStep(rule, k, d), After(rule, d) \in Days
    PROVE  NearStep(rule, k + 1, After(rule, d))
<1>. PICK start : start = rule.start
  OBVIOUS
<1>. PICK i : i = rule.interval
  OBVIOUS
<1>. PICK e : e = After(rule, d)
  OBVIOUS
<1>. PICK m : m = MonthOf(start) + k * i
  OBVIOUS
<1>. PICK n : n = m + i
  OBVIOUS
<1>1. start \in Days /\ i \in Nat /\ Never \notin Days
  <2>1. \A x \in Days : x \in Nat /\ x < Never
    BY DaysAreNumbers
  <2>2. Never \notin Days
    BY <2>1, DaysAreNumbers
  <2>. QED BY <2>2, TemplatesAssumption
<1>2. /\ k * i \in Nat /\ (k + 1) * i = k * i + i /\ (k + 1) * i \in Nat
      /\ MonthOf(start) \in Nat /\ DayOf(start) \in Nat
  BY <1>1, Multiples, DayInMonth, DayOfDay
<1>3. n = MonthOf(start) + (k + 1) * i
  BY <1>1, <1>2
<1>4. /\ Nth(rule, k) = AddMonths(start, k * i)
      /\ Nth(rule, k + 1) = AddMonths(start, (k + 1) * i)
      /\ e = AddMonths(d, i)
  BY DEF Nth, NextOccurrence, After
<1>5. Nth(rule, k) \in Days
  BY DEF NearStep, SameMonth
<1>6. /\ m \in Months /\ MonthOf(Nth(rule, k)) = m
      /\ DayOf(Nth(rule, k)) = Clamped(DayOf(start), m)
  BY <1>1, <1>2, <1>4, <1>5, AddMonthsLands
<1>7. m \in Nat /\ MonthLength(m) \in Nat /\ DayOf(d) \in Nat
  BY <1>6, FirstDays, MonthsHaveDays, DayOfDay
<1>8. MonthOf(d) = m /\ DayOf(d) <= DayOf(start)
      /\ (DayOf(d) < DayOf(start) => ShortMonthBefore(rule, k + 1))
  <2>1. CASE d = Nth(rule, k)
    <3>1. MonthOf(d) = m /\ DayOf(d) = Clamped(DayOf(start), m)
      BY <1>6, <2>1
    <3>2. DayOf(d) < DayOf(start) => MonthLength(m) < DayOf(start)
      BY <1>2, <1>7, <3>1 DEF Clamped
    <3>3. MonthLength(m) < DayOf(start) => ShortMonthBefore(rule, k + 1)
      <4>1. k \in 0..((k + 1) - 1)
        OBVIOUS
      <4>. QED BY <4>1 DEF ShortMonthBefore
    <3>4. DayOf(d) <= DayOf(start)
      BY <1>2, <1>7, <3>1 DEF Clamped
    <3>. QED BY <3>1, <3>2, <3>3, <3>4
  <2>2. CASE ShortMonthBefore(rule, k) /\ SameMonth(d, Nth(rule, k)) /\ d <= Nth(rule, k)
    <3>1. MonthOf(d) = m
      BY <1>6, <2>2 DEF SameMonth
    <3>2. 0..(k - 1) \subseteq 0..((k + 1) - 1)
      OBVIOUS
    <3>3. ShortMonthBefore(rule, k + 1)
      BY <2>2, <3>2 DEF ShortMonthBefore
    <3>4. DayOf(d) <= Clamped(DayOf(start), m)
      <4>. PICK c : c = Clamped(DayOf(start), m)
        OBVIOUS
      <4>. PICK first : first = FirstDay[m]
        OBVIOUS
      <4>1. d = first - 1 + DayOf(d) /\ Nth(rule, k) = first - 1 + c
        BY <1>5, <1>6, <3>1, DayInMonth
      <4>2. first \in Nat /\ c \in Nat
        BY <1>2, <1>6, <1>7, FirstDays DEF Clamped
      <4>. QED BY <1>7, <2>2, <4>1, <4>2
    <3>5. DayOf(d) <= DayOf(start)
      BY <1>2, <1>7, <3>4 DEF Clamped
    <3>. QED BY <3>1, <3>3, <3>5
  <2>. QED BY <2>1, <2>2 DEF NearStep
<1>9. /\ n \in Months /\ MonthOf(e) = n
      /\ e = FirstDay[n] - 1 + Clamped(DayOf(d), n)
  BY <1>1, <1>4, <1>8, AddMonthsLands
<1>10. /\ Nth(rule, k + 1) \in Days /\ MonthOf(Nth(rule, k + 1)) = n
       /\ Nth(rule, k + 1) = FirstDay[n] - 1 + Clamped(DayOf(start), n)
  BY <1>1, <1>2, <1>3, <1>4, <1>9, AddMonthsLands
<1>11. CASE DayOf(d) = DayOf(start)
  BY <1>9, <1>10, <1>11 DEF NearStep
<1>12. CASE DayOf(d) < DayOf(start)
  <2>. PICK a : a = Clamped(DayOf(d), n)
    OBVIOUS
  <2>. PICK b : b = Clamped(DayOf(start), n)
    OBVIOUS
  <2>1. a \in Nat /\ b \in Nat /\ a <= b /\ FirstDay[n] \in Nat
    BY <1>2, <1>7, <1>9, <1>12, MonthsHaveDays, FirstDays DEF Clamped
  <2>2. e <= Nth(rule, k + 1)
    BY <1>9, <1>10, <2>1
  <2>. QED BY <1>8, <1>9, <1>10, <1>12, <2>2 DEF NearStep, SameMonth
<1>. QED BY <1>2, <1>7, <1>8, <1>11, <1>12

LEMMA StepsStayNear ==
    ASSUME NEW rule \in Templates, NEW k \in Nat,
           NEW d \in Days, NearStep(rule, k, d), After(rule, d) \in Days
    PROVE  NearStep(rule, k + 1, After(rule, d))
<1>. PICK start : start = rule.start
  OBVIOUS
<1>. PICK i : i = rule.interval
  OBVIOUS
<1>1. start \in Days /\ i \in Nat /\ DaysInWeek \in Nat /\ rule.frequency \in Frequencies
  BY TemplatesAssumption, CalendarAssumption
<1>2. /\ k * i \in Nat /\ (k + 1) * i = k * i + i
      /\ DaysInWeek * (k * i) \in Nat /\ DaysInWeek * i \in Nat
      /\ DaysInWeek * ((k + 1) * i) = DaysInWeek * (k * i) + DaysInWeek * i
  BY <1>1, Multiples
<1>3. CASE rule.frequency = "daily"
  <2>1. d = AddDays(start, k * i)
    BY <1>3 DEF NearStep, ShortMonthBefore, Nth, NextOccurrence
  <2>2. AddDays(d, i) = AddDays(start, k * i + i)
    BY <1>1, <1>2, <2>1, DaysAreSteady
  <2>. QED BY <1>2, <1>3, <2>2 DEF NearStep, Nth, NextOccurrence, After
<1>4. CASE rule.frequency = "weekly"
  <2>1. d = AddDays(start, DaysInWeek * (k * i))
    BY <1>4 DEF NearStep, ShortMonthBefore, Nth, NextOccurrence
  <2>2. AddDays(d, DaysInWeek * i) = AddDays(start, DaysInWeek * (k * i) + DaysInWeek * i)
    BY <1>1, <1>2, <2>1, DaysAreSteady
  <2>. QED BY <1>2, <1>4, <2>2 DEF NearStep, Nth, NextOccurrence, After
<1>5. CASE rule.frequency = "monthly"
  BY <1>5, MonthsStayNear
<1>. QED BY <1>1, <1>3, <1>4, <1>5 DEF Frequencies

LEMMA OccurrencesAreNear ==
    ASSUME NEW rule \in Templates, NEW d \in Occurrences[rule]
    PROVE  /\ d \in Days /\ rule.start \in Nat /\ rule.start <= d
           /\ \E k \in 0..(d - rule.start) : NearStep(rule, k, d)
<1>. DEFINE Near(x) == \E k \in 0..(x - rule.start) : NearStep(rule, k, x)
            D == {x \in Days : rule.start <= x /\ Near(x)}
<1>1. rule.start \in Days /\ rule.start \in Nat
  BY TemplatesAssumption, DaysAreNumbers
<1>2. rule.start \in D
  <2>1. 0 \in 0..(rule.start - rule.start) /\ rule.start <= rule.start
    BY <1>1
  <2>. QED BY <1>1, <2>1, StartIsNear
<1>3. ASSUME NEW x \in D, After(rule, x) \in Days PROVE After(rule, x) \in D
  <2>. PICK e : e = After(rule, x)
    OBVIOUS
  <2>1. x \in Days /\ rule.start <= x /\ e \in Days /\ x < e
    BY <1>3, AfterType
  <2>2. PICK k \in 0..(x - rule.start) : NearStep(rule, k, x)
    BY <1>3
  <2>3. x \in Nat /\ e \in Nat /\ k \in Nat
    BY <1>1, <2>1, <2>2, DaysAreNumbers
  <2>4. k + 1 \in 0..(e - rule.start) /\ rule.start <= e
    BY <1>1, <2>1, <2>2, <2>3
  <2>5. NearStep(rule, k + 1, e)
    BY <2>1, <2>2, <2>3, <1>3, StepsStayNear
  <2>. QED BY <2>1, <2>4, <2>5
<1>4. Follows(rule, D)
  <2>1. \A x \in D : After(rule, x) \in Days \cup {Never}
    BY AfterType
  <2>. HIDE DEF D
  <2>. QED BY <1>2, <1>3, <2>1 DEF Follows
<1>5. D \subseteq Days
  OBVIOUS
<1>. HIDE DEF D
<1>6. d \in D
  BY <1>4, <1>5, OccurrencesAreLeast
<1>. QED BY <1>1, <1>6 DEF D

\* Wherever generation resumed, and over a listing's skips and old watermarks,
\* an event of a series is a whole number of steps of its rule from the start
\* and within its ends, or in the month of that step and no later when a month
\* before was too short for the day (events.rs:196-213, 587-624).
THEOREM InstancesStayAligned == Spec => []InstancesAreAligned
<1>1. ASSUME SeriesInv, RuleInv PROVE InstancesAreAligned
  <2>. SUFFICES ASSUME NEW e \in EventIds, events[e].series # None
                PROVE  LET rule == series[events[e].series].rule
                           d    == events[e].date
                       IN  /\ rule.start <= d /\ d <= rule.end
                           /\ \E k \in 0..(d - rule.start) : NearStep(rule, k, d)
    BY DEF InstancesAreAligned, NearStep
  <2>1. EventRuled(e)
    BY <1>1 DEF RuleInv
  <2>. QED BY <2>1, OccurrencesAreNear DEF EventRuled
<1>. QED BY <1>1, SeriesInvariants, PTL

-----------------------------------------------------------------------------
\* A request that is served alone.

\* The series read are still as they were read, and each is read once.
AsRead(l) ==
    /\ \A i \in 1..Len(l.todo) :
          l.todo[i].row = series[l.todo[i].id] /\ l.todo[i].row.state = "active"
    /\ \A i, j \in 1..Len(l.todo) : l.todo[i].id = l.todo[j].id => i = j

Due(s, now) ==
    \A d \in Occurrences[series[s].rule] :
        today <= d /\ d <= now + Horizon /\ d <= series[s].rule.end => Generated(s, d)

\* An active series is generated to the horizon, or still to be.
AllDue(l) ==
    \A s \in Series : series[s].state = "active" =>
        Due(s, l.now) \/ \E i \in 1..Len(l.todo) : l.todo[i].id = s

\* A past event is settled, or still to be managed.
Clearing(l) ==
    /\ \A e \in EventIds : events[e].live /\ Overdue(events[e].date, l.now) =>
          \/ events[e].complete /\ events[e].games > 0
          \/ \E i \in 1..Len(l.rows) : l.rows[i].id = e
    /\ \A i \in 1..Len(l.rows) :
          l.rows[i].complete /\ events[l.rows[i].id].live => events[l.rows[i].id].complete

AloneOK(label, l) ==
    /\ label = "materialize" => AsRead(l) /\ AllDue(l)
    /\ label \in {"complete", "count", "delete"} => Clearing(l)
    /\ label \in {"count", "delete"} =>
          (events[l.rows[1].id].live => events[l.rows[1].id].complete)
    /\ label = "delete" => events[l.rows[1].id].games = 0

AloneInv(r) == AloneOK(pc[r], loc[r])

LEMMA AlonePrimed ==
    ASSUME NEW r, NEW label, NEW l, label = pc'[r], l = loc'[r], AloneOK(label, l)'
    PROVE  AloneInv(r)'
BY SMTT(30) DEF AloneInv, AloneOK, AsRead, Due, AllDue, Generated, Clearing, EventIds

LEMMA DueKept ==
    ASSUME TablesOK, TablesOK', Kept, NEW s \in Series, NEW now,
           series[s].state # "absent", series[s].rule \in Templates, Due(s, now)
    PROVE  Due(s, now)'
<1>. DEFINE O == Occurrences[series[s].rule]
<1>1. series'[s].rule = series[s].rule
  BY DEF Kept, SeriesKept
<1>2. today \in Int /\ today' \in Int /\ today <= today' /\ O \subseteq Int
  <2>1. today \in Int /\ today' \in Int /\ today <= today'
    BY DaysAreNumbers DEF TablesOK, Kept
  <2>2. O \subseteq Days
    BY OccurrencesFollow
  <2>. HIDE DEF O
  <2>. QED BY <2>1, <2>2, DaysAreNumbers
<1>3. Len(events) \in Nat /\ Len(events') \in Nat /\ EventIds \subseteq EventIds'
  BY DEF TablesOK, Kept, EventsStay, EventIds
<1>4. \A d : Generated(s, d) => Generated(s, d)'
  BY <1>3 DEF Kept, EventsStay, Generated
<1>5. ASSUME NEW d \in O, today' <= d, d <= now + Horizon, d <= series[s].rule.end
      PROVE  Generated(s, d)'
  <2>1. today <= d
    BY <1>2, <1>5
  <2>2. Generated(s, d)
    BY <1>5, <2>1 DEF Due
  <2>. QED BY <1>4, <2>2
<1>. QED BY <1>1, <1>5 DEF Due

\* It reads the active series.
LEMMA ReadingAlone ==
    ASSUME SeriesInv', NEW rows, rows = series', NEW k, DOMAIN k = Fields,
           NEW l, l = Reading(rows, k)
    PROVE  AsRead(l)' /\ AllDue(l)'
<1>1. /\ rows \in [Series -> SeriesRow]
      /\ \A s \in Series : rows[s].state = "active" => rows[s].rule \in Templates
  BY DEF SeriesInv, TablesOK
<1>2. /\ \A i \in 1..Len(l.todo) :
            l.todo[i].id \in ToGenerate(rows) /\ l.todo[i].row = rows[l.todo[i].id]
      /\ \A s \in ToGenerate(rows) : \E i \in 1..Len(l.todo) : l.todo[i].id = s
      /\ \A i, j \in 1..Len(l.todo) : l.todo[i].id = l.todo[j].id => i = j
  <2>. PICK todo : todo = l.todo
    OBVIOUS
  <2>1. todo = TodoOf(rows)
    BY ReadingFields
  <2>2. /\ \A i \in 1..Len(todo) :
              todo[i].id \in ToGenerate(rows) /\ todo[i].row = rows[todo[i].id]
        /\ \A s \in ToGenerate(rows) : \E i \in 1..Len(todo) : todo[i].id = s
        /\ \A i, j \in 1..Len(todo) : todo[i].id = todo[j].id => i = j
    BY <1>1, <2>1, TodoRows
  <2>. QED BY <2>2
<1>3. AsRead(l)'
  BY <1>2 DEF AsRead, ToGenerate
<1>4. AllDue(l)'
  BY <1>2 DEF AllDue, ToGenerate
<1>. QED BY <1>3, <1>4

\* It passes an occurrence.
LEMMA PassedAlone ==
    ASSUME SeriesInv, SeriesInv', Kept, NEW r \in Requests, AloneInv(r), Considers(r),
           Goto(r, "materialize", Passed(loc[r])), UNCHANGED series
    PROVE  AloneInv(r)'
<1>. PICK l : l = loc[r]
  OBVIOUS
<1>. PICK m : m = loc'[r]
  OBVIOUS
<1>1. LocalsOK(l) /\ AsRead(l) /\ AllDue(l)
  BY DEF SeriesInv, RequestOK, AloneInv, AloneOK, Considers
<1>2. pc'[r] = "materialize" /\ m.todo = l.todo /\ m.now = l.now
  <2>. PICK next : m = [l EXCEPT !.mark = l.date, !.date = next]
    BY DEF Goto, Passed, SeriesInv
  <2>1. pc'[r] = "materialize"
    BY DEF Goto, SeriesInv
  <2>. QED BY <1>1, <2>1 DEF LocalsOK, Fields
<1>3. AsRead(m)'
  BY <1>1, <1>2 DEF AsRead
<1>4. AllDue(m)'
  <2>1. ASSUME NEW s \in Series, series[s].state = "active", Due(s, l.now)
        PROVE  Due(s, l.now)'
    BY <2>1, DueKept DEF SeriesInv, TablesOK
  <2>. QED BY <1>1, <1>2, <2>1 DEF AllDue
<1>5. AloneOK("materialize", m)'
  BY <1>3, <1>4 DEF AloneOK
<1>. QED BY <1>2, <1>5, AlonePrimed

\* It takes up its next series.
LEMMA RestAlone ==
    ASSUME SeriesInv, SeriesInv', RuleInv, Kept, NEW r \in Requests, AloneInv(r),
           WriteWatermark(r)
    PROVE  AloneInv(r)'
<1>. PICK l : l = loc[r]
  OBVIOUS
<1>. PICK m : m = loc'[r]
  OBVIOUS
<1>. PICK s : s = l.todo[1].id
  OBVIOUS
<1>. PICK rest : rest = Tail(l.todo)
  OBVIOUS
<1>1. LocalsOK(l) /\ TodoOK(l) /\ AsRead(l) /\ AllDue(l) /\ l.todo \in Seq(Read) /\ l.todo # <<>>
  BY DEF SeriesInv, RequestOK, RuleInv, LocalsOK, WriteWatermark, AloneInv, AloneOK
<1>2. m.todo = rest /\ m.now = l.now /\ pc'[r] = "materialize"
  <2>. PICK date : m = [l EXCEPT !.todo = rest, !.mark = NoDate, !.date = date]
    BY DEF WriteWatermark, Goto, SeriesInv
  <2>1. pc'[r] = "materialize"
    BY DEF WriteWatermark, Goto, SeriesInv
  <2>. QED BY <1>1, <2>1 DEF LocalsOK, Fields
<1>3. /\ rest \in Seq(Read) /\ Len(l.todo) \in Nat /\ Len(rest) = Len(l.todo) - 1
      /\ \A i \in 1..Len(rest) : rest[i] = l.todo[i + 1]
  BY <1>1, HeadTailProperties
<1>4. s \in Series /\ 1 \in 1..Len(l.todo) /\ series[s].state = "active"
  <2>1. 1 \in 1..Len(l.todo) /\ l.todo[1] \in Read
    BY <1>1, EmptySeq, ElementOfSeq
  <2>. QED BY <1>1, <2>1 DEF Read, AsRead
<1>5. /\ \A t \in Series \ {s} : series'[t] = series[t]
      /\ \A t \in Series : series'[t].state = series[t].state
  <2>. PICK row : /\ row = [series[s] EXCEPT !.through = l.mark]
                  /\ series' = IF l.mark = NoDate THEN series ELSE [series EXCEPT ![s] = row]
    BY DEF WriteWatermark, Mark
  <2>1. series[s] \in SeriesRow
    BY <1>4 DEF SeriesInv, TablesOK
  <2>2. row.state = series[s].state
    BY <2>1 DEF SeriesRow
  <2>. QED BY <1>4, <2>2 DEF SeriesInv, TablesOK
<1>6. ASSUME NEW i \in 1..Len(rest)
      PROVE  /\ i + 1 \in 1..Len(l.todo) /\ rest[i] = l.todo[i + 1]
             /\ rest[i].id \in Series \ {s}
  <2>. PICK j : j = i + 1
    OBVIOUS
  <2>1. j \in 1..Len(l.todo) /\ rest[i] = l.todo[j] /\ j # 1
    BY <1>3
  <2>2. l.todo[j] \in Read
    BY <1>1, <2>1, ElementOfSeq
  <2>3. l.todo[j].id \in Series /\ l.todo[j].id # s
    BY <1>1, <1>4, <2>1, <2>2 DEF Read, AsRead
  <2>. QED BY <2>1, <2>3
<1>7. AsRead(m)'
  <2>1. ASSUME NEW i \in 1..Len(rest)
        PROVE  rest[i].row = series'[rest[i].id] /\ rest[i].row.state = "active"
    BY <1>1, <1>5, <1>6 DEF AsRead
  <2>2. ASSUME NEW i \in 1..Len(rest), NEW j \in 1..Len(rest), rest[i].id = rest[j].id
        PROVE  i = j
    <3>1. i + 1 = j + 1
      BY <1>1, <1>6, <2>2 DEF AsRead
    <3>. QED BY <3>1
  <2>3. m.todo = rest
    BY <1>2
  <2>. QED BY <2>1, <2>2, <2>3 DEF AsRead
<1>8. Due(s, l.now)
  <2>. PICK rule : rule = series[s].rule
    OBVIOUS
  <2>. PICK reached : reached = Reached(l)
    OBVIOUS
  <2>1. /\ GeneratedTo(s, reached) /\ l.todo[1].row.rule = rule
        /\ l.date = FirstDate(rule, reached)
    BY <1>1, <1>4 DEF TodoOK
  <2>2. rule \in Templates /\ reached \in Occurrences[rule] \cup {NoDate}
    BY <2>1 DEF GeneratedTo
  <2>3. \A d \in Occurrences[rule] : d <= reached \/ l.date <= d
    BY <2>1, <2>2, FirstDateIsNext
  <2>4. /\ l.date \in Nat /\ l.now + Horizon \in Int /\ rule.end \in Nat
        /\ Occurrences[rule] \subseteq Nat
    <3>1. l.date \in Nat /\ l.now \in Int /\ Horizon \in Nat
      BY <1>1, DaysAreNumbers DEF LocalsOK
    <3>2. rule.end \in Nat
      BY <2>2, TemplatesAssumption, DaysAreNumbers
    <3>3. Occurrences[rule] \subseteq Nat
      BY <2>2, OccurrencesFollow, DaysAreNumbers
    <3>. QED BY <3>1, <3>2, <3>3, SMTT(30)
  <2>5. l.date > (IF rule.end <= l.now + Horizon THEN rule.end ELSE l.now + Horizon)
    BY <2>1 DEF WriteWatermark, Limit
  <2>. PICK end : end = rule.end
    OBVIOUS
  <2>. PICK last : last = l.now + Horizon
    OBVIOUS
  <2>. PICK date : date = l.date
    OBVIOUS
  <2>6. \A d \in Nat : d <= last /\ d <= end => ~(date <= d)
    <3>1. date \in Int /\ end \in Int /\ last \in Int
          /\ date > (IF end <= last THEN end ELSE last)
      <4>1. l.date \in Int /\ rule.end \in Int /\ l.now + Horizon \in Int
        BY <2>4
      <4>. QED BY <2>5, <4>1, Zenon
    <3>. QED BY <3>1
  <2>7. \A d \in Occurrences[rule] : d <= last /\ d <= end => d <= reached
    BY <2>3, <2>4, <2>6
  <2>. QED BY <2>1, <2>7 DEF Due, GeneratedTo
<1>9. AllDue(m)'
  <2>. SUFFICES ASSUME NEW t \in Series, series'[t].state = "active",
                       ~(\E i \in 1..Len(rest) : rest[i].id = t)
                PROVE  Due(t, l.now)'
    BY <1>2 DEF AllDue
  <2>1. series[t].state = "active" /\ series[t].rule \in Templates
    BY <1>5 DEF SeriesInv, TablesOK
  <2>2. Due(t, l.now)
    <3>1. CASE t = s
      BY <1>8, <3>1
    <3>2. ASSUME t # s, NEW i \in 1..Len(l.todo), l.todo[i].id = t PROVE FALSE
      <4>1. i # 1
        BY <3>2
      <4>. PICK j : j = i - 1
        OBVIOUS
      <4>2. j \in 1..Len(rest) /\ j + 1 = i
        BY <1>3, <4>1
      <4>. QED BY <1>6, <3>2, <4>2
    <3>. QED BY <1>1, <2>1, <3>1, <3>2 DEF AllDue
  <2>. QED BY <2>1, <2>2, DueKept DEF SeriesInv
<1>10. AloneOK("materialize", m)'
  BY <1>7, <1>9 DEF AloneOK
<1>. QED BY <1>2, <1>10, AlonePrimed

-----------------------------------------------------------------------------
\* It manages the past events.

\* A step that leaves it where nothing is asked of it.
LEMMA ElsewhereAlone ==
    ASSUME NEW r, pc'[r] \notin {"materialize", "complete", "count", "delete"}
    PROVE  AloneInv(r)'
BY DEF AloneInv, AloneOK

\* Events, as they are read.
OverdueEvents(now) ==
    {e \in EventIds : events[e].live /\ Overdue(events[e].date, now)}

RowsOf(E) == SetToSeq({[id |-> e, complete |-> events[e].complete] : e \in E})

LEMMA RowsRead ==
    ASSUME TablesOK, NEW E \in SUBSET EventIds, NEW rows, rows = RowsOf(E)
    PROVE  /\ \A i \in 1..Len(rows) :
                 rows[i].id \in E /\ rows[i].complete = events[rows[i].id].complete
           /\ \A e \in E : \E i \in 1..Len(rows) : rows[i].id = e
           /\ rows = <<>> => E = {}
<1>. DEFINE T == {[id |-> e, complete |-> events[e].complete] : e \in E}
            f == [e \in E |-> [id |-> e, complete |-> events[e].complete]]
<1>0. Len(events) \in Nat
  BY DEF TablesOK
<1>1. IsFiniteSet(E)
  <2>1. IsFiniteSet(EventIds)
    BY <1>0, FS_Interval DEF EventIds
  <2>. QED BY <2>1, FS_Subset
<1>2. f \in Surjection(E, T)
  BY DEF Surjection
<1>3. IsFiniteSet(T)
  BY <1>1, <1>2, FS_Surjection
<1>4. \A t \in T : t.id \in E /\ t.complete = events[t.id].complete
  OBVIOUS
<1>5. ASSUME NEW e \in E PROVE \E t \in T : t.id = e
  <2>1. [id |-> e, complete |-> events[e].complete] \in T
    OBVIOUS
  <2>. HIDE DEF T
  <2>. QED BY <2>1
<1>6. rows = SetToSeq(T)
  BY DEF RowsOf
<1>. HIDE DEF T, f
<1>7. /\ \A i \in 1..Len(rows) : rows[i] \in T
      /\ \A t \in T : \E i \in 1..Len(rows) : rows[i] = t
      /\ \A i, j \in 1..Len(rows) : rows[i] = rows[j] => i = j
  BY <1>3, <1>6, SetToSeqBijects
<1>8. \A e \in E : \E i \in 1..Len(rows) : rows[i].id = e
  BY <1>5, <1>7
<1>9. rows = <<>> => E = {}
  <2>. SUFFICES ASSUME rows = <<>>, NEW e \in E PROVE FALSE
    OBVIOUS
  <2>1. PICK i \in 1..Len(rows) : rows[i].id = e
    BY <1>8
  <2>2. Len(rows) = 0
    BY EmptySeq
  <2>. QED BY <2>1, <2>2
<1>. QED BY <1>4, <1>7, <1>8, <1>9

LEMMA OverdueRead ==
    ASSUME TablesOK, NEW now, NEW rows,
           rows = RowsOf(OverdueEvents(now))
    PROVE  /\ \A i \in 1..Len(rows) :
                 rows[i].complete => events[rows[i].id].complete
           /\ \A e \in EventIds : events[e].live /\ Overdue(events[e].date, now) =>
                 \E i \in 1..Len(rows) : rows[i].id = e
           /\ rows = <<>> =>
                 \A e \in EventIds : ~(events[e].live /\ Overdue(events[e].date, now))
<1>. PICK overdue : overdue = OverdueEvents(now)
  OBVIOUS
<1>1. overdue \in SUBSET EventIds /\ rows = RowsOf(overdue)
  BY DEF OverdueEvents
<1>2. \A e \in EventIds : events[e].live /\ Overdue(events[e].date, now) => e \in overdue
  BY DEF OverdueEvents
<1>3. /\ \A i \in 1..Len(rows) :
            rows[i].id \in overdue /\ rows[i].complete = events[rows[i].id].complete
      /\ \A e \in overdue : \E i \in 1..Len(rows) : rows[i].id = e
      /\ rows = <<>> => overdue = {}
  BY <1>1, RowsRead
<1>. QED BY <1>2, <1>3

\* When a listing ends, the past has been cleared.
ClearedAtEnd(r) ==
    pc[r] \in {"selectEvents", "complete", "count", "delete"} /\ pc'[r] = "idle" =>
        \A e \in EventIds :
            events'[e].live /\ Overdue(events'[e].date, loc[r].now) =>
                events'[e].complete /\ events'[e].games > 0

LEMMA SelectAlone ==
    ASSUME SeriesInv, SeriesInv', NEW r \in Requests, SelectEvents(r)
    PROVE  AloneInv(r)' /\ ClearedAtEnd(r)
<1>. PICK now : now = loc[r].now
  OBVIOUS
<1>. PICK rows :
        rows = RowsOf(OverdueEvents(now))
  OBVIOUS
<1>. PICK l : l = [loc[r] EXCEPT !.rows = rows]
  OBVIOUS
<1>1. UNCHANGED events /\ ((rows = <<>> /\ Done(r)) \/ Goto(r, "complete", l))
  BY DEF SelectEvents, RowsOf, OverdueEvents, database
<1>2. /\ \A i \in 1..Len(rows) : rows[i].complete => events[rows[i].id].complete
      /\ \A e \in EventIds : events[e].live /\ Overdue(events[e].date, now) =>
            \E i \in 1..Len(rows) : rows[i].id = e
      /\ rows = <<>> =>
            \A e \in EventIds : ~(events[e].live /\ Overdue(events[e].date, now))
  <2>1. TablesOK
    BY DEF SeriesInv
  <2>. QED BY <2>1, OverdueRead
<1>3. CASE rows = <<>> /\ Done(r)
  <2>1. pc'[r] = "idle"
    BY <1>3 DEF Done, Goto, SeriesInv
  <2>2. ClearedAtEnd(r)
    BY <1>1, <1>2, <1>3 DEF ClearedAtEnd
  <2>. QED BY <2>1, <2>2, ElsewhereAlone
<1>4. CASE Goto(r, "complete", l)
  <2>1. pc'[r] = "complete" /\ loc'[r] = l
    BY <1>4 DEF Goto, SeriesInv
  <2>2. l.rows = rows /\ l.now = now
    BY DEF SeriesInv, RequestOK, LocalsOK, Fields
  <2>3. Clearing(l)'
    <3>1. EventIds' = EventIds
      BY <1>1 DEF EventIds
    <3>2. \A e \in EventIds' : events'[e].live /\ Overdue(events'[e].date, l.now) =>
              \E i \in 1..Len(l.rows) : l.rows[i].id = e
      <4>1. \A e \in EventIds : events[e].live /\ Overdue(events[e].date, l.now) =>
                \E i \in 1..Len(l.rows) : l.rows[i].id = e
        BY <1>2, <2>2
      <4>. QED BY <1>1, <3>1, <4>1
    <3>3. \A i \in 1..Len(l.rows) : l.rows[i].complete => events'[l.rows[i].id].complete
      BY <1>1, <1>2, <2>2
    <3>. QED BY <3>2, <3>3 DEF Clearing, Overdue
  <2>4. AloneOK("complete", l)'
    BY <2>3 DEF AloneOK
  <2>. QED BY <2>1, <2>4, AlonePrimed DEF ClearedAtEnd
<1>. QED BY <1>1, <1>3, <1>4

\* Written events are there, no less complete, and with no fewer games.
LEMMA CompletePastAlone ==
    ASSUME SeriesInv, SeriesInv', NEW r \in Requests, AloneInv(r), CompletePast(r)
    PROVE  AloneInv(r)'
<1>. PICK l : l = loc[r]
  OBVIOUS
<1>. PICK e : e = l.rows[1].id
  OBVIOUS
<1>. PICK row : row = [events[e] EXCEPT !.complete = TRUE]
  OBVIOUS
<1>1. /\ l.rows # <<>> /\ e \in EventIds /\ events[e] \in EventRow
      /\ l.rows \in Seq(Past) /\ Len(l.rows) \in Nat /\ 1 \in 1..Len(l.rows)
  <2>1. l.rows # <<>> /\ e \in EventIds /\ events[e] \in EventRow
    BY ManagedType DEF CompletePast
  <2>2. l.rows \in Seq(Past)
    BY DEF SeriesInv, RequestOK, LocalsOK
  <2>. QED BY <2>1, <2>2, EmptySeq
<1>2. Clearing(l)
  BY DEF AloneInv, AloneOK, CompletePast
<1>3. pc'[r] = "count" /\ loc'[r] = l
  BY DEF CompletePast, Goto, SeriesInv
<1>4. /\ row.complete = TRUE /\ row.live = events[e].live /\ row.date = events[e].date
      /\ row.games = events[e].games
  BY <1>1 DEF EventRow
<1>5. /\ EventIds' = EventIds
      /\ \A x \in EventIds : /\ events'[x].live = events[x].live
                             /\ events'[x].date = events[x].date
                             /\ events'[x].games = events[x].games
                             /\ events[x].complete => events'[x].complete
      /\ events'[e].live => events'[e].complete
  <2>1. CASE UNCHANGED events /\ (l.rows[1].complete \/ ~events[e].live)
    BY <1>1, <1>2, <2>1 DEF Clearing, EventIds
  <2>2. CASE events' = [events EXCEPT ![e] = row]
    <3>1. DOMAIN events = EventIds
      BY DEF SeriesInv, TablesOK, EventIds
    <3>2. Len(events') = Len(events)
      BY <1>1, <2>2, WrittenLength DEF SeriesInv
    <3>3. EventIds' = EventIds
      BY <3>2 DEF EventIds
    <3>4. \A x \in EventIds : events'[x] = IF x = e THEN row ELSE events[x]
      BY <2>2, <3>1
    <3>. QED BY <1>1, <1>4, <3>3, <3>4
  <2>. QED BY <2>1, <2>2 DEF CompletePast, Update
<1>6. \A i \in 1..Len(l.rows) : l.rows[i].id \in EventIds
  BY DEF SeriesInv, RequestOK, LocalsOK
<1>7. Clearing(l)'
  BY <1>2, <1>5, <1>6 DEF Clearing
<1>8. AloneOK("count", l)'
  BY <1>5, <1>7 DEF AloneOK
<1>. QED BY <1>3, <1>8, AlonePrimed

\* It goes on to the next event, the one it leaves being gone or settled.
LEMMA NextRowAlone ==
    ASSUME SeriesInv, SeriesInv', NEW r \in Requests, Clearing(loc[r]), NextRow(r),
           NEW l, l = loc[r], l.rows # <<>>, Len(events') = Len(events),
           \A e \in EventIds : /\ events'[e].date = events[e].date
                               /\ events'[e].live => events'[e] = events[e],
           LET e == l.rows[1].id
           IN  events'[e].live => events'[e].complete /\ events'[e].games > 0
    PROVE  /\ AloneInv(r)'
           /\ pc'[r] = "idle" =>
                 \A e \in EventIds' : events'[e].live /\ Overdue(events'[e].date, l.now) =>
                     events'[e].complete /\ events'[e].games > 0
<1>. PICK rest : rest = Tail(l.rows)
  OBVIOUS
<1>. PICK head : head = l.rows[1].id
  OBVIOUS
<1>1. LocalsOK(l)
  BY DEF SeriesInv, RequestOK
<1>2. /\ rest \in Seq(Past) /\ Len(l.rows) \in Nat /\ Len(rest) = Len(l.rows) - 1
      /\ \A i \in 1..Len(rest) : rest[i] = l.rows[i + 1]
  BY <1>1, HeadTailProperties DEF LocalsOK
<1>3. EventIds' = EventIds
  BY DEF EventIds
<1>4. ASSUME NEW e \in EventIds, events'[e].live, Overdue(events'[e].date, l.now)
      PROVE  \/ events'[e].complete /\ events'[e].games > 0
             \/ \E i \in 1..Len(rest) : rest[i].id = e
  <2>1. events'[e] = events[e]
    BY <1>4
  <2>2. \/ events[e].complete /\ events[e].games > 0
        \/ \E i \in 1..Len(l.rows) : l.rows[i].id = e
    BY <1>4, <2>1 DEF Clearing
  <2>3. ASSUME NEW i \in 1..Len(l.rows), l.rows[i].id = e, i # 1
        PROVE  \E k \in 1..Len(rest) : rest[k].id = e
    <3>. PICK k : k = i - 1
      OBVIOUS
    <3>1. k \in 1..Len(rest) /\ k + 1 = i
      BY <1>2, <2>3
    <3>2. rest[k] = l.rows[i]
      BY <1>2, <3>1
    <3>. QED BY <2>3, <3>1, <3>2
  <2>. QED BY <1>4, <2>1, <2>2, <2>3
<1>5. CASE rest = <<>> /\ Done(r)
  <2>1. pc'[r] = "idle"
    BY <1>5 DEF Done, Goto, SeriesInv
  <2>2. Len(rest) = 0
    BY <1>5, EmptySeq
  <2>3. AloneInv(r)'
    BY <2>1, ElsewhereAlone
  <2>4. ASSUME NEW e \in EventIds', events'[e].live, Overdue(events'[e].date, l.now)
        PROVE  events'[e].complete /\ events'[e].games > 0
    BY <1>3, <1>4, <2>2, <2>4
  <2>. QED BY <2>3, <2>4
<1>6. CASE Goto(r, "complete", [loc[r] EXCEPT !.rows = rest])
  <2>. PICK m : m = [l EXCEPT !.rows = rest]
    OBVIOUS
  <2>1. pc'[r] = "complete" /\ loc'[r] = m
    BY <1>6 DEF Goto, SeriesInv
  <2>2. m.rows = rest /\ m.now = l.now
    BY <1>1 DEF LocalsOK, Fields
  <2>3. ASSUME NEW i \in 1..Len(rest), rest[i].complete, events'[rest[i].id].live
        PROVE  events'[rest[i].id].complete
    <3>. PICK j : j = i + 1
      OBVIOUS
    <3>1. j \in 1..Len(l.rows) /\ rest[i] = l.rows[j]
      BY <1>2
    <3>2. l.rows[j].id \in EventIds
      BY <1>1, <3>1 DEF LocalsOK
    <3>. PICK e : e = l.rows[j].id
      OBVIOUS
    <3>3. events'[e].live /\ l.rows[j].complete
      BY <2>3, <3>1
    <3>4. events'[e] = events[e]
      BY <3>2, <3>3
    <3>5. events[e].complete
      BY <3>1, <3>3, <3>4 DEF Clearing
    <3>. QED BY <3>1, <3>4, <3>5
  <2>4. Clearing(m)'
    <3>1. \A e \in EventIds' : events'[e].live /\ Overdue(events'[e].date, m.now) =>
              \/ events'[e].complete /\ events'[e].games > 0
              \/ \E i \in 1..Len(m.rows) : m.rows[i].id = e
      BY <1>3, <1>4, <2>2
    <3>2. \A i \in 1..Len(m.rows) :
              m.rows[i].complete /\ events'[m.rows[i].id].live => events'[m.rows[i].id].complete
      BY <2>2, <2>3
    <3>. QED BY <3>1, <3>2 DEF Clearing, Overdue
  <2>5. AloneOK("complete", m)'
    BY <2>4 DEF AloneOK
  <2>6. AloneInv(r)'
    BY <2>1, <2>5, AlonePrimed
  <2>. QED BY <2>1, <2>6
<1>. QED BY <1>5, <1>6 DEF NextRow

LEMMA CountAlone ==
    ASSUME SeriesInv, SeriesInv', NEW r \in Requests, AloneInv(r), CountGames(r)
    PROVE  AloneInv(r)' /\ ClearedAtEnd(r)
<1>. PICK l : l = loc[r]
  OBVIOUS
<1>. PICK e : e = l.rows[1].id
  OBVIOUS
<1>1. /\ UNCHANGED events /\ Clearing(l) /\ (events[e].live => events[e].complete)
      /\ l.rows # <<>> /\ e \in EventIds /\ events[e] \in EventRow
  BY ManagedType DEF CountGames, database, AloneInv, AloneOK
<1>2. CASE Empty(e) /\ Goto(r, "delete", l)
  <2>1. pc'[r] = "delete" /\ loc'[r] = l
    BY <1>2 DEF Goto, SeriesInv
  <2>2. Clearing(l)'
    BY <1>1 DEF Clearing, EventIds
  <2>3. AloneOK("delete", l)'
    BY <1>1, <1>2, <2>2 DEF AloneOK, Empty
  <2>. QED BY <2>1, <2>3, AlonePrimed DEF ClearedAtEnd
<1>3. CASE ~Empty(e) /\ NextRow(r)
  <2>1. events[e].games > 0
    BY <1>1, <1>3 DEF Empty, EventRow
  <2>2. /\ AloneInv(r)'
        /\ pc'[r] = "idle" =>
              \A x \in EventIds' : events'[x].live /\ Overdue(events'[x].date, l.now) =>
                  events'[x].complete /\ events'[x].games > 0
    BY <1>1, <1>3, <2>1, NextRowAlone
  <2>3. EventIds' = EventIds
    BY <1>1 DEF EventIds
  <2>. QED BY <2>2, <2>3 DEF ClearedAtEnd
<1>. QED BY <1>2, <1>3 DEF CountGames

LEMMA DeletedRows ==
    ASSUME TablesOK, NEW es, Delete(es)
    PROVE  \A e \in EventIds : /\ events'[e].date = events[e].date
                               /\ events'[e].live => events'[e] = events[e]
                               /\ e \in es => ~events'[e].live
<1>. TAKE e \in EventIds
<1>1. CASE e \notin es
  BY <1>1 DEF Delete
<1>2. CASE e \in es
  BY <1>2 DEF Delete, NewEvent
<1>. QED BY <1>1, <1>2

LEMMA DeleteAlone ==
    ASSUME SeriesInv, SeriesInv', NEW r \in Requests, AloneInv(r), DeleteEmpty(r)
    PROVE  AloneInv(r)' /\ ClearedAtEnd(r)
<1>. PICK l : l = loc[r]
  OBVIOUS
<1>. PICK e : e = l.rows[1].id
  OBVIOUS
<1>1. /\ Clearing(l) /\ l.rows # <<>> /\ e \in EventIds /\ Delete({e}) /\ NextRow(r)
  BY ManagedType DEF DeleteEmpty, AloneInv, AloneOK
<1>2. /\ \A x \in EventIds : /\ events'[x].date = events[x].date
                             /\ events'[x].live => events'[x] = events[x]
      /\ ~events'[e].live
      /\ Len(events') = Len(events)
  BY <1>1, DeletedRows, DeletedLength DEF SeriesInv
<1>3. /\ AloneInv(r)'
      /\ pc'[r] = "idle" =>
            \A x \in EventIds' : events'[x].live /\ Overdue(events'[x].date, l.now) =>
                events'[x].complete /\ events'[x].games > 0
  BY <1>1, <1>2, NextRowAlone
<1>4. EventIds' = EventIds
  BY <1>2 DEF EventIds
<1>. QED BY <1>3, <1>4 DEF ClearedAtEnd

-----------------------------------------------------------------------------
\* Every step of a request served alone.

LEMMA AloneStep ==
    ASSUME SeriesInv, SeriesInv', RuleInv, Kept, NEW r \in Requests, AloneInv(r), Step(r)
    PROVE  AloneInv(r)' /\ ClearedAtEnd(r)
<1>1. CASE SkipPast(r)
  BY <1>1, PassedAlone DEF SkipPast, database, Considers, ClearedAtEnd
<1>2. CASE InsertInstance(r)
  BY <1>2, PassedAlone DEF InsertInstance, Considers, ClearedAtEnd
<1>3. CASE WriteWatermark(r)
  BY <1>3, RestAlone DEF WriteWatermark, ClearedAtEnd
<1>4. CASE Materialized(r)
  <2>1. pc'[r] \in {"idle", "selectEvents"}
    BY <1>4 DEF Materialized, Done, Goto, SeriesInv
  <2>. QED BY <1>4, <2>1, ElsewhereAlone DEF Materialized, ClearedAtEnd
<1>5. CASE SelectEvents(r)
  BY <1>5, SelectAlone
<1>6. CASE CompletePast(r)
  <2>1. pc'[r] = "count"
    BY <1>6 DEF CompletePast, Goto, SeriesInv
  <2>. QED BY <1>6, <2>1, CompletePastAlone DEF ClearedAtEnd
<1>7. CASE CountGames(r)
  BY <1>7, CountAlone
<1>8. CASE DeleteEmpty(r)
  BY <1>8, DeleteAlone
<1>9. CASE DropFuture(r) \/ WriteComplete(r) \/ LinkGame(r)
  <2>1. pc'[r] = "idle" /\ pc[r] \notin {"selectEvents", "complete", "count", "delete"}
    BY <1>9 DEF DropFuture, WriteComplete, LinkGame, Done, Goto, SeriesInv
  <2>. QED BY <2>1, ElsewhereAlone DEF ClearedAtEnd
<1>10. CASE ReadSeries(r)
  <2>. PICK l : l = Reading(series', loc[r])
    OBVIOUS
  <2>1. pc'[r] = "materialize" /\ loc'[r] = l /\ DOMAIN loc[r] = Fields
    BY <1>10, ReadLocals
  <2>2. AsRead(l)' /\ AllDue(l)'
    BY <2>1, ReadingAlone
  <2>3. AloneOK("materialize", l)'
    BY <2>2 DEF AloneOK
  <2>. QED BY <1>10, <2>1, <2>3, AlonePrimed DEF ReadSeries, ClearedAtEnd
<1>. QED BY <1>1, <1>2, <1>3, <1>4, <1>5, <1>6, <1>7, <1>8, <1>9, <1>10 DEF Step

LEMMA AloneBegin ==
    ASSUME SeriesInv, SeriesInv', NEW r \in Requests, Begin(r)
    PROVE  AloneInv(r)' /\ pc[r] = "idle"
<1>1. pc[r] = "idle" /\ pc'[r] \in {"idle", "readSeries", "dropFuture", "writeComplete", "link"}
  BY DEF Begin, BeginList, CreateSeries, BeginCancel, CreateEvent, BeginToggle, BeginGame,
         UnlinkGame, Start, SeriesInv
<1>. QED BY <1>1, ElsewhereAlone

\* A step of nobody, or the passing of a day.
LEMMA AloneStays ==
    ASSUME SeriesInv, SeriesInv', RuleInv, Kept, NEW r \in Requests, AloneInv(r),
           UNCHANGED <<series, events, pc, loc>>
    PROVE  AloneInv(r)'
<1>. PICK l : l = loc[r]
  OBVIOUS
<1>. PICK label : label = pc[r]
  OBVIOUS
<1>1. AloneOK(label, l)
  BY DEF AloneInv
<1>2. ASSUME AllDue(l) PROVE AllDue(l)'
  <2>1. ASSUME NEW s \in Series, series[s].state = "active", Due(s, l.now)
        PROVE  Due(s, l.now)'
    BY <2>1, DueKept DEF SeriesInv, TablesOK
  <2>. QED BY <1>2, <2>1 DEF AllDue
<1>3. AloneOK(label, l)'
  BY <1>1, <1>2 DEF AloneOK, AsRead, Clearing, EventIds
<1>. QED BY <1>3, AlonePrimed

LEMMA AloneInvInit ==
    ASSUME NEW r \in Requests
    PROVE  Init => AloneInv(r)
BY DEF Init, AloneInv, AloneOK

LEMMA AloneInvStep ==
    ASSUME NEW r, Requests = {r}
    PROVE  /\ SeriesInv /\ RuleInv /\ AloneInv(r) /\ [Next]_vars => AloneInv(r)'
           /\ SeriesInv /\ RuleInv /\ AloneInv(r) /\ [Next]_vars => ClearedAtEnd(r) \/ Drop(r)
<1>. SUFFICES ASSUME SeriesInv, RuleInv, AloneInv(r), [Next]_vars
              PROVE  AloneInv(r)' /\ (ClearedAtEnd(r) \/ Drop(r))
  OBVIOUS
<1>0. r \in Requests /\ SeriesInv' /\ Kept
  BY SeriesInvStep, SeriesKeptStep
<1>1. CASE UNCHANGED vars \/ Midnight
  <2>1. UNCHANGED <<series, events, pc, loc>>
    BY <1>1 DEF vars, database, Midnight
  <2>. QED BY <1>0, <2>1, AloneStays DEF ClearedAtEnd
<1>2. CASE Step(r)
  BY <1>0, <1>2, AloneStep
<1>3. CASE Begin(r)
  BY <1>0, <1>3, AloneBegin DEF ClearedAtEnd
<1>4. CASE Drop(r)
  <2>1. pc'[r] = "idle"
    BY <1>0, <1>4 DEF Drop, SeriesInv
  <2>. QED BY <1>4, <2>1, ElsewhereAlone
<1>. QED BY <1>1, <1>2, <1>3, <1>4 DEF Next

(***************************************************************************)
(* What the list shows is up to date (events.rs:566-637): of requests      *)
(* served one at a time, those that stop half-way included, a listing that *)
(* has taken up every active series has generated each to the horizon.     *)
(***************************************************************************)
THEOREM ListingsGenerateWhatIsDue ==
    ASSUME NEW r0, Requests = {r0}
    PROVE  Spec => []ListingGeneratesWhatIsDue
<1>1. SeriesInv /\ RuleInv /\ AloneInv(r0) => ListingGeneratesWhatIsDue
  <2>. SUFFICES ASSUME SeriesInv, RuleInv, AloneInv(r0)
                PROVE  ListingGeneratesWhatIsDue
    OBVIOUS
  <2>. SUFFICES ASSUME pc[r0] = "materialize", loc[r0].todo = <<>>,
                       NEW s \in Series, series[s].state = "active",
                       NEW d \in Occurrences[series[s].rule],
                       today <= d, d <= loc[r0].now + Horizon, d <= series[s].rule.end
                PROVE  Instances(s, d) # {}
    BY DEF ListingGeneratesWhatIsDue
  <2>1. AllDue(loc[r0]) /\ Len(loc[r0].todo) = 0
    BY EmptySeq DEF AloneInv, AloneOK
  <2>2. Due(s, loc[r0].now)
    BY <2>1 DEF AllDue
  <2>. QED BY <2>2 DEF Due, Generated, Instances
<1>2. Init => AloneInv(r0)
  BY AloneInvInit
<1>3. SeriesInv /\ RuleInv /\ AloneInv(r0) /\ [Next]_vars => AloneInv(r0)'
  BY AloneInvStep
<1>. QED BY <1>1, <1>2, <1>3, SeriesInvariants, PTL DEF Spec

(***************************************************************************)
(* And it clears the past (events.rs:678-697): when it ends, unless it     *)
(* stopped half-way, an event that was Grace days past is complete and has *)
(* games, or is gone.                                                      *)
(***************************************************************************)
THEOREM ListingsClearThePast ==
    ASSUME NEW r0, Requests = {r0}, MaxDrops = 0
    PROVE  Spec => ListingClearsThePast
<1>. DEFINE NoDrops == drops = 0
<1>1. NoDrops /\ [Next]_vars => NoDrops'
  BY DropsCounted
<1>2. SeriesInv /\ RuleInv /\ AloneInv(r0) /\ NoDrops /\ [Next]_vars =>
        [\A r \in Requests :
            pc[r] \in {"selectEvents", "complete", "count", "delete"} /\ pc'[r] = "idle" =>
                \A e \in EventIds :
                    events'[e].live /\ Overdue(events'[e].date, loc[r].now) =>
                        events'[e].complete /\ events'[e].games > 0]_vars
  <2>1. NoDrops => ~Drop(r0)
    BY DEF Drop
  <2>. QED BY <2>1, AloneInvStep DEF ClearedAtEnd
<1>3. Init => NoDrops /\ AloneInv(r0)
  BY AloneInvInit DEF Init
<1>4. SeriesInv /\ RuleInv /\ AloneInv(r0) /\ [Next]_vars => AloneInv(r0)'
  BY AloneInvStep
<1>. QED BY <1>1, <1>2, <1>3, <1>4, SeriesInvariants, PTL DEF Spec, ListingClearsThePast

\* What is deleted is deleted by a listing or by a cancellation.
LEMMA Deleters ==
    ASSUME SeriesInv, [Next]_vars
    PROVE  NothingDeleted \/ \E r \in Requests : DeleteEmpty(r) \/ DropFuture(r)
<1>1. CASE UNCHANGED vars
  BY <1>1, UnchangedEvents DEF vars, database, SeriesInv
<1>2. CASE Midnight
  BY <1>2, MidnightInv
<1>3. ASSUME NEW r \in Requests, Begin(r) \/ Drop(r) PROVE NothingDeleted
  BY <1>3, BeginInv, DropInv
<1>4. ASSUME NEW r \in Requests, Step(r), ~DeleteEmpty(r), ~DropFuture(r)
      PROVE  NothingDeleted
  BY <1>4, SkipPastInv, InsertInstanceInv, WriteWatermarkInv, MaterializedInv, SelectEventsInv,
     CompletePastInv, CountGamesInv, WriteCompleteInv, LinkGameInv, ReadSeriesInv DEF Step
<1>. QED BY <1>1, <1>2, <1>3, <1>4 DEF Next

(***************************************************************************)
(* A game played is not forgotten (events.rs:685-697, 1171-1178): of       *)
(* requests served one at a time, an event that is deleted has no games,   *)
(* for its games were counted and nobody has linked one since.             *)
(***************************************************************************)
THEOREM GamesAreKept ==
    ASSUME NEW r0, Requests = {r0}
    PROVE  Spec => GamesKeepTheirEvent
<1>1. SeriesInv /\ AloneInv(r0) /\ [Next]_vars =>
        [\A e \in EventIds : events[e].live /\ ~events'[e].live => events[e].games = 0]_vars
  <2>. SUFFICES ASSUME SeriesInv, AloneInv(r0), [Next]_vars,
                       NEW e \in EventIds, events[e].live, ~events'[e].live
                PROVE  events[e].games = 0
    OBVIOUS
  <2>1. DeleteEmpty(r0) \/ DropFuture(r0)
    BY Deleters DEF NothingDeleted
  <2>2. CASE DeleteEmpty(r0)
    <3>. PICK head : head = loc[r0].rows[1].id
      OBVIOUS
    <3>1. events[head].games = 0 /\ Delete({head})
      BY <2>2 DEF DeleteEmpty, AloneInv, AloneOK
    <3>2. \A x \in EventIds \ {head} : events'[x].live = events[x].live
      BY <3>1, DeleteEvents DEF SeriesInv
    <3>. QED BY <3>1, <3>2
  <2>3. CASE DropFuture(r0)
    <3>. PICK dropped : dropped = DroppedByCancel(loc[r0])
      OBVIOUS
    <3>1. \A x \in EventIds \ dropped : events'[x].live = events[x].live
      BY <2>3, DeleteEvents DEF SeriesInv, DropFuture
    <3>2. \A x \in dropped : events[x].games = 0
      BY DEF DroppedByCancel, Empty
    <3>. QED BY <3>1, <3>2
  <2>. QED BY <2>1, <2>2, <2>3
<1>2. Init => AloneInv(r0)
  BY AloneInvInit
<1>3. SeriesInv /\ RuleInv /\ AloneInv(r0) /\ [Next]_vars => AloneInv(r0)'
  BY AloneInvStep
<1>. QED BY <1>1, <1>2, <1>3, SeriesInvariants, PTL DEF Spec, GamesKeepTheirEvent

(***************************************************************************)
(* A cancelled series stays so (events.rs:576, 1163): of requests served   *)
(* one at a time, nothing is added to it, for the series a listing has     *)
(* still to generate are active.                                           *)
(***************************************************************************)
THEOREM CancelledSeriesAreClosed ==
    ASSUME NEW r0, Requests = {r0}
    PROVE  Spec => CancelledSeriesIsClosed
<1>1. SeriesInv /\ RuleInv /\ AloneInv(r0) /\ [Next]_vars =>
        [\A s \in Series : series[s].state = "cancelled" =>
            \A e \in DOMAIN events' \ EventIds : events'[e].series # s]_vars
  <2>. SUFFICES ASSUME SeriesInv, RuleInv, AloneInv(r0), [Next]_vars,
                       NEW s \in Series, series[s].state = "cancelled",
                       NEW e \in DOMAIN events' \ EventIds
                PROVE  events'[e].series # s
    OBVIOUS
  <2>0. r0 \in Requests /\ SeriesInv'
    BY SeriesInvStep
  <2>1. e \in EventIds' \ EventIds
    BY <2>0 DEF SeriesInv, TablesOK, EventIds
  <2>2. CASE Len(events') = Len(events)
    BY <2>1, <2>2 DEF EventIds
  <2>3. CASE InsertInstance(r0)
    <3>. PICK l : l = loc[r0]
      OBVIOUS
    <3>. PICK t : t = l.todo[1].id
      OBVIOUS
    <3>1. t \in Series /\ LocalsOK(l) /\ l.todo # <<>> /\ AsRead(l)
      BY <2>0, <2>3, ConsideredRule DEF InsertInstance, Considers, AloneInv, AloneOK
    <3>2. 1 \in 1..Len(l.todo)
      BY <3>1, EmptySeq DEF LocalsOK
    <3>3. series[t].state = "active"
      BY <3>1, <3>2 DEF AsRead
    <3>4. events' = Append(events, NewEvent(t, l.date))
      BY <2>3 DEF InsertInstance
    <3>5. events'[e] = NewEvent(t, l.date)
      BY <2>1, <3>4, Appended DEF SeriesInv
    <3>. QED BY <3>3, <3>5 DEF NewEvent
  <2>4. ASSUME NEW d \in OneOffDates, CreateEvent(r0, d) PROVE events'[e].series # s
    <3>1. events'[e] = NewEvent(None, d)
      BY <2>1, <2>4, Appended DEF SeriesInv, CreateEvent
    <3>. QED BY <3>1, BoundsAssumption DEF NewEvent
  <2>5. CASE UNCHANGED vars \/ Midnight
    BY <2>2, <2>5 DEF vars, Midnight, database
  <2>6. CASE Step(r0)
    <3>1. CASE SkipPast(r0) \/ WriteWatermark(r0) \/ ReadSeries(r0)
      BY <2>2, <3>1 DEF SkipPast, WriteWatermark, ReadSeries, database
    <3>. QED BY <2>0, <2>2, <2>3, <2>6, <3>1, AsideStep DEF Step, Aside
  <2>7. CASE Begin(r0)
    <3>1. CASE \E t \in Series, rule \in Templates : CreateSeries(r0, t, rule)
      BY <2>2, <3>1 DEF CreateSeries
    <3>. QED BY <2>0, <2>2, <2>4, <2>7, <3>1, AsideBegin DEF Begin, Aside
  <2>8. CASE Drop(r0)
    BY <2>0, <2>2, <2>8, AsideBegin DEF Aside
  <2>. QED BY <2>5, <2>6, <2>7, <2>8 DEF Next
<1>2. Init => AloneInv(r0)
  BY AloneInvInit
<1>3. SeriesInv /\ RuleInv /\ AloneInv(r0) /\ [Next]_vars => AloneInv(r0)'
  BY AloneInvStep
<1>. QED BY <1>1, <1>2, <1>3, SeriesInvariants, PTL DEF Spec, CancelledSeriesIsClosed
-----------------------------------------------------------------------------
\* Each date once.

\* The date up to which a series has been generated by the request, or by
\* those before it.
Frontier(s, l) ==
    IF l.todo # <<>> /\ l.todo[1].id = s THEN Reached(l) ELSE series[s].through

\* No event is ahead of its series, and no two fall on one date.
OnceOK(label, l) ==
    /\ label # "materialize" => l.todo = <<>>
    /\ \A e \in EventIds : events[e].series # None =>
          events[e].date <= Frontier(events[e].series, l)
    /\ \A e, f \in EventIds :
          /\ events[e].series # None
          /\ events[e].series = events[f].series /\ events[e].date = events[f].date
          => e = f

OnceInv(r) == OnceOK(pc[r], loc[r])

LEMMA OncePrimed ==
    ASSUME NEW r, NEW label, NEW l, label = pc'[r], l = loc'[r], OnceOK(label, l)'
    PROVE  OnceInv(r)'
BY DEF OnceInv, OnceOK, Frontier, Reached, EventIds

LEMMA EventSeriesIsThere ==
    ASSUME SeriesInv, RuleInv, NEW e \in EventIds, events[e].series # None
    PROVE  /\ events[e].series \in Series /\ series[events[e].series].state # "absent"
           /\ events[e].date \in Nat
<1>1. events[e] \in EventRow
  BY ElementOfSeq DEF SeriesInv, TablesOK, EventIds
<1>2. events[e].series \in Series /\ events[e].date \in Days \cup {NoDate}
  BY <1>1 DEF EventRow
<1>3. Days \cup {NoDate} \subseteq Nat
  BY DaysAreNumbers DEF NoDate
<1>4. events[e].date \in Nat
  BY <1>2, <1>3
<1>. QED BY <1>2, <1>4 DEF RuleInv, EventRuled

\* A step that adds no event and moves no frontier.
LEMMA OnceKept ==
    ASSUME SeriesInv, RuleInv, EventsStay, Len(events') = Len(events),
           NEW label, NEW l, OnceOK(label, l),
           NEW next, NEW m, next # "materialize" => m.todo = <<>>,
           \A s \in Series : series[s].state # "absent" => Frontier(s, m)' = Frontier(s, l)
    PROVE  OnceOK(next, m)'
<1>1. EventIds' = EventIds
  BY DEF EventIds
<1>2. \A e \in EventIds : events'[e].series = events[e].series /\ events'[e].date = events[e].date
  BY DEF EventsStay
<1>3. ASSUME NEW e \in EventIds', NEW s, s = events'[e].series, s # None
      PROVE  events'[e].date <= Frontier(s, m)'
  <2>1. e \in EventIds /\ s = events[e].series /\ events'[e].date = events[e].date
    BY <1>1, <1>2, <1>3
  <2>2. s \in Series /\ series[s].state # "absent"
    BY <1>3, <2>1, EventSeriesIsThere
  <2>3. events[e].date <= Frontier(s, l)
    BY <1>3, <2>1 DEF OnceOK
  <2>. QED BY <2>1, <2>2, <2>3
<1>4. \A e, f \in EventIds' :
          /\ events'[e].series # None
          /\ events'[e].series = events'[f].series /\ events'[e].date = events'[f].date
          => e = f
  BY <1>1, <1>2 DEF OnceOK
<1>. QED BY <1>3, <1>4 DEF OnceOK, Frontier, Reached

\* A step of a request that generates nothing.
LEMMA AsideOnce ==
    ASSUME SeriesInv, SeriesInv', RuleInv, Kept, Aside, NEW r \in Requests, OnceInv(r),
           loc[r].todo = <<>>
    PROVE  OnceInv(r)'
<1>. PICK l : l = loc[r]
  OBVIOUS
<1>. PICK m : m = loc'[r]
  OBVIOUS
<1>. PICK label : label = pc[r]
  OBVIOUS
<1>. PICK next : next = pc'[r]
  OBVIOUS
<1>1. m.todo = <<>> /\ l.todo = <<>> /\ OnceOK(label, l)
  BY DEF Aside, OnceInv
<1>2. \A s \in Series : series[s].state # "absent" => Frontier(s, m)' = Frontier(s, l)
  BY <1>1 DEF Frontier, Aside, Kept, SeriesKept
<1>3. OnceOK(next, m)'
  BY <1>1, <1>2, OnceKept DEF Kept, Aside
<1>. QED BY <1>3, OncePrimed

LEMMA OnceStays ==
    ASSUME SeriesInv, SeriesInv', RuleInv, Kept, NEW r \in Requests, OnceInv(r),
           UNCHANGED <<series, events, pc, loc>>
    PROVE  OnceInv(r)'
<1>. PICK l : l = loc[r]
  OBVIOUS
<1>. PICK label : label = pc[r]
  OBVIOUS
<1>1. OnceOK(label, l)
  BY DEF OnceInv
<1>2. OnceOK(label, l)'
  BY <1>1 DEF OnceOK, Frontier, EventIds
<1>. QED BY <1>2, OncePrimed

\* It reads the active series: it begins where the last request ended.
LEMMA ReadingOnce ==
    ASSUME SeriesInv, SeriesInv', RuleInv, Kept, NEW r \in Requests, OnceInv(r),
           ReadSeries(r)
    PROVE  OnceInv(r)'
<1>. PICK l : l = loc[r]
  OBVIOUS
<1>. PICK label : label = pc[r]
  OBVIOUS
<1>. PICK m : m = Reading(series', l)
  OBVIOUS
<1>1. /\ pc'[r] = "materialize" /\ loc'[r] = m /\ DOMAIN l = Fields /\ l.mark = NoDate
      /\ UNCHANGED <<series, events>>
  BY ReadLocals
<1>2. AsRead(m)' /\ m.mark = NoDate /\ m.todo \in Seq(Read)
  <2>1. loc'[r].todo \in Seq(Read)
    BY DEF SeriesInv, RequestOK, LocalsOK
  <2>2. AsRead(m)'
    BY <1>1, ReadingAlone
  <2>3. m.mark = NoDate
    <3>1. m.mark = l.mark
      BY <1>1, ReadingFields
    <3>. QED BY <1>1, <3>1
  <2>. QED BY <1>1, <2>1, <2>2, <2>3
<1>3. m.todo # <<>> => m.todo[1].row = series'[m.todo[1].id]
  <2>1. m.todo # <<>> => 1 \in 1..Len(m.todo)
    BY <1>2, EmptySeq
  <2>. QED BY <1>2, <2>1 DEF AsRead
<1>5. OnceOK(label, l) /\ l.todo = <<>>
  BY DEF OnceInv, OnceOK, ReadSeries
<1>4. \A s \in Series : series[s].state # "absent" => Frontier(s, m)' = Frontier(s, l)
  BY <1>1, <1>2, <1>3, <1>5 DEF Frontier, Reached
<1>6. OnceOK("materialize", m)'
  BY <1>1, <1>4, <1>5, OnceKept DEF Kept
<1>. QED BY <1>1, <1>6, OncePrimed

\* A series is created: no other has another row.
LEMMA CreateSeriesOnce ==
    ASSUME SeriesInv, SeriesInv', RuleInv, Kept, NEW r \in Requests, OnceInv(r),
           loc[r].todo = <<>>, NEW s \in Series, NEW rule \in Templates, CreateSeries(r, s, rule)
    PROVE  OnceInv(r)'
<1>. PICK l : l = loc[r]
  OBVIOUS
<1>. PICK label : label = pc[r]
  OBVIOUS
<1>. PICK m : m = AsOf(today)
  OBVIOUS
<1>1. /\ pc'[r] = "readSeries" /\ loc'[r] = m /\ m.todo = <<>> /\ UNCHANGED events
      /\ \A t \in Series : series[t].state # "absent" => series'[t] = series[t]
  BY FreshLocals DEF CreateSeries, Start, Fresh, SeriesInv, TablesOK
<1>2. \A t \in Series : series[t].state # "absent" => Frontier(t, m)' = Frontier(t, l)
  BY <1>1 DEF Frontier
<1>3. OnceOK(label, l)
  BY DEF OnceInv
<1>4. OnceOK("readSeries", m)'
  BY <1>1, <1>2, <1>3, OnceKept DEF Kept
<1>. QED BY <1>1, <1>4, OncePrimed

\* It passes an occurrence, which is later than every event of the series.
LEMMA PassedFrontier ==
    ASSUME SeriesInv, RuleInv, NEW r \in Requests, Considers(r),
           Goto(r, "materialize", Passed(loc[r])), UNCHANGED series,
           NEW l, l = loc[r], NEW m, m = loc'[r], NEW s, s = l.todo[1].id
    PROVE  /\ Frontier(s, l) = Reached(l) /\ Frontier(s, m)' = l.date
           /\ Reached(l) \in Nat /\ l.date \in Nat /\ Reached(l) < l.date
           /\ \A t \in Series : t # s => Frontier(t, m)' = Frontier(t, l)
<1>1. /\ GeneratedTo(s, Reached(l)) /\ LocalsOK(l) /\ l.date \in Days /\ Reached(l) < l.date
      /\ l.todo # <<>>
  BY ConsideredRule DEF Considers
<1>2. m.todo = l.todo /\ m.mark = l.date
  <2>. PICK date : m = [l EXCEPT !.mark = l.date, !.date = date]
    BY DEF Goto, Passed, SeriesInv
  <2>. QED BY <1>1 DEF LocalsOK, Fields
<1>3. l.date # NoDate /\ l.date \in Nat
  BY <1>1, DaysAreNumbers DEF NoDate
<1>4. Reached(m) = l.date
  BY <1>2, <1>3 DEF Reached
<1>5. Reached(l) \in Nat
  <2>1. Reached(l) \in Days \cup {NoDate}
    BY <1>1, OccurrencesFollow DEF GeneratedTo
  <2>2. Days \cup {NoDate} \subseteq Nat
    BY DaysAreNumbers DEF NoDate
  <2>. QED BY <2>1, <2>2
<1>6. Frontier(s, m)' = Reached(m)
  BY <1>1, <1>2 DEF Frontier, Reached
<1>. QED BY <1>1, <1>2, <1>3, <1>4, <1>5, <1>6 DEF Frontier

LEMMA SkipPastOnce ==
    ASSUME SeriesInv, SeriesInv', RuleInv, Kept, NEW r \in Requests, OnceInv(r), SkipPast(r)
    PROVE  OnceInv(r)'
<1>. PICK l : l = loc[r]
  OBVIOUS
<1>. PICK m : m = loc'[r]
  OBVIOUS
<1>. PICK s : s = l.todo[1].id
  OBVIOUS
<1>1. /\ OnceOK("materialize", l) /\ pc'[r] = "materialize" /\ UNCHANGED <<series, events>>
  BY DEF SkipPast, Considers, OnceInv, database, Goto, SeriesInv
<1>2. /\ Frontier(s, l) = Reached(l) /\ Frontier(s, m)' = l.date
      /\ Reached(l) \in Nat /\ l.date \in Nat /\ Reached(l) < l.date
      /\ \A t \in Series : t # s => Frontier(t, m)' = Frontier(t, l)
  BY PassedFrontier DEF SkipPast, database
<1>3. ASSUME NEW e \in EventIds, NEW t, t = events[e].series, t # None
      PROVE  events[e].date <= Frontier(t, m)'
  <2>1. t \in Series /\ events[e].date \in Nat /\ events[e].date <= Frontier(t, l)
    BY <1>1, <1>3, EventSeriesIsThere DEF OnceOK
  <2>2. t # s => Frontier(t, m)' = Frontier(t, l)
    BY <1>2, <2>1
  <2>3. t = s => events[e].date <= Frontier(t, m)'
    BY <1>2, <2>1
  <2>. QED BY <1>2, <2>1, <2>2, <2>3
<1>4. OnceOK("materialize", m)'
  BY <1>1, <1>3 DEF OnceOK, EventIds, Frontier, Reached
<1>. QED BY <1>1, <1>4, OncePrimed

LEMMA InsertInstanceOnce ==
    ASSUME SeriesInv, SeriesInv', RuleInv, Kept, NEW r \in Requests, OnceInv(r),
           InsertInstance(r)
    PROVE  OnceInv(r)'
<1>. PICK l : l = loc[r]
  OBVIOUS
<1>. PICK m : m = loc'[r]
  OBVIOUS
<1>. PICK s : s = l.todo[1].id
  OBVIOUS
<1>. PICK n : n = Len(events) + 1
  OBVIOUS
<1>1. /\ OnceOK("materialize", l) /\ pc'[r] = "materialize" /\ UNCHANGED series
      /\ events' = Append(events, NewEvent(s, l.date))
  BY DEF InsertInstance, Considers, OnceInv, Goto, SeriesInv
<1>2. /\ Frontier(s, l) = Reached(l) /\ Frontier(s, m)' = l.date
      /\ Reached(l) \in Nat /\ l.date \in Nat /\ Reached(l) < l.date
      /\ \A t \in Series : t # s => Frontier(t, m)' = Frontier(t, l)
  BY PassedFrontier DEF InsertInstance
<1>3. /\ EventIds' = EventIds \cup {n} /\ events'[n].series = s /\ events'[n].date = l.date
      /\ \A e \in EventIds : events'[e] = events[e]
  <2>1. /\ EventIds' = EventIds \cup {n} /\ events'[n] = NewEvent(s, l.date)
        /\ \A e \in EventIds : events'[e] = events[e]
    BY <1>1, Appended DEF SeriesInv
  <2>. QED BY <2>1 DEF NewEvent
<1>4. ASSUME NEW e \in EventIds, NEW t, t = events[e].series, t # None
      PROVE  events[e].date <= Frontier(t, m)' /\ (t = s => events[e].date # l.date)
  <2>. PICK date : date = events[e].date
    OBVIOUS
  <2>1. t \in Series /\ date \in Nat /\ date <= Frontier(t, l)
    BY <1>1, <1>4, EventSeriesIsThere DEF OnceOK
  <2>2. t = s => date < l.date
    BY <1>2, <2>1
  <2>3. t # s => Frontier(t, m)' = Frontier(t, l)
    BY <1>2, <2>1
  <2>4. t = s => date <= Frontier(t, m)'
    BY <1>2, <2>1, <2>2
  <2>. QED BY <1>2, <2>1, <2>2, <2>3, <2>4
<1>5. ASSUME NEW e \in EventIds', NEW t, t = events'[e].series, t # None
      PROVE  events'[e].date <= Frontier(t, m)'
  <2>1. CASE e \in EventIds
    BY <1>3, <1>4, <1>5, <2>1
  <2>2. CASE e = n
    BY <1>2, <1>3, <1>5, <2>2
  <2>. QED BY <1>3, <2>1, <2>2
<1>6. ASSUME NEW e \in EventIds', NEW f \in EventIds', events'[e].series # None,
             events'[e].series = events'[f].series, events'[e].date = events'[f].date
      PROVE  e = f
  <2>1. CASE e \in EventIds /\ f \in EventIds
    BY <1>1, <1>3, <1>6, <2>1, ZenonT(60) DEF OnceOK
  <2>2. CASE e \in EventIds /\ f = n
    BY <1>3, <1>4, <1>6, <2>2
  <2>3. CASE e = n /\ f \in EventIds
    BY <1>3, <1>4, <1>6, <2>3
  <2>. QED BY <1>3, <2>1, <2>2, <2>3
<1>7. OnceOK("materialize", m)'
  BY <1>5, <1>6 DEF OnceOK, Frontier, Reached
<1>. QED BY <1>1, <1>7, OncePrimed

LEMMA CreateEventOnce ==
    ASSUME SeriesInv, SeriesInv', RuleInv, Kept, NEW r \in Requests, OnceInv(r),
           NEW d \in OneOffDates, CreateEvent(r, d)
    PROVE  OnceInv(r)'
<1>. PICK l : l = loc[r]
  OBVIOUS
<1>. PICK label : label = pc[r]
  OBVIOUS
<1>. PICK n : n = Len(events) + 1
  OBVIOUS
<1>1. /\ OnceOK(label, l) /\ UNCHANGED <<series, pc, loc>>
      /\ events' = Append(events, NewEvent(None, d))
  BY DEF CreateEvent, OnceInv
<1>2. /\ EventIds' = EventIds \cup {n} /\ events'[n].series = None
      /\ \A e \in EventIds : events'[e] = events[e]
  <2>1. /\ EventIds' = EventIds \cup {n} /\ events'[n] = NewEvent(None, d)
        /\ \A e \in EventIds : events'[e] = events[e]
    BY <1>1, Appended DEF SeriesInv
  <2>. QED BY <2>1 DEF NewEvent
<1>3. ASSUME NEW e \in EventIds', NEW s, s = events'[e].series, s # None
      PROVE  events'[e].date <= Frontier(s, l)' /\ e \in EventIds
  <2>1. e \in EventIds /\ events'[e] = events[e]
    BY <1>2, <1>3
  <2>2. events[e].date <= Frontier(s, l)
    BY <1>1, <1>3, <2>1 DEF OnceOK
  <2>. QED BY <1>1, <2>1, <2>2 DEF Frontier
<1>4. ASSUME NEW e \in EventIds', NEW f \in EventIds', events'[e].series # None,
             events'[e].series = events'[f].series, events'[e].date = events'[f].date
      PROVE  e = f
  <2>1. e \in EventIds /\ f \in EventIds
    BY <1>3, <1>4
  <2>. QED BY <1>1, <1>2, <1>4, <2>1 DEF OnceOK
<1>5. OnceOK(label, l)'
  BY <1>1, <1>3, <1>4 DEF OnceOK, Frontier, Reached
<1>. QED BY <1>1, <1>5, OncePrimed

\* It writes the watermark: the series it leaves, and the one it takes up,
\* are still where it reached them.
LEMMA WriteWatermarkOnce ==
    ASSUME SeriesInv, SeriesInv', RuleInv, Kept, NEW r \in Requests, OnceInv(r),
           AloneInv(r), WriteWatermark(r)
    PROVE  OnceInv(r)'
<1>. PICK l : l = loc[r]
  OBVIOUS
<1>. PICK m : m = loc'[r]
  OBVIOUS
<1>. PICK rest : rest = Tail(l.todo)
  OBVIOUS
<1>. PICK s : s = l.todo[1].id
  OBVIOUS
<1>1. /\ OnceOK("materialize", l) /\ AsRead(l) /\ LocalsOK(l) /\ l.todo # <<>>
      /\ l.todo \in Seq(Read) /\ UNCHANGED events
      /\ series' = IF l.mark = NoDate THEN series ELSE [series EXCEPT ![s].through = l.mark]
  BY DEF SeriesInv, RequestOK, LocalsOK, WriteWatermark, Mark, OnceInv, AloneInv, AloneOK
<1>2. m.todo = rest /\ m.mark = NoDate /\ pc'[r] = "materialize"
  <2>. PICK date : m = [l EXCEPT !.todo = rest, !.mark = NoDate, !.date = date]
    BY DEF WriteWatermark, Goto, SeriesInv
  <2>1. pc'[r] = "materialize"
    BY DEF WriteWatermark, Goto, SeriesInv
  <2>. QED BY <1>1, <2>1 DEF LocalsOK, Fields
<1>3. /\ rest \in Seq(Read) /\ Len(l.todo) \in Nat /\ Len(rest) = Len(l.todo) - 1
      /\ \A i \in 1..Len(rest) : rest[i] = l.todo[i + 1]
  BY <1>1, HeadTailProperties
<1>4. s \in Series /\ l.todo[1].row = series[s]
  <2>1. 1 \in 1..Len(l.todo) /\ l.todo[1] \in Read
    BY <1>1, EmptySeq, ElementOfSeq
  <2>. QED BY <1>1, <2>1 DEF Read, AsRead
<1>5. rest # <<>> => rest[1].id \in Series \ {s} /\ rest[1].row = series[rest[1].id]
  <2>. SUFFICES ASSUME rest # <<>>
                PROVE  rest[1].id \in Series \ {s} /\ rest[1].row = series[rest[1].id]
    OBVIOUS
  <2>1. 1 \in 1..Len(rest)
    BY <1>3, EmptySeq
  <2>2. rest[1] = l.todo[2] /\ 2 \in 1..Len(l.todo) /\ 1 \in 1..Len(l.todo)
    BY <1>3, <2>1
  <2>3. rest[1] \in Read
    BY <1>3, <2>1, ElementOfSeq
  <2>. QED BY <1>1, <2>2, <2>3, SMTT(30) DEF Read, AsRead
<1>6. /\ series'[s].through = Reached(l)
      /\ \A t \in Series \ {s} : series'[t] = series[t]
  <2>. PICK row : row = [series[s] EXCEPT !.through = l.mark]
    OBVIOUS
  <2>1. row.through = l.mark
    <3>1. series[s] \in SeriesRow
      BY <1>4 DEF SeriesInv, TablesOK
    <3>. QED BY <3>1 DEF SeriesRow
  <2>2. series' = IF l.mark = NoDate THEN series ELSE [series EXCEPT ![s] = row]
    BY <1>1
  <2>. QED BY <1>4, <2>1, <2>2 DEF SeriesInv, TablesOK, Reached
<1>7. Frontier(s, m)' = Frontier(s, l)
  BY <1>1, <1>2, <1>5, <1>6 DEF Frontier
<1>8. ASSUME NEW t \in Series \ {s} PROVE Frontier(t, m)' = Frontier(t, l)
  <2>1. Frontier(t, l) = series[t].through /\ series'[t] = series[t]
    BY <1>6 DEF Frontier
  <2>2. CASE rest # <<>> /\ rest[1].id = t
    <3>1. Reached(m) = series[t].through
      BY <1>2, <1>5, <2>2 DEF Reached
    <3>2. Frontier(t, m)' = Reached(m)
      BY <1>2, <2>2 DEF Frontier, Reached
    <3>. QED BY <2>1, <3>1, <3>2
  <2>3. CASE ~(rest # <<>> /\ rest[1].id = t)
    BY <1>2, <2>1, <2>3 DEF Frontier
  <2>. QED BY <2>2, <2>3
<1>9. OnceOK("materialize", m)'
  BY <1>1, <1>4, <1>7, <1>8, OnceKept DEF Kept
<1>. QED BY <1>2, <1>9, OncePrimed

LEMMA OnceStep ==
    ASSUME SeriesInv, SeriesInv', RuleInv, Kept, NEW r \in Requests, OnceInv(r),
           AloneInv(r), Step(r)
    PROVE  OnceInv(r)'
<1>1. CASE SkipPast(r)
  BY <1>1, SkipPastOnce
<1>2. CASE InsertInstance(r)
  BY <1>2, InsertInstanceOnce
<1>3. CASE WriteWatermark(r)
  BY <1>3, WriteWatermarkOnce
<1>5. CASE ReadSeries(r)
  BY <1>5, ReadingOnce
<1>4. CASE ~SkipPast(r) /\ ~InsertInstance(r) /\ ~WriteWatermark(r) /\ ~ReadSeries(r)
  <2>1. Aside
    BY <1>4, AsideStep DEF Step
  <2>2. pc[r] # "materialize" \/ loc[r].todo = <<>>
    BY <1>4 DEF Step, Materialized, SelectEvents, CompletePast, CountGames, DeleteEmpty,
                DropFuture, WriteComplete, LinkGame
  <2>. QED BY <2>1, <2>2, AsideOnce DEF OnceInv, OnceOK
<1>. QED BY <1>1, <1>2, <1>3, <1>4, <1>5

LEMMA OnceBegin ==
    ASSUME SeriesInv, SeriesInv', RuleInv, Kept, NEW r \in Requests, OnceInv(r), Begin(r)
    PROVE  OnceInv(r)'
<1>0. loc[r].todo = <<>>
  BY AloneBegin DEF OnceInv, OnceOK
<1>2. CASE \E s \in Series, rule \in Templates : CreateSeries(r, s, rule)
  BY <1>0, <1>2, CreateSeriesOnce
<1>3. ASSUME NEW d \in OneOffDates, CreateEvent(r, d) PROVE OnceInv(r)'
  BY <1>3, CreateEventOnce
<1>4. CASE \/ BeginList(r)
           \/ \E s \in Series : BeginCancel(r, s)
           \/ \E e \in EventIds : BeginToggle(r, e) \/ BeginGame(r, e) \/ UnlinkGame(r, e)
  BY <1>0, <1>4, AsideBegin, AsideOnce
<1>. QED BY <1>2, <1>3, <1>4 DEF Begin

LEMMA OnceInvInit ==
    ASSUME NEW r \in Requests
    PROVE  Init => OnceInv(r)
BY DEF Init, OnceInv, OnceOK, NoLocals, EventIds

LEMMA OnceInvStep ==
    ASSUME NEW r, Requests = {r}
    PROVE  SeriesInv /\ RuleInv /\ AloneInv(r) /\ OnceInv(r) /\ [Next]_vars =>
              OnceInv(r)' \/ Drop(r)
<1>. SUFFICES ASSUME SeriesInv, RuleInv, AloneInv(r), OnceInv(r), [Next]_vars
              PROVE  OnceInv(r)' \/ Drop(r)
  OBVIOUS
<1>0. r \in Requests /\ SeriesInv' /\ Kept
  BY SeriesInvStep, SeriesKeptStep
<1>1. CASE UNCHANGED vars \/ Midnight
  <2>1. UNCHANGED <<series, events, pc, loc>>
    BY <1>1 DEF vars, database, Midnight
  <2>. QED BY <1>0, <2>1, OnceStays
<1>2. CASE Step(r)
  BY <1>0, <1>2, OnceStep
<1>3. CASE Begin(r)
  BY <1>0, <1>3, OnceBegin
<1>. QED BY <1>1, <1>2, <1>3 DEF Next

(***************************************************************************)
(* "Repeated listings never duplicate instances", nor recreate those       *)
(* deleted since (events.rs:558-561): of requests served one at a time,    *)
(* each to its end, a series has had at most one event for each of its     *)
(* dates, for none is ahead of where its generation resumes.               *)
(***************************************************************************)
THEOREM OccurrencesAreOnce ==
    ASSUME NEW r0, Requests = {r0}, MaxDrops = 0
    PROVE  Spec => []EachOccurrenceOnce
<1>. DEFINE NoDrops == drops = 0
<1>1. SeriesInv /\ RuleInv /\ OnceInv(r0) => EachOccurrenceOnce
  <2>. SUFFICES ASSUME SeriesInv, OnceInv(r0), NEW s \in Series, NEW d \in Days
                PROVE  Cardinality(Instances(s, d)) <= 1
    BY DEF EachOccurrenceOnce
  <2>1. s # None
    BY BoundsAssumption
  <2>2. \A e, f \in Instances(s, d) : e = f
    BY <2>1 DEF Instances, OnceInv, OnceOK
  <2>3. CASE Instances(s, d) = {}
    BY <2>3, FS_EmptySet
  <2>4. ASSUME NEW e \in Instances(s, d) PROVE Cardinality(Instances(s, d)) = 1
    <3>1. Instances(s, d) = {e}
      BY <2>2
    <3>. QED BY <3>1, FS_Singleton
  <2>. QED BY <2>3, <2>4
<1>2. Init => NoDrops /\ AloneInv(r0) /\ OnceInv(r0)
  BY AloneInvInit, OnceInvInit DEF Init
<1>3. NoDrops /\ [Next]_vars => NoDrops'
  BY DropsCounted
<1>4. SeriesInv /\ RuleInv /\ AloneInv(r0) /\ [Next]_vars => AloneInv(r0)'
  BY AloneInvStep
<1>5. SeriesInv /\ RuleInv /\ AloneInv(r0) /\ OnceInv(r0) /\ NoDrops /\ [Next]_vars =>
        OnceInv(r0)'
  <2>1. NoDrops => ~Drop(r0)
    BY DEF Drop
  <2>. QED BY <2>1, OnceInvStep
<1>. QED BY <1>1, <1>2, <1>3, <1>4, <1>5, SeriesInvariants, PTL DEF Spec
=============================================================================
