---------------------------- MODULE EventSeries -----------------------------
(***************************************************************************)
(* A club's events and recurring series: creation, the lazy generation of  *)
(* a series' events and the lazy management of past events that every      *)
(* listing performs, and the cancellation of a series                      *)
(* (src/server/src/domain/events.rs, migrations/0009_event_series.sql).    *)
(*                                                                         *)
(* There is no scheduler: the events of a series are inserted, and past    *)
(* events activated, completed and deleted, by whoever lists the events    *)
(* of the club.  Every SQL statement is a step, with what its handler does *)
(* before it waits for the next (reading the clock); requests interleave   *)
(* between statements, and a request may stop half-way.  Only requests     *)
(* the handlers authorize are modelled.  The flag event_active, which no   *)
(* decision here reads but its own, is left out.                           *)
(***************************************************************************)
EXTENDS Calendar, SequencesExt

CONSTANTS
    Series,       \* event_series rows the table may ever hold
    Templates,    \* the series admins create: rule and ends
    OneOffDates,  \* the dates of the single events they create
    Horizon,      \* days generated ahead of today, 56 in the code
    Grace,        \* days after which an event is completed, 2 in the code
    Requests,     \* requests the server can have in flight at once
    Today,        \* the days on which the system runs (bounds time)
    MaxEvents,    \* bound on the events ever inserted
    PerRequest,   \* what Horizon and Templates let one request insert
    MaxGames,     \* bound on the games there are at once
    MaxDrops,     \* bound on the requests that stop half-way
    None          \* no value

ASSUME TemplatesAssumption ==
    Templates \subseteq [frequency : Frequencies, interval : Nat \ {0},
                         start : Days, end : Days]
ASSUME BoundsAssumption ==
    /\ {Horizon, Grace, MaxEvents, PerRequest, MaxGames, MaxDrops} \subseteq Nat
    /\ OneOffDates \subseteq Days \cup {0}
    /\ Today \subseteq Days /\ Today # {}
    /\ IsFiniteSet(Series) /\ None \notin Series

VARIABLES
    today,
    series,       \* event_series rows
    events,       \* events rows; the position of a row is its id
    pc, loc,      \* the requests in flight
    drops,        \* requests that have stopped half-way
    cancelledOn   \* history: the day each series was first cancelled

database == <<series, events>>
vars == <<today, database, pc, loc, drops, cancelledOn>>

-----------------------------------------------------------------------------

\* No date: what a date column holds that is no date, and the NULL watermark.
NoDate == 0

SeriesRow == [state : {"absent", "active", "cancelled"},
              rule : Templates \cup {None},
              through : Days \cup {NoDate}]

EventRow == [series : Series \cup {None}, date : Days \cup {NoDate}, live : BOOLEAN,
             complete : BOOLEAN, games : Nat]

EventIds == 1..Len(events)
Labels == {"idle", "readSeries", "materialize", "selectEvents", "complete", "count",
           "delete", "dropFuture", "writeComplete", "link"}

\* now: the day the handler read the clock; todo: series still to be
\* materialized, as read; date, mark: the next occurrence to consider and the
\* last one passed; manage: whether the events are managed next; rows: past
\* events still to be managed, as read; target: the row the request writes,
\* and value what it writes.
NoLocals == [now |-> NoDate, todo |-> <<>>, date |-> NoDate, mark |-> NoDate,
             manage |-> FALSE, rows |-> <<>>, target |-> None, value |-> FALSE]

Init ==
    /\ today \in Today /\ \A d \in Today : today <= d
    /\ series = [s \in Series |-> [state |-> "absent", rule |-> None, through |-> NoDate]]
    /\ events = <<>>
    /\ pc = [r \in Requests |-> "idle"]
    /\ loc = [r \in Requests |-> NoLocals]
    /\ drops = 0
    /\ cancelledOn = [s \in Series |-> NoDate]

Start(r, label, locals) ==
    /\ pc[r] = "idle"
    /\ pc' = [pc EXCEPT ![r] = label]
    /\ loc' = [loc EXCEPT ![r] = locals]
    /\ UNCHANGED <<today, drops>>

\* It has read the clock.
AsOf(day) == [NoLocals EXCEPT !.now = day]

\* It goes on to its next statement, or ends.
Goto(r, label, locals) ==
    /\ pc' = [pc EXCEPT ![r] = label]
    /\ loc' = [loc EXCEPT ![r] = locals]
    /\ UNCHANGED <<today, drops, cancelledOn>>

Done(r) == Goto(r, "idle", NoLocals)

-----------------------------------------------------------------------------
\* Generation: materialize_series.

\* n more events fit below the bound, beside those the requests in flight
\* may still insert.
Room(n) ==
    LET generating == {q \in Requests : pc[q] \in {"readSeries", "materialize"}}
    IN  Len(events) + Cardinality(generating) * PerRequest + n <= MaxEvents

NewEvent(s, d) == [series |-> s, date |-> d, live |-> TRUE,
                   complete |-> FALSE, games |-> 0]

After(rule, d) == NextOccurrence(d, rule.frequency, rule.interval)

\* Mutants: generation resumes on the day after the watermark, or from the start.
FirstDateAfter(rule, through) == IF through = NoDate THEN rule.start ELSE AddDays(through, 1)
FirstDateAnew(rule, through) == rule.start

\* Where generation resumes.
FirstDate(rule, through) == IF through = NoDate THEN rule.start ELSE After(rule, through)

\* Mutant: a cancelled series is still generated.
ToGenerateAll(rows) == {s \in Series : rows[s].state # "absent"}

ToGenerate(rows) == {s \in Series : rows[s].state = "active"}

\* The first date of the first series that has been read.
ReadDate(todo) == FirstDate(todo[1].row.rule, todo[1].row.through)

\* The locals of a request that has read the active series.
Reading(rows, l) ==
    LET todo == SetToSeq({[id |-> s, row |-> rows[s]] : s \in ToGenerate(rows)})
    IN  [l EXCEPT !.todo = todo, !.date = IF todo = <<>> THEN NoDate ELSE ReadDate(todo)]

\* club_events: a listing begins with the series; the clock is read first.
BeginList(r) ==
    /\ Room(PerRequest)
    /\ Start(r, "readSeries", [AsOf(today) EXCEPT !.manage = TRUE])
    /\ UNCHANGED <<database, cancelledOn>>

\* create_series: the INSERT, then the club's series are materialized.
CreateSeries(r, s, rule) ==
    /\ Room(PerRequest)
    /\ series[s].state = "absent"
    /\ rule.start <= rule.end
    /\ series' = [series EXCEPT ![s] = [state |-> "active", rule |-> rule, through |-> NoDate]]
    /\ Start(r, "readSeries", AsOf(today))
    /\ UNCHANGED <<events, cancelledOn>>

ReadSeries(r) ==
    /\ pc[r] = "readSeries"
    /\ Goto(r, "materialize", Reading(series, loc[r]))
    /\ UNCHANGED database

\* Mutant: the horizon falls short by a day.
LimitShort(l) ==
    LET end == l.todo[1].row.rule.end
    IN  IF end < l.now + Horizon THEN end ELSE l.now + Horizon - 1

Limit(l) ==
    LET end == l.todo[1].row.rule.end
    IN  IF end <= l.now + Horizon THEN end ELSE l.now + Horizon

\* The request considers an occurrence of the first of its series.
Considers(r) ==
    /\ pc[r] = "materialize"
    /\ loc[r].todo # <<>>
    /\ loc[r].date <= Limit(loc[r])

\* Mutant: a date in the past is not left.
PassedInPlace(l) ==
    [l EXCEPT !.mark = l.date,
              !.date = IF l.date < l.now THEN l.date ELSE After(l.todo[1].row.rule, l.date)]

Passed(l) == [l EXCEPT !.mark = l.date, !.date = After(l.todo[1].row.rule, l.date)]

\* An occurrence in the past is skipped, but moves the watermark.
SkipPast(r) ==
    /\ Considers(r)
    /\ loc[r].date < loc[r].now
    /\ Goto(r, "materialize", Passed(loc[r]))
    /\ UNCHANGED database

InsertInstance(r) ==
    /\ Considers(r)
    /\ loc[r].date >= loc[r].now
    /\ events' = Append(events, NewEvent(loc[r].todo[1].id, loc[r].date))
    /\ Goto(r, "materialize", Passed(loc[r]))
    /\ UNCHANGED series

\* Mutant: the watermark is the date to come.
MarkNext(l) == l.date

Mark(l) == l.mark

\* The watermark is written if an occurrence was passed, and the next series
\* is taken up.
WriteWatermark(r) ==
    LET l == loc[r]
        rest == Tail(l.todo)
    IN  /\ pc[r] = "materialize"
        /\ l.todo # <<>>
        /\ l.date > Limit(l)
        /\ series' = IF l.mark = NoDate THEN series
                     ELSE [series EXCEPT ![l.todo[1].id].through = Mark(l)]
        /\ Goto(r, "materialize",
                [l EXCEPT !.todo = rest, !.mark = NoDate,
                          !.date = IF rest = <<>> THEN NoDate ELSE ReadDate(rest)])
        /\ UNCHANGED events

Materialized(r) ==
    /\ pc[r] = "materialize"
    /\ loc[r].todo = <<>>
    /\ IF loc[r].manage THEN Goto(r, "selectEvents", AsOf(today)) ELSE Done(r)
    /\ UNCHANGED database

-----------------------------------------------------------------------------
\* Management: auto_manage_events.

Overdue(d, now) == d # NoDate /\ d + Grace < now

\* Only for overdue events is there something to do.
SelectEvents(r) ==
    LET overdue == {e \in EventIds : events[e].live /\ Overdue(events[e].date, loc[r].now)}
        rows == SetToSeq({[id |-> e, complete |-> events[e].complete] : e \in overdue})
    IN  /\ pc[r] = "selectEvents"
        /\ IF rows = <<>> THEN Done(r)
           ELSE Goto(r, "complete", [loc[r] EXCEPT !.rows = rows])
        /\ UNCHANGED database

NextRow(r) ==
    LET rest == Tail(loc[r].rows)
    IN  IF rest = <<>> THEN Done(r)
        ELSE Goto(r, "complete", [loc[r] EXCEPT !.rows = rest])

\* An UPDATE of a row that is gone changes nothing.
Update(e, row) == events' = IF events[e].live THEN [events EXCEPT ![e] = row] ELSE events

Delete(es) ==
    events' = [e \in EventIds |->
        IF e \in es THEN [NewEvent(events[e].series, events[e].date) EXCEPT !.live = FALSE]
                    ELSE events[e]]

\* Mutant: only an event that was already complete is counted.
CompleteThenNext(r) ==
    LET read == loc[r].rows[1]
    IN  /\ pc[r] = "complete"
        /\ IF read.complete THEN UNCHANGED events /\ Goto(r, "count", loc[r])
           ELSE Update(read.id, [events[read.id] EXCEPT !.complete = TRUE]) /\ NextRow(r)
        /\ UNCHANGED series

CompletePast(r) ==
    LET read == loc[r].rows[1]
    IN  /\ pc[r] = "complete"
        /\ IF read.complete THEN UNCHANGED events
           ELSE Update(read.id, [events[read.id] EXCEPT !.complete = TRUE])
        /\ Goto(r, "count", loc[r])
        /\ UNCHANGED series

\* Mutant: an event with games counts as empty.
EmptyOrNot(e) == events[e].games >= 0

Empty(e) == events[e].games = 0

CountGames(r) ==
    /\ pc[r] = "count"
    /\ IF Empty(loc[r].rows[1].id) THEN Goto(r, "delete", loc[r]) ELSE NextRow(r)
    /\ UNCHANGED database

DeleteEmpty(r) ==
    /\ pc[r] = "delete"
    /\ Delete({loc[r].rows[1].id})
    /\ NextRow(r)
    /\ UNCHANGED series

-----------------------------------------------------------------------------
\* What admins do to series and events.

\* cancel_series: the UPDATE; then the clock is read, before the DELETE.
BeginCancel(r, s) ==
    /\ series[s].state # "absent"
    /\ series' = [series EXCEPT ![s].state = "cancelled"]
    /\ cancelledOn' = [cancelledOn EXCEPT ![s] = IF @ = NoDate THEN today ELSE @]
    /\ Start(r, "dropFuture", [AsOf(today) EXCEPT !.target = s])
    /\ UNCHANGED events

\* Mutant: the past instances of the series go too.
DroppedByCancelAll(l) == {e \in EventIds : events[e].series = l.target /\ Empty(e)}

DroppedByCancel(l) ==
    {e \in EventIds : events[e].series = l.target /\ events[e].date > l.now /\ Empty(e)}

DropFuture(r) ==
    /\ pc[r] = "dropFuture"
    /\ Delete(DroppedByCancel(loc[r]))
    /\ Done(r)
    /\ UNCHANGED series

\* create_event: the date is not checked, and may be no date.
CreateEvent(r, d) ==
    /\ pc[r] = "idle"
    /\ Room(1)
    /\ events' = Append(events, NewEvent(None, d))
    /\ UNCHANGED <<today, series, pc, loc, drops, cancelledOn>>

\* complete_event: what was read is reversed.
BeginToggle(r, e) ==
    /\ events[e].live
    /\ Start(r, "writeComplete", [NoLocals EXCEPT !.target = e, !.value = ~events[e].complete])
    /\ UNCHANGED <<database, cancelledOn>>

WriteComplete(r) ==
    LET e == loc[r].target
    IN  /\ pc[r] = "writeComplete"
        /\ Update(e, [events[e] EXCEPT !.complete = loc[r].value])
        /\ Done(r)
        /\ UNCHANGED series

Games == FoldSet(LAMBDA e, n : events[e].games + n, 0, EventIds)

\* The event is read, and games are created and linked several statements later.
BeginGame(r, e) ==
    /\ events[e].live
    /\ Games + Cardinality({q \in Requests : pc[q] = "link"}) < MaxGames
    /\ Start(r, "link", [NoLocals EXCEPT !.target = e])
    /\ UNCHANGED <<database, cancelledOn>>

LinkGame(r) ==
    LET e == loc[r].target
    IN  /\ pc[r] = "link"
        /\ Update(e, [events[e] EXCEPT !.games = @ + 1])
        /\ Done(r)
        /\ UNCHANGED series

\* delete_game.
UnlinkGame(r, e) ==
    /\ pc[r] = "idle"
    /\ events[e].games > 0
    /\ events' = [events EXCEPT ![e].games = @ - 1]
    /\ UNCHANGED <<today, series, pc, loc, drops, cancelledOn>>

-----------------------------------------------------------------------------

Drop(r) ==
    /\ pc[r] # "idle"
    /\ drops < MaxDrops
    /\ drops' = drops + 1
    /\ pc' = [pc EXCEPT ![r] = "idle"]
    /\ loc' = [loc EXCEPT ![r] = NoLocals]
    /\ UNCHANGED <<today, database, cancelledOn>>

\* Days on which nobody asks anything may pass.
Midnight ==
    /\ \E d \in Today : d > today /\ today' = d
    /\ UNCHANGED <<database, pc, loc, drops, cancelledOn>>

Step(r) ==
    \/ ReadSeries(r)
    \/ SkipPast(r)
    \/ InsertInstance(r)
    \/ WriteWatermark(r)
    \/ Materialized(r)
    \/ SelectEvents(r)
    \/ CompletePast(r)
    \/ CountGames(r)
    \/ DeleteEmpty(r)
    \/ DropFuture(r)
    \/ WriteComplete(r)
    \/ LinkGame(r)

Begin(r) ==
    \/ BeginList(r)
    \/ \E s \in Series, rule \in Templates : CreateSeries(r, s, rule)
    \/ \E s \in Series : BeginCancel(r, s)
    \/ \E d \in OneOffDates : CreateEvent(r, d)
    \/ \E e \in EventIds : BeginToggle(r, e) \/ BeginGame(r, e) \/ UnlinkGame(r, e)

Next ==
    \/ \E r \in Requests : Begin(r) \/ Step(r) \/ Drop(r)
    \/ Midnight

Spec == Init /\ [][Next]_vars

\* The runtime polls every request it has accepted until the request ends.
FairSpec == Spec /\ \A r \in Requests : WF_vars(Step(r))

-----------------------------------------------------------------------------
(***************************************************************************)
(* Properties.                                                             *)
(***************************************************************************)

TypeOK ==
    /\ today \in Today
    /\ series \in [Series -> SeriesRow]
    /\ events \in Seq(EventRow)
    /\ pc \in [Requests -> Labels]
    /\ drops \in 0..MaxDrops
    /\ cancelledOn \in [Series -> Today \cup {NoDate}]

\* The dates of a rule: the least set that holds its start and, within the
\* calendar, the occurrence after each of them.
Follows(rule, D) == rule.start \in D /\ \A d \in D : After(rule, d) \in D \cup {Never}

Occurrences ==
    [rule \in Templates |-> {d \in Days : \A D \in SUBSET Days : Follows(rule, D) => d \in D}]

Instances(s, d) == {e \in EventIds : events[e].series = s /\ events[e].date = d}

\* The watermark is never ahead of the events: every date of a series from
\* today up to it has been generated, whatever requests overlap or stop
\* (events.rs:597-636).
WatermarkIsCovered ==
    \A s \in Series : series[s].state # "absent" =>
        \A d \in Occurrences[series[s].rule] :
            today <= d /\ d <= series[s].through => Instances(s, d) # {}

\* The date k steps of a rule from its start, reached in one leap: what the
\* cadence "aligned to `start_date`" (events.rs:562-563) puts there.
Nth(rule, k) == NextOccurrence(rule.start, rule.frequency, k * rule.interval)

\* A month the rule has passed before its k-th step is too short for its day.
ShortMonthBefore(rule, k) ==
    /\ rule.frequency = "monthly"
    /\ \E j \in 0..(k - 1) :
          MonthLength(MonthOf(rule.start) + j * rule.interval) < DayOf(rule.start)

SameMonth(d, e) == e \in Days /\ MonthOf(d) = MonthOf(e)

Aligned(rule, d) == \E k \in 0..(d - rule.start) : d = Nth(rule, k)

\* Wherever generation resumed, an instance falls a whole number of steps of
\* its series' rule from the start, within its ends.  The one way it may miss
\* the day is that a month before was too short for it, and then it keeps its
\* month and falls no later in it (events.rs:196-213, 587-624).
InstancesAreAligned ==
    \A e \in EventIds : events[e].series # None =>
        LET rule == series[events[e].series].rule
            d    == events[e].date
        IN  /\ rule.start <= d /\ d <= rule.end
            /\ \E k \in 0..(d - rule.start) :
                  \/ d = Nth(rule, k)
                  \/ /\ ShortMonthBefore(rule, k)
                     /\ SameMonth(d, Nth(rule, k)) /\ d <= Nth(rule, k)

\* Nothing happens to an event before its time: it disappears when it is
\* Grace days past (events.rs:685), or with its cancelled series if it was
\* still to come on the day the series was first cancelled
\* (events.rs:1163-1178), whenever midnight strikes: before, between or after
\* the statements of a request, which act on the day they have read.
OnlyPastOrCancelledAreDeleted ==
    [][\A e \in EventIds : events[e].live /\ ~events'[e].live =>
          \/ Overdue(events[e].date, today)
          \/ /\ events[e].series # None
             /\ series[events[e].series].state = "cancelled"
             /\ events[e].date > cancelledOn[events[e].series]]_vars

\* The following hold of requests served one at a time, each to its end.

\* "Repeated listings never duplicate instances", nor recreate those deleted
\* since (events.rs:558-561): a series has had at most one event for each of
\* its dates.
EachOccurrenceOnce ==
    \A s \in Series, d \in Days : Cardinality(Instances(s, d)) <= 1

\* A game played is not forgotten: no event is deleted with its games
\* (events.rs:685-697, 1171-1178).
GamesKeepTheirEvent ==
    [][\A e \in EventIds : events[e].live /\ ~events'[e].live => events[e].games = 0]_vars

\* A cancelled series stays so: nothing is added to it (events.rs:576, 1163).
CancelledSeriesIsClosed ==
    [][\A s \in Series : series[s].state = "cancelled" =>
          \A e \in DOMAIN events' \ EventIds : events'[e].series # s]_vars

\* What the list shows is up to date: when a listing is about to read the
\* events, every date of an active series from today to the horizon has been
\* generated (events.rs:566-637).
ListingGeneratesWhatIsDue ==
    \A r \in Requests : pc[r] = "materialize" /\ loc[r].todo = <<>> =>
        \A s \in Series : series[s].state = "active" =>
            \A d \in Occurrences[series[s].rule] :
                today <= d /\ d <= loc[r].now + Horizon /\ d <= series[s].rule.end =>
                    Instances(s, d) # {}

\* And when it ends, an event that was Grace days past when it read the
\* events is complete and has games (events.rs:678-697).
ListingClearsThePast ==
    [][\A r \in Requests :
          pc[r] \in {"selectEvents", "complete", "count", "delete"} /\ pc'[r] = "idle" =>
              \A e \in EventIds :
                  events'[e].live /\ Overdue(events'[e].date, loc[r].now) =>
                      events'[e].complete /\ events'[e].games > 0]_vars

\* A listing ends: every rule moves on from every date (events.rs:206).
RequestsEnd ==
    \A r \in Requests : pc[r] # "idle" ~> pc[r] = "idle"

\* "Still advance the watermark to keep the cadence aligned to `start_date`"
\* (events.rs:562-563): every instance is on the cadence its start gives.
CadenceIsAligned ==
    \A e \in EventIds : events[e].series # None =>
        Aligned(series[events[e].series].rule, events[e].date)

\* "Repeated listings never duplicate instances" (events.rs:559-560), of
\* every execution: requests may overlap.
RepeatedListingsNeverDuplicate == EachOccurrenceOnce
=============================================================================
