------------------------------ MODULE Fixtures ------------------------------
(***************************************************************************)
(* Club-versus-club fixtures and the club ladder                           *)
(* (src/server/src/domain/fixtures.rs, club_elo.rs,                        *)
(* src/server/migrations/0011_club_fixtures.sql).                          *)
(*                                                                         *)
(* A handler is a chain of SQL statements, each committed on its own, with *)
(* an await between two of them; no handler of this file opens a           *)
(* transaction.  A request in flight is therefore a program counter and    *)
(* the locals of its handler, and every statement is one step, so that     *)
(* the statements of concurrent requests interleave.  A request may also   *)
(* be dropped between two statements: the process stops, the client        *)
(* disconnects, or a statement fails (a busy database); what it has        *)
(* written stays.  A request a handler refuses changes nothing and is not  *)
(* a step.                                                                 *)
(***************************************************************************)
EXTENDS Integers, Sequences, FiniteSets

CONSTANTS
    FixtureIds,   \* rows the club_fixtures table may ever hold
    GameIds,      \* external games that may ever be recorded (bounds recording)
    Clubs,
    GameTypes,    \* the sports; None stands for the NULL game type
    Users,
    AdminOf,      \* AdminOf[u]: the clubs that user u administers
    Requests,     \* requests the server can have in flight at once
    MaxDrops,     \* bound on the requests that stop half-way
    None          \* no value

ASSUME NoneAssumption ==
    None \notin FixtureIds \cup GameIds \cup Clubs \cup GameTypes
ASSUME AdminAssumption == AdminOf \in [Users -> SUBSET Clubs]
ASSUME DropsAssumption == MaxDrops \in Nat

VARIABLES
    \* The database.
    fixture,        \* club_fixtures rows
    confirmations,  \* result_confirmations: the clubs that confirmed a fixture
    game,           \* games rows of scope external: the side that won
    fixtureGames,   \* fixture_games: the games linked to a fixture
    ratedGames,     \* games whose players' external ratings have moved
    clubElo,        \* club_elo rows of a club and game type, oldest first
    \* The requests in flight.
    pc, loc,
    \* History, read by the properties only.
    accepted,       \* fixtures the away club's admin has accepted
    settled,        \* how often a fixture has been settled on both clubs
    vouched,        \* the games a fixture had when a club last confirmed it
    dropped,        \* fixtures on which a request stopped half-way
    drops

dbVars == <<fixture, confirmations, game, fixtureGames, ratedGames, clubElo>>
history == <<accepted, settled, vouched, dropped, drops>>
vars == <<dbVars, pc, loc, history>>

-----------------------------------------------------------------------------
\* Rows and locals.

Types == GameTypes \cup {None}
Statuses == {"absent", "proposed", "accepted", "declined", "cancelled",
             "played", "confirmed"}
Sides == {"home", "away"}

FixtureRow == [status: Statuses, home: Clubs \cup {None},
               away: Clubs \cup {None}, type: Types]

\* A skill state, abstracted to what has been folded into it: the fixtures won
\* and lost, and how many updates it has been through.
Rating == [won: SUBSET FixtureIds, lost: SUBSET FixtureIds, folds: Nat]
DefaultRating == [won |-> {}, lost |-> {}, folds |-> 0]

EloRow == [rating: Rating, played: Nat]

Labels == {"idle", "accept", "decline", "cancel",
           "insertGame", "linkGame", "ratePlayers", "writePlayed",
           "upsert", "count", "tally", "loadHome", "loadAway",
           "saveHome", "saveAway", "writeConfirmed"}

\* fixture, seen: the row read first and the status it had then; club: the
\* club confirming; winner: of the game being recorded, or of the fixture
\* being settled; homeRating, awayRating: the states loaded, then updated.
Locals == [fixture: FixtureIds \cup {None}, seen: Statuses,
           club: Clubs \cup {None}, game: GameIds \cup {None},
           winner: Sides \cup {"draw", "none"},
           homeRating: Rating, awayRating: Rating]

NoLocals == [fixture |-> None, seen |-> "absent", club |-> None,
             game |-> None, winner |-> "none",
             homeRating |-> DefaultRating, awayRating |-> DefaultRating]

-----------------------------------------------------------------------------

Init ==
    /\ fixture = [f \in FixtureIds |->
                    [status |-> "absent", home |-> None, away |-> None, type |-> None]]
    /\ confirmations = [f \in FixtureIds |-> {}]
    /\ game = [g \in GameIds |-> "none"]
    /\ fixtureGames = [f \in FixtureIds |-> {}]
    /\ ratedGames = {}
    /\ clubElo = [c \in Clubs |-> [t \in Types |-> <<>>]]
    /\ pc = [r \in Requests |-> "idle"]
    /\ loc = [r \in Requests |-> NoLocals]
    /\ accepted = {}
    /\ settled = [f \in FixtureIds |-> 0]
    /\ vouched = [f \in FixtureIds |-> [c \in Clubs |-> {}]]
    /\ dropped = {}
    /\ drops = 0

Goto(r, label) == pc' = [pc EXCEPT ![r] = label]
Keep(r, locals) == loc' = [loc EXCEPT ![r] = locals]
Done(r) == Goto(r, "idle") /\ Keep(r, NoLocals)

SetStatus(f, s) == fixture' = [fixture EXCEPT ![f].status = s]

IsAdmin(u, c) == c \in AdminOf[u]
EitherAdmin(u, f) == IsAdmin(u, fixture[f].home) \/ IsAdmin(u, fixture[f].away)

\* The first statement of a handler reads the fixture and keeps its status.
ReadFixture(r, f, label) ==
    /\ pc[r] = "idle"
    /\ fixture[f].status # "absent"
    /\ Goto(r, label)
    /\ Keep(r, [loc[r] EXCEPT !.fixture = f, !.seen = fixture[f].status])

-----------------------------------------------------------------------------
\* propose_fixture: what it reads before its INSERT never changes, so the
\* handler is its INSERT.

ProposeFixture(u, h, a, t, f) ==
    /\ IsAdmin(u, h)
    /\ a # h
    /\ fixture[f].status = "absent"
    /\ fixture' = [fixture EXCEPT ![f] =
                    [status |-> "proposed", home |-> h, away |-> a, type |-> t]]
    /\ UNCHANGED <<confirmations, game, fixtureGames, ratedGames, clubElo,
                   pc, loc, history>>

\* accept_fixture and decline_fixture: read, check, then an unconditional
\* UPDATE of the status.

BeginAnswer(r, u, f, answer) ==
    /\ ReadFixture(r, f, answer)
    /\ IsAdmin(u, fixture[f].away)
    /\ fixture[f].status = "proposed"
    /\ UNCHANGED <<dbVars, history>>

WriteAccepted(r) ==
    /\ pc[r] = "accept"
    /\ SetStatus(loc[r].fixture, "accepted")
    /\ accepted' = accepted \cup {loc[r].fixture}
    /\ Done(r)
    /\ UNCHANGED <<confirmations, game, fixtureGames, ratedGames, clubElo,
                   settled, vouched, dropped, drops>>

WriteDeclined(r) ==
    /\ pc[r] = "decline"
    /\ SetStatus(loc[r].fixture, "declined")
    /\ Done(r)
    /\ UNCHANGED <<confirmations, game, fixtureGames, ratedGames, clubElo, history>>

BeginCancel(r, u, f) ==
    /\ ReadFixture(r, f, "cancel")
    /\ EitherAdmin(u, f)
    /\ fixture[f].status # "confirmed"
    /\ UNCHANGED <<dbVars, history>>

WriteCancelled(r) ==
    /\ pc[r] = "cancel"
    /\ SetStatus(loc[r].fixture, "cancelled")
    /\ Done(r)
    /\ UNCHANGED <<confirmations, game, fixtureGames, ratedGames, clubElo, history>>

-----------------------------------------------------------------------------
\* record_fixture_game: the games row and its team rows, the link to the
\* fixture, the players' external ratings, then the fixture's status.

\* The id the INSERT will return is set aside when the request begins: a
\* request begins only while the bounded supply of ids lasts.
FreeGame(g) == game[g] = "none" /\ \A r \in Requests : loc[r].game # g

\* Mutant: only a refused fixture is closed to games.
RecordableUnlessRefused(f) == fixture[f].status \notin {"declined", "cancelled"}

Recordable(f) == fixture[f].status \in {"accepted", "played"}

BeginRecord(r, u, f, side, g) ==
    /\ pc[r] = "idle"
    /\ EitherAdmin(u, f)
    /\ Recordable(f)
    /\ FreeGame(g)
    /\ Goto(r, "insertGame")
    /\ Keep(r, [loc[r] EXCEPT !.fixture = f, !.seen = fixture[f].status,
                              !.winner = side, !.game = g])
    /\ UNCHANGED <<dbVars, history>>

\* The game and team rows are read by nobody before the link exists.
InsertGame(r) ==
    /\ pc[r] = "insertGame"
    /\ game' = [game EXCEPT ![loc[r].game] = loc[r].winner]
    /\ Goto(r, "linkGame")
    /\ UNCHANGED <<fixture, confirmations, fixtureGames, ratedGames, clubElo, loc, history>>

LinkGame(r) ==
    /\ pc[r] = "linkGame"
    /\ fixtureGames' = [fixtureGames EXCEPT ![loc[r].fixture] = @ \cup {loc[r].game}]
    /\ Goto(r, "ratePlayers")
    /\ UNCHANGED <<fixture, confirmations, game, ratedGames, clubElo, loc, history>>

RatePlayers(r) ==
    /\ pc[r] = "ratePlayers"
    /\ ratedGames' = ratedGames \cup {loc[r].game}
    /\ Goto(r, "writePlayed")
    /\ UNCHANGED <<fixture, confirmations, game, fixtureGames, clubElo, loc, history>>

WritePlayed(r) ==
    /\ pc[r] = "writePlayed"
    /\ SetStatus(loc[r].fixture, "played")
    /\ Done(r)
    /\ UNCHANGED <<confirmations, game, fixtureGames, ratedGames, clubElo, history>>

-----------------------------------------------------------------------------
\* confirm_fixture and settle_fixture.

\* Mutant: the away club is forgotten.
ConfirmsForHome(u, f) == IF IsAdmin(u, fixture[f].home) THEN fixture[f].home ELSE None

\* An admin of both clubs always confirms for the home club.
ConfirmsFor(u, f) == IF IsAdmin(u, fixture[f].home) THEN fixture[f].home
                                                    ELSE fixture[f].away

BeginConfirm(r, u, f) ==
    /\ pc[r] = "idle"
    /\ EitherAdmin(u, f)
    /\ fixture[f].status \in {"played", "confirmed"}
    /\ Goto(r, "upsert")
    /\ Keep(r, [loc[r] EXCEPT !.fixture = f, !.seen = fixture[f].status,
                              !.club = ConfirmsFor(u, f)])
    /\ UNCHANGED <<dbVars, history>>

UpsertConfirmation(r) ==
    LET f == loc[r].fixture
        c == loc[r].club
    IN  /\ pc[r] = "upsert"
        /\ confirmations' = [confirmations EXCEPT ![f] = @ \cup {c}]
        /\ vouched' = [vouched EXCEPT ![f][c] = fixtureGames[f]]
        /\ Goto(r, "count")
        /\ UNCHANGED <<fixture, game, fixtureGames, ratedGames, clubElo, loc,
                       accepted, settled, dropped, drops>>

ConfirmingClubs(f) ==
    confirmations[f] \cap {fixture[f].home, fixture[f].away}

\* Mutants: one confirmation is enough, or two are not.
AnyConfirmed(f) == Cardinality(ConfirmingClubs(f)) >= 1
MoreThanBothConfirmed(f) == Cardinality(ConfirmingClubs(f)) > 2

BothConfirmed(f) == Cardinality(ConfirmingClubs(f)) >= 2

\* Mutant: the fixture may have been settled already.
SettleAgain(r) == BothConfirmed(loc[r].fixture)

\* both_confirmed, and the test on the status read when the request began.
MaySettle(r) == BothConfirmed(loc[r].fixture) /\ loc[r].seen # "confirmed"

CountConfirmations(r) ==
    /\ pc[r] = "count"
    /\ IF MaySettle(r)
         THEN Goto(r, "tally") /\ UNCHANGED loc
         ELSE Done(r)
    /\ UNCHANGED <<dbVars, history>>

Won(f, side) == {g \in fixtureGames[f] : game[g] = side}

Outcome(f) ==
    LET h == Cardinality(Won(f, "home"))
        a == Cardinality(Won(f, "away"))
    IN  IF h > a THEN "home" ELSE IF a > h THEN "away" ELSE "draw"

TallyGames(r) ==
    /\ pc[r] = "tally"
    /\ Keep(r, [loc[r] EXCEPT !.winner = Outcome(loc[r].fixture)])
    /\ Goto(r, "loadHome")
    /\ UNCHANGED <<dbVars, history>>

\* load_club_state: LIMIT 1 without an ORDER BY, so any of the rows.
Loadable(c, t) ==
    IF clubElo[c][t] = <<>> THEN {DefaultRating}
    ELSE {clubElo[c][t][i].rating : i \in 1..Len(clubElo[c][t])}

LoadHome(r) ==
    LET row == fixture[loc[r].fixture]
    IN  /\ pc[r] = "loadHome"
        /\ \E rating \in Loadable(row.home, row.type) :
              Keep(r, [loc[r] EXCEPT !.homeRating = rating])
        /\ Goto(r, "loadAway")
        /\ UNCHANGED <<dbVars, history>>

\* club_elo::update_clubs: on a draw both states are returned as they are.
UpdateClub(rating, f, side, winner) ==
    IF winner = "draw" THEN rating
    ELSE [won   |-> rating.won \cup (IF winner = side THEN {f} ELSE {}),
          lost  |-> rating.lost \cup (IF winner = side THEN {} ELSE {f}),
          folds |-> rating.folds + 1]

LoadAway(r) ==
    LET f == loc[r].fixture
        row == fixture[f]
        w == loc[r].winner
    IN  /\ pc[r] = "loadAway"
        /\ \E rating \in Loadable(row.away, row.type) :
              Keep(r, [loc[r] EXCEPT
                         !.homeRating = UpdateClub(loc[r].homeRating, f, "home", w),
                         !.awayRating = UpdateClub(rating, f, "away", w)])
        /\ Goto(r, "saveHome")
        /\ UNCHANGED <<dbVars, history>>

\* Mutant: games_played is overwritten rather than added to.
SavedOver(rows, t, rating, bump) ==
    IF t # None /\ rows # <<>>
    THEN [rows EXCEPT ![1] = [rating |-> rating, played |-> bump]]
    ELSE Append(rows, [rating |-> rating, played |-> bump])

\* save_club_state: the upsert conflicts on (club_id, game_type_id), and a
\* NULL game type conflicts with nothing.  played is added in SQL.
Saved(rows, t, rating, bump) ==
    IF t # None /\ rows # <<>>
    THEN [rows EXCEPT ![1] = [rating |-> rating, played |-> @.played + bump]]
    ELSE Append(rows, [rating |-> rating, played |-> bump])

Bump(winner) == IF winner = "draw" THEN 0 ELSE 1

\* Mutant: the away club's row is never saved.
SaveHomeOnly(r) ==
    LET row == fixture[loc[r].fixture]
    IN  /\ pc[r] = "saveHome"
        /\ clubElo' = [clubElo EXCEPT ![row.home][row.type] =
                         Saved(@, row.type, loc[r].homeRating, Bump(loc[r].winner))]
        /\ Goto(r, "writeConfirmed")
        /\ UNCHANGED <<fixture, confirmations, game, fixtureGames, ratedGames,
                       loc, history>>

SaveHome(r) ==
    LET row == fixture[loc[r].fixture]
    IN  /\ pc[r] = "saveHome"
        /\ clubElo' = [clubElo EXCEPT ![row.home][row.type] =
                         Saved(@, row.type, loc[r].homeRating, Bump(loc[r].winner))]
        /\ Goto(r, "saveAway")
        /\ UNCHANGED <<fixture, confirmations, game, fixtureGames, ratedGames,
                       loc, history>>

SaveAway(r) ==
    LET row == fixture[loc[r].fixture]
    IN  /\ pc[r] = "saveAway"
        /\ clubElo' = [clubElo EXCEPT ![row.away][row.type] =
                         Saved(@, row.type, loc[r].awayRating, Bump(loc[r].winner))]
        /\ settled' = [settled EXCEPT ![loc[r].fixture] = @ + 1]
        /\ Goto(r, "writeConfirmed")
        /\ UNCHANGED <<fixture, confirmations, game, fixtureGames, ratedGames,
                       loc, accepted, vouched, dropped, drops>>

WriteConfirmed(r) ==
    /\ pc[r] = "writeConfirmed"
    /\ SetStatus(loc[r].fixture, "confirmed")
    /\ Done(r)
    /\ UNCHANGED <<confirmations, game, fixtureGames, ratedGames, clubElo, history>>

-----------------------------------------------------------------------------

\* A request stops between two of its statements.
Drop(r) ==
    /\ pc[r] # "idle"
    /\ drops < MaxDrops
    /\ drops' = drops + 1
    /\ dropped' = dropped \cup {loc[r].fixture}
    /\ Done(r)
    /\ UNCHANGED <<dbVars, accepted, settled, vouched>>

\* The statements of a request that has begun.
Step(r) ==
    \/ WriteAccepted(r)
    \/ WriteDeclined(r)
    \/ WriteCancelled(r)
    \/ InsertGame(r)
    \/ LinkGame(r)
    \/ RatePlayers(r)
    \/ WritePlayed(r)
    \/ UpsertConfirmation(r)
    \/ CountConfirmations(r)
    \/ TallyGames(r)
    \/ LoadHome(r)
    \/ LoadAway(r)
    \/ SaveHome(r)
    \/ SaveAway(r)
    \/ WriteConfirmed(r)

Begin(r, u, f) ==
    \/ \E answer \in {"accept", "decline"} : BeginAnswer(r, u, f, answer)
    \/ BeginCancel(r, u, f)
    \/ \E side \in Sides, g \in GameIds : BeginRecord(r, u, f, side, g)
    \/ BeginConfirm(r, u, f)

Propose(u) ==
    \E h \in Clubs, a \in Clubs, t \in Types, f \in FixtureIds :
        ProposeFixture(u, h, a, t, f)

Next ==
    \/ \E u \in Users : Propose(u)
    \/ \E r \in Requests, u \in Users, f \in FixtureIds : Begin(r, u, f)
    \/ \E r \in Requests : Step(r) \/ Drop(r)

Spec == Init /\ [][Next]_vars

\* The runtime polls every request it has accepted until the request ends.
FairSpec == Spec /\ \A r \in Requests : WF_vars(Step(r))

-----------------------------------------------------------------------------
(***************************************************************************)
(* Properties.                                                             *)
(***************************************************************************)

TypeOK ==
    /\ fixture \in [FixtureIds -> FixtureRow]
    /\ confirmations \in [FixtureIds -> SUBSET Clubs]
    /\ game \in [GameIds -> Sides \cup {"none"}]
    /\ fixtureGames \in [FixtureIds -> SUBSET GameIds]
    /\ ratedGames \subseteq GameIds
    /\ clubElo \in [Clubs -> [Types -> Seq(EloRow)]]
    /\ pc \in [Requests -> Labels]
    /\ loc \in [Requests -> Locals]
    /\ accepted \subseteq FixtureIds
    /\ settled \in [FixtureIds -> Nat]
    /\ vouched \in [FixtureIds -> [Clubs -> SUBSET GameIds]]
    /\ dropped \subseteq FixtureIds
    /\ drops \in 0..MaxDrops

\* A fixture's clubs have both confirmed it.
Agreed(f) == /\ fixture[f].home \in confirmations[f]
             /\ fixture[f].away \in confirmations[f]

\* "A one-sided confirmation settles nothing" (fixtures.rs:9-10, 703), under
\* every interleaving and every dropped request: a result folded into a
\* club's rating is a result of a fixture that club played, in that game
\* type, and that both clubs had confirmed.
SettlementNeedsBothClubs ==
    \A c \in Clubs, t \in Types : \A i \in 1..Len(clubElo[c][t]) :
        \A f \in clubElo[c][t][i].rating.won \cup clubElo[c][t][i].rating.lost :
            /\ Agreed(f)
            /\ c \in {fixture[f].home, fixture[f].away}
            /\ t = fixture[f].type

\* The status `confirmed` is never ahead of the ladder: it is written only
\* after both clubs' rows were saved (fixtures.rs:743-750).
ConfirmedIsSettled ==
    \A f \in FixtureIds : fixture[f].status = "confirmed" => settled[f] > 0

\* Two clubs confirming at the same time cannot miss each other: each counts
\* after its own upsert, so when both confirmations are in, either the
\* fixture has been settled, or a request is on its way to settle it, or a
\* request on the fixture stopped half-way (fixtures.rs:727-750).
NoMissedSettlement ==
    \A f \in FixtureIds :
        Agreed(f) /\ settled[f] = 0 /\ f \notin dropped =>
            \E r \in Requests :
                /\ loc[r].fixture = f
                /\ pc[r] \in {"count", "tally", "loadHome", "loadAway",
                              "saveHome", "saveAway"}

\* Nobody's external rating moves without the away club's consent: only a
\* fixture its admin accepted ever gets games or confirmations, whatever
\* accept, decline, cancel and record requests overlap (fixtures.rs:543-547,
\* 721-725).
PlayNeedsAcceptance ==
    \A f \in FixtureIds :
        fixtureGames[f] # {} \/ confirmations[f] # {} => f \in accepted

\* games_played is added to in SQL, so unlike the rating beside it, it never
\* loses a settlement: in a real game type a rating has been through at most
\* as many updates as games_played says (fixtures.rs:859-868).
GamesPlayedCoversFolds ==
    \A c \in Clubs, t \in GameTypes : \A i \in 1..Len(clubElo[c][t]) :
        clubElo[c][t][i].rating.folds <= clubElo[c][t][i].played

\* Once both clubs have confirmed, the ladder does move, unless a request on
\* the fixture stopped half-way.
AgreedIsEventuallySettled ==
    \A f \in FixtureIds :
        Agreed(f) ~> settled[f] > 0 \/ f \in dropped

\* The ladder is the list of settled fixtures: when no request is in flight,
\* a club's row in a real game type holds the result of each of its settled
\* fixtures that was not a draw, folded in once, and counts them.  This is
\* what serial requests guarantee; overlapping settlements of two fixtures of
\* one club may lose an update.
Decided(c, t) ==
    {f \in FixtureIds : /\ settled[f] > 0
                        /\ fixture[f].type = t
                        /\ c \in {fixture[f].home, fixture[f].away}
                        /\ Outcome(f) # "draw"}

LadderRecordsEachResultOnce ==
    (\A r \in Requests : pc[r] = "idle") =>
        \A c \in Clubs, t \in GameTypes :
            LET n == Cardinality(Decided(c, t))
                w == {f \in Decided(c, t) : fixture[f][Outcome(f)] = c}
                row == [rating |-> [won |-> w, lost |-> Decided(c, t) \ w, folds |-> n],
                        played |-> n]
            IN  clubElo[c][t] = <<row>> \/ (clubElo[c][t] = <<>> /\ n = 0)

\* What fixtures.rs:378-379 tells the caller, "A confirmed fixture cannot be
\* cancelled.", as a property of every step.
ConfirmedNeverCancelled ==
    [][\A f \in FixtureIds :
        fixture[f].status = "confirmed" => fixture'[f].status # "cancelled"]_fixture

\* "both clubs confirm the result" (0011_club_fixtures.sql:4-5): a settlement
\* tallies no game recorded after either club's confirmation.
SettledResultWasConfirmed ==
    [][\A r \in Requests :
        LET f == loc[r].fixture
        IN  pc[r] = "tally" /\ pc'[r] = "loadHome" =>
                \A c \in {fixture[f].home, fixture[f].away} :
                    fixtureGames[f] \subseteq vouched[f][c]]_vars

=============================================================================
