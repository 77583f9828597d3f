------------------------------ MODULE Ratings -------------------------------
(***************************************************************************)
(* Players' ratings: update_elo and elo_row_for_member of                  *)
(* src/server/src/domain/games.rs, which completed games and fixtures      *)
(* call, and the rating row made when a member is activated for an event   *)
(* (src/server/src/domain/events.rs).  Every row is read before any is     *)
(* written, one statement at a time.  A rating's value is left to the      *)
(* skill models: the row's counts tell the games apart.                    *)
(***************************************************************************)
EXTENDS InFlight, Sequences, SequencesExt

CONSTANTS
    Players,
    Games,     \* games of one game type, by id
    GameOf,    \* their winners and losers, scope, and whether they are rated
               \*   (of an event matched by skill, with nobody's team empty)
    MaxElos,   \* bound on the elo rows there can ever be
    MaxPlays   \* bound on the results a player can have in a scope

Scopes == {"internal", "external"}

ASSUME RatingsAssumption ==
    /\ {MaxElos, MaxPlays} \subseteq Nat
    /\ \A g \in Games :
          /\ GameOf[g].scope \in Scopes /\ GameOf[g].rated \in BOOLEAN
          /\ {GameOf[g].winners, GameOf[g].losers} \subseteq Seq(Players)
          /\ GameOf[g].winners \o GameOf[g].losers # <<>>

VARIABLES
    games,       \* games rows
    elos,        \* elo rows, by id
    userElos,    \* user_elos rows: players and elo rows
    wins,        \* elo_game_wins and elo_game_loses rows
    loses,
    lastElo,
    \* History, read by the properties only.
    ledger,      \* the results written for a player in a scope, in order
    blurred      \* the players and scopes two requests worked on at once, or one
                 \*   stopped at, or had to do twice

history == <<ledger, blurred>>
ratingsVars == <<games, elos, userElos, wins, loses, lastElo, history>>

-----------------------------------------------------------------------------

EloRow == [scope : Scopes, games : Nat, streak : Nat, best : Nat]

RatingLabels == {"fetch", "insertElo", "linkElo", "save", "mark"}

\* todo: the players whose rows are still to be fetched; rows: the rows as they
\* were read; at: the row to write.
RatingLocals == [user |-> None, game |-> None, scope |-> None, todo |-> <<>>, rows |-> <<>>,
                 fresh |-> None, at |-> 1]

RatingsInit ==
    /\ games = Games
    /\ elos = [e \in {} |-> None]
    /\ userElos = {} /\ wins = {} /\ loses = {}
    /\ lastElo = 0
    /\ ledger = [k \in Players \X Scopes |-> <<>>]
    /\ blurred = {}

EloRowsOf(p, scope) ==
    {e \in DOMAIN elos : <<p, e>> \in userElos /\ elos[e].scope = scope}

\* The ratings a request works on.
Concerns(r) ==
    LET l == loc[r]
    IN  IF pc[r] \notin RatingLabels THEN {}
        ELSE {<<p, l.scope>> : p \in ToSet(l.todo)}
             \cup {<<l.rows[i].player, l.scope>> : i \in DOMAIN l.rows}

\* A rating row may be needed for everyone a request still has to fetch.
RoomForElos(n) ==
    lastElo + n + FoldSet(LAMBDA r, sum : sum + Len(loc[r].todo), 0, InFlightAt(RatingLabels))
        <= MaxElos

RoomForPlay(l) ==
    \A p \in ToSet(l.todo) :
        LET k == <<p, l.scope>>
        IN  Len(ledger[k]) + Cardinality({q \in Requests : k \in Concerns(q)}) < MaxPlays

\* Nothing keeps a user off both teams, as a member of two clubs (fixtures) or
\* named twice (pegs).
Twice(todo) == {p \in ToSet(todo) : \E i, j \in DOMAIN todo : i # j /\ todo[i] = p /\ todo[j] = p}

BeginRating(r, l) ==
    /\ RoomForElos(Len(l.todo))
    /\ Start(r, "fetch", l)
    /\ blurred' = blurred \cup {<<p, l.scope>> : p \in Twice(l.todo)}
                          \cup ({<<p, l.scope>> : p \in ToSet(l.todo)}
                                  \cap UNION {Concerns(q) : q \in Requests \ {r}})
    /\ UNCHANGED <<games, elos, userElos, wins, loses, lastElo, ledger>>

\* The winners' rows come first.  Nothing stops a second completion.
CompleteGame(r, g) ==
    /\ Asks(IF GameOf[g].scope = "internal" THEN "play" ELSE "fixture")
    /\ g \in games
    /\ LET l == [RatingLocals EXCEPT !.game = g, !.scope = GameOf[g].scope,
                                     !.todo = GameOf[g].winners \o GameOf[g].losers]
       IN  RoomForPlay(l) /\ BeginRating(r, l)

\* add_member_to_active_set, as far as the rating row goes.
SeatPlayer(r, p) ==
    /\ Asks("seat")
    /\ BeginRating(r, [RatingLocals EXCEPT !.scope = "internal", !.todo = <<p>>])

\* delete_game, once the players and the event have let it go.
DeleteGame(g) ==
    /\ Asks("unplay")
    /\ g \in games /\ GameOf[g].scope = "internal"
    /\ games' = games \ {g}
    /\ wins' = {w \in wins : w[2] # g}
    /\ loses' = {w \in loses : w[2] # g}
    /\ UNCHANGED <<flight, elos, userElos, lastElo, history>>

-----------------------------------------------------------------------------
\* elo_row_for_member: a check, then two INSERTs.

Fetched(r, e, elo) ==
    LET l == loc[r]
        next == [l EXCEPT !.todo = Tail(@), !.fresh = None,
                          !.rows = Append(@, [player |-> Head(l.todo), elo |-> e,
                                              games |-> elo.games, streak |-> elo.streak,
                                              best |-> elo.best])]
    IN  IF next.todo # <<>> THEN Goto(r, "fetch", next)
        ELSE IF l.game = None THEN Done(r)
        ELSE Goto(r, "save", next)

\* Mutant: the row is looked for in every scope.
FetchAnyElo(r) ==
    LET l == loc[r]
        found == UNION {EloRowsOf(Head(l.todo), scope) : scope \in Scopes}
    IN  /\ pc[r] = "fetch"
        /\ \/ found = {} /\ Proceed(r, "insertElo")
           \/ \E e \in found : Fetched(r, e, elos[e])
        /\ UNCHANGED ratingsVars

Fetch(r) ==
    LET l == loc[r]
        found == EloRowsOf(Head(l.todo), l.scope)
    IN  /\ pc[r] = "fetch"
        /\ \/ found = {} /\ Proceed(r, "insertElo")
           \/ \E e \in found : Fetched(r, e, elos[e])
        /\ UNCHANGED ratingsVars

DefaultElo(scope) == [scope |-> scope, games |-> 0, streak |-> 0, best |-> 0]

InsertElo(r) ==
    LET e == lastElo + 1
    IN  /\ pc[r] = "insertElo"
        /\ elos' = [i \in DOMAIN elos \cup {e} |->
                       IF i = e THEN DefaultElo(loc[r].scope) ELSE elos[i]]
        /\ lastElo' = e
        /\ Goto(r, "linkElo", [loc[r] EXCEPT !.fresh = e])
        /\ UNCHANGED <<games, userElos, wins, loses, history>>

LinkElo(r) ==
    LET l == loc[r]
    IN  /\ pc[r] = "linkElo"
        /\ userElos' = userElos \cup {<<Head(l.todo), l.fresh>>}
        /\ Fetched(r, l.fresh, DefaultElo(l.scope))
        /\ UNCHANGED <<games, elos, wins, loses, lastElo, history>>

-----------------------------------------------------------------------------
\* update_elo: each row is written from what was read of it, then its mark.

Larger(a, b) == IF a >= b THEN a ELSE b

Won(l) == l.at <= Len(GameOf[l.game].winners)

Rated(l) == GameOf[l.game].rated

Written(elo, read, won, rated) ==
    [elo EXCEPT !.games = IF rated THEN read.games + 1 ELSE @,
                !.streak = IF won THEN read.streak + 1 ELSE 0,
                !.best = IF won THEN Larger(read.streak + 1, read.best) ELSE @]

Save(r) ==
    LET l == loc[r]
        read == l.rows[l.at]
        won == Won(l)
    IN  /\ pc[r] = "save"
        /\ elos' = [elos EXCEPT ![read.elo] = Written(@, read, won, Rated(l))]
        /\ ledger' = [ledger EXCEPT ![<<read.player, l.scope>>] =
              Append(@, [game |-> l.game, won |-> won])]
        /\ Proceed(r, "mark")
        /\ UNCHANGED <<games, userElos, wins, loses, lastElo, blurred>>

\* A mark of a game that was deleted meanwhile fails.
Mark(r) ==
    LET l == loc[r]
        mark == {<<l.rows[l.at].elo, l.game>>}
    IN  /\ pc[r] = "mark"
        /\ IF l.game \in games
             THEN /\ wins' = IF Won(l) THEN wins \cup mark ELSE wins
                  /\ loses' = IF Won(l) THEN loses ELSE loses \cup mark
                  /\ IF l.at = Len(l.rows) THEN Done(r)
                     ELSE Goto(r, "save", [l EXCEPT !.at = @ + 1])
             ELSE Done(r) /\ UNCHANGED <<wins, loses>>
        /\ UNCHANGED <<games, elos, userElos, lastElo, history>>

-----------------------------------------------------------------------------

StopRating(r) ==
    /\ pc[r] \in RatingLabels
    /\ Drop(r)
    /\ blurred' = blurred \cup Concerns(r)
    /\ UNCHANGED <<games, elos, userElos, wins, loses, lastElo, ledger>>

BeginRatingCall(r) ==
    \/ \E g \in Games : CompleteGame(r, g)
    \/ \E p \in Players : SeatPlayer(r, p)

RatingStep(r) == Fetch(r) \/ InsertElo(r) \/ LinkElo(r) \/ Save(r) \/ Mark(r)

RatingAtOnce == \E g \in Games : DeleteGame(g)

-----------------------------------------------------------------------------
RatingsTypeOK ==
    /\ games \subseteq Games
    /\ \A e \in DOMAIN elos : e \in 1..lastElo /\ elos[e] \in EloRow
    /\ userElos \subseteq Players \X (DOMAIN elos)
    /\ wins \cup loses \subseteq (DOMAIN elos) \X games
    /\ lastElo \in 0..MaxElos
    /\ blurred \subseteq Players \X Scopes

\* The wins at the end of a run of results, and the longest such run.
Streak(results) ==
    Len(results) - Cardinality({i \in DOMAIN results :
                                   \E j \in i..Len(results) : ~results[j].won})
BestStreak(results) ==
    LET streaks == {Streak(SubSeq(results, 1, i)) : i \in 0..Len(results)}
    IN  CHOOSE s \in streaks : \A t \in streaks : t <= s

RatedCount(results) == Cardinality({i \in DOMAIN results : GameOf[results[i].game].rated})

\* A player has one rating row of a scope, and the row sums up the results in
\* their order, however often a game is completed: its count is that of the rated
\* results, its streaks are those of the results, and the marks of the games that
\* are left agree.  Excepted are ratings that two requests worked on at once, or
\* one stopped at or worked on twice, and those of a request in flight; but those
\* may only lose results, never count or mark one that was not, and no best streak
\* is ever behind a streak (update_elo, elo_row_for_member,
\* add_member_to_active_set).
RatingsCountGames ==
    /\ \A e \in DOMAIN elos : elos[e].best >= elos[e].streak
    /\ \A k \in Players \X Scopes : \A e \in EloRowsOf(k[1], k[2]) :
          /\ elos[e].games <= RatedCount(ledger[k])
          /\ \A g \in games :
                /\ <<e, g>> \in wins => [game |-> g, won |-> TRUE] \in ToSet(ledger[k])
                /\ <<e, g>> \in loses => [game |-> g, won |-> FALSE] \in ToSet(ledger[k])
    /\ \A k \in (Players \X Scopes) \ (blurred \cup UNION {Concerns(r) : r \in Requests}) :
          LET results == ledger[k]
              rows == EloRowsOf(k[1], k[2])
          IN  /\ Cardinality(rows) <= 1
              /\ results # <<>> => rows # {}
              /\ \A e \in rows :
                    /\ elos[e].games = RatedCount(results)
                    /\ elos[e].streak = Streak(results)
                    /\ elos[e].best = BestStreak(results)
                    /\ \A g \in games :
                          /\ [game |-> g, won |-> TRUE] \in ToSet(results) => <<e, g>> \in wins
                          /\ [game |-> g, won |-> FALSE] \in ToSet(results) => <<e, g>> \in loses
=============================================================================
