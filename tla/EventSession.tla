---------------------------- MODULE EventSession ----------------------------
(***************************************************************************)
(* The session of one event: who waits to play, who is in a game, the      *)
(* games made of them and the statistics kept of those                     *)
(* (src/server/src/domain/games.rs; the stat transforms and the member     *)
(* activation of src/server/src/domain/events.rs).                         *)
(*                                                                         *)
(* Every SQL statement that touches them is a step, requests interleave    *)
(* between statements, and a request may stop half-way.  A completion      *)
(* names a game and an event apart: games of other events are completed    *)
(* for this one, and games of this one for others, whose own tables are    *)
(* left out.  Only requests the handlers authorize are modelled, of a game *)
(* type with a team size.  Which players the matchmakers pick is left open *)
(* but for the first; what their rating rows say is the subject of Ratings.*)
(***************************************************************************)
EXTENDS Integers, FiniteSets, FiniteSetsExt

CONSTANTS
    Members,
    GameIds,      \* games that may ever be created (bounds creation)
    TeamSize,     \* 1 for singles, 2 for doubles
    PegTeams,     \* the pairs of teams that admins put together by hand; a
                  \* member named on both sides is left out
    Panel,        \* whether requests are those the matchmaking panel offers
                  \* when they are made, or any the server accepts
    OtherEvents,  \* whether those name games of other events for this one, and
                  \* other events for games of this one
    Requests,     \* requests the server can have in flight at once
    MaxCompletions,   \* bound on the requests to complete one game
    MaxDrops,     \* bound on the requests that stop half-way
    None          \* no value

ASSUME SessionAssumption ==
    /\ None \notin Members \cup GameIds
    /\ TeamSize \in Nat \ {0}
    /\ PegTeams \subseteq {teams \in ((SUBSET Members) \ {{}}) \X (SUBSET Members) :
                            teams[1] \cap teams[2] = {}}
    /\ {Panel, OtherEvents} \subseteq BOOLEAN
    /\ {MaxCompletions, MaxDrops} \subseteq Nat
    /\ IsFiniteSet(Requests)

VARIABLES
    active, inGame, playedOnce,   \* the member sets of the event
    game,      \* games rows, with their teams and their link to the event
    counts,    \* player_match_counts
    stats,     \* wins, winstreaks, best_winstreak, played_with
    pc, loc,   \* the requests in flight
    \* History, read by the properties and the bounds.
    asked,     \* how often a game was to be completed
    scored,    \* how often a win was entered in a member's rating row (the row
               \* written and the game marked there), for this event
    blurred,   \* winners of completions that overlapped, failed or stopped
    astray,    \* who is in a game that was completed through another event
    dropped,   \* the players of the games on which a request stopped half-way
    drops

database == <<active, inGame, playedOnce, game, counts, stats>>
history == <<asked, scored, blurred, astray, dropped, drops>>
vars == <<database, pc, loc, history>>

-----------------------------------------------------------------------------

Winners == {"team1", "team2"}

GameRow == [live : BOOLEAN, team1 : SUBSET Members, team2 : SUBSET Members,
            link : {"none", "made", "removed", "elsewhere"}, winner : Winners \cup {"none"}]
NoGame == [live |-> FALSE, team1 |-> {}, team2 |-> {}, link |-> "none", winner |-> "none"]

\* JSON maps.  A member a map lacks is told from one at zero only in the match
\* counts and in best_winstreak; the others are 0 where the map has no key.
Partial(map) == DOMAIN map \subseteq Members /\ map \in [DOMAIN map -> Nat]
Zero == [m \in Members |-> 0]
Empty == [m \in {} |-> 0]
Totals == [Members -> Nat]
NoStats == [wins |-> Zero, winstreaks |-> Zero, best |-> Empty,
            playedWith |-> [m \in Members |-> Zero]]

Labels == {"idle", "choose", "take", "putInGame", "link",
           "setScore", "readTeam1", "readTeam2", "rate", "mark", "reactivate",
           "leaveGame", "markPlayed", "readStats", "writeStats", "unlink", "delete",
           "checkPlayed", "seed", "join"}

\* read: the active members as read; game: the game at hand; here: whether the
\* request names this event; winner: as the score says, "none" in a deletion;
\* team1, team2: as read; todo: players still to be rated, or moved; member:
\* the one at hand; counts, stats: as read.
NoLocals == [read |-> {}, game |-> None, here |-> TRUE, winner |-> "none",
             team1 |-> {}, team2 |-> {}, todo |-> {}, member |-> None,
             counts |-> Empty, stats |-> NoStats]

Init ==
    /\ active = {} /\ inGame = {} /\ playedOnce = {}
    /\ game = [g \in GameIds |-> NoGame]
    /\ counts = Empty
    /\ stats = NoStats
    /\ pc = [r \in Requests |-> "idle"]
    /\ loc = [r \in Requests |-> NoLocals]
    /\ asked = [g \in GameIds |-> 0]
    /\ scored = Zero
    /\ blurred = {} /\ astray = {}
    /\ dropped = {}
    /\ drops = 0

Goto(r, label, locals) ==
    /\ pc' = [pc EXCEPT ![r] = label]
    /\ loc' = [loc EXCEPT ![r] = locals]

Start(r, label, locals) == pc[r] = "idle" /\ Goto(r, label, locals)

Done(r) == Goto(r, "idle", NoLocals)

Players(g) == game[g].team1 \cup game[g].team2

-----------------------------------------------------------------------------
\* Creation: create_sbmm, create_social, create_peg, create_game_for_event.

Unused == {g \in GameIds : game[g] = NoGame}

\* The supply of ids is bounded: a creation begins while one is left for it.
Room == Cardinality({q \in Requests : pc[q] = "choose"}) < Cardinality(Unused)

BeginCreate(r) ==
    /\ Room
    /\ Cardinality(active) >= 2 * TeamSize
    /\ Start(r, "choose", [NoLocals EXCEPT !.read = active])
    /\ UNCHANGED <<database, history>>

MatchCount(m) == IF m \in DOMAIN counts THEN counts[m] ELSE 0

LeastPlayed(members) ==
    {m \in members : \A n \in members : MatchCount(m) <= MatchCount(n)}

\* The INSERTs of the game and of its teams; nobody reads them before the link.
InsertGame(r, team1, team2) ==
    LET players == team1 \cup team2
    IN  \E g \in Unused :
        /\ game' = [game EXCEPT ![g] = [NoGame EXCEPT !.live = TRUE, !.team1 = team1,
                                                      !.team2 = team2]]
        /\ Goto(r, IF players = {} THEN "link" ELSE "take",
                   [NoLocals EXCEPT !.game = g, !.team1 = team1, !.todo = players])
        /\ UNCHANGED <<active, inGame, playedOnce, counts, stats, history>>

\* The match counts are read, and the teams picked among the members read.
ChooseTeams(r) ==
    LET read == loc[r].read
    IN  /\ pc[r] = "choose"
        /\ \E team1 \in kSubset(TeamSize, read) :
           \E team2 \in kSubset(TeamSize, read \ team1) :
              /\ LeastPlayed(read) \cap (team1 \cup team2) # {}
              /\ InsertGame(r, team1, team2)

CreatePeg(r) ==
    /\ Room
    /\ pc[r] = "idle"
    /\ \E teams \in PegTeams : InsertGame(r, teams[1], teams[2])

\* The players who may come next: those of team 1 before those of team 2.
Turn(l) == IF l.todo \cap l.team1 # {} THEN l.todo \cap l.team1 ELSE l.todo

\* Mutant: who is put in a game goes on waiting.
TakeNobody(r, m) ==
    /\ pc[r] = "take" /\ m \in Turn(loc[r])
    /\ Goto(r, "putInGame", [loc[r] EXCEPT !.member = m])
    /\ UNCHANGED <<database, history>>

\* move_active_to_in_game.
TakeFromActive(r, m) ==
    /\ pc[r] = "take" /\ m \in Turn(loc[r])
    /\ active' = active \ {m}
    /\ Goto(r, "putInGame", [loc[r] EXCEPT !.member = m])
    /\ UNCHANGED <<inGame, playedOnce, game, counts, stats, history>>

PutInGame(r) ==
    LET l == loc[r]
        todo == l.todo \ {l.member}
    IN  /\ pc[r] = "putInGame"
        /\ inGame' = inGame \cup {l.member}
        /\ Goto(r, IF todo = {} THEN "link" ELSE "take", [l EXCEPT !.todo = todo])
        /\ UNCHANGED <<active, playedOnce, game, counts, stats, history>>

LinkGame(r) ==
    /\ pc[r] = "link"
    /\ game' = [game EXCEPT ![loc[r].game].link = "made"]
    /\ Done(r)
    /\ UNCHANGED <<active, inGame, playedOnce, counts, stats, history>>

-----------------------------------------------------------------------------
\* complete_game and delete_game.

Linked(g) == game[g].link = "made"
Open(g) == Linked(g) /\ game[g].winner = "none"

\* What the server accepts, and of that what the panel offers: the open games.
\* A completion requires that the game exists; a client knows of games that
\* an event lists or has listed.
MayComplete(g) == game[g].live /\ game[g].link # "none" /\ (Panel => Open(g))

Elsewhere(g) == game[g].link = "elsewhere"

\* A deletion requires the link as well.
MayDelete(g) == game[g].live /\ Linked(g) /\ (Panel => Open(g))

\* complete_game, for a score that names a winner; of the requests that name
\* other events, those about games of this one.
BeginComplete(r, g, winner, here) ==
    /\ MayComplete(g)
    /\ here \/ (OtherEvents /\ ~Panel /\ ~Elsewhere(g))
    /\ asked[g] < MaxCompletions
    /\ asked' = [asked EXCEPT ![g] = @ + 1]
    /\ Start(r, "setScore", [NoLocals EXCEPT !.game = g, !.winner = winner, !.here = here])
    /\ UNCHANGED <<database, scored, blurred, astray, dropped, drops>>

\* Neither that the game is open nor that it belongs to the event is tested.
SetScore(r) ==
    LET l == loc[r]
    IN  /\ pc[r] = "setScore"
        /\ game' = IF game[l.game].live THEN [game EXCEPT ![l.game].winner = l.winner] ELSE game
        /\ astray' = IF ~l.here /\ Open(l.game) THEN astray \cup Players(l.game) ELSE astray
        /\ Goto(r, "readTeam1", l)
        /\ UNCHANGED <<active, inGame, playedOnce, counts, stats,
                       asked, scored, blurred, dropped, drops>>

BeginDelete(r, g) ==
    /\ MayDelete(g)
    /\ Start(r, "readTeam1", [NoLocals EXCEPT !.game = g])
    /\ UNCHANGED <<database, history>>

\* team_ids: a game deleted meanwhile has no players.
TeamOf(g, team) == IF game[g].live THEN game[g][team] ELSE {}

ReadTeam1(r) ==
    /\ pc[r] = "readTeam1"
    /\ Goto(r, "readTeam2", [loc[r] EXCEPT !.team1 = TeamOf(loc[r].game, "team1")])
    /\ UNCHANGED <<database, history>>

\* Where a request goes whose players have all been moved.
AfterPlayers(l) == IF l.winner = "none" THEN "unlink" ELSE "readStats"

\* Its next label, with the players of todo to be put back.
PutBack(l, todo) == IF todo = {} THEN AfterPlayers(l) ELSE "reactivate"

Both(l) == l.team1 \cup l.team2

\* A completion goes on to the event it names, once all players are rated.
Rated(r, l) ==
    IF l.todo # {} THEN Goto(r, "rate", l)
    ELSE IF l.here THEN Goto(r, PutBack(l, Both(l)), [l EXCEPT !.todo = Both(l)])
    ELSE Done(r)

ReadTeam2(r) ==
    LET team2 == TeamOf(loc[r].game, "team2")
        l == [loc[r] EXCEPT !.team2 = team2, !.todo = loc[r].team1 \cup team2]
    IN  /\ pc[r] = "readTeam2"
        /\ IF l.winner = "none" THEN Goto(r, PutBack(l, l.todo), l) ELSE Rated(r, l)
        /\ UNCHANGED <<database, history>>

Bump(map, members) == [m \in DOMAIN map |-> IF m \in members THEN map[m] + 1 ELSE map[m]]

\* update_elo, after its reads: each player's rating row is written, and the
\* game marked as won or lost there, the winners' rows before the losers'.
\* Where matching is not by skill the row gets its streak and date only.
RatingTurn(l) == IF l.todo \cap l[l.winner] # {} THEN l.todo \cap l[l.winner] ELSE l.todo

RatePlayer(r, m) ==
    /\ pc[r] = "rate" /\ m \in RatingTurn(loc[r])
    /\ Goto(r, "mark", [loc[r] EXCEPT !.member = m])
    /\ UNCHANGED <<database, history>>

\* The members that a completion is a win for, in this event.
WonBy(r) == IF loc[r].here /\ loc[r].winner # "none" THEN loc[r][loc[r].winner] ELSE {}

\* Mutant: a completion goes on though a mark failed.
MarkOrNot(r) ==
    LET l == loc[r]
    IN  /\ pc[r] = "mark"
        /\ scored' = IF game[l.game].live THEN Bump(scored, {l.member} \cap WonBy(r)) ELSE scored
        /\ Rated(r, [l EXCEPT !.todo = @ \ {l.member}])
        /\ UNCHANGED <<database, asked, blurred, astray, dropped, drops>>

\* The mark refers to the game: for a game deleted meanwhile it fails, and ends
\* the request.
MarkResult(r) ==
    LET l == loc[r]
    IN  /\ pc[r] = "mark"
        /\ IF game[l.game].live
             THEN /\ scored' = Bump(scored, {l.member} \cap WonBy(r))
                  /\ blurred' = blurred
                  /\ Rated(r, [l EXCEPT !.todo = @ \ {l.member}])
             ELSE /\ scored' = scored
                  /\ blurred' = blurred \cup WonBy(r)
                  /\ Done(r)
        /\ UNCHANGED <<database, asked, astray, dropped, drops>>

Reactivate(r, m) ==
    /\ pc[r] = "reactivate" /\ m \in Turn(loc[r])
    /\ active' = active \cup {m}
    /\ Goto(r, "leaveGame", [loc[r] EXCEPT !.member = m])
    /\ UNCHANGED <<inGame, playedOnce, game, counts, stats, history>>

\* Mutant: after a completed game, its losers are left in it.
LeaveGameUnlessLost(r) ==
    LET l == loc[r]
        stay == IF l.winner = "team1" THEN l.team2 ELSE IF l.winner = "team2" THEN l.team1 ELSE {}
        todo == l.todo \ {l.member}
    IN  /\ pc[r] = "leaveGame"
        /\ inGame' = IF l.member \in stay THEN inGame ELSE inGame \ {l.member}
        /\ Goto(r, IF l.winner = "none" THEN PutBack(l, todo) ELSE "markPlayed",
                   [l EXCEPT !.todo = todo])
        /\ astray' = astray \ {l.member}
        /\ UNCHANGED <<active, playedOnce, game, counts, stats,
                       asked, scored, blurred, dropped, drops>>

LeaveGame(r) ==
    LET l == loc[r]
        todo == l.todo \ {l.member}
    IN  /\ pc[r] = "leaveGame"
        /\ inGame' = inGame \ {l.member}
        /\ Goto(r, IF l.winner = "none" THEN PutBack(l, todo) ELSE "markPlayed",
                   [l EXCEPT !.todo = todo])
        /\ astray' = astray \ {l.member}
        /\ UNCHANGED <<active, playedOnce, game, counts, stats,
                       asked, scored, blurred, dropped, drops>>

MarkPlayed(r) ==
    LET l == loc[r]
    IN  /\ pc[r] = "markPlayed"
        /\ playedOnce' = playedOnce \cup {l.member}
        /\ Goto(r, PutBack(l, l.todo), l)
        /\ UNCHANGED <<active, inGame, game, counts, stats, history>>

\* The rows that refer to a game go with it, and with them its link.
Unlink(r) ==
    /\ pc[r] = "unlink"
    /\ game' = [game EXCEPT ![loc[r].game].link = "removed"]
    /\ Goto(r, "delete", loc[r])
    /\ UNCHANGED <<active, inGame, playedOnce, counts, stats, history>>

\* The teams of the row are kept for the properties; no request reads them.
DeleteGame(r) ==
    /\ pc[r] = "delete"
    /\ game' = [game EXCEPT ![loc[r].game].live = FALSE]
    /\ Done(r)
    /\ UNCHANGED <<active, inGame, playedOnce, counts, stats, history>>

-----------------------------------------------------------------------------
\* The statistics of the event: update_event_stats and the transforms.

ReadStats(r) ==
    LET writing == {q \in Requests : pc[q] = "writeStats"}
    IN  /\ pc[r] = "readStats"
        /\ Goto(r, "writeStats", [loc[r] EXCEPT !.counts = counts, !.stats = stats])
        /\ blurred' = IF writing = {} THEN blurred
                      ELSE blurred \cup UNION {WonBy(q) : q \in writing \cup {r}}
        /\ UNCHANGED <<database, asked, scored, astray, dropped, drops>>

\* update_player_match_counts.
Counted(map, members) ==
    [m \in DOMAIN map \cup members |->
        (IF m \in DOMAIN map THEN map[m] ELSE 0) + (IF m \in members THEN 1 ELSE 0)]

\* update_best_winstreak, for the winners of a game in turn: who holds the best
\* winstreak of the event so far; a first win by team 2 is not recorded.
RaiseBest(best, winners, streaks, seedWhenEmpty) ==
    LET standing == {best[n] : n \in DOMAIN best}
        top == Max(standing \cup {streaks[m] : m \in winners})
        leaders == {m \in winners : streaks[m] = top}
        stay == IF top \in standing THEN DOMAIN best ELSE {}
    IN  IF winners = {} \/ (best = Empty /\ ~seedWhenEmpty) THEN best
        ELSE [n \in stay \cup leaders |-> IF n \in leaders THEN top ELSE best[n]]

\* Mutant: a win counts twice towards the streak.
StreaksTwice(before, wins, l) ==
    [m \in Members |->
        IF m \in l[l.winner] THEN before[m] + 2
        ELSE IF m \in l.team1 \cup l.team2 THEN 0 ELSE before[m]]

\* update_player_win_counts: a winner of team 2 gets all wins for a streak.
Streaks(before, wins, l) ==
    [m \in Members |->
        IF m \in l[l.winner] THEN (IF l.winner = "team1" THEN before[m] + 1 ELSE wins[m])
        ELSE IF m \in l.team1 \cup l.team2 THEN 0 ELSE before[m]]

\* Mutant: only the players of team 1 remember whom they played with.
MetByTeam1(before, l) ==
    [m \in Members |->
        IF m \in l.team1 THEN Bump(before[m], (l.team1 \cup l.team2) \ {m}) ELSE before[m]]

\* update_player_social_counts.
Met(before, l) ==
    [m \in Members |->
        IF m \in l.team1 \cup l.team2 THEN Bump(before[m], (l.team1 \cup l.team2) \ {m})
                                       ELSE before[m]]

\* The statistics read, with the game added to them.
Updated(l) ==
    LET wins == Bump(l.stats.wins, l[l.winner])
        streaks == Streaks(l.stats.winstreaks, wins, l)
    IN  [wins |-> wins, winstreaks |-> streaks,
         best |-> RaiseBest(l.stats.best, l[l.winner], streaks, l.winner = "team1"),
         playedWith |-> Met(l.stats.playedWith, l)]

WriteStats(r) ==
    LET l == loc[r]
    IN  /\ pc[r] = "writeStats"
        /\ stats' = Updated(l)
        /\ counts' = Counted(l.counts, Both(l))
        /\ Done(r)
        /\ UNCHANGED <<active, inGame, playedOnce, game, history>>

-----------------------------------------------------------------------------
\* activate_member, invite_member (add_member_to_active_set), deactivate_member.

BeginActivate(r, m) ==
    /\ Panel => m \notin active \cup inGame
    /\ Start(r, "checkPlayed", [NoLocals EXCEPT !.member = m, !.counts = counts])
    /\ UNCHANGED <<database, history>>

\* Mutant: whoever is activated is counted as a newcomer.
SeedsAnyone(m) == TRUE

Seeds(m) == m \notin playedOnce

CheckPlayed(r) ==
    /\ pc[r] = "checkPlayed"
    /\ Goto(r, IF Seeds(loc[r].member) THEN "seed" ELSE "join", loc[r])
    /\ UNCHANGED <<database, history>>

Minimum(map) == IF map = Empty THEN 0 ELSE Min({map[m] : m \in DOMAIN map})

\* Mutant: a newcomer goes before everyone else.
SeededFirst(map, m) ==
    [n \in DOMAIN map \cup {m} |-> IF n = m THEN Minimum(map) - 1 ELSE map[n]]

Seeded(map, m) == [n \in DOMAIN map \cup {m} |-> IF n = m THEN Minimum(map) ELSE map[n]]

\* The map read at first is written back whole.
SeedCount(r) ==
    /\ pc[r] = "seed"
    /\ counts' = Seeded(loc[r].counts, loc[r].member)
    /\ Goto(r, "join", loc[r])
    /\ UNCHANGED <<active, inGame, playedOnce, game, stats, history>>

Join(r) ==
    /\ pc[r] = "join"
    /\ active' = active \cup {loc[r].member}
    /\ Done(r)
    /\ UNCHANGED <<inGame, playedOnce, game, counts, stats, history>>

DeactivateMember(r, m) ==
    /\ pc[r] = "idle"
    /\ m \in active
    /\ active' = active \ {m}
    /\ UNCHANGED <<inGame, playedOnce, game, counts, stats, pc, loc, history>>

-----------------------------------------------------------------------------

\* Other events: their games come and go.
CreateElsewhere ==
    /\ OtherEvents /\ ~Panel
    /\ Room
    /\ \E g \in Unused, teams \in PegTeams :
          game' = [game EXCEPT ![g] = [NoGame EXCEPT !.live = TRUE, !.link = "elsewhere",
                                                     !.team1 = teams[1], !.team2 = teams[2]]]
    /\ UNCHANGED <<active, inGame, playedOnce, counts, stats, pc, loc, history>>

\* Mutant: a deletion does not test that the game belongs to its event.
DeleteAnyElsewhere(g) ==
    /\ game[g].live /\ game[g].link # "none"
    /\ game' = [game EXCEPT ![g].live = FALSE, ![g].link = "removed"]
    /\ UNCHANGED <<active, inGame, playedOnce, counts, stats, pc, loc, history>>

DeleteElsewhere(g) ==
    /\ Elsewhere(g) /\ game[g].live
    /\ game' = [game EXCEPT ![g].live = FALSE]
    /\ UNCHANGED <<active, inGame, playedOnce, counts, stats, pc, loc, history>>

Drop(r) ==
    LET l == loc[r]
    IN  /\ pc[r] # "idle"
        /\ drops < MaxDrops
        /\ drops' = drops + 1
        /\ dropped' = IF l.game = None \/ ~l.here THEN dropped ELSE dropped \cup Players(l.game)
        /\ blurred' = blurred \cup WonBy(r)
        /\ Done(r)
        /\ UNCHANGED <<database, asked, scored, astray>>

Begin(r) ==
    \/ BeginCreate(r)
    \/ CreatePeg(r)
    \/ \E g \in GameIds :
          \/ BeginDelete(r, g)
          \/ \E winner \in Winners, here \in BOOLEAN : BeginComplete(r, g, winner, here)
    \/ \E m \in Members : BeginActivate(r, m) \/ DeactivateMember(r, m)

Step(r) ==
    \/ ChooseTeams(r)
    \/ \E m \in Members : TakeFromActive(r, m) \/ Reactivate(r, m)
    \/ PutInGame(r)
    \/ LinkGame(r)
    \/ SetScore(r)
    \/ ReadTeam1(r)
    \/ ReadTeam2(r)
    \/ \E m \in Members : RatePlayer(r, m)
    \/ MarkResult(r)
    \/ LeaveGame(r)
    \/ MarkPlayed(r)
    \/ Unlink(r)
    \/ DeleteGame(r)
    \/ ReadStats(r)
    \/ WriteStats(r)
    \/ CheckPlayed(r)
    \/ SeedCount(r)
    \/ Join(r)

Next ==
    \/ \E r \in Requests : Begin(r) \/ Step(r) \/ Drop(r)
    \/ CreateElsewhere
    \/ \E g \in GameIds : DeleteElsewhere(g)

Spec == Init /\ [][Next]_vars

-----------------------------------------------------------------------------
(***************************************************************************)
(* Properties.                                                             *)
(***************************************************************************)

TypeOK ==
    /\ active \subseteq Members /\ inGame \subseteq Members /\ playedOnce \subseteq Members
    /\ game \in [GameIds -> GameRow]
    /\ Partial(counts) /\ Partial(stats.best)
    /\ stats.wins \in Totals /\ stats.winstreaks \in Totals
    /\ stats.playedWith \in [Members -> Totals]
    /\ pc \in [Requests -> Labels]
    /\ asked \in [GameIds -> 0..MaxCompletions] /\ scored \in Totals
    /\ blurred \subseteq Members /\ astray \subseteq Members /\ dropped \subseteq Members
    /\ drops \in 0..MaxDrops

\* A request is about to take m out of game g: it has read, or is about to
\* read, the teams of the game, and has not come to m.
TakesOut(r, g, m) ==
    /\ loc[r].game = g /\ loc[r].here
    /\ \/ pc[r] \in {"setScore", "readTeam1", "readTeam2", "rate", "mark"}
       \/ pc[r] \in {"reactivate", "leaveGame", "markPlayed"} /\ m \in loc[r].todo

\* m is in a game that is open, or that a request is about to link or to take
\* the member out of.
Plays(m) ==
    \E g \in GameIds :
        /\ m \in Players(g)
        /\ \/ Open(g)
           \/ \E r \in Requests :
                \/ loc[r].game = g /\ pc[r] \in {"take", "putInGame", "link"}
                \/ TakesOut(r, g, m)

\* Nobody is left in the in-game set without a game to get out of: whatever
\* creations, completions and deletions overlap, a member is in it for a game,
\* unless a request stopped half-way on a game of the member, or a completion
\* that named another event closed it (games.rs:328, 373-393, 705-767, 651-667).
NobodyIsStuckInGame == \A m \in inGame \ (dropped \cup astray) : Plays(m)

\* A streak, and the best one of the event, is made of wins, though the code
\* takes it from either map and writes them back whole (events.rs:83-142).
StreaksAreWins ==
    /\ \A m \in Members : stats.winstreaks[m] <= stats.wins[m]
    /\ \A m \in DOMAIN stats.best :
          /\ stats.best[m] <= stats.wins[m]
          /\ \A n \in DOMAIN stats.best : stats.best[n] = stats.best[m]

\* Two members have played with each other equally often (events.rs:146-159).
PlayedWithIsMutual ==
    \A m, n \in Members : stats.playedWith[m][n] = stats.playedWith[n][m]

\* A completion for this event has entered m's win in the rating row, and not
\* yet in the statistics.
Owes(r, m) ==
    /\ m \in WonBy(r)
    /\ \/ pc[r] \in {"rate", "mark"} /\ m \notin loc[r].todo
       \/ pc[r] \in {"reactivate", "leaveGame", "markPlayed", "readStats", "writeStats"}

\* The event never counts a win that was not first entered in the member's
\* rating row, whether the rating itself moved or not, and counts each that
\* was, however often games are completed and with whatever between the
\* statements: a win is lost only where two completions overlapped over the
\* statistics, or one of them failed or stopped half-way (games.rs:730-775,
\* 863-951, 1095-1129).
WinsFollowRatings ==
    \A m \in Members :
        /\ stats.wins[m] <= scored[m]
        /\ m \notin blurred =>
              scored[m] = stats.wins[m] + Cardinality({r \in Requests : Owes(r, m)})

\* The following hold of requests served one at a time, each to its end, that
\* ask what the panel offers.

\* A member's match count is never below the games the member has completed
\* in the event, so that who has played is not taken for a newcomer
\* (events.rs:1269-1284).
CountsCoverGames ==
    (\A r \in Requests : pc[r] = "idle") =>
        \A m \in Members :
            LET played == {g \in GameIds : m \in Players(g) /\ Linked(g) /\ ~Open(g)}
            IN  played # {} => m \in DOMAIN counts /\ counts[m] >= Cardinality(played)
=============================================================================
