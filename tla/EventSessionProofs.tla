------------------------- MODULE EventSessionProofs -------------------------
(***************************************************************************)
(* The session of an event, for every set of members and games, any team   *)
(* size and any finite set of requests, which overlap and may stop.        *)
(*                                                                         *)
(*   - Nobody is left in the in-game set: whoever is there is held by a    *)
(*     game, open or in the hands of a request (HeldInv).                  *)
(*   - The statistics: playing together is mutual, streaks are made of     *)
(*     wins, and the wins are those entered in the rating rows.  They are  *)
(*     read and written back whole, so each holds of what is read as of    *)
(*     what is stored (MutualInv, StreaksInv); a win entered there and not *)
(*     yet here is owed by a request in flight (CreditInv).                *)
(*   - Types (SessionOK).                                                  *)
(*   - Served one at a time, with what the panel offers, the requests      *)
(*     implement SessionLifecycle and count every completed game           *)
(*     (SerialInv): what a request has read is still so when it writes,    *)
(*     and only the players of the game in hand are on their way.          *)
(***************************************************************************)
EXTENDS SessionRefinement, FiniteSetTheorems, WellFoundedInduction, TLAPS

Fields == {"read", "game", "here", "winner", "team1", "team2", "todo", "member", "counts",
           "stats"}
RowFields == {"live", "team1", "team2", "link", "winner"}

RequestsOK ==
    /\ pc \in [Requests -> Labels]
    /\ DOMAIN loc = Requests
    /\ \A r \in Requests : DOMAIN loc[r] = Fields

RowsOK ==
    /\ DOMAIN game = GameIds
    /\ \A g \in GameIds : DOMAIN game[g] = RowFields

FlightOK == RequestsOK /\ RowsOK

LEMMA InitFlight == Init => FlightOK
BY DEF Init, FlightOK, RequestsOK, RowsOK, Labels, NoLocals, Fields, NoGame, RowFields

LEMMA InsertedFlight ==
    ASSUME FlightOK, NEW r \in Requests, NEW team1, NEW team2, InsertGame(r, team1, team2)
    PROVE  FlightOK'
<1>1. RequestsOK'
  BY DEF InsertGame, Goto, FlightOK, RequestsOK, Labels, NoLocals, Fields
<1>2. RowsOK'
  BY DEF InsertGame, Unused, FlightOK, RowsOK, NoGame, RowFields
<1>. QED BY <1>1, <1>2 DEF FlightOK

LEMMA BeginFlight ==
    ASSUME FlightOK, NEW r \in Requests, Begin(r)
    PROVE  FlightOK'
<1>. USE DEF FlightOK, RequestsOK, RowsOK, Labels, NoLocals, Fields, Start, Goto, database
<1>1. CASE BeginCreate(r)
  BY <1>1 DEF BeginCreate
<1>2. CASE CreatePeg(r)
  BY <1>2, InsertedFlight DEF CreatePeg
<1>3. ASSUME NEW g \in GameIds, BeginDelete(r, g) PROVE FlightOK'
  BY <1>3 DEF BeginDelete
<1>4. ASSUME NEW g \in GameIds, NEW winner \in Winners, NEW here \in BOOLEAN,
             BeginComplete(r, g, winner, here)
      PROVE  FlightOK'
  BY <1>4 DEF BeginComplete
<1>5. ASSUME NEW m \in Members, BeginActivate(r, m) PROVE FlightOK'
  BY <1>5 DEF BeginActivate
<1>6. ASSUME NEW m \in Members, DeactivateMember(r, m) PROVE FlightOK'
  BY <1>6 DEF DeactivateMember
<1>. QED BY <1>1, <1>2, <1>3, <1>4, <1>5, <1>6 DEF Begin

LEMMA StepFlight ==
    ASSUME FlightOK, NEW r \in Requests, Step(r) \/ Drop(r)
    PROVE  FlightOK'
<1>1. CASE ChooseTeams(r)
  BY <1>1, InsertedFlight DEF ChooseTeams
<1>2. CASE ~ChooseTeams(r)
  <2>1. RequestsOK'
    <3>. USE DEF FlightOK, RequestsOK, Labels, Fields, Goto, Done, NoLocals, PutBack, AfterPlayers
    <3>1. ASSUME NEW m \in Members, TakeFromActive(r, m) \/ Reactivate(r, m) \/ RatePlayer(r, m)
          PROVE  RequestsOK'
      BY <3>1 DEF TakeFromActive, Reactivate, RatePlayer
    <3>2. ASSUME NEW x, DOMAIN x = Fields, Rated(r, x) PROVE RequestsOK'
      BY <3>2 DEF Rated
    <3>3. CASE ReadTeam2(r)
      <4>1. PICK x : x = [loc[r] EXCEPT !.team2 = TeamOf(loc[r].game, "team2"),
                                        !.todo = loc[r].team1 \cup TeamOf(loc[r].game, "team2")]
        OBVIOUS
      <4>2. DOMAIN x = Fields
        BY <4>1
      <4>3. Rated(r, x) \/ Goto(r, PutBack(x, x.todo), x)
        BY <3>3, <4>1 DEF ReadTeam2
      <4>. QED BY <3>2, <4>2, <4>3
    <3>4. CASE MarkResult(r)
      <4>1. PICK x : x = [loc[r] EXCEPT !.todo = @ \ {loc[r].member}]
        OBVIOUS
      <4>. QED BY <3>2, <3>4, <4>1 DEF MarkResult
    <3>. QED
      BY <1>2, <3>1, <3>3, <3>4 DEF Step, Drop, PutInGame, LinkGame, SetScore, ReadTeam1,
        LeaveGame, MarkPlayed, Unlink, DeleteGame, ReadStats, WriteStats,
        CheckPlayed, SeedCount, Join
  <2>2. CASE UNCHANGED game
    BY <2>1, <2>2 DEF FlightOK, RowsOK
  <2>3. CASE LinkGame(r) \/ SetScore(r) \/ Unlink(r) \/ DeleteGame(r)
    BY <2>1, <2>3 DEF FlightOK, RowsOK, RowFields, LinkGame, SetScore, Unlink, DeleteGame
  <2>4. UNCHANGED game \/ LinkGame(r) \/ SetScore(r) \/ Unlink(r) \/ DeleteGame(r)
    BY <1>2 DEF Step, Drop, TakeFromActive, Reactivate, PutInGame, ReadTeam1, ReadTeam2,
        RatePlayer, MarkResult, LeaveGame, MarkPlayed, ReadStats, WriteStats, CheckPlayed,
        SeedCount, Join, database
  <2>. QED BY <2>2, <2>3, <2>4
<1>. QED BY <1>1, <1>2

LEMMA OthersFlight ==
    ASSUME FlightOK, CreateElsewhere \/ \E g \in GameIds : DeleteElsewhere(g)
    PROVE  FlightOK'
<1>1. CASE CreateElsewhere
  BY <1>1 DEF CreateElsewhere, FlightOK, RequestsOK, RowsOK, NoGame, RowFields
<1>2. ASSUME NEW g \in GameIds, DeleteElsewhere(g) PROVE FlightOK'
  BY <1>2 DEF DeleteElsewhere, FlightOK, RequestsOK, RowsOK, RowFields
<1>. QED BY <1>1, <1>2

LEMMA FlightInvariant == Spec => []FlightOK
<1>1. FlightOK /\ [Next]_vars => FlightOK'
  BY BeginFlight, StepFlight, OthersFlight DEF Next, vars, database, FlightOK, RequestsOK, RowsOK
<1>. QED BY <1>1, InitFlight, PTL DEF Spec

-----------------------------------------------------------------------------
\* Games, and the requests at them.

Creating == {"take", "putInGame", "link"}
Moving == {"reactivate", "leaveGame", "markPlayed"}
Ending == {"readStats", "writeStats", "unlink", "delete"}
Handling == {"setScore", "readTeam1", "readTeam2", "rate", "mark"} \cup Moving \cup Ending

\* A game is linked after its players were moved, and only then completed.
LinkedFirst == \A g \in GameIds : game[g].link = "none" => game[g].winner = "none"

\* A creation has its game to itself.
CreationsOK ==
    \A r \in Requests : pc[r] \in Creating =>
        /\ loc[r].game \in GameIds
        /\ game[loc[r].game].live /\ game[loc[r].game].link = "none"
        /\ loc[r].here
        /\ loc[r].todo \subseteq Players(loc[r].game)
        /\ pc[r] = "putInGame" => loc[r].member \in Players(loc[r].game)
        /\ \A q \in Requests : pc[q] \in Creating /\ loc[q].game = loc[r].game => q = r

\* A request at a game has read its teams as they are, unless it is deleted.
HandlersOK ==
    \A r \in Requests : pc[r] \in Handling =>
        /\ loc[r].game \in GameIds
        /\ game[loc[r].game].link # "none"
        /\ game[loc[r].game].live =>
             /\ pc[r] = "readTeam2" => loc[r].team1 = game[loc[r].game].team1
             /\ pc[r] \in {"rate", "mark"} => Both(loc[r]) = Players(loc[r].game)

GamesInv == LinkedFirst /\ CreationsOK /\ HandlersOK

LEMMA InsertedGames ==
    ASSUME FlightOK, GamesInv, NEW r \in Requests, NEW team1, NEW team2,
           InsertGame(r, team1, team2)
    PROVE  GamesInv'
<1>1. PICK g \in Unused :
        /\ game' = [game EXCEPT ![g] = [NoGame EXCEPT !.live = TRUE, !.team1 = team1,
                                                      !.team2 = team2]]
        /\ Goto(r, IF team1 \cup team2 = {} THEN "link" ELSE "take",
                   [NoLocals EXCEPT !.game = g, !.team1 = team1, !.todo = team1 \cup team2])
  BY DEF InsertGame
<1>2. g \in GameIds /\ ~game[g].live /\ game[g].link = "none"
  BY <1>1 DEF Unused, NoGame
<1>3. /\ game'[g].live /\ game'[g].link = "none" /\ game'[g].winner = "none"
      /\ game'[g].team1 = team1 /\ game'[g].team2 = team2
      /\ \A h \in GameIds \ {g} : game'[h] = game[h]
  BY <1>1, <1>2 DEF FlightOK, RowsOK, NoGame
<1>4. /\ pc'[r] \in Creating \ {"putInGame"} /\ loc'[r].game = g
      /\ loc'[r].todo = team1 \cup team2 /\ loc'[r].here
      /\ \A q \in Requests \ {r} : pc'[q] = pc[q] /\ loc'[q] = loc[q]
  BY <1>1 DEF FlightOK, RequestsOK, Goto, NoLocals, Creating
<1>5. \A q \in Requests : pc[q] \in Creating \cup Handling => loc[q].game \in GameIds
  BY DEF GamesInv, CreationsOK, HandlersOK
<1>6. \A q \in Requests : pc[q] \in Creating \cup Handling => loc[q].game # g
  BY <1>2 DEF GamesInv, CreationsOK, HandlersOK
<1>7. LinkedFirst'
  BY <1>3 DEF GamesInv, LinkedFirst
<1>8. CreationsOK'
  BY <1>2, <1>3, <1>4, <1>5, <1>6 DEF GamesInv, CreationsOK, Players
<1>9. HandlersOK'
  BY <1>2, <1>3, <1>4, <1>5, <1>6
    DEF GamesInv, HandlersOK, Players, Both, Creating, Handling, Moving, Ending
<1>. QED BY <1>7, <1>8, <1>9 DEF GamesInv

LEMMA OthersStay ==
    ASSUME FlightOK, NEW r \in Requests, Begin(r) \/ Step(r) \/ Drop(r)
    PROVE  \A q \in Requests \ {r} : pc'[q] = pc[q] /\ loc'[q] = loc[q]
<1>. USE DEF FlightOK, RequestsOK, Goto, Start, Done
<1>1. CASE Begin(r)
  BY <1>1 DEF Begin, BeginCreate, CreatePeg, InsertGame, BeginDelete, BeginComplete,
    BeginActivate, DeactivateMember
<1>2. CASE Step(r) \/ Drop(r)
  BY <1>2 DEF Step, Drop, ChooseTeams, InsertGame, TakeFromActive, Reactivate, PutInGame,
    LinkGame, SetScore, ReadTeam1, ReadTeam2, Rated, RatePlayer, MarkResult, LeaveGame,
    MarkPlayed, Unlink, DeleteGame, ReadStats, WriteStats, CheckPlayed, SeedCount, Join
<1>. QED BY <1>1, <1>2

\* Where a completion goes that has rated a player, or read the teams.
LEMMA RatedGoes ==
    ASSUME FlightOK, NEW r \in Requests, NEW x, DOMAIN x = Fields, Rated(r, x)
    PROVE  \/ x.todo # {} /\ pc'[r] = "rate" /\ loc'[r] = x
           \/ /\ x.todo = {} /\ x.here /\ pc'[r] = PutBack(x, Both(x)) /\ DOMAIN loc'[r] = Fields
              /\ loc'[r].todo = Both(x) /\ \A f \in Fields \ {"todo"} : loc'[r][f] = x[f]
           \/ x.todo = {} /\ ~x.here /\ pc'[r] = "idle" /\ loc'[r] = NoLocals
BY DEF Rated, Done, Goto, FlightOK, RequestsOK, Fields

LEMMA ReadTeam2Goes ==
    ASSUME FlightOK, NEW r \in Requests, ReadTeam2(r)
    PROVE  \E x : /\ DOMAIN x = Fields
                  /\ x.team2 = TeamOf(loc[r].game, "team2") /\ x.todo = Both(x)
                  /\ \A f \in Fields \ {"team2", "todo"} : x[f] = loc[r][f]
                  /\ IF x.winner = "none" THEN pc'[r] = PutBack(x, Both(x)) /\ loc'[r] = x
                     ELSE Rated(r, x)
<1>1. PICK x : x = [loc[r] EXCEPT !.team2 = TeamOf(loc[r].game, "team2"),
                                  !.todo = loc[r].team1 \cup TeamOf(loc[r].game, "team2")]
  OBVIOUS
<1>2. /\ DOMAIN x = Fields
      /\ x.team2 = TeamOf(loc[r].game, "team2") /\ x.todo = Both(x)
      /\ \A f \in Fields \ {"team2", "todo"} : x[f] = loc[r][f]
  BY <1>1 DEF Both, FlightOK, RequestsOK, Fields
<1>3. IF x.winner = "none" THEN Goto(r, PutBack(x, Both(x)), x) ELSE Rated(r, x)
  BY <1>1, <1>2 DEF ReadTeam2
<1>. QED BY <1>2, <1>3 DEF Goto, FlightOK, RequestsOK

LEMMA MarkGoes ==
    ASSUME FlightOK, NEW r \in Requests, MarkResult(r), game[loc[r].game].live
    PROVE  \E x : /\ DOMAIN x = Fields /\ x.todo = loc[r].todo \ {loc[r].member}
                  /\ \A f \in Fields \ {"todo"} : x[f] = loc[r][f]
                  /\ Rated(r, x)
<1>1. PICK x : x = [loc[r] EXCEPT !.todo = @ \ {loc[r].member}]
  OBVIOUS
<1>2. /\ DOMAIN x = Fields /\ x.todo = loc[r].todo \ {loc[r].member}
      /\ \A f \in Fields \ {"todo"} : x[f] = loc[r][f]
  BY <1>1 DEF FlightOK, RequestsOK, Fields
<1>. QED BY <1>1, <1>2 DEF MarkResult

\* A request that leaves the games alone keeps what is known of them, if it
\* does of its own locals.
LEMMA GamesKept ==
    ASSUME FlightOK, GamesInv, NEW r \in Requests, UNCHANGED game,
           \A q \in Requests \ {r} : pc'[q] = pc[q] /\ loc'[q] = loc[q],
           pc'[r] \in Creating =>
             /\ pc[r] \in Creating /\ loc'[r].game = loc[r].game /\ loc'[r].here
             /\ loc'[r].todo \subseteq loc[r].todo
             /\ pc'[r] = "putInGame" => loc'[r].member \in Players(loc[r].game),
           pc'[r] \in Handling =>
             /\ loc'[r].game \in GameIds
             /\ game[loc'[r].game].link # "none"
             /\ game[loc'[r].game].live =>
                  /\ pc'[r] = "readTeam2" => loc'[r].team1 = game[loc'[r].game].team1
                  /\ pc'[r] \in {"rate", "mark"} => Both(loc'[r]) = Players(loc'[r].game)
    PROVE  GamesInv'
<1>1. LinkedFirst'
  BY DEF GamesInv, LinkedFirst
<1>2. CreationsOK'
  <2>1. \A q \in Requests : pc'[q] \in Creating => pc[q] \in Creating /\ loc'[q].game = loc[q].game
    OBVIOUS
  <2>. QED BY <2>1 DEF GamesInv, CreationsOK, Players
<1>3. HandlersOK'
  BY DEF GamesInv, HandlersOK, Players, Both
<1>. QED BY <1>1, <1>2, <1>3 DEF GamesInv

\* A completion that has read the teams goes on with them.
LEMMA RatedGames ==
    ASSUME FlightOK, GamesInv, NEW r \in Requests, UNCHANGED game, NEW x, Rated(r, x),
           \A q \in Requests \ {r} : pc'[q] = pc[q] /\ loc'[q] = loc[q],
           x.game \in GameIds, game[x.game].link # "none", DOMAIN x = Fields,
           game[x.game].live => Both(x) = Players(x.game)
    PROVE  GamesInv'
<1>1. \/ pc'[r] = "rate" /\ loc'[r] = x
      \/ pc'[r] \in Moving \cup Ending /\ loc'[r].game = x.game
      \/ pc'[r] = "idle"
  BY RatedGoes DEF PutBack, AfterPlayers, Fields, Moving, Ending
<1>. QED BY <1>1, GamesKept DEF Creating, Handling, Moving, Ending

LEMMA BeginGames ==
    ASSUME FlightOK, GamesInv, NEW r \in Requests, Begin(r)
    PROVE  GamesInv'
<1>0. \A q \in Requests \ {r} : pc'[q] = pc[q] /\ loc'[q] = loc[q]
  BY OthersStay
<1>. USE DEF FlightOK, RequestsOK, Start, Goto, NoLocals, database,
         Creating, Handling, Moving, Ending
<1>1. CASE BeginCreate(r)
  BY <1>0, <1>1, GamesKept DEF BeginCreate
<1>2. CASE CreatePeg(r)
  BY <1>2, InsertedGames DEF CreatePeg
<1>3. ASSUME NEW g \in GameIds, BeginDelete(r, g) PROVE GamesInv'
  BY <1>0, <1>3, GamesKept DEF BeginDelete, MayDelete, Linked
<1>4. ASSUME NEW g \in GameIds, NEW winner \in Winners, NEW here \in BOOLEAN,
             BeginComplete(r, g, winner, here)
      PROVE  GamesInv'
  BY <1>0, <1>4, GamesKept DEF BeginComplete, MayComplete
<1>5. ASSUME NEW m \in Members, BeginActivate(r, m) PROVE GamesInv'
  BY <1>0, <1>5, GamesKept DEF BeginActivate
<1>6. ASSUME NEW m \in Members, DeactivateMember(r, m) PROVE GamesInv'
  BY <1>6 DEF DeactivateMember, GamesInv, LinkedFirst, CreationsOK, HandlersOK, Players, Both
<1>. QED BY <1>1, <1>2, <1>3, <1>4, <1>5, <1>6 DEF Begin

LEMMA StepGames ==
    ASSUME FlightOK, GamesInv, NEW r \in Requests, Step(r) \/ Drop(r)
    PROVE  GamesInv'
<1>0. \A q \in Requests \ {r} : pc'[q] = pc[q] /\ loc'[q] = loc[q]
  BY OthersStay
<1>1. CASE ChooseTeams(r)
  BY <1>1, InsertedGames DEF ChooseTeams
<1>2. ASSUME NEW m \in Members, TakeFromActive(r, m) PROVE GamesInv'
  <2>1. m \in loc[r].todo /\ loc[r].todo \subseteq Players(loc[r].game) /\ loc[r].here
    BY <1>2 DEF TakeFromActive, Turn, GamesInv, CreationsOK, Creating
  <2>. QED
    BY <1>0, <1>2, <2>1, GamesKept DEF TakeFromActive, Goto, FlightOK, RequestsOK, Fields,
      Creating, Handling, Moving, Ending
<1>3. CASE PutInGame(r)
  <2>1. loc[r].here
    BY <1>3 DEF PutInGame, GamesInv, CreationsOK, Creating
  <2>. QED
    BY <1>0, <1>3, <2>1, GamesKept DEF PutInGame, Goto, FlightOK, RequestsOK, Fields,
      Creating, Handling, Moving, Ending
<1>4. CASE LinkGame(r)
  <2>. DEFINE g == loc[r].game
  <2>1. /\ g \in GameIds /\ game'[g].link = "made" /\ game'[g].live = game[g].live
        /\ game'[g].winner = game[g].winner
        /\ game'[g].team1 = game[g].team1 /\ game'[g].team2 = game[g].team2
        /\ \A h \in GameIds \ {g} : game'[h] = game[h]
        /\ \A q \in Requests \ {r} : pc[q] \in Creating => loc[q].game # g
    BY <1>4 DEF LinkGame, FlightOK, RowsOK, RowFields, GamesInv, CreationsOK, Creating
  <2>2. pc'[r] = "idle"
    BY <1>4 DEF LinkGame, Done, Goto, FlightOK, RequestsOK
  <2>. QED
    BY <1>0, <2>1, <2>2, SMTT(30) DEF GamesInv, LinkedFirst, CreationsOK, HandlersOK, Players, Both,
      Creating, Handling, Moving, Ending
<1>5. CASE SetScore(r) \/ Unlink(r) \/ DeleteGame(r)
  <2>. DEFINE g == loc[r].game
  <2>1. /\ g \in GameIds /\ game[g].link # "none"
        /\ game'[g].link # "none"
        /\ game'[g].live => game[g].live
        /\ game'[g].team1 = game[g].team1 /\ game'[g].team2 = game[g].team2
        /\ \A h \in GameIds \ {g} : game'[h] = game[h]
        /\ \A q \in Requests : pc[q] \in Creating => loc[q].game # g
    BY <1>5 DEF SetScore, Unlink, DeleteGame, FlightOK, RowsOK, RowFields, GamesInv,
      CreationsOK, HandlersOK, Creating, Handling, Moving, Ending
  <2>2. pc'[r] \in {"readTeam1", "delete", "idle"} /\ (pc'[r] # "idle" => loc'[r] = loc[r])
    BY <1>5 DEF SetScore, Unlink, DeleteGame, Done, Goto, FlightOK, RequestsOK
  <2>. QED
    BY <1>0, <2>1, <2>2, SMTT(30) DEF GamesInv, LinkedFirst, CreationsOK, HandlersOK, Players, Both,
      Creating, Handling, Moving, Ending
<1>6. CASE ReadTeam1(r)
  BY <1>0, <1>6, GamesKept DEF ReadTeam1, TeamOf, Goto, FlightOK, RequestsOK, Fields, database,
    GamesInv, HandlersOK, Creating, Handling, Moving, Ending
<1>7. CASE ReadTeam2(r)
  <2>. DEFINE g == loc[r].game
  <2>1. /\ g \in GameIds /\ game[g].link # "none"
        /\ game[g].live => loc[r].team1 \cup TeamOf(g, "team2") = Players(g)
    BY <1>7 DEF ReadTeam2, TeamOf, Players, GamesInv, HandlersOK, Handling
  <2>2. PICK x :
          /\ DOMAIN x = Fields /\ x.team2 = TeamOf(g, "team2")
          /\ \A f \in Fields \ {"team2", "todo"} : x[f] = loc[r][f]
          /\ IF x.winner = "none" THEN pc'[r] = PutBack(x, Both(x)) /\ loc'[r] = x
             ELSE Rated(r, x)
    BY <1>7, ReadTeam2Goes
  <2>3. x.game = g /\ Both(x) = loc[r].team1 \cup TeamOf(g, "team2") /\ UNCHANGED game
    BY <1>7, <2>2 DEF Fields, Both, ReadTeam2, database
  <2>4. CASE x.winner = "none"
    <3>1. pc'[r] \in Moving \cup Ending
      BY <2>2, <2>4 DEF PutBack, AfterPlayers, Moving, Ending
    <3>. QED
      BY <1>0, <2>1, <2>2, <2>3, <2>4, <3>1, GamesKept DEF Creating, Handling, Moving, Ending
  <2>5. CASE x.winner # "none"
    BY <1>0, <2>1, <2>2, <2>3, <2>5, RatedGames
  <2>. QED BY <2>4, <2>5
<1>8. CASE \E m \in Members : RatePlayer(r, m)
  <2>1. /\ pc[r] = "rate" /\ pc'[r] = "mark" /\ UNCHANGED game
        /\ loc'[r].game = loc[r].game /\ Both(loc'[r]) = Both(loc[r])
    BY <1>8 DEF RatePlayer, Both, Goto, FlightOK, RequestsOK, Fields, database
  <2>. QED
    BY <1>0, <2>1, GamesKept DEF GamesInv, HandlersOK, Creating, Handling, Moving, Ending
<1>10. CASE MarkResult(r)
  <2>1. pc[r] = "mark" /\ UNCHANGED game
    BY <1>10 DEF MarkResult, database
  <2>2. CASE game[loc[r].game].live
    <3>1. PICK x : /\ DOMAIN x = Fields /\ Rated(r, x)
                   /\ \A f \in Fields \ {"todo"} : x[f] = loc[r][f]
      BY <1>10, <2>2, MarkGoes
    <3>2. x.game = loc[r].game /\ Both(x) = Both(loc[r])
      BY <3>1 DEF Fields, Both
    <3>. QED
      BY <1>0, <2>1, <3>1, <3>2, RatedGames DEF GamesInv, HandlersOK, Handling
  <2>3. CASE ~game[loc[r].game].live
    <3>1. pc'[r] = "idle"
      BY <1>10, <2>3 DEF MarkResult, Done, Goto, FlightOK, RequestsOK
    <3>. QED BY <1>0, <2>1, <3>1, GamesKept DEF Creating, Handling, Moving, Ending
  <2>. QED BY <2>2, <2>3
<1>11. CASE LeaveGame(r) \/ MarkPlayed(r) \/ ReadStats(r) \/ \E m \in Members : Reactivate(r, m)
  <2>1. /\ pc[r] \in Handling /\ pc'[r] \in Moving \cup Ending /\ UNCHANGED game
        /\ loc'[r].game = loc[r].game
    BY <1>11, ZenonT(60) DEF LeaveGame, MarkPlayed, ReadStats, Reactivate, PutBack,
      AfterPlayers, Goto, FlightOK, RequestsOK, Fields, database, Handling, Moving, Ending
  <2>. QED
    BY <1>0, <2>1, GamesKept DEF GamesInv, HandlersOK, Creating, Handling, Moving, Ending
<1>9. CASE WriteStats(r) \/ CheckPlayed(r) \/ SeedCount(r) \/ Join(r) \/ Drop(r)
  <2>1. pc'[r] \notin Creating \cup Handling /\ UNCHANGED game
    BY <1>9 DEF WriteStats, CheckPlayed, SeedCount, Join, Drop, Goto, Done, FlightOK,
      RequestsOK, database, Creating, Handling, Moving, Ending
  <2>. QED BY <1>0, <2>1, GamesKept
<1>. QED
  BY <1>1, <1>2, <1>3, <1>4, <1>5, <1>6, <1>7, <1>8, <1>9, <1>10, <1>11 DEF Step

LEMMA OthersGames ==
    ASSUME FlightOK, GamesInv, CreateElsewhere \/ \E g \in GameIds : DeleteElsewhere(g)
    PROVE  GamesInv'
<1>1. PICK g \in GameIds :
        /\ UNCHANGED <<pc, loc>>
        /\ \A h \in GameIds \ {g} : game'[h] = game[h]
        /\ game'[g].link = "elsewhere"
        /\ \/ game[g].link = "none" /\ game[g].live = FALSE
           \/ /\ game[g].link = "elsewhere" /\ game'[g].live = FALSE
  <2>1. CASE CreateElsewhere
    <3>1. PICK g \in Unused, teams \in PegTeams :
            game' = [game EXCEPT ![g] = [NoGame EXCEPT !.live = TRUE, !.link = "elsewhere",
                                                !.team1 = teams[1], !.team2 = teams[2]]]
      BY <2>1 DEF CreateElsewhere
    <3>2. /\ g \in GameIds /\ game[g].link = "none" /\ game[g].live = FALSE
          /\ game'[g].link = "elsewhere"
          /\ \A h \in GameIds \ {g} : game'[h] = game[h]
      BY <3>1 DEF Unused, NoGame, FlightOK, RowsOK
    <3>. QED BY <2>1, <3>2 DEF CreateElsewhere
  <2>2. CASE \E g \in GameIds : DeleteElsewhere(g)
    BY <2>2 DEF DeleteElsewhere, Elsewhere, FlightOK, RowsOK, RowFields
  <2>. QED BY <2>1, <2>2
<1>2. \A q \in Requests : pc[q] \in Creating => loc[q].game \in GameIds \ {g}
  BY <1>1 DEF GamesInv, CreationsOK
<1>3. \A q \in Requests : pc[q] \in Handling =>
          /\ loc[q].game \in GameIds
          /\ loc[q].game = g => game'[g].live = FALSE
  BY <1>1 DEF GamesInv, HandlersOK
<1>4. LinkedFirst'
  BY <1>1 DEF GamesInv, LinkedFirst
<1>5. CreationsOK'
  BY <1>1, <1>2 DEF GamesInv, CreationsOK, Players
<1>6. HandlersOK'
  BY <1>1, <1>3 DEF GamesInv, HandlersOK, Players, Both
<1>. QED BY <1>4, <1>5, <1>6 DEF GamesInv

LEMMA GamesInvariant == Spec => []GamesInv
<1>1. Init => GamesInv
  BY DEF Init, GamesInv, LinkedFirst, CreationsOK, HandlersOK, NoGame, Creating, Handling,
    Moving, Ending
<1>2. FlightOK /\ GamesInv /\ [Next]_vars => GamesInv'
  <2>1. FlightOK /\ GamesInv /\ Next => GamesInv'
    BY BeginGames, StepGames, OthersGames DEF Next
  <2>2. GamesInv /\ UNCHANGED vars => GamesInv'
    BY DEF vars, database, GamesInv, LinkedFirst, CreationsOK, HandlersOK, Players, Both
  <2>. QED BY <2>1, <2>2
<1>. QED BY <1>1, <1>2, FlightInvariant, PTL DEF Spec

-----------------------------------------------------------------------------
\* Who is in the in-game set, and why.

\* A request has taken m out of game g.
Passed(q, g, m) ==
    /\ loc[q].game = g
    /\ \/ pc[q] \in {"unlink", "delete"}
       \/ pc[q] \in Moving /\ m \notin loc[q].todo

MadeBy(r, g) == pc[r] \in Creating /\ loc[r].game = g

\* Game g has put m in the in-game set, and nobody has taken m out of it.
Holds(g, m) ==
    /\ m \in Players(g) /\ game[g].live /\ ~Elsewhere(g)
    /\ \/ \E r \in Requests : MadeBy(r, g)
       \/ /\ \A q \in Requests : ~Passed(q, g, m)
          /\ Open(g) \/ \E r \in Requests : TakesOut(r, g, m)

HeldInv == \A m \in inGame \ (dropped \cup astray) : \E g \in GameIds : Holds(g, m)

\* Other requests and other games do not change what holds a member.
LEMMA HoldsKept ==
    ASSUME FlightOK, GamesInv, NEW r \in Requests, NEW g \in GameIds, NEW m,
           Holds(g, m), \A q \in Requests \ {r} : pc'[q] = pc[q] /\ loc'[q] = loc[q],
           Players(g)' = Players(g), game'[g].live, ~Elsewhere(g)',
           MadeBy(r, g) => MadeBy(r, g)' \/ (Open(g)' /\ ~Passed(r, g, m)'),
           ~MadeBy(r, g) /\ ~Passed(r, g, m) => ~Passed(r, g, m)',
           ~Passed(r, g, m) /\ Open(g) => Open(g)' \/ TakesOut(r, g, m)',
           ~Passed(r, g, m) /\ TakesOut(r, g, m) => TakesOut(r, g, m)'
    PROVE  Holds(g, m)'
<1>1. ASSUME NEW q \in Requests, MadeBy(q, g) PROVE Holds(g, m)'
  <2>1. CASE MadeBy(q, g)'
    BY <2>1 DEF Holds
  <2>2. CASE ~MadeBy(q, g)'
    <3>1. q = r /\ Open(g)' /\ ~Passed(r, g, m)'
      BY <1>1, <2>2 DEF MadeBy
    <3>2. \A p \in Requests \ {r} : ~Passed(p, g, m)
      BY <1>1 DEF MadeBy, Passed, GamesInv, CreationsOK, HandlersOK, Creating, Handling,
        Moving, Ending
    <3>3. \A p \in Requests : ~Passed(p, g, m)'
      BY <3>1, <3>2 DEF Passed
    <3>. QED BY <3>1, <3>3 DEF Holds
  <2>. QED BY <2>1, <2>2
<1>2. ASSUME \A q \in Requests : ~MadeBy(q, g)
      PROVE  Holds(g, m)'
  <2>1. \A q \in Requests : ~Passed(q, g, m)
    BY <1>2 DEF Holds
  <2>2. \A q \in Requests : ~Passed(q, g, m)'
    BY <1>2, <2>1 DEF Passed
  <2>3. CASE Open(g)
    BY <2>1, <2>2, <2>3 DEF Holds
  <2>4. ASSUME NEW q \in Requests, TakesOut(q, g, m)
        PROVE  TakesOut(q, g, m)'
    BY <2>1, <2>4 DEF TakesOut
  <2>5. Open(g) \/ \E q \in Requests : TakesOut(q, g, m)
    BY <1>2 DEF Holds
  <2>. QED BY <2>2, <2>3, <2>4, <2>5 DEF Holds
<1>. QED BY <1>1, <1>2

LEMMA InsertedHolds ==
    ASSUME FlightOK, GamesInv, NEW r \in Requests, NEW team1, NEW team2,
           InsertGame(r, team1, team2), pc[r] \in {"idle", "choose"},
           NEW h \in GameIds, NEW m, Holds(h, m)
    PROVE  Holds(h, m)'
<1>1. PICK g \in Unused :
        /\ game' = [game EXCEPT ![g] = [NoGame EXCEPT !.live = TRUE, !.team1 = team1,
                                                      !.team2 = team2]]
        /\ Goto(r, IF team1 \cup team2 = {} THEN "link" ELSE "take",
                   [NoLocals EXCEPT !.game = g, !.team1 = team1, !.todo = team1 \cup team2])
  BY DEF InsertGame
<1>2. h # g /\ game'[h] = game[h]
  BY <1>1 DEF Unused, NoGame, Holds, FlightOK, RowsOK
<1>3. \A q \in Requests \ {r} : pc'[q] = pc[q] /\ loc'[q] = loc[q]
  BY <1>1 DEF Goto, FlightOK, RequestsOK
<1>4. loc'[r].game = g
  BY <1>1 DEF Goto, FlightOK, RequestsOK, NoLocals
<1>5. ~MadeBy(r, h) /\ ~TakesOut(r, h, m) /\ ~Passed(r, h, m)'
  BY <1>2, <1>4 DEF MadeBy, TakesOut, Passed, Creating
<1>. QED
  BY <1>2, <1>3, <1>5, HoldsKept DEF Holds, Players, Open, Linked, Elsewhere

LEMMA BeginHolds ==
    ASSUME FlightOK, GamesInv, NEW r \in Requests, Begin(r),
           NEW g \in GameIds, NEW m, Holds(g, m)
    PROVE  Holds(g, m)'
<1>0. \A q \in Requests \ {r} : pc'[q] = pc[q] /\ loc'[q] = loc[q]
  BY OthersStay
<1>1. CASE CreatePeg(r)
  BY <1>1, InsertedHolds DEF CreatePeg
<1>2. CASE ~CreatePeg(r)
  <2>1. \/ UNCHANGED <<game, pc, loc>>
        \/ UNCHANGED game /\ pc[r] = "idle" /\ pc'[r] \notin {"unlink", "delete"} \cup Moving
    BY <1>2 DEF Begin, BeginCreate, BeginDelete, BeginComplete, BeginActivate, DeactivateMember,
      Start, Goto, FlightOK, RequestsOK, database, Moving
  <2>2. CASE UNCHANGED <<game, pc, loc>>
    BY <2>2 DEF Holds, MadeBy, Passed, TakesOut, Players, Open, Linked, Elsewhere
  <2>3. CASE UNCHANGED game /\ pc[r] = "idle" /\ pc'[r] \notin {"unlink", "delete"} \cup Moving
    <3>1. ~MadeBy(r, g) /\ ~TakesOut(r, g, m) /\ ~Passed(r, g, m)'
      BY <2>3 DEF MadeBy, TakesOut, Passed, Creating
    <3>. QED BY <1>0, <2>3, <3>1, HoldsKept DEF Holds, Players, Open, Linked, Elsewhere
  <2>. QED BY <2>1, <2>2, <2>3
<1>. QED BY <1>1, <1>2

\* A step of a request at another game, or at none.
LEMMA ElsewhereHolds ==
    ASSUME FlightOK, GamesInv, NEW r \in Requests, Step(r), ~ChooseTeams(r),
           NEW g \in GameIds, NEW m, Holds(g, m), loc[r].game # g
    PROVE  Holds(g, m)'
<1>0. \A q \in Requests \ {r} : pc'[q] = pc[q] /\ loc'[q] = loc[q]
  BY OthersStay
<1>1. g # None
  BY SessionAssumption
<1>2. loc'[r].game # g
  <2>. USE <1>1 DEF Goto, Done, NoLocals, FlightOK, RequestsOK, Fields
  <2>1. CASE \E n \in Members : TakeFromActive(r, n) \/ Reactivate(r, n)
    BY <2>1 DEF TakeFromActive, Reactivate
  <2>2. CASE LeaveGame(r) \/ MarkPlayed(r) \/ \E n \in Members : RatePlayer(r, n)
    BY <2>2 DEF LeaveGame, MarkPlayed, RatePlayer
  <2>11. ASSUME NEW x, DOMAIN x = Fields, x.game # g, Rated(r, x) PROVE loc'[r].game # g
    BY <2>11, RatedGoes
  <2>10. CASE MarkResult(r)
    <3>1. CASE game[loc[r].game].live
      BY <2>10, <2>11, <3>1, MarkGoes
    <3>2. CASE ~game[loc[r].game].live
      BY <2>10, <3>2 DEF MarkResult
    <3>. QED BY <3>1, <3>2
  <2>3. CASE PutInGame(r) \/ ReadTeam1(r)
    BY <2>3 DEF PutInGame, ReadTeam1
  <2>4. CASE ReadTeam2(r)
    BY <2>4, <2>11, ReadTeam2Goes
  <2>6. CASE SetScore(r) \/ Unlink(r)
    BY <2>6 DEF SetScore, Unlink
  <2>7. CASE LinkGame(r) \/ DeleteGame(r)
    BY <2>7 DEF LinkGame, DeleteGame
  <2>8. CASE ReadStats(r)
    BY <2>8 DEF ReadStats
  <2>9. CASE WriteStats(r)
    BY <2>9 DEF WriteStats
  <2>5. CASE CheckPlayed(r) \/ SeedCount(r) \/ Join(r)
    BY <2>5 DEF CheckPlayed, SeedCount, Join
  <2>. QED BY <2>1, <2>2, <2>3, <2>4, <2>5, <2>6, <2>7, <2>8, <2>9, <2>10 DEF Step
<1>3. game'[g] = game[g]
  BY DEF Step, TakeFromActive, Reactivate, PutInGame, LinkGame, SetScore, ReadTeam1, ReadTeam2,
    RatePlayer, MarkResult, LeaveGame, MarkPlayed, Unlink, DeleteGame, ReadStats, WriteStats,
    CheckPlayed, SeedCount, Join, database, FlightOK, RowsOK
<1>4. ~MadeBy(r, g) /\ ~TakesOut(r, g, m) /\ ~Passed(r, g, m)'
  BY <1>2 DEF MadeBy, TakesOut, Passed
<1>. QED BY <1>0, <1>3, <1>4, HoldsKept DEF Holds, Players, Open, Linked, Elsewhere

LEMMA StepHolds ==
    ASSUME FlightOK, GamesInv, NEW r \in Requests, Step(r), NEW g \in GameIds,
           NEW m \in inGame' \ astray', Holds(g, m), loc[r].game = g
    PROVE  Holds(g, m)'
<1>0. \A q \in Requests \ {r} : pc'[q] = pc[q] /\ loc'[q] = loc[q]
  BY OthersStay
<1>. USE DEF FlightOK, RequestsOK, Fields, Goto, Creating, Moving
<1>1. CASE ChooseTeams(r)
  BY <1>1, InsertedHolds DEF ChooseTeams
<1>2. CASE PutInGame(r) \/ \E n \in Members : TakeFromActive(r, n)
  <2>1. UNCHANGED game /\ MadeBy(r, g) /\ MadeBy(r, g)'
    BY <1>2 DEF PutInGame, TakeFromActive, MadeBy
  <2>. QED BY <1>0, <2>1, HoldsKept DEF Holds, Players, Elsewhere, MadeBy, Passed, TakesOut
<1>3. CASE LinkGame(r)
  <2>1. /\ MadeBy(r, g) /\ Open(g)' /\ pc'[r] = "idle" /\ ~Elsewhere(g)'
        /\ game'[g].live = game[g].live /\ Players(g)' = Players(g)
    BY <1>3 DEF LinkGame, MadeBy, Done, Open, Linked, Players, RowsOK, RowFields, GamesInv,
      CreationsOK, LinkedFirst, Elsewhere
  <2>2. ~Passed(r, g, m)' /\ ~TakesOut(r, g, m)
    BY <2>1 DEF MadeBy, Passed, TakesOut
  <2>. QED BY <1>0, <2>1, <2>2, HoldsKept DEF Holds
<1>4. CASE SetScore(r)
  <2>1. /\ ~MadeBy(r, g) /\ ~Passed(r, g, m)'
        /\ game'[g].live = game[g].live /\ Players(g)' = Players(g) /\ ~Elsewhere(g)'
    BY <1>4 DEF SetScore, MadeBy, Passed, Players, Elsewhere, Holds, RowsOK, RowFields
  <2>2. IF loc[r].here THEN TakesOut(r, g, m)' ELSE ~TakesOut(r, g, m) /\ ~Open(g)
    BY <1>4 DEF SetScore, TakesOut, Holds
  <2>. QED BY <1>0, <2>1, <2>2, HoldsKept DEF Holds
<1>5. CASE ReadTeam1(r)
  <2>1. /\ UNCHANGED game
        /\ ~MadeBy(r, g) /\ (TakesOut(r, g, m) => TakesOut(r, g, m)') /\ ~Passed(r, g, m)'
    BY <1>5 DEF ReadTeam1, MadeBy, TakesOut, Passed, database
  <2>. QED BY <1>0, <2>1, HoldsKept DEF Holds, Players, Open, Linked, Elsewhere
<1>6. CASE ReadTeam2(r)
  <2>1. m \in loc[r].team1 \cup TeamOf(g, "team2")
    BY <1>6 DEF ReadTeam2, TeamOf, GamesInv, HandlersOK, Handling, Holds, Players
  <2>2. PICK x :
          /\ DOMAIN x = Fields /\ x.team2 = TeamOf(g, "team2") /\ x.todo = Both(x)
          /\ \A f \in Fields \ {"team2", "todo"} : x[f] = loc[r][f]
          /\ IF x.winner = "none" THEN pc'[r] = PutBack(x, Both(x)) /\ loc'[r] = x
             ELSE Rated(r, x)
    BY <1>6, ReadTeam2Goes
  <2>3. x.game = g /\ x.here = loc[r].here /\ m \in x.todo
    BY <2>1, <2>2 DEF Both
  <2>5. pc'[r] \in {"reactivate", "rate"} /\ loc'[r] = x /\ pc[r] = "readTeam2"
    BY <1>6, <2>2, <2>3, RatedGoes DEF ReadTeam2, PutBack
  <2>6. ~MadeBy(r, g) /\ (TakesOut(r, g, m) => TakesOut(r, g, m)') /\ ~Passed(r, g, m)'
    BY <2>3, <2>5 DEF MadeBy, TakesOut, Passed
  <2>. QED
    BY <1>0, <1>6, <2>6, HoldsKept DEF ReadTeam2, Holds, Players, Open, Linked, Elsewhere, database
<1>7. CASE \E n \in Members : RatePlayer(r, n)
  <2>1. /\ UNCHANGED game /\ pc[r] = "rate" /\ pc'[r] = "mark"
        /\ loc'[r].game = g /\ loc'[r].here = loc[r].here
    BY <1>7 DEF RatePlayer, database
  <2>2. ~MadeBy(r, g) /\ (TakesOut(r, g, m) => TakesOut(r, g, m)') /\ ~Passed(r, g, m)'
    BY <2>1 DEF MadeBy, TakesOut, Passed
  <2>. QED BY <1>0, <2>1, <2>2, HoldsKept DEF Holds, Players, Open, Linked, Elsewhere
<1>12. CASE MarkResult(r)
  <2>1. game[g].live /\ m \in Both(loc[r])
    BY <1>12 DEF MarkResult, GamesInv, HandlersOK, Handling, Holds
  <2>2. PICK x : /\ DOMAIN x = Fields /\ Rated(r, x)
                 /\ \A f \in Fields \ {"todo"} : x[f] = loc[r][f]
    BY <1>12, <2>1, MarkGoes
  <2>3. x.game = g /\ x.here = loc[r].here /\ m \in Both(x)
    BY <2>1, <2>2 DEF Both
  <2>4. UNCHANGED game /\ pc[r] = "mark"
    BY <1>12 DEF MarkResult, database
  <2>5. \/ pc'[r] = "rate" /\ loc'[r] = x
        \/ /\ x.here /\ pc'[r] = "reactivate" /\ loc'[r].game = g /\ loc'[r].here
           /\ loc'[r].todo = Both(x)
        \/ ~x.here /\ pc'[r] = "idle"
    BY <2>2, <2>3, RatedGoes DEF PutBack
  <2>6. ~MadeBy(r, g) /\ (TakesOut(r, g, m) => TakesOut(r, g, m)') /\ ~Passed(r, g, m)'
    BY <2>2, <2>3, <2>4, <2>5 DEF MadeBy, TakesOut, Passed
  <2>. QED BY <1>0, <2>4, <2>6, HoldsKept DEF Holds, Players, Open, Linked, Elsewhere
<1>8. CASE (\E n \in Members : Reactivate(r, n)) \/ LeaveGame(r) \/ MarkPlayed(r)
  <2>1. pc[r] \in Moving /\ UNCHANGED game
    BY <1>8 DEF Reactivate, LeaveGame, MarkPlayed
  <2>2. /\ loc'[r].game = g /\ loc'[r].here = loc[r].here
        /\ m \in loc[r].todo => m \in loc'[r].todo
    BY <1>8 DEF Reactivate, LeaveGame, MarkPlayed
  <2>3. m \in loc[r].todo => pc'[r] \in Moving
    BY <1>8, <2>2 DEF Reactivate, LeaveGame, MarkPlayed, PutBack
  <2>4. /\ ~MadeBy(r, g)
        /\ ~Passed(r, g, m) => ~Passed(r, g, m)'
        /\ TakesOut(r, g, m) => TakesOut(r, g, m)'
    BY <2>1, <2>2, <2>3 DEF MadeBy, TakesOut, Passed
  <2>. QED BY <1>0, <2>1, <2>4, HoldsKept DEF Holds, Players, Open, Linked, Elsewhere
<1>9. CASE Unlink(r) \/ DeleteGame(r)
  <2>1. Passed(r, g, m) /\ game[g].link # "none"
    BY <1>9 DEF Unlink, DeleteGame, Passed, GamesInv, HandlersOK, Handling, Ending
  <2>. QED BY <2>1 DEF Holds, MadeBy, GamesInv, CreationsOK
<1>10. CASE ReadStats(r) \/ WriteStats(r)
  <2>1. /\ UNCHANGED game
        /\ ~MadeBy(r, g) /\ ~Passed(r, g, m)' /\ ~TakesOut(r, g, m)
    BY <1>10 DEF ReadStats, WriteStats, Done, MadeBy, Passed, TakesOut, database
  <2>. QED BY <1>0, <2>1, HoldsKept DEF Holds, Players, Open, Linked, Elsewhere
<1>11. CASE CheckPlayed(r) \/ SeedCount(r) \/ Join(r)
  <2>1. /\ UNCHANGED game
        /\ ~MadeBy(r, g) /\ ~Passed(r, g, m)' /\ ~TakesOut(r, g, m)
    BY <1>11 DEF CheckPlayed, SeedCount, Join, Done, MadeBy, Passed, TakesOut, database
  <2>. QED BY <1>0, <2>1, HoldsKept DEF Holds, Players, Open, Linked, Elsewhere
<1>. QED
  BY <1>1, <1>2, <1>3, <1>4, <1>5, <1>6, <1>7, <1>8, <1>9, <1>10, <1>11, <1>12
    DEF Step

\* Whoever enters the in-game set enters it for the game being made.
LEMMA EnteredHolds ==
    ASSUME FlightOK, GamesInv, NEW r \in Requests, Begin(r) \/ Step(r) \/ Drop(r),
           NEW m \in inGame' \ inGame
    PROVE  \E g \in GameIds : Holds(g, m)'
<1>1. PutInGame(r) /\ m = loc[r].member
  BY DEF Begin, BeginCreate, CreatePeg, InsertGame, BeginDelete, BeginComplete, BeginActivate,
    DeactivateMember, Step, Drop, ChooseTeams, TakeFromActive, Reactivate, PutInGame, LinkGame,
    SetScore, ReadTeam1, ReadTeam2, RatePlayer, MarkResult, LeaveGame, MarkPlayed, Unlink,
    DeleteGame, ReadStats, WriteStats, CheckPlayed, SeedCount, Join, database
<1>2. PICK g \in GameIds : /\ g = loc[r].game /\ m \in Players(g)
                           /\ game[g].live /\ game[g].link = "none"
  BY <1>1 DEF PutInGame, GamesInv, CreationsOK, Creating
<1>3. UNCHANGED game /\ MadeBy(r, g)'
  BY <1>1, <1>2 DEF PutInGame, Goto, MadeBy, Creating, FlightOK, RequestsOK, Fields
<1>. QED BY <1>2, <1>3 DEF Holds, Players, Elsewhere

LEMMA NextHeld ==
    ASSUME FlightOK, GamesInv, HeldInv, [Next]_vars
    PROVE  HeldInv'
<1>1. CASE UNCHANGED vars
  BY <1>1 DEF vars, database, history, HeldInv, Holds, MadeBy, Passed, TakesOut, Players, Open,
    Linked, Elsewhere
<1>2. ASSUME NEW r \in Requests, Begin(r) \/ Step(r) \/ Drop(r),
             NEW m \in inGame' \ (dropped' \cup astray')
      PROVE  \E g \in GameIds : Holds(g, m)'
  <2>1. dropped \subseteq dropped' /\ m \notin astray
    <3>1. CASE LeaveGame(r)
      BY <1>2, <3>1 DEF LeaveGame
    <3>2. CASE SetScore(r)
      BY <1>2, <3>2 DEF SetScore
    <3>3. CASE ~LeaveGame(r) /\ ~SetScore(r)
      BY <1>2, <3>3 DEF Begin, BeginCreate, CreatePeg, InsertGame, BeginDelete, BeginComplete,
        BeginActivate, DeactivateMember, Step, Drop, ChooseTeams, TakeFromActive, Reactivate,
        PutInGame, LinkGame, ReadTeam1, ReadTeam2, RatePlayer, MarkResult, MarkPlayed,
        Unlink, DeleteGame, ReadStats, WriteStats, CheckPlayed, SeedCount, Join, history
    <3>. QED BY <3>1, <3>2, <3>3
  <2>2. CASE m \notin inGame
    BY <1>2, <2>2, EnteredHolds
  <2>3. CASE m \in inGame
    <3>1. PICK g \in GameIds : Holds(g, m)
      BY <1>2, <2>1, <2>3 DEF HeldInv
    <3>2. CASE Begin(r)
      BY <3>1, <3>2, BeginHolds
    <3>3. CASE Step(r) /\ loc[r].game = g
      BY <1>2, <3>1, <3>3, StepHolds
    <3>4. CASE Step(r) /\ loc[r].game # g
      <4>1. CASE ChooseTeams(r)
        BY <3>1, <4>1, InsertedHolds DEF ChooseTeams
      <4>. QED BY <3>1, <3>4, <4>1, ElsewhereHolds
    <3>5. CASE Drop(r)
      <4>1. loc[r].game # g \/ ~loc[r].here
        BY <1>2, <3>1, <3>5, SessionAssumption DEF Drop, Holds
      <4>2. ~MadeBy(r, g) /\ ~TakesOut(r, g, m) /\ ~Passed(r, g, m)'
        BY <3>5, <4>1 DEF MadeBy, TakesOut, Passed, Drop, Done, Goto, FlightOK, RequestsOK, Moving,
          GamesInv, CreationsOK
      <4>3. \A q \in Requests \ {r} : pc'[q] = pc[q] /\ loc'[q] = loc[q]
        BY <3>5, OthersStay
      <4>4. UNCHANGED game
        BY <3>5 DEF Drop, database
      <4>. QED BY <3>1, <4>2, <4>3, <4>4, HoldsKept DEF Holds, Players, Open, Linked, Elsewhere
    <3>. QED BY <1>2, <3>1, <3>2, <3>3, <3>4, <3>5
  <2>. QED BY <2>2, <2>3
<1>3. CASE CreateElsewhere \/ \E g \in GameIds : DeleteElsewhere(g)
  <2>1. PICK g \in GameIds :
          /\ UNCHANGED <<pc, loc, inGame, history>>
          /\ \A h \in GameIds \ {g} : game'[h] = game[h]
          /\ ~game[g].live \/ Elsewhere(g)
    <3>1. CASE CreateElsewhere
      <4>1. PICK g \in Unused, teams \in PegTeams :
            game' = [game EXCEPT ![g] = [NoGame EXCEPT !.live = TRUE, !.link = "elsewhere",
                                                !.team1 = teams[1], !.team2 = teams[2]]]
        BY <3>1 DEF CreateElsewhere
      <4>2. g \in GameIds /\ ~game[g].live /\ \A h \in GameIds \ {g} : game'[h] = game[h]
        BY <4>1 DEF Unused, NoGame, FlightOK, RowsOK
      <4>. QED BY <3>1, <4>2 DEF CreateElsewhere
    <3>2. CASE \E g \in GameIds : DeleteElsewhere(g)
      BY <3>2 DEF DeleteElsewhere, FlightOK, RowsOK
    <3>. QED BY <1>3, <3>1, <3>2
  <2>2. ASSUME NEW h \in GameIds, NEW m, Holds(h, m) PROVE Holds(h, m)'
    <3>1. game'[h] = game[h]
      BY <2>1, <2>2 DEF Holds
    <3>. QED
      BY <2>1, <2>2, <3>1 DEF Holds, MadeBy, Passed, TakesOut, Players, Open, Linked, Elsewhere
  <2>. QED BY <2>1, <2>2 DEF HeldInv, history
<1>. QED BY <1>1, <1>2, <1>3 DEF Next, HeldInv

\* Whatever creations, completions and deletions overlap, of this event and of
\* others, nobody is left in the in-game set, but for stops and for completions
\* that name another event (create_game_for_event, complete_game, delete_game).
THEOREM NobodyIsLeftInGame == Spec => []NobodyIsStuckInGame
<1>1. Init => HeldInv
  BY DEF Init, HeldInv
<1>2. GamesInv /\ HeldInv => NobodyIsStuckInGame
  BY DEF HeldInv, Holds, MadeBy, Creating, NobodyIsStuckInGame, Plays
<1>. QED BY <1>1, <1>2, NextHeld, FlightInvariant, GamesInvariant, PTL DEF Spec

-----------------------------------------------------------------------------
\* The statistics, which only two steps touch.

LEMMA StatsStay ==
    ASSUME FlightOK, NEW r \in Requests, Begin(r) \/ Step(r) \/ Drop(r),
           ~ReadStats(r), ~WriteStats(r)
    PROVE  UNCHANGED stats /\ pc'[r] # "writeStats"
<1>1. UNCHANGED stats
  BY DEF Begin, BeginCreate, CreatePeg, InsertGame, BeginDelete, BeginComplete,
    BeginActivate, DeactivateMember, Step, Drop, ChooseTeams, TakeFromActive, Reactivate,
    PutInGame, LinkGame, SetScore, ReadTeam1, ReadTeam2, RatePlayer, MarkResult, LeaveGame,
    MarkPlayed, Unlink, DeleteGame, CheckPlayed, SeedCount, Join, database
<1>2. pc'[r] # "writeStats"
  <2>. USE DEF Goto, Start, Done, PutBack, AfterPlayers, FlightOK, RequestsOK
  <2>1. CASE Begin(r)
    BY <2>1 DEF Begin, BeginCreate, CreatePeg, InsertGame, BeginDelete, BeginComplete,
      BeginActivate, DeactivateMember
  <2>2. CASE ReadTeam2(r)
    BY <2>2, ReadTeam2Goes, RatedGoes
  <2>3. CASE MarkResult(r)
    <3>1. CASE game[loc[r].game].live
      BY <2>3, <3>1, MarkGoes, RatedGoes
    <3>2. CASE ~game[loc[r].game].live
      BY <2>3, <3>2 DEF MarkResult
    <3>. QED BY <3>1, <3>2
  <2>4. CASE Step(r) \/ Drop(r)
    BY <2>2, <2>3, <2>4 DEF Step, Drop, ChooseTeams, InsertGame, TakeFromActive, Reactivate,
      PutInGame, LinkGame, SetScore, ReadTeam1, RatePlayer, LeaveGame, MarkPlayed, Unlink,
      DeleteGame, CheckPlayed, SeedCount, Join
  <2>. QED BY <2>1, <2>4
<1>. QED BY <1>1, <1>2

LEMMA OthersStatsStay ==
    ASSUME CreateElsewhere \/ \E g \in GameIds : DeleteElsewhere(g)
    PROVE  UNCHANGED <<active, inGame, playedOnce, counts, stats, pc, loc, history>>
BY DEF CreateElsewhere, DeleteElsewhere

-----------------------------------------------------------------------------
\* Who has played with whom.

Mutual(map) ==
    /\ map \in [Members -> [Members -> Nat]]
    /\ \A m, n \in Members : map[m][n] = map[n][m]

MutualInv ==
    /\ Mutual(stats.playedWith)
    /\ \A r \in Requests : pc[r] = "writeStats" => Mutual(loc[r].stats.playedWith)

LEMMA MetIsMutual ==
    ASSUME NEW before, Mutual(before), NEW l
    PROVE  Mutual(Met(before, l))
<1>. DEFINE players == l.team1 \cup l.team2
            after == Met(before, l)
<1>1. ASSUME NEW m \in Members, NEW n \in Members
      PROVE  after[m][n] = IF m \in players /\ n \in players /\ n # m THEN before[m][n] + 1
                           ELSE before[m][n]
  BY DEF Met, Bump, Mutual
<1>2. after \in [Members -> [Members -> Nat]]
  BY DEF Met, Bump, Mutual
<1>. HIDE DEF after
<1>3. \A m, n \in Members : after[m][n] = after[n][m]
  BY <1>1 DEF Mutual
<1>. QED BY <1>2, <1>3 DEF Mutual, after

LEMMA UpdatedIsMutual ==
    ASSUME NEW l, Mutual(l.stats.playedWith)
    PROVE  Mutual(Updated(l).playedWith)
<1>1. Updated(l).playedWith = Met(l.stats.playedWith, l)
  BY DEF Updated
<1>. QED BY <1>1, MetIsMutual

LEMMA NextMutual ==
    ASSUME FlightOK, MutualInv, [Next]_vars
    PROVE  MutualInv'
<1>1. CASE UNCHANGED vars
  BY <1>1 DEF vars, database, MutualInv
<1>2. ASSUME NEW r \in Requests, WriteStats(r)
      PROVE  MutualInv'
  <2>1. Mutual(stats'.playedWith)
    BY <1>2, UpdatedIsMutual DEF WriteStats, MutualInv
  <2>2. \A q \in Requests : pc'[q] = "writeStats" => pc[q] = "writeStats" /\ loc'[q] = loc[q]
    BY <1>2 DEF WriteStats, Done, Goto, FlightOK, RequestsOK
  <2>. QED BY <2>1, <2>2 DEF MutualInv
<1>3. ASSUME NEW r \in Requests, ReadStats(r)
      PROVE  MutualInv'
  <2>1. UNCHANGED stats /\ loc'[r].stats = stats
    BY <1>3 DEF ReadStats, Goto, FlightOK, RequestsOK, Fields, database
  <2>2. \A q \in Requests \ {r} : pc'[q] = pc[q] /\ loc'[q] = loc[q]
    BY <1>3 DEF ReadStats, Goto, FlightOK, RequestsOK
  <2>. QED BY <2>1, <2>2 DEF MutualInv
<1>4. ASSUME NEW r \in Requests, Begin(r) \/ Step(r) \/ Drop(r), ~ReadStats(r), ~WriteStats(r)
      PROVE  MutualInv'
  BY <1>4, OthersStay, StatsStay DEF MutualInv
<1>5. CASE CreateElsewhere \/ \E g \in GameIds : DeleteElsewhere(g)
  BY <1>5, OthersStatsStay DEF MutualInv
<1>. QED BY <1>1, <1>2, <1>3, <1>4, <1>5 DEF Next

\* However completions overlap or stop, two members have played with each
\* other equally often (update_event_stats, update_player_social_counts).
THEOREM PlayingTogetherIsMutual == Spec => []PlayedWithIsMutual
<1>1. Init => MutualInv
  BY DEF Init, MutualInv, Mutual, NoStats, Zero
<1>2. MutualInv => PlayedWithIsMutual
  BY DEF MutualInv, Mutual, PlayedWithIsMutual
<1>. QED BY <1>1, <1>2, NextMutual, FlightInvariant, PTL DEF Spec

-----------------------------------------------------------------------------
\* Types, with those of the locals.

Maps == UNION {[D -> Nat] : D \in SUBSET Members}

StatsRow ==
    [wins : Totals, winstreaks : Totals, best : Maps, playedWith : [Members -> Totals]]

SessionLoc ==
    [read : SUBSET Members, game : GameIds \cup {None}, here : BOOLEAN,
     winner : Winners \cup {"none"},
     team1 : SUBSET Members, team2 : SUBSET Members, todo : SUBSET Members,
     member : Members \cup {None}, counts : Maps, stats : StatsRow]

\* The labels of a request that has not come to the event itself.
Early == {"setScore", "readTeam1", "readTeam2", "rate", "mark"}

\* What a label says of the locals.
Fits(label, l) ==
    /\ label \in {"putInGame", "mark", "leaveGame", "markPlayed", "checkPlayed", "seed", "join"} =>
          l.member \in Members
    /\ label \in {"setScore", "rate", "mark", "readStats", "writeStats"} => l.winner \in Winners
    /\ label \in {"rate", "mark"} => l.todo \subseteq Both(l)
    /\ label = "mark" => l.member \in l.todo
    /\ l.here \/ (label \in Early /\ ~Panel /\ l.winner \in Winners)

LocalsOK ==
    /\ pc \in [Requests -> Labels]
    /\ loc \in [Requests -> SessionLoc]
    /\ \A r \in Requests : Fits(pc[r], loc[r])

DatabaseOK ==
    /\ active \subseteq Members /\ inGame \subseteq Members /\ playedOnce \subseteq Members
    /\ game \in [GameIds -> GameRow]
    /\ counts \in Maps /\ stats \in StatsRow

HistoryOK ==
    /\ asked \in [GameIds -> 0..MaxCompletions] /\ scored \in Totals
    /\ blurred \subseteq Members /\ astray \subseteq Members /\ dropped \subseteq Members
    /\ drops \in 0..MaxDrops

SessionOK == LocalsOK /\ DatabaseOK /\ HistoryOK

LEMMA MapsAre == \A map : map \in Maps <=> Partial(map)
<1>1. ASSUME NEW map, Partial(map) PROVE map \in Maps
  BY <1>1 DEF Maps, Partial
<1>2. ASSUME NEW map \in Maps PROVE Partial(map)
  BY <1>2 DEF Maps, Partial
<1>. QED BY <1>1, <1>2

LEMMA NoLocalsOK == NoLocals \in SessionLoc /\ Empty \in Maps /\ NoStats \in StatsRow
<1>1. Empty \in Maps
  BY DEF Empty, Maps
<1>2. NoStats \in StatsRow
  BY <1>1 DEF NoStats, StatsRow, Totals, Zero
<1>. QED BY <1>1, <1>2 DEF NoLocals, SessionLoc

LEMMA GoesTo ==
    ASSUME FlightOK, NEW r \in Requests, NEW to, NEW x, Goto(r, to, x)
    PROVE  /\ pc'[r] = to /\ loc'[r] = x
           /\ \A q \in Requests \ {r} : pc'[q] = pc[q] /\ loc'[q] = loc[q]
BY DEF FlightOK, RequestsOK, Goto

LEMMA LocalsGo ==
    ASSUME LocalsOK, NEW r \in Requests, NEW to \in Labels, NEW x \in SessionLoc, Fits(to, x),
           Goto(r, to, x)
    PROVE  LocalsOK'
<1>1. /\ pc' \in [Requests -> Labels] /\ loc' \in [Requests -> SessionLoc]
      /\ pc'[r] = to /\ loc'[r] = x
      /\ \A q \in Requests \ {r} : pc'[q] = pc[q] /\ loc'[q] = loc[q]
  BY DEF LocalsOK, Goto
<1>2. ASSUME NEW q \in Requests PROVE Fits(pc'[q], loc'[q])
  BY <1>1 DEF LocalsOK
<1>. QED BY <1>1, <1>2 DEF LocalsOK, Fits

LEMMA LocalsEnd ==
    ASSUME LocalsOK, NEW r \in Requests, Done(r)
    PROVE  LocalsOK'
BY NoLocalsOK, LocalsGo DEF Done, Fits, Labels, NoLocals

LEMMA SmallestExists ==
    ASSUME NEW S \in SUBSET Nat, S # {}
    PROVE  Min(S) \in Nat
<1>. DEFINE R == {ss \in Nat \X Nat : ss[1] < ss[2]}
<1>1. IsWellFoundedOn(R, Nat)
  BY NatLessThanWellFounded, Zenon DEF OpToRel
<1>2. PICK x \in S : \A y \in S : ~ (<<y, x>> \in R)
  BY <1>1, WFMin
<1>3. ASSUME NEW y \in S PROVE x <= y
  <2>1. y < x => <<y, x>> \in R
    OBVIOUS
  <2>. QED BY <1>2, <2>1
<1>. QED BY <1>3 DEF Min

LEMMA InsertedSession ==
    ASSUME SessionOK, FlightOK, NEW r \in Requests, NEW team1 \in SUBSET Members,
           NEW team2 \in SUBSET Members, InsertGame(r, team1, team2)
    PROVE  SessionOK'
<1>1. PICK g \in Unused :
        /\ game' = [game EXCEPT ![g] = [NoGame EXCEPT !.live = TRUE, !.team1 = team1,
                                                      !.team2 = team2]]
        /\ Goto(r, IF team1 \cup team2 = {} THEN "link" ELSE "take",
                   [NoLocals EXCEPT !.game = g, !.team1 = team1, !.todo = team1 \cup team2])
        /\ UNCHANGED <<active, inGame, playedOnce, counts, stats, history>>
  BY DEF InsertGame
<1>2. game' \in [GameIds -> GameRow]
  <2>1. NoGame \in GameRow
    BY DEF NoGame, GameRow
  <2>2. [NoGame EXCEPT !.live = TRUE, !.team1 = team1, !.team2 = team2] \in GameRow
    BY <2>1 DEF GameRow
  <2>. QED BY <1>1, <2>2 DEF SessionOK, DatabaseOK
<1>3. PICK to, x :
        /\ to = IF team1 \cup team2 = {} THEN "link" ELSE "take"
        /\ x = [NoLocals EXCEPT !.game = g, !.team1 = team1, !.todo = team1 \cup team2]
        /\ Goto(r, to, x)
  BY <1>1
<1>4. g \in GameIds /\ x \in SessionLoc
  BY <1>3, NoLocalsOK DEF Unused, SessionLoc
<1>5. to \in Labels /\ Fits(to, x)
  BY <1>3 DEF Labels, Fits, NoLocals
<1>6. LocalsOK'
  BY <1>3, <1>4, <1>5, LocalsGo DEF SessionOK
<1>. QED BY <1>1, <1>2, <1>6 DEF SessionOK, DatabaseOK, HistoryOK, history

LEMMA BeginSession ==
    ASSUME SessionOK, FlightOK, NEW r \in Requests, Begin(r)
    PROVE  SessionOK'
<1>0. ASSUME NEW to \in Labels, NEW x \in SessionLoc, Fits(to, x), Goto(r, to, x),
             UNCHANGED <<database, history>>
      PROVE  SessionOK'
  BY <1>0, LocalsGo DEF SessionOK, DatabaseOK, HistoryOK, database, history
<1>1. CASE BeginCreate(r)
  <2>1. PICK x : x = [NoLocals EXCEPT !.read = active] /\ Goto(r, "choose", x)
    BY <1>1 DEF BeginCreate, Start
  <2>2. x \in SessionLoc
    BY <2>1, NoLocalsOK DEF SessionLoc, SessionOK, DatabaseOK
  <2>3. "choose" \in Labels /\ Fits("choose", x)
    BY <2>1 DEF Labels, Fits, NoLocals
  <2>. QED BY <1>0, <1>1, <2>1, <2>2, <2>3 DEF BeginCreate
<1>2. CASE CreatePeg(r)
  <2>1. PICK teams \in PegTeams : InsertGame(r, teams[1], teams[2])
    BY <1>2 DEF CreatePeg
  <2>2. teams[1] \in SUBSET Members /\ teams[2] \in SUBSET Members
    BY SessionAssumption
  <2>. QED BY <2>1, <2>2, InsertedSession
<1>3. ASSUME NEW g \in GameIds, BeginDelete(r, g) PROVE SessionOK'
  <2>1. PICK x : x = [NoLocals EXCEPT !.game = g] /\ Goto(r, "readTeam1", x)
    BY <1>3 DEF BeginDelete, Start
  <2>2. x \in SessionLoc
    BY <2>1, NoLocalsOK DEF SessionLoc
  <2>3. "readTeam1" \in Labels /\ Fits("readTeam1", x)
    BY <2>1 DEF Labels, Fits, NoLocals
  <2>. QED BY <1>0, <1>3, <2>1, <2>2, <2>3 DEF BeginDelete
<1>4. ASSUME NEW g \in GameIds, NEW winner \in Winners, NEW here \in BOOLEAN,
             BeginComplete(r, g, winner, here)
      PROVE  SessionOK'
  <2>1. PICK x : /\ x = [NoLocals EXCEPT !.game = g, !.winner = winner, !.here = here]
                 /\ Goto(r, "setScore", x)
    BY <1>4 DEF BeginComplete, Start
  <2>2. x \in SessionLoc
    BY <2>1, NoLocalsOK DEF SessionLoc
  <2>3. "setScore" \in Labels /\ Fits("setScore", x)
    BY <1>4, <2>1 DEF Labels, Fits, NoLocals, Early, BeginComplete
  <2>4. LocalsOK'
    BY <2>1, <2>2, <2>3, LocalsGo DEF SessionOK
  <2>5. asked' \in [GameIds -> 0..MaxCompletions]
    <3>1. asked[g] \in 0..MaxCompletions /\ asked[g] < MaxCompletions
      BY <1>4 DEF BeginComplete, SessionOK, HistoryOK
    <3>2. asked[g] + 1 \in 0..MaxCompletions
      BY <3>1, SessionAssumption
    <3>. QED BY <1>4, <3>2 DEF BeginComplete, SessionOK, HistoryOK
  <2>. QED
    BY <1>4, <2>4, <2>5 DEF BeginComplete, SessionOK, DatabaseOK, HistoryOK, database
<1>5. ASSUME NEW m \in Members, BeginActivate(r, m) PROVE SessionOK'
  <2>1. PICK x : x = [NoLocals EXCEPT !.member = m, !.counts = counts] /\ Goto(r, "checkPlayed", x)
    BY <1>5 DEF BeginActivate, Start
  <2>2. x \in SessionLoc
    BY <2>1, NoLocalsOK DEF SessionLoc, SessionOK, DatabaseOK
  <2>3. "checkPlayed" \in Labels /\ Fits("checkPlayed", x)
    BY <2>1 DEF Labels, Fits, NoLocals
  <2>. QED BY <1>0, <1>5, <2>1, <2>2, <2>3 DEF BeginActivate
<1>6. ASSUME NEW m \in Members, DeactivateMember(r, m) PROVE SessionOK'
  BY <1>6 DEF DeactivateMember, SessionOK, LocalsOK, DatabaseOK, HistoryOK, history
<1>. QED BY <1>1, <1>2, <1>3, <1>4, <1>5, <1>6 DEF Begin

\* The statistics with a game added are statistics.
LEMMA UpdatedOK ==
    ASSUME NEW l \in SessionLoc, l.winner \in Winners
    PROVE  Updated(l) \in StatsRow
<1>1. /\ l.stats \in StatsRow /\ l.team1 \subseteq Members /\ l.team2 \subseteq Members
      /\ l[l.winner] \subseteq Members
  BY DEF SessionLoc, Winners
<1>2. /\ l.stats.wins \in Totals /\ l.stats.winstreaks \in Totals /\ l.stats.best \in Maps
      /\ l.stats.playedWith \in [Members -> Totals]
  BY <1>1 DEF StatsRow
<1>. PICK wins : wins = Bump(l.stats.wins, l[l.winner])
  OBVIOUS
<1>3. wins \in Totals
  BY <1>2 DEF Bump, Totals
<1>. PICK streaks : streaks = Streaks(l.stats.winstreaks, wins, l)
  OBVIOUS
<1>4. streaks \in Totals
  BY <1>2, <1>3 DEF Streaks, Totals
<1>. PICK best : best = RaiseBest(l.stats.best, l[l.winner], streaks, l.winner = "team1")
  OBVIOUS
<1>5. best \in Maps
  <2>1. PICK D \in SUBSET Members : l.stats.best \in [D -> Nat]
    BY <1>2 DEF Maps
  <2>2. CASE best = l.stats.best
    BY <1>2, <2>2
  <2>3. CASE best # l.stats.best
    <3>. PICK top : top = Max({l.stats.best[n] : n \in DOMAIN l.stats.best}
                              \cup {streaks[m] : m \in l[l.winner]})
      OBVIOUS
    <3>. PICK leaders : leaders = {m \in l[l.winner] : streaks[m] = top}
      OBVIOUS
    <3>. PICK stay : stay = IF top \in {l.stats.best[n] : n \in DOMAIN l.stats.best}
                            THEN DOMAIN l.stats.best ELSE {}
      OBVIOUS
    <3>0. best = [n \in stay \cup leaders |-> IF n \in leaders THEN top ELSE l.stats.best[n]]
      BY <2>3 DEF RaiseBest
    <3>1. /\ leaders \in SUBSET Members /\ stay \in SUBSET D
          /\ best = [n \in stay \cup leaders |-> IF n \in leaders THEN top ELSE l.stats.best[n]]
          /\ \A n \in leaders : streaks[n] = top
      BY <1>1, <2>1, <3>0
    <3>2. best \in [stay \cup leaders -> Nat] /\ stay \cup leaders \in SUBSET Members
      BY <1>4, <2>1, <3>1 DEF Totals
    <3>. QED BY <3>2 DEF Maps
  <2>. QED BY <2>2, <2>3
<1>6. Met(l.stats.playedWith, l) \in [Members -> Totals]
  BY <1>2 DEF Met, Bump, Totals
<1>. QED BY <1>3, <1>4, <1>5, <1>6 DEF Updated, StatsRow

LEMMA CountsOK ==
    ASSUME NEW map \in Maps
    PROVE  /\ \A members \in SUBSET Members : Counted(map, members) \in Maps
           /\ \A m \in Members : Seeded(map, m) \in Maps
<1>1. PICK D \in SUBSET Members : map \in [D -> Nat]
  BY DEF Maps
<1>2. ASSUME NEW members \in SUBSET Members PROVE Counted(map, members) \in Maps
  <2>1. Counted(map, members) \in [D \cup members -> Nat] /\ D \cup members \in SUBSET Members
    BY <1>1 DEF Counted
  <2>. QED BY <2>1 DEF Maps
<1>3. Minimum(map) \in Nat
  <2>1. CASE map = Empty
    BY <2>1 DEF Minimum
  <2>2. CASE map # Empty
    <3>1. D # {}
      BY <1>1, <2>2 DEF Empty
    <3>2. {map[m] : m \in DOMAIN map} \in SUBSET Nat /\ {map[m] : m \in DOMAIN map} # {}
      BY <1>1, <3>1
    <3>. QED BY <2>2, <3>2, SmallestExists DEF Minimum
  <2>. QED BY <2>1, <2>2
<1>4. ASSUME NEW m \in Members PROVE Seeded(map, m) \in Maps
  <2>1. Seeded(map, m) \in [D \cup {m} -> Nat] /\ D \cup {m} \in SUBSET Members
    BY <1>1, <1>3 DEF Seeded
  <2>. QED BY <2>1 DEF Maps
<1>. QED BY <1>2, <1>4

LEMMA StepSession ==
    ASSUME SessionOK, FlightOK, GamesInv, NEW r \in Requests, Step(r)
    PROVE  SessionOK'
<1>. PICK l : l = loc[r]
  OBVIOUS
<1>0. /\ l \in SessionLoc /\ pc[r] \in Labels /\ Fits(pc[r], l)
      /\ l.todo \subseteq Members /\ l.team1 \subseteq Members /\ l.team2 \subseteq Members
      /\ l.read \subseteq Members /\ (pc[r] \notin Early => l.here)
  BY DEF SessionOK, LocalsOK, SessionLoc, Fits
<1>1. ASSUME NEW to \in Labels, NEW x \in SessionLoc, Fits(to, x), Goto(r, to, x)
      PROVE  LocalsOK'
  BY <1>1, LocalsGo DEF SessionOK
<1>2. ASSUME UNCHANGED history PROVE HistoryOK'
  BY <1>2 DEF SessionOK, HistoryOK, history
<1>. USE DEF SessionOK, Early
<1>3. CASE ChooseTeams(r)
  <2>0. PICK team1 \in kSubset(TeamSize, l.read) :
           \E team2 \in kSubset(TeamSize, l.read \ team1) : InsertGame(r, team1, team2)
    BY <1>3 DEF ChooseTeams
  <2>1. PICK team2 \in kSubset(TeamSize, l.read \ team1) : InsertGame(r, team1, team2)
    BY <2>0
  <2>2. team1 \in SUBSET Members /\ team2 \in SUBSET Members
    BY <1>0 DEF kSubset
  <2>. QED BY <2>1, <2>2, InsertedSession
<1>4. ASSUME NEW m \in Members, TakeFromActive(r, m) PROVE SessionOK'
  <2>1. PICK x : x = [l EXCEPT !.member = m] /\ Goto(r, "putInGame", x)
    BY <1>4 DEF TakeFromActive
  <2>2. x \in SessionLoc /\ x.member = m /\ x.here
    BY <1>0, <1>4, <2>1 DEF SessionLoc, TakeFromActive
  <2>3. LocalsOK'
    BY <1>1, <2>1, <2>2 DEF Fits, Labels
  <2>. QED BY <1>2, <1>4, <2>3 DEF TakeFromActive, DatabaseOK
<1>5. ASSUME NEW m \in Members, Reactivate(r, m) PROVE SessionOK'
  <2>1. PICK x : x = [l EXCEPT !.member = m] /\ Goto(r, "leaveGame", x)
    BY <1>5 DEF Reactivate
  <2>2. x \in SessionLoc /\ x.member = m /\ x.here
    BY <1>0, <1>5, <2>1 DEF SessionLoc, Reactivate
  <2>3. LocalsOK'
    BY <1>1, <2>1, <2>2 DEF Fits, Labels
  <2>. QED BY <1>2, <1>5, <2>3 DEF Reactivate, DatabaseOK
<1>6. CASE PutInGame(r)
  <2>1. PICK x, to :
          /\ x = [l EXCEPT !.todo = l.todo \ {l.member}] /\ to \in {"link", "take"}
          /\ Goto(r, to, x)
    BY <1>6 DEF PutInGame
  <2>2. x \in SessionLoc /\ x.here
    BY <1>0, <1>6, <2>1 DEF SessionLoc, PutInGame
  <2>3. LocalsOK'
    BY <1>1, <2>1, <2>2 DEF Fits, Labels
  <2>4. l.member \in Members
    BY <1>0, <1>6 DEF Fits, PutInGame
  <2>. QED BY <1>2, <1>6, <2>3, <2>4 DEF PutInGame, DatabaseOK
<1>7. ASSUME NEW f, NEW g \in GameIds, NEW v, game' = [game EXCEPT ![g][f] = v],
             \/ f = "link" /\ v \in {"made", "removed"}
             \/ f = "winner" /\ v \in Winners
             \/ f = "live" /\ v = FALSE,
             UNCHANGED <<active, inGame, playedOnce, counts, stats>>
      PROVE  DatabaseOK'
  <2>1. game[g] \in GameRow
    BY DEF DatabaseOK
  <2>2. CASE f = "link"
    <3>1. [game[g] EXCEPT !.link = v] \in GameRow
      BY <1>7, <2>1, <2>2 DEF GameRow
    <3>. QED BY <1>7, <2>2, <3>1 DEF DatabaseOK
  <2>3. CASE f = "winner"
    <3>1. [game[g] EXCEPT !.winner = v] \in GameRow
      BY <1>7, <2>1, <2>3 DEF GameRow
    <3>. QED BY <1>7, <2>3, <3>1 DEF DatabaseOK
  <2>4. CASE f = "live"
    <3>1. [game[g] EXCEPT !.live = v] \in GameRow
      BY <1>7, <2>1, <2>4 DEF GameRow
    <3>. QED BY <1>7, <2>4, <3>1 DEF DatabaseOK
  <2>. QED BY <1>7, <2>2, <2>3, <2>4
<1>8. CASE LinkGame(r)
  <2>1. LocalsOK'
    BY <1>8, LocalsEnd DEF LinkGame
  <2>2. l.game \in GameIds
    BY <1>8 DEF LinkGame, GamesInv, CreationsOK, Creating
  <2>. QED BY <1>2, <1>7, <1>8, <2>1, <2>2 DEF LinkGame
<1>9. CASE SetScore(r)
  <2>1. LocalsOK'
    BY <1>0, <1>1, <1>9 DEF SetScore, Fits, Labels
  <2>2. l.game \in GameIds /\ l.winner \in Winners
    BY <1>0, <1>9 DEF SetScore, GamesInv, HandlersOK, Handling, Fits
  <2>3. DatabaseOK'
    <3>1. CASE game' = game
      BY <1>9, <3>1 DEF SetScore, DatabaseOK
    <3>2. CASE game' # game
      BY <1>7, <1>9, <2>2, <3>2 DEF SetScore
    <3>. QED BY <3>1, <3>2
  <2>4. astray' \subseteq Members
    <3>1. game[l.game] \in GameRow
      BY <2>2 DEF DatabaseOK
    <3>. QED BY <1>9, <3>1 DEF SetScore, HistoryOK, Players, GameRow
  <2>. QED BY <1>9, <2>1, <2>3, <2>4 DEF SetScore, HistoryOK
<1>10. ASSUME l.game \in GameIds
       PROVE  TeamOf(l.game, "team1") \subseteq Members /\ TeamOf(l.game, "team2") \subseteq Members
  BY <1>10 DEF TeamOf, DatabaseOK, GameRow
<1>11. ASSUME UNCHANGED database PROVE DatabaseOK'
  BY <1>11 DEF DatabaseOK, database
<1>12. CASE ReadTeam1(r)
  <2>1. PICK x : x = [l EXCEPT !.team1 = TeamOf(l.game, "team1")] /\ Goto(r, "readTeam2", x)
    BY <1>12 DEF ReadTeam1
  <2>2. l.game \in GameIds
    BY <1>12 DEF ReadTeam1, GamesInv, HandlersOK, Handling
  <2>3. x \in SessionLoc /\ x.here = l.here /\ x.winner = l.winner
    BY <1>0, <1>10, <2>1, <2>2 DEF SessionLoc
  <2>4. LocalsOK'
    BY <1>0, <1>1, <1>12, <2>1, <2>3 DEF Fits, Labels, ReadTeam1
  <2>. QED BY <1>2, <1>11, <1>12, <2>4 DEF ReadTeam1
<1>14. ASSUME NEW x \in SessionLoc, NEW todo PROVE
         /\ PutBack(x, todo) \in {"unlink", "readStats", "reactivate"}
         /\ PutBack(x, todo) = "readStats" => x.winner \in Winners
  BY <1>14 DEF PutBack, AfterPlayers, SessionLoc
<1>25. ASSUME NEW x \in SessionLoc, Rated(r, x), x.winner \in Winners, x.todo \subseteq Both(x),
              x.here \/ ~Panel
       PROVE  LocalsOK'
  <2>1. CASE x.todo # {}
    <3>1. Goto(r, "rate", x)
      BY <1>25, <2>1 DEF Rated
    <3>. QED BY <1>1, <1>25, <3>1 DEF Fits, Labels
  <2>2. CASE x.todo = {} /\ x.here
    <3>1. PICK y, to : /\ y = [x EXCEPT !.todo = Both(x)] /\ to = PutBack(x, Both(x))
                       /\ Goto(r, to, y)
      BY <1>25, <2>2 DEF Rated
    <3>2. y \in SessionLoc /\ y.here /\ y.winner \in Winners
      BY <1>25, <2>2, <3>1 DEF SessionLoc, Both
    <3>3. to \in {"unlink", "readStats", "reactivate"}
      BY <1>14, <3>1
    <3>. QED BY <1>1, <3>1, <3>2, <3>3 DEF Fits, Labels
  <2>3. CASE x.todo = {} /\ ~x.here
    BY <1>25, <2>3, LocalsEnd DEF Rated
  <2>. QED BY <2>1, <2>2, <2>3
<1>13. CASE ReadTeam2(r)
  <2>a. PICK team2 : team2 = TeamOf(l.game, "team2")
    OBVIOUS
  <2>b. PICK x : x = [l EXCEPT !.team2 = team2, !.todo = l.team1 \cup team2]
    OBVIOUS
  <2>2. l.game \in GameIds
    BY <1>13 DEF ReadTeam2, GamesInv, HandlersOK, Handling
  <2>3. /\ x \in SessionLoc /\ x.winner = l.winner /\ x.here = l.here
        /\ x.todo = Both(x)
    BY <1>0, <1>10, <2>a, <2>b, <2>2 DEF SessionLoc, Both
  <2>4. LocalsOK'
    <3>1. CASE l.winner = "none"
      <4>1. PICK to : to = PutBack(x, x.todo) /\ Goto(r, to, x)
        BY <1>13, <2>a, <2>b, <2>3, <3>1 DEF ReadTeam2
      <4>2. x.here
        BY <1>0, <1>13, <2>3, <3>1 DEF Fits, Winners
      <4>3. to \in {"unlink", "reactivate"}
        BY <2>3, <3>1, <4>1 DEF PutBack, AfterPlayers
      <4>. QED BY <1>1, <2>3, <4>1, <4>2, <4>3 DEF Fits, Labels
    <3>2. CASE l.winner # "none"
      <4>1. Rated(r, x)
        BY <1>13, <2>a, <2>b, <2>3, <3>2 DEF ReadTeam2
      <4>2. x.winner \in Winners /\ (x.here \/ ~Panel)
        BY <1>0, <2>3, <3>2 DEF SessionLoc, Fits
      <4>. QED BY <1>25, <2>3, <4>1, <4>2
    <3>. QED BY <3>1, <3>2
  <2>. QED BY <1>2, <1>11, <1>13, <2>4 DEF ReadTeam2
<1>15. ASSUME NEW m \in Members, RatePlayer(r, m) PROVE SessionOK'
  <2>1. PICK x : x = [l EXCEPT !.member = m] /\ Goto(r, "mark", x)
    BY <1>15 DEF RatePlayer
  <2>2. /\ x \in SessionLoc /\ x.member = m /\ x.todo = l.todo /\ Both(x) = Both(l)
        /\ x.winner = l.winner /\ x.here = l.here
    BY <1>0, <2>1 DEF SessionLoc, Both
  <2>3. m \in l.todo
    BY <1>15 DEF RatePlayer, RatingTurn
  <2>4. pc[r] = "rate"
    BY <1>15 DEF RatePlayer
  <2>5. LocalsOK'
    BY <1>0, <1>1, <2>1, <2>2, <2>3, <2>4 DEF Fits, Labels
  <2>. QED BY <1>2, <1>11, <1>15, <2>5 DEF RatePlayer
<1>26. CASE MarkResult(r)
  <2>1. pc[r] = "mark" /\ l.winner \in Winners /\ l.todo \subseteq Both(l)
    BY <1>0, <1>26 DEF MarkResult, Fits
  <2>2. LocalsOK'
    <3>1. CASE game[l.game].live
      <4>1. PICK x : x = [l EXCEPT !.todo = @ \ {l.member}] /\ Rated(r, x)
        BY <1>26, <3>1 DEF MarkResult
      <4>2. /\ x \in SessionLoc /\ x.winner = l.winner /\ x.here = l.here
            /\ x.todo \subseteq Both(x)
        BY <1>0, <2>1, <4>1 DEF SessionLoc, Both
      <4>. QED BY <1>0, <1>25, <2>1, <4>1, <4>2 DEF Fits
    <3>2. CASE ~game[l.game].live
      BY <1>26, <3>2, LocalsEnd DEF MarkResult
    <3>. QED BY <3>1, <3>2
  <2>3. scored' \in Totals
    <3>1. CASE scored' = scored
      BY <3>1 DEF HistoryOK
    <3>2. PICK S : scored' = scored \/ scored' = Bump(scored, S)
      BY <1>26 DEF MarkResult
    <3>3. Bump(scored, S) \in Totals
      BY DEF HistoryOK, Bump, Totals
    <3>. QED BY <3>1, <3>2, <3>3
  <2>4. WonBy(r) \subseteq Members
    BY <1>0, <2>1 DEF WonBy, Winners
  <2>. QED BY <1>11, <1>26, <2>2, <2>3, <2>4 DEF MarkResult, HistoryOK
<1>16. CASE LeaveGame(r)
  <2>1. PICK x, to :
          /\ x = [l EXCEPT !.todo = l.todo \ {l.member}]
          /\ to = IF l.winner = "none" THEN PutBack(l, l.todo \ {l.member}) ELSE "markPlayed"
          /\ Goto(r, to, x)
    BY <1>16 DEF LeaveGame
  <2>2. x \in SessionLoc /\ x.member = l.member /\ x.winner = l.winner /\ x.here
    BY <1>0, <1>16, <2>1 DEF SessionLoc, LeaveGame
  <2>3. to \in {"unlink", "reactivate", "markPlayed"}
    BY <2>1 DEF PutBack, AfterPlayers
  <2>4. LocalsOK'
    BY <1>0, <1>1, <1>16, <2>1, <2>2, <2>3 DEF Fits, Labels, LeaveGame
  <2>. QED BY <1>16, <2>4 DEF LeaveGame, DatabaseOK, HistoryOK
<1>17. CASE MarkPlayed(r)
  <2>1. /\ PutBack(l, l.todo) \in {"unlink", "readStats", "reactivate"}
        /\ PutBack(l, l.todo) = "readStats" => l.winner \in Winners
    BY <1>0, <1>14
  <2>2. LocalsOK'
    BY <1>0, <1>1, <1>17, <2>1 DEF Fits, Labels, MarkPlayed
  <2>3. l.member \in Members
    BY <1>0, <1>17 DEF Fits, MarkPlayed
  <2>. QED BY <1>2, <1>17, <2>2, <2>3 DEF MarkPlayed, DatabaseOK
<1>18. CASE Unlink(r)
  <2>1. LocalsOK'
    BY <1>0, <1>1, <1>18 DEF Unlink, Fits, Labels
  <2>2. l.game \in GameIds
    BY <1>18 DEF Unlink, GamesInv, HandlersOK, Handling, Ending
  <2>. QED BY <1>2, <1>7, <1>18, <2>1, <2>2 DEF Unlink
<1>19. CASE DeleteGame(r)
  <2>1. LocalsOK'
    BY <1>19, LocalsEnd DEF DeleteGame
  <2>2. l.game \in GameIds
    BY <1>19 DEF DeleteGame, GamesInv, HandlersOK, Handling, Ending
  <2>. QED BY <1>2, <1>7, <1>19, <2>1, <2>2 DEF DeleteGame
<1>20. CASE ReadStats(r)
  <2>1. PICK x : x = [l EXCEPT !.counts = counts, !.stats = stats] /\ Goto(r, "writeStats", x)
    BY <1>20 DEF ReadStats
  <2>2. x \in SessionLoc /\ x.winner = l.winner /\ x.here
    BY <1>0, <1>20, <2>1 DEF SessionLoc, DatabaseOK, ReadStats
  <2>3. LocalsOK'
    BY <1>0, <1>1, <1>20, <2>1, <2>2 DEF Fits, Labels, ReadStats
  <2>4. \A q \in Requests : WonBy(q) \subseteq Members
    BY DEF WonBy, LocalsOK, SessionLoc, Winners
  <2>5. blurred' \subseteq Members
    BY <1>20, <2>4 DEF ReadStats, HistoryOK
  <2>. QED BY <1>11, <1>20, <2>3, <2>5 DEF ReadStats, HistoryOK
<1>21. CASE WriteStats(r)
  <2>1. LocalsOK'
    BY <1>21, LocalsEnd DEF WriteStats
  <2>2. l.winner \in Winners /\ l.counts \in Maps
    BY <1>0, <1>21 DEF WriteStats, Fits, SessionLoc
  <2>3. stats' \in StatsRow /\ counts' \in Maps
    BY <1>0, <1>21, <2>2, UpdatedOK, CountsOK DEF WriteStats, Both
  <2>. QED BY <1>2, <1>21, <2>1, <2>3 DEF WriteStats, DatabaseOK
<1>22. CASE CheckPlayed(r)
  <2>1. PICK to \in {"seed", "join"} : Goto(r, to, l)
    BY <1>22 DEF CheckPlayed
  <2>2. LocalsOK'
    BY <1>0, <1>1, <1>22, <2>1 DEF Fits, Labels, CheckPlayed
  <2>. QED BY <1>2, <1>11, <1>22, <2>2 DEF CheckPlayed
<1>23. CASE SeedCount(r)
  <2>1. LocalsOK'
    BY <1>0, <1>1, <1>23 DEF Fits, Labels, SeedCount
  <2>2. counts' \in Maps
    BY <1>0, <1>23, CountsOK DEF SeedCount, Fits, SessionLoc
  <2>. QED BY <1>2, <1>23, <2>1, <2>2 DEF SeedCount, DatabaseOK
<1>24. CASE Join(r)
  <2>1. LocalsOK'
    BY <1>24, LocalsEnd DEF Join
  <2>2. l.member \in Members
    BY <1>0, <1>24 DEF Fits, Join
  <2>. QED BY <1>2, <1>24, <2>1, <2>2 DEF Join, DatabaseOK
<1>. QED
  BY <1>3, <1>4, <1>5, <1>6, <1>8, <1>9, <1>12, <1>13, <1>15, <1>16, <1>17, <1>18, <1>19,
     <1>20, <1>21, <1>22, <1>23, <1>24, <1>26 DEF Step

LEMMA DropSession ==
    ASSUME SessionOK, FlightOK, GamesInv, NEW r \in Requests, Drop(r)
    PROVE  SessionOK'
<1>1. LocalsOK'
  BY LocalsEnd DEF Drop, SessionOK
<1>2. HistoryOK'
  <2>1. dropped' \subseteq Members
    <3>1. CASE loc[r].game = None
      BY <3>1 DEF Drop, SessionOK, HistoryOK
    <3>2. CASE loc[r].game # None
      <4>1. game[loc[r].game] \in GameRow
        BY <3>2 DEF SessionOK, LocalsOK, SessionLoc, DatabaseOK
      <4>. QED BY <3>2, <4>1 DEF Drop, SessionOK, HistoryOK, Players, GameRow
    <3>. QED BY <3>1, <3>2
  <2>2. drops' \in 0..MaxDrops
    BY SessionAssumption DEF Drop, SessionOK, HistoryOK
  <2>3. WonBy(r) \subseteq Members
    BY DEF WonBy, SessionOK, LocalsOK, SessionLoc, Winners
  <2>. QED BY <2>1, <2>2, <2>3 DEF Drop, SessionOK, HistoryOK
<1>. QED BY <1>1, <1>2 DEF Drop, SessionOK, DatabaseOK, database

LEMMA OthersSession ==
    ASSUME SessionOK, CreateElsewhere \/ \E g \in GameIds : DeleteElsewhere(g)
    PROVE  SessionOK'
<1>1. game' \in [GameIds -> GameRow]
  <2>1. CASE CreateElsewhere
    <3>1. PICK g \in Unused, teams \in PegTeams :
            game' = [game EXCEPT ![g] = [NoGame EXCEPT !.live = TRUE, !.link = "elsewhere",
                                                !.team1 = teams[1], !.team2 = teams[2]]]
      BY <2>1 DEF CreateElsewhere
    <3>2. teams[1] \subseteq Members /\ teams[2] \subseteq Members
      BY SessionAssumption
    <3>3. [NoGame EXCEPT !.live = TRUE, !.link = "elsewhere",
                         !.team1 = teams[1], !.team2 = teams[2]] \in GameRow
      BY <3>2 DEF NoGame, GameRow
    <3>. QED BY <3>1, <3>3 DEF SessionOK, DatabaseOK
  <2>2. ASSUME NEW g \in GameIds, DeleteElsewhere(g) PROVE game' \in [GameIds -> GameRow]
    <3>1. [game[g] EXCEPT !.live = FALSE] \in GameRow
      BY DEF SessionOK, DatabaseOK, GameRow
    <3>. QED BY <2>2, <3>1 DEF DeleteElsewhere, SessionOK, DatabaseOK
  <2>. QED BY <2>1, <2>2
<1>. QED
  BY <1>1, OthersStatsStay DEF SessionOK, LocalsOK, DatabaseOK, HistoryOK, history

LEMMA SessionInvariant == Spec => []SessionOK
<1>1. Init => SessionOK
  <2>. SUFFICES ASSUME Init PROVE SessionOK
    OBVIOUS
  <2>1. LocalsOK
    BY NoLocalsOK DEF Init, LocalsOK, Labels, Fits, NoLocals
  <2>2. NoGame \in GameRow
    BY DEF NoGame, GameRow
  <2>3. DatabaseOK
    BY <2>2, NoLocalsOK DEF Init, DatabaseOK
  <2>4. HistoryOK
    BY SessionAssumption DEF Init, HistoryOK, Zero, Totals
  <2>. QED BY <2>1, <2>3, <2>4 DEF SessionOK
<1>2. FlightOK /\ GamesInv /\ SessionOK /\ [Next]_vars => SessionOK'
  <2>1. FlightOK /\ GamesInv /\ SessionOK /\ Next => SessionOK'
    BY BeginSession, StepSession, DropSession, OthersSession DEF Next
  <2>2. SessionOK /\ UNCHANGED vars => SessionOK'
    BY DEF vars, database, history, SessionOK, LocalsOK, DatabaseOK, HistoryOK
  <2>. QED BY <2>1, <2>2
<1>. QED BY <1>1, <1>2, FlightInvariant, GamesInvariant, PTL DEF Spec

\* The tables, the maps of statistics and the counts hold what their columns
\* may hold: no count is negative, and the keys of the maps are members
\* (parse_int_map, the stat transforms, min_matches).
THEOREM SessionIsTyped == Spec => []TypeOK
<1>1. SessionOK => TypeOK
  <2>1. SessionOK => Partial(counts) /\ Partial(stats.best)
    BY MapsAre DEF SessionOK, DatabaseOK, StatsRow
  <2>. QED BY <2>1 DEF SessionOK, DatabaseOK, LocalsOK, HistoryOK, StatsRow, TypeOK
<1>. QED BY <1>1, SessionInvariant, PTL DEF Spec

-----------------------------------------------------------------------------
\* Streaks, in the database and in what is read of it.

AreWins(st) ==
    /\ \A m \in Members : st.winstreaks[m] <= st.wins[m]
    /\ \A m \in DOMAIN st.best :
          /\ st.best[m] <= st.wins[m]
          /\ \A n \in DOMAIN st.best : st.best[n] = st.best[m]

StreaksInv ==
    /\ AreWins(stats)
    /\ \A r \in Requests : pc[r] = "writeStats" => AreWins(loc[r].stats)

\* Whoever leads has the streak that counts as the best, which is one of wins;
\* whoever stays has the same, as those who led had all the same.
LEMMA UpdatedAreWins ==
    ASSUME NEW l \in SessionLoc, l.winner \in Winners, AreWins(l.stats)
    PROVE  AreWins(Updated(l))
<1>1. /\ l.stats.wins \in Totals /\ l.stats.winstreaks \in Totals /\ l.stats.best \in Maps
      /\ l[l.winner] \subseteq Members
  BY DEF SessionLoc, StatsRow, Winners
<1>a. PICK wins : wins = Bump(l.stats.wins, l[l.winner])
  OBVIOUS
<1>2. /\ wins \in Totals
      /\ \A m \in Members : wins[m] = IF m \in l[l.winner] THEN l.stats.wins[m] + 1
                                                            ELSE l.stats.wins[m]
  BY <1>1, <1>a DEF Bump, Totals
<1>b. PICK streaks : streaks = Streaks(l.stats.winstreaks, wins, l)
  OBVIOUS
<1>3. streaks \in Totals /\ \A m \in Members : streaks[m] <= wins[m]
  BY <1>1, <1>2, <1>b DEF Streaks, Totals, AreWins
<1>c. PICK before : before = l.stats.best
  OBVIOUS
<1>4. \A m \in DOMAIN before :
          /\ m \in Members /\ before[m] \in Nat /\ before[m] <= wins[m]
          /\ \A n \in DOMAIN before : before[n] = before[m]
  <2>1. PICK D \in SUBSET Members : before \in [D -> Nat]
    BY <1>1, <1>c DEF Maps
  <2>. QED BY <1>1, <1>2, <1>c, <2>1 DEF AreWins, Totals
<1>d. PICK best : best = RaiseBest(before, l[l.winner], streaks, l.winner = "team1")
  OBVIOUS
<1>5. \A m \in DOMAIN best : best[m] <= wins[m] /\ \A n \in DOMAIN best : best[n] = best[m]
  <2>1. CASE best = before
    BY <1>4, <2>1
  <2>2. CASE best # before
    <3>1. PICK standing : standing = {before[n] : n \in DOMAIN before}
      OBVIOUS
    <3>2. PICK top : top = Max(standing \cup {streaks[m] : m \in l[l.winner]})
      OBVIOUS
    <3>3. PICK leaders : leaders = {m \in l[l.winner] : streaks[m] = top}
      OBVIOUS
    <3>4. PICK stay : stay = IF top \in standing THEN DOMAIN before ELSE {}
      OBVIOUS
    <3>5. best = [n \in stay \cup leaders |-> IF n \in leaders THEN top ELSE before[n]]
      BY <1>c, <1>d, <2>2, <3>1, <3>2, <3>3, <3>4 DEF RaiseBest
    <3>6. \A n \in leaders : n \in Members /\ top <= wins[n]
      BY <1>1, <1>3, <3>3
    <3>7. \A n \in stay : n \in DOMAIN before /\ before[n] = top /\ top <= wins[n]
      BY <1>4, <3>1, <3>4
    <3>8. \A n \in DOMAIN best : best[n] = top /\ top <= wins[n]
      BY <3>5, <3>6, <3>7
    <3>. QED BY <3>8
  <2>. QED BY <2>1, <2>2
<1>6. Updated(l).wins = wins /\ Updated(l).winstreaks = streaks /\ Updated(l).best = best
  BY <1>a, <1>b, <1>c, <1>d DEF Updated
<1>. QED BY <1>3, <1>5, <1>6 DEF AreWins

LEMMA NextStreaks ==
    ASSUME FlightOK, SessionOK, StreaksInv, [Next]_vars
    PROVE  StreaksInv'
<1>1. CASE UNCHANGED vars
  BY <1>1 DEF StreaksInv, AreWins, vars, database
<1>4. ASSUME NEW r \in Requests, ReadStats(r) PROVE StreaksInv'
  <2>1. PICK x : x = [loc[r] EXCEPT !.counts = counts, !.stats = stats] /\ Goto(r, "writeStats", x)
    BY <1>4 DEF ReadStats
  <2>2. x.stats = stats /\ UNCHANGED stats
    BY <1>4, <2>1 DEF ReadStats, database, FlightOK, RequestsOK, Fields
  <2>3. loc'[r] = x /\ \A q \in Requests \ {r} : pc'[q] = pc[q] /\ loc'[q] = loc[q]
    BY <2>1, GoesTo
  <2>. QED BY <2>2, <2>3 DEF StreaksInv, AreWins
<1>5. ASSUME NEW r \in Requests, WriteStats(r) PROVE StreaksInv'
  <2>1. pc'[r] = "idle" /\ \A q \in Requests \ {r} : pc'[q] = pc[q] /\ loc'[q] = loc[q]
    BY <1>5, GoesTo DEF WriteStats, Done
  <2>2. stats' = Updated(loc[r]) /\ AreWins(loc[r].stats)
    BY <1>5 DEF WriteStats, StreaksInv
  <2>3. loc[r] \in SessionLoc /\ loc[r].winner \in Winners
    BY <1>5 DEF WriteStats, SessionOK, LocalsOK, Fits
  <2>4. AreWins(Updated(loc[r]))
    BY <2>2, <2>3, UpdatedAreWins
  <2>5. AreWins(stats')
    BY <2>2, <2>4
  <2>. QED BY <2>1, <2>5 DEF StreaksInv, AreWins
<1>6. ASSUME NEW r \in Requests, Begin(r) \/ Step(r) \/ Drop(r), ~ReadStats(r), ~WriteStats(r)
      PROVE  StreaksInv'
  BY <1>6, OthersStay, StatsStay DEF StreaksInv, AreWins
<1>7. CASE CreateElsewhere \/ \E g \in GameIds : DeleteElsewhere(g)
  BY <1>7, OthersStatsStay DEF StreaksInv, AreWins
<1>. QED BY <1>1, <1>4, <1>5, <1>6, <1>7 DEF Next

\* A winning streak, and the best of the event, never exceeds the wins it is
\* made of, and whoever is listed with the best has the same: the code adds to
\* three maps that it read and writes back apart (events.rs:83-142).
THEOREM StreaksStayWins == Spec => []StreaksAreWins
<1>1. Init => StreaksInv
  BY DEF Init, StreaksInv, AreWins, NoStats, Zero, Empty
<1>2. StreaksInv => StreaksAreWins
  BY DEF StreaksInv, AreWins, StreaksAreWins
<1>. QED BY <1>1, <1>2, NextStreaks, FlightInvariant, SessionInvariant, PTL DEF Spec

-----------------------------------------------------------------------------
\* Wins, and the marks in the rating rows.

Owing(m) == {r \in Requests : Owes(r, m)}

Behind(wins) == \A m \in Members : wins[m] + Cardinality(Owing(m)) <= scored[m]

\* Where completions overlap over the statistics, their winners are blurred;
\* for all others, what is read is still so when it is written back.
CreditInv ==
    /\ Behind(stats.wins)
    /\ \A r \in Requests : pc[r] = "writeStats" =>
          /\ Behind(loc[r].stats.wins)
          /\ \A q \in Requests \ {r} : pc[q] = "writeStats" => WonBy(r) \subseteq blurred
          /\ \A m \in Members \ blurred : loc[r].stats.wins[m] = stats.wins[m]
    /\ \A m \in Members \ blurred : scored[m] = stats.wins[m] + Cardinality(Owing(m))

LEMMA OwingIsFinite ==
    ASSUME NEW m
    PROVE  IsFiniteSet(Owing(m)) /\ Cardinality(Owing(m)) \in Nat
<1>1. Owing(m) \in SUBSET Requests
  BY DEF Owing
<1>. QED BY <1>1, FS_Subset, FS_CardinalityType, SessionAssumption

\* What a step makes of the completions that owe m a win.
LEMMA OwingCount ==
    ASSUME NEW m, NEW r \in Requests
    PROVE  /\ Cardinality(Owing(m)) \in Nat /\ Cardinality(Owing(m)') \in Nat
           /\ Owing(m)' \subseteq Owing(m) => Cardinality(Owing(m)') <= Cardinality(Owing(m))
           /\ r \notin Owing(m) /\ Owing(m)' = Owing(m) \cup {r} =>
                 Cardinality(Owing(m)') = Cardinality(Owing(m)) + 1
           /\ r \in Owing(m) /\ Owing(m)' = Owing(m) \ {r} =>
                 Cardinality(Owing(m)') = Cardinality(Owing(m)) - 1
<1>. PICK S : S = Owing(m)
  OBVIOUS
<1>. PICK T : T = Owing(m)'
  OBVIOUS
<1>1. S \in SUBSET Requests /\ T \in SUBSET Requests
  BY DEF Owing
<1>2. /\ IsFiniteSet(S) /\ IsFiniteSet(T) /\ Cardinality(S) \in Nat /\ Cardinality(T) \in Nat
  BY <1>1, FS_Subset, FS_CardinalityType, SessionAssumption
<1>3. T \subseteq S => Cardinality(T) <= Cardinality(S)
  BY <1>2, FS_Subset
<1>4. r \notin S => Cardinality(S \cup {r}) = Cardinality(S) + 1
  BY <1>2, FS_AddElement
<1>5. r \in S => Cardinality(S \ {r}) = Cardinality(S) - 1
  BY <1>2, FS_RemoveElement
<1>. QED BY <1>2, <1>3, <1>4, <1>5

LEMMA SameWinners ==
    ASSUME FlightOK, NEW r \in Requests, loc[r].winner \in Winners \cup {"none"},
           \A f \in {"here", "winner", "team1", "team2"} : loc'[r][f] = loc[r][f]
    PROVE  WonBy(r)' = WonBy(r)
BY DEF WonBy, Winners

\* A completion that goes on from the rating rows owes for who is done there.
LEMMA RatedOwes ==
    ASSUME FlightOK, NEW r \in Requests, NEW x, DOMAIN x = Fields, Rated(r, x),
           x.winner \in Winners
    PROVE  \A m : Owes(r, m)' <=> x.here /\ m \in x[x.winner] \ x.todo
<1>1. CASE x.todo # {}
  <2>1. pc'[r] = "rate" /\ loc'[r] = x
    BY <1>1, RatedGoes
  <2>2. WonBy(r)' = IF x.here THEN x[x.winner] ELSE {}
    BY <2>1 DEF WonBy, Winners
  <2>. QED BY <2>1, <2>2 DEF Owes
<1>2. CASE x.todo = {} /\ x.here
  <2>1. /\ pc'[r] = PutBack(x, Both(x))
        /\ \A f \in Fields \ {"todo"} : loc'[r][f] = x[f]
    BY <1>2, RatedGoes
  <2>2. pc'[r] \in {"reactivate", "readStats"}
    BY <2>1 DEF PutBack, AfterPlayers, Winners
  <2>3. WonBy(r)' = x[x.winner]
    BY <1>2, <2>1 DEF WonBy, Winners, Fields
  <2>. QED BY <1>2, <2>2, <2>3 DEF Owes
<1>3. CASE x.todo = {} /\ ~x.here
  <2>1. pc'[r] = "idle"
    BY <1>3, RatedGoes
  <2>. QED BY <1>3, <2>1 DEF Owes
<1>. QED BY <1>1, <1>2, <1>3

\* The steps at which nobody's due changes: all but a mark, a stop and the
\* writing of the statistics.
LEMMA OwesKept ==
    ASSUME FlightOK, SessionOK, NEW r \in Requests, Begin(r) \/ Step(r),
           ~MarkResult(r), ~WriteStats(r)
    PROVE  \A m : Owes(r, m)' <=> Owes(r, m)
<1>0. /\ loc[r].winner \in Winners \cup {"none"} /\ Fits(pc[r], loc[r])
      /\ loc[r].here \in BOOLEAN
  BY DEF SessionOK, LocalsOK, SessionLoc
<1>. DEFINE Due == {"rate", "mark"} \cup Moving \cup {"readStats", "writeStats"}
<1>1. ASSUME pc[r] \notin Due, pc'[r] \notin Due
      PROVE  \A m : Owes(r, m)' <=> Owes(r, m)
  BY <1>1 DEF Owes, Moving
<1>. USE DEF Goto, FlightOK, RequestsOK, Fields
<1>2. CASE Begin(r)
  <2>1. pc[r] = "idle" /\ pc'[r] \notin Due
    BY <1>2 DEF Begin, BeginCreate, CreatePeg, InsertGame, BeginDelete, BeginComplete,
      BeginActivate, DeactivateMember, Start, Moving
  <2>. QED BY <1>1, <2>1 DEF Moving
<1>3. CASE ReadTeam2(r)
  <2>1. PICK x : /\ DOMAIN x = Fields /\ x.todo = Both(x) /\ x.winner = loc[r].winner
                 /\ IF x.winner = "none" THEN pc'[r] = PutBack(x, Both(x)) /\ loc'[r] = x
                    ELSE Rated(r, x)
    BY <1>3, ReadTeam2Goes
  <2>2. \A m : ~Owes(r, m)
    BY <1>3 DEF ReadTeam2, Owes
  <2>3. CASE x.winner = "none"
    <3>1. WonBy(r)' = {}
      BY <2>1, <2>3 DEF WonBy
    <3>. QED BY <2>2, <3>1 DEF Owes
  <2>4. CASE x.winner # "none"
    <3>1. \A m : Owes(r, m)' <=> x.here /\ m \in x[x.winner] \ x.todo
      BY <1>0, <2>1, <2>4, RatedOwes
    <3>2. x[x.winner] \subseteq x.todo
      BY <1>0, <2>1, <2>4 DEF Both, Winners
    <3>. QED BY <2>2, <3>1, <3>2
  <2>. QED BY <2>3, <2>4
<1>4. ASSUME NEW m \in Members, RatePlayer(r, m)
      PROVE  \A n : Owes(r, n)' <=> Owes(r, n)
  <2>1. /\ pc[r] = "rate" /\ pc'[r] = "mark" /\ loc'[r].todo = loc[r].todo
        /\ \A f \in {"here", "winner", "team1", "team2"} : loc'[r][f] = loc[r][f]
    BY <1>4 DEF RatePlayer
  <2>. QED BY <1>0, <2>1, SameWinners DEF Owes
<1>5. ASSUME pc[r] \in Moving \cup {"readStats"},
             pc'[r] \in Moving \cup {"readStats", "writeStats"} \/ loc[r].winner = "none",
             \A f \in {"here", "winner", "team1", "team2"} : loc'[r][f] = loc[r][f]
      PROVE  \A m : Owes(r, m)' <=> Owes(r, m)
  <2>1. WonBy(r)' = WonBy(r) /\ (loc[r].winner = "none" => WonBy(r) = {})
    BY <1>0, <1>5, SameWinners DEF WonBy
  <2>2. CASE loc[r].winner = "none"
    BY <2>1, <2>2 DEF Owes
  <2>3. CASE loc[r].winner # "none"
    BY <1>5, <2>1, <2>3 DEF Owes, Moving
  <2>. QED BY <2>2, <2>3
<1>6. CASE \E m \in Members : Reactivate(r, m)
  BY <1>5, <1>6 DEF Reactivate, Moving
<1>7. CASE LeaveGame(r)
  BY <1>5, <1>7 DEF LeaveGame, Moving
<1>8. CASE MarkPlayed(r)
  BY <1>0, <1>5, <1>8 DEF MarkPlayed, PutBack, AfterPlayers, Moving
<1>9. CASE ReadStats(r)
  BY <1>5, <1>9 DEF ReadStats, Moving
<1>10. CASE /\ Step(r) /\ ~ReadTeam2(r) /\ ~LeaveGame(r) /\ ~MarkPlayed(r) /\ ~ReadStats(r)
            /\ \A m \in Members : ~Reactivate(r, m) /\ ~RatePlayer(r, m)
  <2>1. pc[r] \notin Due /\ pc'[r] \notin Due
    BY <1>10 DEF Step, ChooseTeams, InsertGame, TakeFromActive, PutInGame, LinkGame, SetScore,
      ReadTeam1, Unlink, DeleteGame, CheckPlayed, SeedCount, Join, Done, Moving
  <2>. QED BY <1>1, <2>1
<1>. QED BY <1>2, <1>3, <1>4, <1>6, <1>7, <1>8, <1>9, <1>10

\* A step adds to what a member is owed with a mark, and drops of it only what
\* is blurred.
LEMMA OwingStep ==
    ASSUME FlightOK, SessionOK, NEW r \in Requests, Begin(r) \/ Step(r) \/ Drop(r),
           ~WriteStats(r), NEW m \in Members
    PROVE  /\ blurred \subseteq blurred'
           /\ \/ scored'[m] = scored[m] /\ Owing(m)' = Owing(m)
              \/ /\ scored'[m] = scored[m] + 1
                 /\ r \notin Owing(m) /\ Owing(m)' = Owing(m) \cup {r}
              \/ scored'[m] = scored[m] /\ Owing(m)' \subseteq Owing(m) /\ m \in blurred'
<1>0. ASSUME NEW q \in Requests \ {r} PROVE Owes(q, m)' <=> Owes(q, m)
  <2>1. pc'[q] = pc[q] /\ loc'[q] = loc[q]
    BY OthersStay
  <2>. QED BY <2>1 DEF Owes, WonBy
<1>1. CASE MarkResult(r)
  <2>1. /\ pc[r] = "mark" /\ loc[r].winner \in Winners /\ loc[r].member \in loc[r].todo
        /\ scored \in Totals
    BY <1>1 DEF MarkResult, SessionOK, LocalsOK, Fits, HistoryOK
  <2>2. CASE game[loc[r].game].live
    <3>1. PICK x : /\ DOMAIN x = Fields /\ x.todo = loc[r].todo \ {loc[r].member}
                   /\ \A f \in Fields \ {"todo"} : x[f] = loc[r][f]
                   /\ Rated(r, x)
      BY <1>1, <2>2, MarkGoes
    <3>2. WonBy(r) = IF x.here THEN x[x.winner] ELSE {}
      BY <2>1, <3>1 DEF WonBy, Fields, Winners
    <3>3. /\ Owes(r, m)' <=> m \in WonBy(r) /\ (m \notin loc[r].todo \/ m = loc[r].member)
          /\ Owes(r, m) <=> m \in WonBy(r) /\ m \notin loc[r].todo
      <4>1. Owes(r, m)' <=> x.here /\ m \in x[x.winner] \ x.todo
        BY <2>1, <3>1, RatedOwes DEF Fields
      <4>2. Owes(r, m) <=> m \in WonBy(r) /\ m \notin loc[r].todo
        BY <2>1 DEF Owes
      <4>. QED BY <3>1, <3>2, <4>1, <4>2
    <3>4. blurred' = blurred /\ scored' = Bump(scored, {loc[r].member} \cap WonBy(r))
      BY <1>1, <2>2 DEF MarkResult
    <3>5. scored'[m] = IF m = loc[r].member /\ m \in WonBy(r) THEN scored[m] + 1 ELSE scored[m]
      BY <2>1, <3>4 DEF Bump, Totals
    <3>6. CASE m = loc[r].member /\ m \in WonBy(r)
      BY <1>0, <2>1, <3>3, <3>4, <3>5, <3>6 DEF Owing
    <3>7. CASE ~(m = loc[r].member /\ m \in WonBy(r))
      BY <1>0, <2>1, <3>3, <3>4, <3>5, <3>7 DEF Owing
    <3>. QED BY <3>6, <3>7
  <2>3. CASE ~game[loc[r].game].live
    <3>1. /\ scored' = scored /\ blurred' = blurred \cup WonBy(r) /\ pc'[r] = "idle"
      BY <1>1, <2>3 DEF MarkResult, Done, Goto, FlightOK, RequestsOK
    <3>2. ~Owes(r, m)' /\ (Owes(r, m) => m \in blurred')
      BY <3>1 DEF Owes
    <3>. QED BY <1>0, <3>1, <3>2 DEF Owing
  <2>. QED BY <2>2, <2>3
<1>2. CASE Drop(r)
  <2>1. scored' = scored /\ blurred' = blurred \cup WonBy(r) /\ pc'[r] = "idle"
    BY <1>2 DEF Drop, Done, Goto, FlightOK, RequestsOK
  <2>2. ~Owes(r, m)' /\ (Owes(r, m) => m \in blurred')
    BY <2>1 DEF Owes
  <2>. QED BY <1>0, <2>1, <2>2 DEF Owing
<1>3. CASE (Begin(r) \/ Step(r)) /\ ~MarkResult(r)
  <2>1. Owing(m)' = Owing(m)
    BY <1>0, <1>3, OwesKept DEF Owing
  <2>2. scored' = scored /\ blurred \subseteq blurred'
    BY <1>3 DEF Begin, BeginCreate, CreatePeg, InsertGame, BeginDelete, BeginComplete,
      BeginActivate, DeactivateMember, Step, ChooseTeams, TakeFromActive, Reactivate,
      PutInGame, LinkGame, SetScore, ReadTeam1, ReadTeam2, RatePlayer, LeaveGame,
      MarkPlayed, Unlink, DeleteGame, ReadStats, CheckPlayed, SeedCount, Join, history
  <2>. QED BY <2>1, <2>2
<1>. QED BY <1>1, <1>2, <1>3

\* What follows of the counts, for any map of wins.
LEMMA OwingArithmetic ==
    ASSUME FlightOK, SessionOK, NEW r \in Requests, Begin(r) \/ Step(r) \/ Drop(r),
           ~WriteStats(r), NEW wins \in Totals, NEW m \in Members
    PROVE  /\ wins[m] + Cardinality(Owing(m)) <= scored[m] =>
                 wins[m] + Cardinality(Owing(m)') <= scored'[m]
           /\ m \notin blurred' /\ scored[m] = wins[m] + Cardinality(Owing(m)) =>
                 scored'[m] = wins[m] + Cardinality(Owing(m)')
<1>1. wins[m] \in Nat /\ scored[m] \in Nat
  BY DEF SessionOK, HistoryOK, Totals
<1>2. PICK k, n : k = Cardinality(Owing(m)) /\ n = Cardinality(Owing(m)')
  OBVIOUS
<1>3. k \in Nat /\ n \in Nat
  BY <1>2, OwingCount
<1>4. \/ scored'[m] = scored[m] /\ n = k
      \/ scored'[m] = scored[m] + 1 /\ n = k + 1
      \/ scored'[m] = scored[m] /\ n <= k /\ m \in blurred'
  BY <1>2, OwingStep, OwingCount
<1>. QED BY <1>1, <1>2, <1>3, <1>4

LEMMA NextCredits ==
    ASSUME FlightOK, SessionOK, CreditInv, [Next]_vars
    PROVE  CreditInv'
<1>. DEFINE After(wins) == \A m \in Members : wins[m] + Cardinality(Owing(m)') <= scored'[m]
<1>0. /\ stats.wins \in Totals /\ scored \in Totals
      /\ \A q \in Requests : loc[q].stats.wins \in Totals
  BY DEF SessionOK, DatabaseOK, HistoryOK, LocalsOK, SessionLoc, StatsRow
<1>1. CASE UNCHANGED <<stats, pc, loc, history>>
  <2>1. \A m : Owing(m)' = Owing(m)
    BY <1>1 DEF Owing, Owes, WonBy
  <2>. QED BY <1>1, <2>1 DEF history, CreditInv, Behind, WonBy
<1>2. ASSUME NEW r \in Requests, Begin(r) \/ Step(r) \/ Drop(r), ~WriteStats(r)
      PROVE  CreditInv'
  <2>1. \A q \in Requests \ {r} : pc'[q] = pc[q] /\ loc'[q] = loc[q] /\ WonBy(q)' = WonBy(q)
    BY <1>2, OthersStay DEF WonBy
  <2>2. stats' = stats
    <3>1. CASE ReadStats(r)
      BY <3>1 DEF ReadStats, database
    <3>. QED BY <1>2, <3>1, StatsStay
  <2>3. \A m \in Members : m \in blurred => m \in blurred'
    BY <1>2, OwingStep
  <2>4. ASSUME NEW wins \in Totals, Behind(wins) PROVE After(wins)
    BY <1>2, <2>4, OwingArithmetic DEF Behind
  <2>5. After(stats'.wins)
    BY <1>0, <2>2, <2>4 DEF CreditInv
  <2>6. ASSUME NEW m \in Members \ blurred'
        PROVE  scored'[m] = stats'.wins[m] + Cardinality(Owing(m)')
    BY <1>0, <1>2, <2>2, <2>3, OwingArithmetic DEF CreditInv
  <2>7. ASSUME NEW q \in Requests, pc'[q] = "writeStats"
        PROVE  /\ After(loc'[q].stats.wins)
               /\ \A p \in Requests \ {q} : pc'[p] = "writeStats" => WonBy(q)' \subseteq blurred'
               /\ \A m \in Members \ blurred' : loc'[q].stats.wins[m] = stats'.wins[m]
    <3>1. CASE ReadStats(r)
      <4>1. /\ loc'[r].stats = stats /\ pc[r] = "readStats"
            /\ \A f \in {"here", "winner", "team1", "team2"} : loc'[r][f] = loc[r][f]
        BY <3>1 DEF ReadStats, Goto, FlightOK, RequestsOK, Fields
      <4>2. WonBy(r)' = WonBy(r)
        BY <4>1, SameWinners DEF SessionOK, LocalsOK, SessionLoc
      <4>3. /\ blurred \subseteq blurred'
            /\ \A p \in Requests : pc[p] = "writeStats" =>
                  WonBy(p) \subseteq blurred' /\ WonBy(r) \subseteq blurred'
        BY <3>1 DEF ReadStats
      <4>4. CASE q = r
        BY <1>0, <2>1, <2>2, <2>5, <4>1, <4>2, <4>3, <4>4
      <4>5. CASE q # r
        <5>1. pc[q] = "writeStats" /\ loc'[q] = loc[q] /\ WonBy(q)' = WonBy(q)
          BY <2>1, <2>7, <4>5
        <5>2. After(loc[q].stats.wins)
          BY <1>0, <2>4, <5>1 DEF CreditInv
        <5>. QED BY <2>2, <2>3, <4>3, <5>1, <5>2 DEF CreditInv
      <4>. QED BY <4>4, <4>5
    <3>2. CASE ~ReadStats(r)
      <4>1. pc'[r] # "writeStats"
        BY <1>2, <3>2, StatsStay
      <4>2. q # r /\ pc[q] = "writeStats" /\ loc'[q] = loc[q] /\ WonBy(q)' = WonBy(q)
        BY <2>1, <2>7, <4>1
      <4>3. After(loc[q].stats.wins)
        BY <1>0, <2>4, <4>2 DEF CreditInv
      <4>4. \A p \in Requests \ {q} : pc'[p] = "writeStats" => pc[p] = "writeStats"
        BY <2>1, <4>1
      <4>5. WonBy(q) \subseteq Members
        BY DEF WonBy, SessionOK, LocalsOK, SessionLoc, Winners
      <4>. QED BY <2>2, <2>3, <4>2, <4>3, <4>4, <4>5 DEF CreditInv
    <3>. QED BY <3>1, <3>2
  <2>. QED BY <2>5, <2>6, <2>7 DEF CreditInv, Behind
<1>3. ASSUME NEW r \in Requests, WriteStats(r) PROVE CreditInv'
  <2>0. /\ pc[r] = "writeStats" /\ pc'[r] = "idle" /\ UNCHANGED history
        /\ \A q \in Requests \ {r} : pc'[q] = pc[q] /\ loc'[q] = loc[q] /\ WonBy(q)' = WonBy(q)
    BY <1>3, GoesTo DEF WriteStats, Done, WonBy
  <2>1. \A m : Owing(m)' = Owing(m) \ {r} /\ (r \in Owing(m) <=> m \in WonBy(r))
    BY <2>0 DEF Owing, Owes
  <2>2. /\ loc[r].stats.wins \in Totals /\ Behind(loc[r].stats.wins)
        /\ \A m \in Members \ blurred : loc[r].stats.wins[m] = stats.wins[m]
    BY <1>0, <2>0 DEF CreditInv
  <2>3. \A m \in Members : stats'.wins[m] = IF m \in WonBy(r) THEN loc[r].stats.wins[m] + 1
                                             ELSE loc[r].stats.wins[m]
    <3>1. stats'.wins = Bump(loc[r].stats.wins, loc[r][loc[r].winner])
      BY <1>3 DEF WriteStats, Updated
    <3>2. WonBy(r) = loc[r][loc[r].winner]
      BY <2>0 DEF WonBy, SessionOK, LocalsOK, Fits, Winners, Early
    <3>. QED BY <2>2, <3>1, <3>2 DEF Bump, Totals
  <2>4. ASSUME NEW m \in Members
        PROVE  /\ stats'.wins[m] + Cardinality(Owing(m)') <= scored'[m]
               /\ m \notin blurred' => scored'[m] = stats'.wins[m] + Cardinality(Owing(m)')
               /\ \A wins \in Totals : wins[m] + Cardinality(Owing(m)) <= scored[m] =>
                      wins[m] + Cardinality(Owing(m)') <= scored'[m]
    <3>1. PICK k, n, w, s, v : /\ k = Cardinality(Owing(m)) /\ n = Cardinality(Owing(m)')
                               /\ w = loc[r].stats.wins[m] /\ s = scored[m] /\ v = stats'.wins[m]
      OBVIOUS
    <3>2. k \in Nat /\ n \in Nat /\ w \in Nat /\ s \in Nat
      BY <1>0, <2>2, <3>1, OwingCount DEF Totals
    <3>3. IF m \in WonBy(r) THEN n = k - 1 /\ v = w + 1 ELSE n = k /\ v = w
      BY <2>1, <2>3, <3>1, OwingCount
    <3>4. w + k <= s /\ scored'[m] = s
      BY <2>0, <2>2, <3>1 DEF Behind, history
    <3>5. m \notin blurred' => s = w + k
      BY <2>0, <2>2, <3>1 DEF CreditInv, history
    <3>6. v + n <= s /\ (m \notin blurred' => s = v + n)
      BY <3>2, <3>3, <3>4, <3>5
    <3>7. \A wins \in Totals : wins[m] + k <= s => wins[m] + n <= s
      BY <3>2, <3>3 DEF Totals
    <3>. QED BY <3>1, <3>4, <3>6, <3>7
  <2>5. ASSUME NEW q \in Requests, pc'[q] = "writeStats"
        PROVE  /\ After(loc'[q].stats.wins)
               /\ \A p \in Requests \ {q} : pc'[p] = "writeStats" => WonBy(q)' \subseteq blurred'
               /\ \A m \in Members \ blurred' : loc'[q].stats.wins[m] = stats'.wins[m]
    <3>1. q # r /\ pc[q] = "writeStats" /\ loc'[q] = loc[q] /\ WonBy(q)' = WonBy(q)
      BY <2>0, <2>5
    <3>2. After(loc[q].stats.wins)
      BY <1>0, <2>4, <3>1 DEF Behind, CreditInv
    <3>3. \A p \in Requests \ {q} : pc'[p] = "writeStats" => pc[p] = "writeStats"
      BY <2>0
    <3>4. WonBy(r) \subseteq blurred /\ blurred' = blurred
      BY <2>0, <3>1 DEF CreditInv, history
    <3>. QED BY <2>2, <2>3, <3>1, <3>2, <3>3, <3>4 DEF CreditInv
  <2>. QED BY <2>4, <2>5 DEF CreditInv, Behind
<1>4. CASE CreateElsewhere \/ \E g \in GameIds : DeleteElsewhere(g)
  BY <1>1, <1>4, OthersStatsStay
<1>5. CASE UNCHANGED vars
  BY <1>1, <1>5 DEF vars, database
<1>. QED BY <1>2, <1>3, <1>4, <1>5 DEF Next

\* The event counts no win that was not first entered in the member's rating
\* row, and loses one only where completions overlapped over its statistics,
\* or one failed or stopped (complete_game, update_elo, update_event_stats).
THEOREM WinsAreRated == Spec => []WinsFollowRatings
<1>1. Init => CreditInv
  <2>. SUFFICES ASSUME Init, NEW m \in Members
                PROVE  /\ stats.wins[m] + Cardinality(Owing(m)) <= scored[m]
                       /\ scored[m] = stats.wins[m] + Cardinality(Owing(m))
    BY DEF CreditInv, Behind, Init
  <2>1. Owing(m) = {} /\ stats.wins[m] = 0 /\ scored[m] = 0
    BY DEF Init, Owing, Owes, NoStats, Zero
  <2>2. Cardinality(Owing(m)) = 0
    BY <2>1, FS_EmptySet
  <2>. QED BY <2>1, <2>2
<1>2. SessionOK /\ CreditInv => WinsFollowRatings
  <2>. SUFFICES ASSUME SessionOK, CreditInv, NEW m \in Members
                PROVE  /\ stats.wins[m] <= scored[m]
                       /\ m \notin blurred =>
                             scored[m] = stats.wins[m] + Cardinality({r \in Requests : Owes(r, m)})
    BY DEF WinsFollowRatings
  <2>1. Cardinality(Owing(m)) \in Nat /\ stats.wins[m] \in Nat /\ scored[m] \in Nat
    BY OwingIsFinite DEF SessionOK, DatabaseOK, HistoryOK, StatsRow, Totals
  <2>2. stats.wins[m] + Cardinality(Owing(m)) <= scored[m]
    BY DEF CreditInv, Behind
  <2>3. m \notin blurred => scored[m] = stats.wins[m] + Cardinality(Owing(m))
    BY DEF CreditInv
  <2>4. stats.wins[m] <= scored[m]
    BY <2>1, <2>2
  <2>. QED BY <2>3, <2>4 DEF Owing
<1>. QED BY <1>1, <1>2, NextCredits, FlightInvariant, SessionInvariant, PTL DEF Spec

-----------------------------------------------------------------------------
\* Requests served one at a time, each to its end, that ask what the panel offers.

ServedAlone(r) == Requests = {r} /\ Panel = TRUE /\ PegTeams = {} /\ MaxDrops = 0

\* The labels of a request at a game that is linked.
Leaving == Early \cup Moving \cup {"readStats", "writeStats", "unlink"}

\* The game in the hands of the request in flight.
Hand(r) == IF pc[r] \in Creating \cup Leaving THEN {loc[r].game} ELSE {}

\* What holds of the games: nobody is in two of them, and who plays does not
\* wait; the players of the one in hand may be on their way.
TablesInv(r) ==
    /\ \A h, k \in GameIds :
          /\ Open(h) \/ h \in Hand(r)
          /\ Open(k) \/ k \in Hand(r)
          /\ h # k
          => Players(h) \cap Players(k) = {}
    /\ \A h \in GameIds \ Hand(r) : Open(h) => Players(h) \subseteq inGame \ active
    /\ \A m \in active \cap inGame : \E h \in Hand(r) : m \in Players(h)
    /\ \A h \in GameIds : Linked(h) => game[h].live

\* How far a creation has come with its players.
TakingIn(r) ==
    LET l == loc[r]
    IN  /\ Cardinality(game[l.game].team1) = TeamSize
        /\ Cardinality(game[l.game].team2) = TeamSize
        /\ game[l.game].team1 \cap game[l.game].team2 = {}
        /\ Players(l.game) \ l.todo \subseteq inGame \ active
        /\ pc[r] = "take" => l.todo \subseteq active \ inGame
        /\ pc[r] = "putInGame" =>
              /\ l.member \in l.todo \ (active \cup inGame)
              /\ l.todo \ {l.member} \subseteq active \ inGame
        /\ pc[r] = "link" => l.todo = {}

\* How far a completion or a deletion has come with them.
TakingOut(r) ==
    LET l == loc[r]
        players == Players(l.game)
    IN  /\ Linked(l.game)
        /\ game[l.game].winner = IF pc[r] = "setScore" THEN "none" ELSE l.winner
        /\ pc[r] \in Early => players \subseteq inGame \ active
        /\ pc[r] = "readTeam2" => l.team1 = game[l.game].team1
        /\ pc[r] \notin {"setScore", "readTeam1", "readTeam2"} =>
              l.team1 = game[l.game].team1 /\ l.team2 = game[l.game].team2
        /\ pc[r] \notin Early =>
              l.todo \subseteq players /\ players \ l.todo \subseteq active \ inGame
        /\ pc[r] \in {"reactivate", "markPlayed"} => l.todo \subseteq inGame \ active
        /\ pc[r] = "leaveGame" =>
              l.member \in l.todo \cap active /\ l.todo \ {l.member} \subseteq inGame \ active
        /\ pc[r] = "markPlayed" => l.member \in players \ l.todo /\ l.winner # "none"
        /\ pc[r] \in {"readStats", "writeStats", "unlink"} => l.todo = {}
        /\ pc[r] = "unlink" => l.winner = "none"
        /\ pc[r] \notin Early /\ l.winner # "none" =>
              players \ (l.todo \cup (IF pc[r] = "markPlayed" THEN {l.member} ELSE {}))
                  \subseteq playedOnce

\* What the request in flight has read is still so.
AloneInv(r) ==
    LET l == loc[r]
    IN  /\ pc[r] = "choose" => l.read = active
        /\ pc[r] \in Creating => TakingIn(r)
        /\ pc[r] \in Leaving => TakingOut(r)
        /\ pc[r] = "writeStats" => l.stats = stats
        /\ pc[r] \in {"writeStats", "checkPlayed", "seed"} => l.counts = counts
        /\ pc[r] \in {"checkPlayed", "seed", "join"} => l.member \notin active \cup inGame
        /\ pc[r] = "seed" => l.member \notin playedOnce
        /\ pc[r] = "delete" => game[l.game].link = "removed"

\* The games that a member has completed, but for the one in hand.
Over(r, m) ==
    {h \in GameIds \ Hand(r) : m \in Players(h) /\ Linked(h) /\ game[h].winner # "none"}

CoverInv(r) ==
    \A m \in Members :
        /\ m \notin playedOnce => Over(r, m) = {}
        /\ IsFiniteSet(Over(r, m)) /\ Cardinality(Over(r, m)) <= MatchCount(m)

LEMMA InitSession ==
    ASSUME NEW r, ServedAlone(r), Init
    PROVE  TablesInv(r) /\ AloneInv(r) /\ CoverInv(r)
<1>1. /\ pc[r] = "idle" /\ Hand(r) = {} /\ active = {} /\ inGame = {} /\ counts = Empty
      /\ \A h \in GameIds : ~Linked(h) /\ ~Open(h)
  BY DEF Init, ServedAlone, Hand, Creating, Leaving, Early, Moving, Linked, Open, NoGame
<1>2. \A m \in Members : Over(r, m) = {} /\ MatchCount(m) = 0
  BY <1>1 DEF Over, MatchCount, Empty
<1>3. CoverInv(r)
  BY <1>2, FS_EmptySet DEF CoverInv
<1>. QED
  BY <1>1, <1>3 DEF TablesInv, AloneInv, Creating, Leaving, Early, Moving

\* The games of the tables, when none is written.
LEMMA GamesStay ==
    ASSUME UNCHANGED game
    PROVE  \A h : /\ Players(h)' = Players(h) /\ Linked(h)' = Linked(h) /\ Open(h)' = Open(h)
                  /\ game'[h] = game[h]
BY DEF Players, Linked, Open

\* Members of no game but the one in hand come and go.
LEMMA TablesStay ==
    ASSUME NEW r, TablesInv(r), UNCHANGED game, Hand(r)' = Hand(r),
           \A m : (\A h \in Hand(r) : m \notin Players(h)) =>
                     (m \in active' <=> m \in active) /\ (m \in inGame' <=> m \in inGame),
           Hand(r) \subseteq GameIds
    PROVE  TablesInv(r)'
<1>1. \A h : /\ Players(h)' = Players(h) /\ Linked(h)' = Linked(h) /\ Open(h)' = Open(h)
             /\ game'[h] = game[h]
  BY GamesStay
<1>2. ASSUME NEW h \in GameIds \ Hand(r), Open(h), NEW m \in Players(h)
      PROVE  m \in inGame' \ active'
  <2>1. m \in inGame \ active
    BY <1>2 DEF TablesInv
  <2>2. \A k \in Hand(r) : m \notin Players(k)
    BY <1>2 DEF TablesInv
  <2>. QED BY <2>1, <2>2
<1>3. ASSUME NEW m \in active' \cap inGame' PROVE \E h \in Hand(r) : m \in Players(h)
  BY <1>3 DEF TablesInv
<1>. QED BY <1>1, <1>2, <1>3 DEF TablesInv

\* Nobody completes more games, and counts do not go down.
LEMMA CoverStays ==
    ASSUME NEW r, CoverInv(r), playedOnce \subseteq playedOnce', SessionOK, SessionOK',
           \A m \in Members : Over(r, m)' \subseteq Over(r, m),
           \A m \in Members \cap DOMAIN counts :
               m \in DOMAIN counts' /\ counts[m] <= counts'[m]
    PROVE  CoverInv(r)'
<1>. SUFFICES ASSUME NEW m \in Members
              PROVE  /\ m \notin playedOnce' => Over(r, m)' = {}
                     /\ IsFiniteSet(Over(r, m)') /\ Cardinality(Over(r, m)') <= MatchCount(m)'
  BY DEF CoverInv
<1>1. m \notin playedOnce' => Over(r, m)' = {}
  BY DEF CoverInv
<1>. PICK S : S = Over(r, m)
  OBVIOUS
<1>. PICK T : T = Over(r, m)'
  OBVIOUS
<1>2. IsFiniteSet(S) /\ Cardinality(S) <= MatchCount(m) /\ T \in SUBSET S
  BY DEF CoverInv
<1>3. IsFiniteSet(T) /\ Cardinality(T) <= Cardinality(S) /\ Cardinality(T) \in Nat
      /\ Cardinality(S) \in Nat
  BY <1>2, FS_Subset, FS_CardinalityType
<1>4. MatchCount(m) <= MatchCount(m)' /\ MatchCount(m) \in Nat /\ MatchCount(m)' \in Nat
  <2>1. PICK D : counts \in [D -> Nat]
    BY DEF SessionOK, DatabaseOK, Maps
  <2>2. PICK E : counts' \in [E -> Nat]
    BY DEF SessionOK, DatabaseOK, Maps
  <2>. QED BY <2>1, <2>2 DEF MatchCount
<1>. QED BY <1>1, <1>2, <1>3, <1>4

\* The same, when the games and the one in hand stay.
LEMMA CoverStaysPut ==
    ASSUME NEW r, CoverInv(r), SessionOK, SessionOK', UNCHANGED <<game, counts>>,
           Hand(r)' = Hand(r), playedOnce \subseteq playedOnce'
    PROVE  CoverInv(r)'
<1>1. \A m \in Members : Over(r, m)' = Over(r, m)
  BY DEF Over, Players, Linked
<1>2. \A m \in Members \cap DOMAIN counts : counts[m] <= counts'[m]
  <2>1. PICK D : counts \in [D -> Nat]
    BY DEF SessionOK, DatabaseOK, Maps
  <2>. QED BY <2>1
<1>. QED BY <1>1, <1>2, CoverStays

SerialInv(r) == TablesInv(r) /\ AloneInv(r) /\ CoverInv(r)

LEMMA SerialBegin ==
    ASSUME NEW r, ServedAlone(r), FlightOK, SessionOK, SessionOK', SerialInv(r), Begin(r)
    PROVE  SerialInv(r)'
<1>0. r \in Requests
  BY DEF ServedAlone
<1>. USE DEF SerialInv
<1>1. ASSUME NEW x, NEW to \in {"choose", "checkPlayed"}, pc[r] = "idle", Goto(r, to, x),
             UNCHANGED database,
             to = "choose" => x.read = active,
             to = "checkPlayed" => x.counts = counts /\ x.member \notin active \cup inGame
      PROVE  SerialInv(r)'
  <2>1. pc'[r] = to /\ loc'[r] = x
    BY <1>0, <1>1, GoesTo
  <2>2. Hand(r) = {} /\ Hand(r)' = {}
    BY <1>1, <2>1 DEF Hand, Creating, Leaving, Early, Moving
  <2>3. TablesInv(r)'
    BY <1>1, <2>2, TablesStay DEF database
  <2>4. CoverInv(r)'
    BY <1>1, <2>2, CoverStaysPut DEF database
  <2>5. AloneInv(r)'
    BY <1>1, <2>1 DEF AloneInv, database, Creating, Leaving, Early, Moving
  <2>. QED BY <2>3, <2>4, <2>5
<1>2. ASSUME NEW x, NEW to \in {"setScore", "readTeam1"}, pc[r] = "idle", Goto(r, to, x),
             UNCHANGED database, x.game \in GameIds, Open(x.game),
             to = "readTeam1" => x.winner = "none"
      PROVE  SerialInv(r)'
  <2>1. pc'[r] = to /\ loc'[r] = x
    BY <1>0, <1>2, GoesTo
  <2>2. Hand(r) = {} /\ Hand(r)' = {x.game}
    BY <1>2, <2>1 DEF Hand, Creating, Leaving, Early, Moving
  <2>3. /\ \A h : Players(h)' = Players(h) /\ Linked(h)' = Linked(h) /\ Open(h)' = Open(h)
                  /\ game'[h] = game[h]
        /\ UNCHANGED <<active, inGame, playedOnce, game, counts, stats>>
    BY <1>2, GamesStay DEF database
  <2>4. TablesInv(r)'
    BY <1>2, <2>2, <2>3 DEF TablesInv
  <2>5. CoverInv(r)'
    <3>1. \A m \in Members : Over(r, m)' \subseteq Over(r, m)
      BY <2>2, <2>3 DEF Over
    <3>2. \A m \in Members \cap DOMAIN counts : counts[m] <= counts'[m]
      <4>1. PICK D : counts \in [D -> Nat]
        BY DEF SessionOK, DatabaseOK, Maps
      <4>. QED BY <2>3, <4>1
    <3>. QED BY <2>3, <3>1, <3>2, CoverStays
  <2>6. Players(x.game) \subseteq inGame \ active
    BY <1>2, <2>2 DEF TablesInv
  <2>7. AloneInv(r)'
    BY <1>2, <2>1, <2>3, <2>6
      DEF AloneInv, TakingOut, Open, Creating, Leaving, Early, Moving
  <2>. QED BY <2>4, <2>5, <2>7
<1>3. CASE BeginCreate(r)
  <2>1. PICK x : x = [NoLocals EXCEPT !.read = active] /\ Goto(r, "choose", x)
    BY <1>3 DEF BeginCreate, Start
  <2>2. x.read = active
    BY <2>1 DEF NoLocals
  <2>. QED BY <1>1, <1>3, <2>1, <2>2 DEF BeginCreate, Start
<1>4. ASSUME NEW g \in GameIds, BeginDelete(r, g) PROVE SerialInv(r)'
  <2>1. PICK x : x = [NoLocals EXCEPT !.game = g] /\ Goto(r, "readTeam1", x)
    BY <1>4 DEF BeginDelete, Start
  <2>2. x.game = g /\ x.winner = "none"
    BY <2>1 DEF NoLocals
  <2>. QED BY <1>2, <1>4, <2>1, <2>2 DEF BeginDelete, Start, MayDelete, ServedAlone
<1>5. ASSUME NEW g \in GameIds, NEW winner \in Winners, NEW here \in BOOLEAN,
             BeginComplete(r, g, winner, here)
      PROVE  SerialInv(r)'
  <2>1. PICK x : /\ x = [NoLocals EXCEPT !.game = g, !.winner = winner, !.here = here]
                   /\ Goto(r, "setScore", x)
    BY <1>5 DEF BeginComplete, Start
  <2>2. x.game = g
    BY <2>1 DEF NoLocals
  <2>. QED BY <1>2, <1>5, <2>1, <2>2 DEF BeginComplete, Start, MayComplete, ServedAlone
<1>6. ASSUME NEW m \in Members, BeginActivate(r, m) PROVE SerialInv(r)'
  <2>1. PICK x : x = [NoLocals EXCEPT !.member = m, !.counts = counts] /\ Goto(r, "checkPlayed", x)
    BY <1>6 DEF BeginActivate, Start
  <2>2. x.member = m /\ x.counts = counts
    BY <2>1 DEF NoLocals
  <2>. QED BY <1>1, <1>6, <2>1, <2>2 DEF BeginActivate, Start, ServedAlone
<1>7. ASSUME NEW m \in Members, DeactivateMember(r, m) PROVE SerialInv(r)'
  <2>1. /\ pc[r] = "idle" /\ pc'[r] = "idle" /\ active' = active \ {m}
        /\ UNCHANGED <<inGame, playedOnce, game, counts>>
    BY <1>7 DEF DeactivateMember
  <2>2. Hand(r) = {} /\ Hand(r)' = {}
    BY <2>1 DEF Hand, Creating, Leaving, Early, Moving
  <2>3. TablesInv(r)'
    BY <2>1, <2>2, GamesStay DEF TablesInv
  <2>4. CoverInv(r)'
    BY <2>1, <2>2, CoverStaysPut
  <2>5. AloneInv(r)'
    BY <2>1 DEF AloneInv, Creating, Leaving, Early, Moving
  <2>. QED BY <2>3, <2>4, <2>5
<1>8. ~CreatePeg(r)
  BY DEF CreatePeg, ServedAlone
<1>. QED BY <1>3, <1>4, <1>5, <1>6, <1>7, <1>8 DEF Begin

LEMMA SerialCreation ==
    ASSUME NEW r, ServedAlone(r), FlightOK, GamesInv, SessionOK, SessionOK', SerialInv(r),
           \/ ChooseTeams(r) \/ PutInGame(r) \/ LinkGame(r)
           \/ \E m \in Members : TakeFromActive(r, m)
    PROVE  SerialInv(r)'
<1>0. r \in Requests
  BY DEF ServedAlone
<1>. USE DEF SerialInv
<1>. PICK l : l = loc[r]
  OBVIOUS
<1>. PICK g : g = l.game
  OBVIOUS
<1>1. CASE ChooseTeams(r)
  <2>0. PICK team1 \in kSubset(TeamSize, l.read) :
           \E team2 \in kSubset(TeamSize, l.read \ team1) : InsertGame(r, team1, team2)
    BY <1>1 DEF ChooseTeams
  <2>1. PICK team2 \in kSubset(TeamSize, l.read \ team1) : InsertGame(r, team1, team2)
    BY <2>0
  <2>2. PICK h \in Unused :
        /\ game' = [game EXCEPT ![h] = [NoGame EXCEPT !.live = TRUE, !.team1 = team1,
                                                      !.team2 = team2]]
        /\ Goto(r, IF team1 \cup team2 = {} THEN "link" ELSE "take",
                   [NoLocals EXCEPT !.game = h, !.team1 = team1, !.todo = team1 \cup team2])
        /\ UNCHANGED <<active, inGame, playedOnce, counts, stats, history>>
    BY <2>1 DEF InsertGame
  <2>3. /\ pc[r] = "choose" /\ l.read = active
        /\ team1 \subseteq active /\ team2 \subseteq active /\ team1 \cap team2 = {}
        /\ Cardinality(team1) = TeamSize /\ Cardinality(team2) = TeamSize
    BY <1>1, <2>1 DEF ChooseTeams, AloneInv, kSubset
  <2>4. PICK to, x :
        /\ to = IF team1 \cup team2 = {} THEN "link" ELSE "take"
        /\ x = [NoLocals EXCEPT !.game = h, !.team1 = team1, !.todo = team1 \cup team2]
        /\ Goto(r, to, x)
    BY <2>2
  <2>5. /\ pc'[r] = to /\ loc'[r] = x /\ x.game = h /\ x.todo = team1 \cup team2
        /\ to \in {"link", "take"} /\ (to = "link" => x.todo = {})
    BY <1>0, <2>4, GoesTo DEF NoLocals
  <2>6. /\ h \in GameIds /\ game[h].link = "none" /\ game'[h].link = "none"
        /\ game'[h].team1 = team1 /\ game'[h].team2 = team2
        /\ \A k \in GameIds \ {h} : game'[k] = game[k]
    BY <2>2 DEF Unused, NoGame, FlightOK, RowsOK
  <2>7. Hand(r) = {} /\ Hand(r)' = {h}
    BY <2>3, <2>5 DEF Hand, Creating, Leaving, Early, Moving
  <2>8. /\ Players(h)' = team1 \cup team2 /\ ~Open(h) /\ ~Open(h)' /\ ~Linked(h) /\ ~Linked(h)'
        /\ \A k \in GameIds \ {h} :
              Players(k)' = Players(k) /\ Open(k)' = Open(k) /\ Linked(k)' = Linked(k)
    BY <2>6 DEF Players, Open, Linked
  <2>9. active \cap inGame = {}
    BY <2>7 DEF TablesInv
  <2>10. TablesInv(r)'
    <3>1. ASSUME NEW k \in GameIds \ {h}, Open(k) PROVE Players(k) \cap (team1 \cup team2) = {}
      BY <2>3, <2>7, <3>1 DEF TablesInv
    <3>. QED BY <2>2, <2>6, <2>7, <2>8, <3>1 DEF TablesInv
  <2>11. CoverInv(r)'
    <3>1. \A m \in Members : Over(r, m)' \subseteq Over(r, m)
      BY <2>6, <2>7, <2>8 DEF Over
    <3>2. \A m \in Members \cap DOMAIN counts : counts[m] <= counts'[m]
      <4>1. PICK D : counts \in [D -> Nat]
        BY DEF SessionOK, DatabaseOK, Maps
      <4>. QED BY <2>2, <4>1
    <3>. QED BY <2>2, <3>1, <3>2, CoverStays
  <2>12. AloneInv(r)'
    <3>1. TakingIn(r)'
      BY <2>2, <2>3, <2>5, <2>6, <2>8, <2>9 DEF TakingIn
    <3>. QED BY <2>5, <3>1 DEF AloneInv, Leaving, Early, Moving
  <2>. QED BY <2>10, <2>11, <2>12
<1>2. ASSUME pc[r] \in Creating PROVE
        /\ g \in GameIds /\ l.todo \subseteq Players(g) /\ ~Linked(g) /\ TakingIn(r)
        /\ game[g].live /\ game[g].winner = "none"
  BY <1>0, <1>2 DEF GamesInv, CreationsOK, LinkedFirst, Linked, AloneInv
<1>3. ASSUME NEW x, NEW to \in Creating, Goto(r, to, x), x.game = g, pc[r] \in Creating,
             UNCHANGED <<playedOnce, game, counts>>,
             \A n : n \notin Players(g) => /\ n \in active' <=> n \in active
                                           /\ n \in inGame' <=> n \in inGame
      PROVE  /\ TablesInv(r)' /\ CoverInv(r)'
             /\ pc'[r] = to /\ loc'[r] = x /\ game'[g] = game[g] /\ Players(g)' = Players(g)
  <2>1. pc'[r] = to /\ loc'[r] = x
    BY <1>0, <1>3, GoesTo
  <2>2. Hand(r) = {g} /\ Hand(r)' = {g}
    BY <1>3, <2>1 DEF Hand
  <2>3. TablesInv(r)'
    BY <1>2, <1>3, <2>2, TablesStay
  <2>4. CoverInv(r)'
    BY <1>3, <2>2, CoverStaysPut
  <2>. QED BY <1>3, <2>1, <2>3, <2>4 DEF Players
<1>4. ASSUME NEW m \in Members, TakeFromActive(r, m) PROVE SerialInv(r)'
  <2>1. PICK x : x = [l EXCEPT !.member = m] /\ Goto(r, "putInGame", x)
    BY <1>4 DEF TakeFromActive
  <2>2. x.game = g /\ x.todo = l.todo /\ x.member = m
    BY <1>0, <2>1 DEF FlightOK, RequestsOK, Fields
  <2>3. m \in l.todo
    BY <1>4 DEF TakeFromActive, Turn
  <2>4. /\ pc[r] = "take" /\ active' = active \ {m}
        /\ UNCHANGED <<inGame, playedOnce, game, counts>>
    BY <1>4 DEF TakeFromActive
  <2>5. /\ l.todo \subseteq active \ inGame /\ Players(g) \ l.todo \subseteq inGame \ active
        /\ l.todo \subseteq Players(g) /\ TakingIn(r)
    BY <1>2, <2>4 DEF Creating, TakingIn
  <2>6. /\ TablesInv(r)' /\ CoverInv(r)' /\ pc'[r] = "putInGame" /\ loc'[r] = x
        /\ game'[g] = game[g] /\ Players(g)' = Players(g)
    BY <1>3, <2>1, <2>2, <2>3, <2>4, <2>5 DEF Creating
  <2>7. TakingIn(r)'
    BY <2>2, <2>3, <2>4, <2>5, <2>6 DEF TakingIn
  <2>. QED BY <2>6, <2>7 DEF AloneInv, Leaving, Early, Moving
<1>5. CASE PutInGame(r)
  <2>1. PICK x, to :
          /\ x = [l EXCEPT !.todo = l.todo \ {l.member}]
          /\ to = IF l.todo \ {l.member} = {} THEN "link" ELSE "take"
          /\ Goto(r, to, x)
    BY <1>5 DEF PutInGame
  <2>2. x.game = g /\ x.todo = l.todo \ {l.member}
    BY <1>0, <2>1 DEF FlightOK, RequestsOK, Fields
  <2>4. /\ pc[r] = "putInGame" /\ inGame' = inGame \cup {l.member}
        /\ UNCHANGED <<active, playedOnce, game, counts>>
    BY <1>5 DEF PutInGame
  <2>5. /\ l.member \in l.todo \ (active \cup inGame)
        /\ l.todo \ {l.member} \subseteq active \ inGame
        /\ Players(g) \ l.todo \subseteq inGame \ active
        /\ l.todo \subseteq Players(g) /\ TakingIn(r)
    BY <1>2, <2>4 DEF Creating, TakingIn
  <2>6. /\ TablesInv(r)' /\ CoverInv(r)' /\ pc'[r] = to /\ loc'[r] = x
        /\ game'[g] = game[g] /\ Players(g)' = Players(g)
    <3>1. to \in Creating /\ pc[r] \in Creating /\ l.member \in Players(g)
      BY <2>1, <2>4, <2>5 DEF Creating
    <3>. QED BY <1>3, <2>1, <2>2, <2>4, <3>1
  <2>7. TakingIn(r)'
    BY <2>1, <2>2, <2>4, <2>5, <2>6 DEF TakingIn
  <2>. QED BY <2>1, <2>6, <2>7 DEF AloneInv, Leaving, Early, Moving
<1>6. CASE LinkGame(r)
  <2>1. /\ pc[r] = "link" /\ pc'[r] = "idle" /\ game' = [game EXCEPT ![g].link = "made"]
        /\ UNCHANGED <<active, inGame, playedOnce, counts>>
    BY <1>0, <1>6, GoesTo DEF LinkGame, Done
  <2>2. /\ g \in GameIds /\ ~Linked(g) /\ game[g].live /\ game[g].winner = "none"
        /\ Players(g) \subseteq inGame \ active
    BY <1>2, <2>1 DEF Creating, TakingIn
  <2>3. Hand(r) = {g} /\ Hand(r)' = {}
    BY <2>1 DEF Hand, Creating, Leaving, Early, Moving
  <2>4. /\ Linked(g)' /\ Open(g)' /\ Players(g)' = Players(g) /\ game'[g].live
        /\ game'[g].winner = "none"
        /\ \A k \in GameIds \ {g} :
              /\ Players(k)' = Players(k) /\ Open(k)' = Open(k) /\ Linked(k)' = Linked(k)
              /\ game'[k] = game[k]
    BY <2>1, <2>2 DEF Players, Open, Linked, FlightOK, RowsOK, RowFields
  <2>5. TablesInv(r)'
    <3>1. active \cap inGame = {}
      BY <2>2, <2>3 DEF TablesInv
    <3>. QED BY <2>1, <2>2, <2>3, <2>4, <3>1 DEF TablesInv
  <2>6. CoverInv(r)'
    <3>1. \A m \in Members : Over(r, m)' \subseteq Over(r, m)
      BY <2>3, <2>4 DEF Over
    <3>2. \A m \in Members \cap DOMAIN counts : counts[m] <= counts'[m]
      <4>1. PICK D : counts \in [D -> Nat]
        BY DEF SessionOK, DatabaseOK, Maps
      <4>. QED BY <2>1, <4>1
    <3>. QED BY <2>1, <3>1, <3>2, CoverStays
  <2>7. AloneInv(r)'
    BY <2>1 DEF AloneInv, Creating, Leaving, Early, Moving
  <2>. QED BY <2>5, <2>6, <2>7
<1>. QED BY <1>1, <1>4, <1>5, <1>6

LEMMA SerialLeaving ==
    ASSUME NEW r, ServedAlone(r), FlightOK, GamesInv, SessionOK, SessionOK', SerialInv(r),
           \/ SetScore(r) \/ ReadTeam1(r) \/ ReadTeam2(r) \/ MarkResult(r)
           \/ \E m \in Members : RatePlayer(r, m) \/ Reactivate(r, m)
           \/ LeaveGame(r) \/ MarkPlayed(r) \/ ReadStats(r)
    PROVE  SerialInv(r)'
<1>0. r \in Requests
  BY DEF ServedAlone
<1>. USE DEF SerialInv
<1>. PICK l : l = loc[r]
  OBVIOUS
<1>. PICK g : g = l.game
  OBVIOUS
<1>. PICK P : P = Players(g)
  OBVIOUS
<1>1. pc[r] \in Leaving
  BY DEF SetScore, ReadTeam1, ReadTeam2, RatePlayer, MarkResult, Reactivate, LeaveGame,
    MarkPlayed, ReadStats, Leaving, Early, Moving
<1>2. /\ g \in GameIds /\ Linked(g) /\ game[g].live /\ TakingOut(r)
      /\ DOMAIN l = Fields /\ l \in SessionLoc /\ l.here
  <2>1. g \in GameIds /\ DOMAIN l = Fields /\ l \in SessionLoc /\ l.here /\ TakingOut(r)
    BY <1>0, <1>1 DEF GamesInv, HandlersOK, Handling, Leaving, Early, Moving, Ending, AloneInv,
      FlightOK, RequestsOK, SessionOK, LocalsOK, Fits, ServedAlone
  <2>. QED BY <2>1 DEF TakingOut, TablesInv
<1>3. P = game[g].team1 \cup game[g].team2
  BY DEF Players
<1>4. ASSUME NEW x, NEW to \in Leaving, Goto(r, to, x), x.game = g,
             UNCHANGED <<game, counts, stats>>, playedOnce \subseteq playedOnce',
             \A n : n \notin P => /\ n \in active' <=> n \in active
                                  /\ n \in inGame' <=> n \in inGame,
             to = "writeStats" => x.counts = counts /\ x.stats = stats,
             pc'[r] = to /\ loc'[r] = x /\ game' = game /\ Players(g)' = P => TakingOut(r)'
      PROVE  SerialInv(r)'
  <2>1. pc'[r] = to /\ loc'[r] = x
    BY <1>0, <1>4, GoesTo
  <2>2. Hand(r) = {g} /\ Hand(r)' = {g}
    BY <1>1, <1>4, <2>1 DEF Hand
  <2>3. TablesInv(r)'
    BY <1>2, <1>4, <2>2, TablesStay
  <2>4. CoverInv(r)'
    BY <1>4, <2>2, CoverStaysPut
  <2>5. TakingOut(r)'
    BY <1>4, <2>1 DEF Players
  <2>6. AloneInv(r)'
    BY <1>4, <2>1, <2>5 DEF AloneInv, Creating, Leaving, Early, Moving
  <2>. QED BY <2>3, <2>4, <2>6
<1>r. ASSUME NEW x, Rated(r, x), UNCHANGED database, DOMAIN x = Fields, x.game = g, x.here,
             x.winner \in Winners, game[g].winner = x.winner, P \subseteq inGame \ active,
             x.team1 = game[g].team1, x.team2 = game[g].team2
      PROVE  SerialInv(r)'
  <2>0. UNCHANGED <<active, inGame, playedOnce, game, counts, stats>> /\ x.winner # "none"
    BY <1>r DEF database, Winners
  <2>1. PICK y, to :
          /\ y = IF x.todo = {} THEN [x EXCEPT !.todo = Both(x)] ELSE x
          /\ to = IF x.todo = {} THEN PutBack(x, Both(x)) ELSE "rate"
    OBVIOUS
  <2>2. Goto(r, to, y)
    BY <1>r, <2>1 DEF Rated
  <2>3. /\ y.game = g /\ y.winner = x.winner /\ y.team1 = x.team1 /\ y.team2 = x.team2
        /\ to # "rate" => y.todo = P
    BY <1>3, <1>r, <2>1 DEF Fields, Both
  <2>4. /\ to \in {"rate", "reactivate", "readStats"}
        /\ to = "readStats" => y.todo = {}
    BY <1>3, <1>r, <2>0, <2>1, <2>3 DEF PutBack, AfterPlayers, Both
  <2>5. ASSUME pc'[r] = to, loc'[r] = y, game' = game, Players(g)' = P
        PROVE  TakingOut(r)'
    BY <1>2, <1>r, <2>0, <2>3, <2>4, <2>5 DEF TakingOut, Early, Linked
  <2>. QED BY <1>4, <2>0, <2>2, <2>3, <2>4, <2>5 DEF Leaving, Early, Moving
<1>5. CASE SetScore(r)
  <2>1. /\ pc[r] = "setScore" /\ game' = [game EXCEPT ![g].winner = l.winner]
        /\ pc'[r] = "readTeam1" /\ loc'[r] = l
        /\ UNCHANGED <<active, inGame, playedOnce, counts, stats>>
    BY <1>0, <1>2, <1>5, GoesTo DEF SetScore
  <2>2. /\ Linked(g)' /\ Players(g)' = P /\ game'[g].live /\ game'[g].winner = l.winner
        /\ \A k \in GameIds \ {g} :
              /\ Players(k)' = Players(k) /\ Open(k)' = Open(k) /\ Linked(k)' = Linked(k)
              /\ game'[k] = game[k]
    BY <1>2, <2>1 DEF Players, Open, Linked, FlightOK, RowsOK, RowFields
  <2>3. Hand(r) = {g} /\ Hand(r)' = {g}
    BY <2>1 DEF Hand, Leaving, Early
  <2>4. TablesInv(r)'
    BY <1>2, <2>1, <2>2, <2>3 DEF TablesInv
  <2>5. CoverInv(r)'
    <3>1. \A m \in Members : Over(r, m)' \subseteq Over(r, m)
      BY <2>2, <2>3 DEF Over
    <3>2. \A m \in Members \cap DOMAIN counts : counts[m] <= counts'[m]
      <4>1. PICK D : counts \in [D -> Nat]
        BY DEF SessionOK, DatabaseOK, Maps
      <4>. QED BY <2>1, <4>1
    <3>. QED BY <2>1, <3>1, <3>2, CoverStays
  <2>6. TakingOut(r)'
    BY <1>2, <2>1, <2>2 DEF TakingOut, Early
  <2>7. AloneInv(r)'
    BY <2>1, <2>6 DEF AloneInv, Creating, Leaving, Early
  <2>. QED BY <2>4, <2>5, <2>7
<1>6. CASE ReadTeam1(r)
  <2>1. PICK x : x = [l EXCEPT !.team1 = TeamOf(g, "team1")] /\ Goto(r, "readTeam2", x)
    BY <1>6 DEF ReadTeam1
  <2>2. x.game = g /\ x.winner = l.winner /\ x.team1 = game[g].team1
    BY <1>2, <2>1 DEF TeamOf, Fields
  <2>3. /\ pc[r] = "readTeam1" /\ UNCHANGED <<active, inGame, playedOnce, game, counts, stats>>
    BY <1>6 DEF ReadTeam1, database
  <2>4. ASSUME pc'[r] = "readTeam2", loc'[r] = x, game' = game, Players(g)' = P
        PROVE  TakingOut(r)'
    BY <1>2, <2>2, <2>3, <2>4 DEF TakingOut, Early, Linked
  <2>. QED BY <1>4, <2>1, <2>2, <2>3, <2>4 DEF Leaving, Early
<1>7. CASE ReadTeam2(r)
  <2>1. PICK x : /\ DOMAIN x = Fields /\ x.team2 = TeamOf(g, "team2") /\ x.todo = Both(x)
                 /\ \A f \in Fields \ {"team2", "todo"} : x[f] = l[f]
                 /\ IF x.winner = "none" THEN Goto(r, PutBack(x, Both(x)), x) ELSE Rated(r, x)
    <3>1. PICK x : x = [l EXCEPT !.team2 = TeamOf(g, "team2"),
                                 !.todo = l.team1 \cup TeamOf(g, "team2")]
      OBVIOUS
    <3>2. /\ DOMAIN x = Fields /\ x.team2 = TeamOf(g, "team2") /\ x.todo = Both(x)
          /\ \A f \in Fields \ {"team2", "todo"} : x[f] = l[f]
      BY <1>2, <3>1 DEF Both, Fields
    <3>3. IF x.winner = "none" THEN Goto(r, PutBack(x, Both(x)), x) ELSE Rated(r, x)
      BY <1>7, <3>1, <3>2 DEF ReadTeam2
    <3>. QED BY <3>2, <3>3
  <2>2. /\ pc[r] = "readTeam2" /\ UNCHANGED database
        /\ UNCHANGED <<active, inGame, playedOnce, game, counts, stats>>
    BY <1>7 DEF ReadTeam2, database
  <2>3. l.team1 = game[g].team1 /\ P \subseteq inGame \ active /\ game[g].winner = l.winner
    BY <1>2, <2>2 DEF TakingOut, Early
  <2>4. /\ x.game = g /\ x.here /\ x.winner = l.winner /\ x.team1 = game[g].team1
        /\ x.team2 = game[g].team2 /\ x.todo = P /\ x.winner \in Winners \cup {"none"}
    BY <1>2, <1>3, <2>1, <2>3 DEF TeamOf, Both, Fields, SessionLoc
  <2>5. CASE x.winner # "none"
    BY <1>r, <2>1, <2>2, <2>3, <2>4, <2>5
  <2>6. CASE x.winner = "none"
    <3>1. PICK to : to = PutBack(x, Both(x))
      OBVIOUS
    <3>2. Goto(r, to, x) /\ to \in {"reactivate", "unlink"} /\ (to = "unlink" => P = {})
      BY <2>1, <2>4, <2>6, <3>1 DEF PutBack, AfterPlayers
    <3>3. ASSUME pc'[r] = to, loc'[r] = x, game' = game, Players(g)' = P
          PROVE  TakingOut(r)'
      BY <1>2, <2>2, <2>3, <2>4, <2>6, <3>2, <3>3 DEF TakingOut, Early, Linked
    <3>. QED BY <1>4, <2>2, <2>4, <3>2, <3>3 DEF Leaving, Moving
  <2>. QED BY <2>5, <2>6
<1>8. ASSUME NEW m \in Members, RatePlayer(r, m) PROVE SerialInv(r)'
  <2>1. PICK x : x = [l EXCEPT !.member = m] /\ Goto(r, "mark", x)
    BY <1>8 DEF RatePlayer
  <2>2. /\ x.game = g /\ x.winner = l.winner /\ x.team1 = l.team1 /\ x.team2 = l.team2
        /\ x.todo = l.todo
    BY <1>2, <2>1 DEF Fields
  <2>3. pc[r] = "rate" /\ UNCHANGED <<active, inGame, playedOnce, game, counts, stats>>
    BY <1>8 DEF RatePlayer, database
  <2>4. ASSUME pc'[r] = "mark", loc'[r] = x, game' = game, Players(g)' = P
        PROVE  TakingOut(r)'
    BY <1>2, <2>2, <2>3, <2>4 DEF TakingOut, Early, Linked
  <2>. QED BY <1>4, <2>1, <2>2, <2>3, <2>4 DEF Leaving, Early
<1>13. CASE MarkResult(r)
  <2>1. PICK x : /\ DOMAIN x = Fields /\ x.todo = l.todo \ {l.member}
                 /\ \A f \in Fields \ {"todo"} : x[f] = l[f]
                 /\ Rated(r, x)
    BY <1>0, <1>2, <1>13, MarkGoes
  <2>2. pc[r] = "mark" /\ UNCHANGED database
    BY <1>13 DEF MarkResult
  <2>3. /\ l.team1 = game[g].team1 /\ l.team2 = game[g].team2 /\ l.winner \in Winners
        /\ P \subseteq inGame \ active /\ game[g].winner = l.winner
    BY <1>0, <1>2, <2>2 DEF TakingOut, Early, SessionOK, LocalsOK, Fits
  <2>4. /\ x.game = g /\ x.here /\ x.winner = l.winner
        /\ x.team1 = l.team1 /\ x.team2 = l.team2
    BY <1>2, <2>1 DEF Fields
  <2>. QED BY <1>r, <2>1, <2>2, <2>3, <2>4
<1>9. ASSUME NEW m \in Members, Reactivate(r, m) PROVE SerialInv(r)'
  <2>1. PICK x : x = [l EXCEPT !.member = m] /\ Goto(r, "leaveGame", x)
    BY <1>9 DEF Reactivate
  <2>2. /\ x.game = g /\ x.winner = l.winner /\ x.team1 = l.team1 /\ x.team2 = l.team2
        /\ x.todo = l.todo /\ x.member = m
    BY <1>2, <2>1 DEF Fields
  <2>3. /\ pc[r] = "reactivate" /\ m \in l.todo /\ active' = active \cup {m}
        /\ UNCHANGED <<inGame, playedOnce, game, counts, stats>>
    BY <1>9 DEF Reactivate, Turn
  <2>d. /\ l.todo \subseteq P /\ l.todo \subseteq inGame \ active
        /\ P \ l.todo \subseteq active \ inGame
    BY <1>2, <2>3 DEF TakingOut, Early
  <2>4. ASSUME pc'[r] = "leaveGame", loc'[r] = x, game' = game, Players(g)' = P
        PROVE  TakingOut(r)'
    BY <1>2, <2>d, <2>2, <2>3, <2>4 DEF TakingOut, Early, Linked
  <2>. QED BY <1>4, <2>d, <2>1, <2>2, <2>3, <2>4 DEF Leaving, Moving
<1>10. CASE LeaveGame(r)
  <2>1. PICK x, to :
          /\ x = [l EXCEPT !.todo = l.todo \ {l.member}]
          /\ to = IF l.winner = "none" THEN PutBack(l, l.todo \ {l.member}) ELSE "markPlayed"
          /\ Goto(r, to, x)
    BY <1>10 DEF LeaveGame
  <2>2. /\ x.game = g /\ x.winner = l.winner /\ x.team1 = l.team1 /\ x.team2 = l.team2
        /\ x.todo = l.todo \ {l.member} /\ x.member = l.member
    BY <1>2, <2>1 DEF Fields
  <2>3. /\ pc[r] = "leaveGame" /\ inGame' = inGame \ {l.member}
        /\ UNCHANGED <<active, playedOnce, game, counts, stats>>
    BY <1>10 DEF LeaveGame
  <2>d. /\ l.todo \subseteq P /\ l.todo \ {l.member} \subseteq inGame \ active
        /\ P \ l.todo \subseteq active \ inGame /\ l.member \in l.todo \cap active
    BY <1>2, <2>3 DEF TakingOut, Early
  <2>e. /\ to \in {"unlink", "reactivate", "markPlayed"}
        /\ to = "unlink" => l.winner = "none" /\ l.todo \ {l.member} = {}
        /\ to = "reactivate" => l.winner = "none"
        /\ to = "markPlayed" => l.winner # "none"
    BY <2>1 DEF PutBack, AfterPlayers
  <2>4. ASSUME pc'[r] = to, loc'[r] = x, game' = game, Players(g)' = P
        PROVE  TakingOut(r)'
    BY <1>2, <2>d, <2>e, <2>2, <2>3, <2>4 DEF TakingOut, Early, Linked
  <2>5. to \in Leaving /\ to # "writeStats" /\ l.member \in P
    BY <2>d, <2>e DEF Leaving, Moving
  <2>. QED BY <1>4, <2>1, <2>2, <2>3, <2>4, <2>5
<1>11. CASE MarkPlayed(r)
  <2>a. PICK to : to = PutBack(l, l.todo)
    OBVIOUS
  <2>1. /\ pc[r] = "markPlayed" /\ Goto(r, to, l) /\ playedOnce' = playedOnce \cup {l.member}
        /\ UNCHANGED <<active, inGame, game, counts, stats>>
    BY <1>11, <2>a DEF MarkPlayed
  <2>2. l.winner # "none"
    BY <1>2, <2>1 DEF TakingOut
  <2>3. to \in {"reactivate", "readStats"} /\ (to = "readStats" => l.todo = {})
    BY <2>a, <2>2 DEF PutBack, AfterPlayers
  <2>4. ASSUME pc'[r] = to, loc'[r] = l, game' = game, Players(g)' = P
        PROVE  TakingOut(r)'
    BY <1>2, <2>1, <2>2, <2>3, <2>4 DEF TakingOut, Early, Linked
  <2>. QED BY <1>4, <2>1, <2>3, <2>4 DEF Leaving, Moving
<1>12. CASE ReadStats(r)
  <2>1. PICK x : x = [l EXCEPT !.counts = counts, !.stats = stats] /\ Goto(r, "writeStats", x)
    BY <1>12 DEF ReadStats
  <2>2. /\ x.game = g /\ x.winner = l.winner /\ x.team1 = l.team1 /\ x.team2 = l.team2
        /\ x.todo = l.todo /\ x.counts = counts /\ x.stats = stats
    BY <1>2, <2>1 DEF Fields
  <2>3. pc[r] = "readStats" /\ UNCHANGED <<active, inGame, playedOnce, game, counts, stats>>
    BY <1>12 DEF ReadStats, database
  <2>4. ASSUME pc'[r] = "writeStats", loc'[r] = x, game' = game, Players(g)' = P
        PROVE  TakingOut(r)'
    BY <1>2, <2>2, <2>3, <2>4 DEF TakingOut, Early, Linked
  <2>. QED BY <1>4, <2>1, <2>2, <2>3, <2>4 DEF Leaving
<1>. QED BY <1>5, <1>6, <1>7, <1>8, <1>9, <1>10, <1>11, <1>12, <1>13

LEMMA SerialEnding ==
    ASSUME NEW r, ServedAlone(r), FlightOK, GamesInv, SessionOK, SessionOK', SerialInv(r),
           Unlink(r) \/ DeleteGame(r)
    PROVE  SerialInv(r)'
<1>0. r \in Requests
  BY DEF ServedAlone
<1>. USE DEF SerialInv
<1>. PICK g : g = loc[r].game
  OBVIOUS
<1>1. g \in GameIds /\ pc[r] \in {"unlink", "delete"} /\ pc'[r] \in {"delete", "idle"}
      /\ (pc'[r] = "delete" => loc'[r] = loc[r] /\ game'[g].link = "removed")
  BY <1>0, GoesTo
    DEF Unlink, DeleteGame, GamesInv, HandlersOK, Handling, Ending, Done, FlightOK, RowsOK,
      RowFields
<1>2. UNCHANGED <<active, inGame, playedOnce, counts, stats>>
  BY DEF Unlink, DeleteGame
<1>3. /\ \A k \in GameIds \ {g} :
            /\ Players(k)' = Players(k) /\ Open(k)' = Open(k) /\ Linked(k)' = Linked(k)
            /\ game'[k] = game[k]
      /\ ~Linked(g)'
  BY <1>1 DEF Unlink, DeleteGame, Players, Open, Linked, FlightOK, RowsOK, RowFields, AloneInv
<1>4. Hand(r) \subseteq {g} /\ Hand(r)' = {}
  BY <1>1 DEF Hand, Creating, Leaving, Early, Moving
<1>5. TablesInv(r)'
  <2>1. active \cap inGame = {}
    <3>1. CASE pc[r] = "unlink"
      <4>1. Players(g) \subseteq active \ inGame
        BY <3>1 DEF AloneInv, TakingOut, Leaving, Early
      <4>. QED BY <1>4, <4>1 DEF TablesInv
    <3>2. CASE pc[r] = "delete"
      <4>1. Hand(r) = {}
        BY <3>2 DEF Hand, Creating, Leaving, Early, Moving
      <4>. QED BY <4>1 DEF TablesInv
    <3>. QED BY <1>1, <3>1, <3>2
  <2>2. ~Open(g)'
    BY <1>3 DEF Open
  <2>. QED BY <1>2, <1>3, <1>4, <2>1, <2>2 DEF TablesInv
<1>6. CoverInv(r)'
  <2>1. \A m \in Members : Over(r, m)' \subseteq Over(r, m)
    BY <1>3, <1>4 DEF Over
  <2>2. \A m \in Members \cap DOMAIN counts : counts[m] <= counts'[m]
    <3>1. PICK D : counts \in [D -> Nat]
      BY DEF SessionOK, DatabaseOK, Maps
    <3>. QED BY <1>2, <3>1
  <2>. QED BY <1>2, <2>1, <2>2, CoverStays
<1>7. AloneInv(r)'
  BY <1>1 DEF AloneInv, Creating, Leaving, Early, Moving
<1>. QED BY <1>5, <1>6, <1>7

\* What a completion adds to the counts is the game it completed.
LEMMA SerialStats ==
    ASSUME NEW r, ServedAlone(r), FlightOK, GamesInv, SessionOK, SessionOK', SerialInv(r),
           WriteStats(r)
    PROVE  SerialInv(r)'
<1>0. r \in Requests
  BY DEF ServedAlone
<1>. USE DEF SerialInv
<1>. PICK l : l = loc[r]
  OBVIOUS
<1>. PICK g : g = l.game
  OBVIOUS
<1>1. /\ pc[r] = "writeStats" /\ pc'[r] = "idle"
      /\ counts' = Counted(counts, l.team1 \cup l.team2)
      /\ UNCHANGED <<active, inGame, playedOnce, game>>
  BY <1>0, GoesTo DEF WriteStats, Done, AloneInv, Both
<1>2. /\ Linked(g) /\ Players(g) \subseteq active \ inGame /\ Players(g) = l.team1 \cup l.team2
      /\ Players(g) \subseteq playedOnce
  BY <1>0, <1>1 DEF AloneInv, TakingOut, Leaving, Early, Players, SessionOK, LocalsOK, Fits, Winners
<1>3. Hand(r) = {g} /\ Hand(r)' = {}
  BY <1>1 DEF Hand, Creating, Leaving, Early, Moving
<1>4. \A h : /\ Players(h)' = Players(h) /\ Linked(h)' = Linked(h) /\ Open(h)' = Open(h)
             /\ game'[h] = game[h]
  BY <1>1, GamesStay
<1>5. TablesInv(r)'
  <2>1. active \cap inGame = {}
    BY <1>2, <1>3 DEF TablesInv
  <2>2. ~Open(g)
    BY <1>0, <1>1 DEF Open, AloneInv, TakingOut, Leaving, SessionOK, LocalsOK, Fits, Winners
  <2>. QED BY <1>1, <1>3, <1>4, <2>1, <2>2 DEF TablesInv
<1>6. ASSUME NEW m \in Members
      PROVE  /\ m \notin playedOnce' => Over(r, m)' = {}
             /\ IsFiniteSet(Over(r, m)') /\ Cardinality(Over(r, m)') <= MatchCount(m)'
  <2>. PICK S : S = Over(r, m)
    OBVIOUS
  <2>. PICK T : T = Over(r, m)'
    OBVIOUS
  <2>1. g \notin S /\ T \in SUBSET (S \cup {g}) /\ (m \notin Players(g) => T \in SUBSET S)
    BY <1>3, <1>4 DEF Over
  <2>2. IsFiniteSet(S) /\ Cardinality(S) <= MatchCount(m) /\ Cardinality(S) \in Nat
    BY FS_CardinalityType DEF CoverInv
  <2>3. IsFiniteSet(S \cup {g}) /\ Cardinality(S \cup {g}) = Cardinality(S) + 1
    BY <2>1, <2>2, FS_AddElement
  <2>4. /\ IsFiniteSet(T) /\ Cardinality(T) \in Nat /\ Cardinality(T) <= Cardinality(S) + 1
        /\ m \notin Players(g) => Cardinality(T) <= Cardinality(S)
    BY <2>1, <2>2, <2>3, FS_Subset, FS_CardinalityType
  <2>5. /\ MatchCount(m)' = MatchCount(m) + (IF m \in Players(g) THEN 1 ELSE 0)
        /\ MatchCount(m) \in Nat
    <3>1. PICK D : counts \in [D -> Nat]
      BY DEF SessionOK, DatabaseOK, Maps
    <3>. QED BY <1>1, <1>2, <3>1 DEF MatchCount, Counted
  <2>6. m \notin playedOnce' => T = {}
    BY <1>1, <1>2, <2>1 DEF CoverInv
  <2>. QED BY <2>2, <2>4, <2>5, <2>6
<1>7. AloneInv(r)'
  BY <1>1 DEF AloneInv, Creating, Leaving, Early, Moving
<1>. QED BY <1>5, <1>6, <1>7 DEF CoverInv

\* A newcomer has completed nothing, so any count covers it.
LEMMA SerialJoining ==
    ASSUME NEW r, ServedAlone(r), FlightOK, SessionOK, SessionOK', SerialInv(r),
           CheckPlayed(r) \/ SeedCount(r) \/ Join(r)
    PROVE  SerialInv(r)'
<1>0. r \in Requests
  BY DEF ServedAlone
<1>. USE DEF SerialInv
<1>. PICK m : m = loc[r].member
  OBVIOUS
<1>1. /\ pc[r] \in {"checkPlayed", "seed", "join"} /\ m \in Members /\ m \notin active \cup inGame
      /\ UNCHANGED <<inGame, playedOnce, game>>
  BY <1>0 DEF CheckPlayed, SeedCount, Join, AloneInv, SessionOK, LocalsOK, Fits, database
<1>2. CASE CheckPlayed(r)
  <2>1. PICK to : to = IF Seeds(m) THEN "seed" ELSE "join"
    OBVIOUS
  <2>2. pc'[r] = to /\ loc'[r] = loc[r] /\ UNCHANGED database /\ pc[r] = "checkPlayed"
    BY <1>0, <1>2, <2>1, GoesTo DEF CheckPlayed
  <2>3. Hand(r) = {} /\ Hand(r)' = {}
    BY <1>1, <2>1, <2>2 DEF Hand, Creating, Leaving, Early, Moving
  <2>4. TablesInv(r)'
    BY <2>2, <2>3, TablesStay DEF database
  <2>5. CoverInv(r)'
    BY <2>2, <2>3, CoverStaysPut DEF database
  <2>6. AloneInv(r)'
    BY <1>1, <2>1, <2>2 DEF AloneInv, Creating, Leaving, Early, Moving, Seeds, database
  <2>. QED BY <2>4, <2>5, <2>6
<1>3. CASE SeedCount(r)
  <2>2. /\ pc[r] = "seed" /\ pc'[r] = "join" /\ loc'[r] = loc[r] /\ UNCHANGED <<active, stats>>
        /\ counts' = Seeded(counts, m) /\ m \notin playedOnce
    BY <1>0, <1>3, GoesTo DEF SeedCount, AloneInv
  <2>3. Hand(r) = {} /\ Hand(r)' = {}
    BY <2>2 DEF Hand, Creating, Leaving, Early, Moving
  <2>4. TablesInv(r)'
    BY <1>1, <2>2, <2>3, TablesStay
  <2>5. ASSUME NEW n \in Members
        PROVE  /\ n \notin playedOnce' => Over(r, n)' = {}
               /\ IsFiniteSet(Over(r, n)') /\ Cardinality(Over(r, n)') <= MatchCount(n)'
    <3>1. Over(r, n)' = Over(r, n)
      BY <1>1, <2>3, GamesStay DEF Over
    <3>2. /\ n \notin playedOnce => Over(r, n) = {}
          /\ IsFiniteSet(Over(r, n)) /\ Cardinality(Over(r, n)) <= MatchCount(n)
      BY DEF CoverInv
    <3>3. CASE n = m
      <4>1. Over(r, n) = {} /\ Cardinality({}) = 0
        BY <2>2, <3>2, <3>3, FS_EmptySet
      <4>2. MatchCount(n)' \in Nat
        <5>1. PICK D : counts' \in [D -> Nat]
          BY DEF SessionOK, DatabaseOK, Maps
        <5>. QED BY <5>1 DEF MatchCount
      <4>3. Cardinality(Over(r, n)') = 0
        BY <3>1, <4>1
      <4>. QED BY <1>1, <3>1, <3>2, <4>2, <4>3
    <3>4. CASE n # m
      <4>1. MatchCount(n)' = MatchCount(n)
        BY <2>2, <3>4 DEF MatchCount, Seeded
      <4>. QED BY <1>1, <3>1, <3>2, <4>1
    <3>. QED BY <3>3, <3>4
  <2>6. AloneInv(r)'
    BY <1>1, <2>2 DEF AloneInv, Creating, Leaving, Early, Moving
  <2>. QED BY <2>4, <2>5, <2>6 DEF CoverInv
<1>4. CASE Join(r)
  <2>2. /\ pc'[r] = "idle" /\ active' = active \cup {m} /\ UNCHANGED counts
    BY <1>0, <1>4, GoesTo DEF Join, Done
  <2>3. Hand(r) = {} /\ Hand(r)' = {}
    BY <1>1, <2>2 DEF Hand, Creating, Leaving, Early, Moving
  <2>4. TablesInv(r)'
    BY <1>1, <2>2, <2>3, GamesStay DEF TablesInv
  <2>5. CoverInv(r)'
    BY <1>1, <2>2, <2>3, CoverStaysPut
  <2>6. AloneInv(r)'
    BY <2>2 DEF AloneInv, Creating, Leaving, Early, Moving
  <2>. QED BY <2>4, <2>5, <2>6
<1>. QED BY <1>2, <1>3, <1>4

\* Only what is left of a game of another event: the panel creates none, and a
\* deletion there touches no game that is linked here.
LEMMA SerialElsewhere ==
    ASSUME NEW r, ServedAlone(r), FlightOK, GamesInv, SessionOK, SessionOK', SerialInv(r),
           CreateElsewhere \/ \E g \in GameIds : DeleteElsewhere(g)
    PROVE  /\ SerialInv(r)' /\ UNCHANGED <<pc, loc, active, inGame, stats>>
           /\ \A k \in GameIds :
                 /\ Players(k)' = Players(k) /\ Open(k)' = Open(k) /\ Linked(k)' = Linked(k)
                 /\ game'[k].team1 = game[k].team1 /\ game'[k].team2 = game[k].team2
<1>0. r \in Requests
  BY DEF ServedAlone
<1>1. PICK g \in GameIds : DeleteElsewhere(g)
  BY DEF CreateElsewhere, ServedAlone
<1>2. UNCHANGED <<pc, loc, active, inGame, playedOnce, counts, stats>>
  BY <1>1 DEF DeleteElsewhere
<1>3. /\ \A k \in GameIds :
            /\ Players(k)' = Players(k) /\ Open(k)' = Open(k) /\ Linked(k)' = Linked(k)
            /\ game'[k].team1 = game[k].team1 /\ game'[k].team2 = game[k].team2
            /\ game'[k].winner = game[k].winner /\ game'[k].link = game[k].link
            /\ Linked(k) => game'[k].live = game[k].live
  <2>. SUFFICES ASSUME NEW k \in GameIds
                PROVE  /\ game'[k].team1 = game[k].team1 /\ game'[k].team2 = game[k].team2
                       /\ game'[k].winner = game[k].winner /\ game'[k].link = game[k].link
                       /\ Linked(k) => game'[k].live = game[k].live
    BY DEF Players, Open, Linked
  <2>1. game' = [game EXCEPT ![g].live = FALSE] /\ ~Linked(g)
    BY <1>1 DEF DeleteElsewhere, Elsewhere, Linked
  <2>2. DOMAIN game = GameIds /\ DOMAIN game[k] = RowFields
    BY DEF FlightOK, RowsOK
  <2>. QED BY <2>1, <2>2 DEF RowFields
<1>4. UNCHANGED Hand(r)
  BY <1>2 DEF Hand
<1>5. Hand(r) \subseteq GameIds /\ (pc[r] = "delete" => loc[r].game \in GameIds)
  BY <1>0 DEF Hand, GamesInv, CreationsOK, HandlersOK, Creating, Handling, Leaving, Early, Moving,
    Ending
<1>6. TablesInv(r)'
  BY <1>2, <1>3, <1>4, <1>5 DEF SerialInv, TablesInv
<1>7. CoverInv(r)'
  <2>1. \A m \in Members : Over(r, m)' = Over(r, m)
    BY <1>3, <1>4 DEF Over
  <2>2. \A m \in Members : MatchCount(m)' = MatchCount(m)
    BY <1>2 DEF MatchCount
  <2>. QED BY <1>2, <2>1, <2>2 DEF SerialInv, CoverInv
<1>8. AloneInv(r)'
  <2>1. pc[r] \in Creating => TakingIn(r)'
    <3>. SUFFICES ASSUME pc[r] \in Creating PROVE TakingIn(r)'
      OBVIOUS
    <3>1. TakingIn(r) /\ loc[r].game \in GameIds
      BY <1>5 DEF SerialInv, AloneInv, Hand
    <3>. QED BY <1>2, <1>3, <3>1 DEF TakingIn
  <2>2. pc[r] \in Leaving => TakingOut(r)'
    <3>. SUFFICES ASSUME pc[r] \in Leaving PROVE TakingOut(r)'
      OBVIOUS
    <3>1. TakingOut(r) /\ loc[r].game \in GameIds
      BY <1>5 DEF SerialInv, AloneInv, Hand
    <3>. QED BY <1>2, <1>3, <3>1 DEF TakingOut
  <2>. QED BY <1>2, <1>3, <1>5, <2>1, <2>2 DEF SerialInv, AloneInv
<1>. QED BY <1>2, <1>3, <1>6, <1>7, <1>8 DEF SerialInv

LEMMA NextSerial ==
    ASSUME NEW r, ServedAlone(r), FlightOK, GamesInv, SessionOK, SessionOK', SerialInv(r),
           [Next]_vars
    PROVE  SerialInv(r)'
<1>1. CASE UNCHANGED vars
  <2>1. UNCHANGED <<pc, loc, active, inGame, playedOnce, game, counts, stats>>
    BY <1>1 DEF vars, database
  <2>2. UNCHANGED Hand(r)
    BY <2>1 DEF Hand
  <2>3. TablesInv(r)' /\ CoverInv(r)'
    <3>1. TablesInv(r)'
      BY <2>1, <2>2, GamesStay DEF SerialInv, TablesInv
    <3>. QED BY <2>1, <2>2, <3>1, CoverStaysPut DEF SerialInv
  <2>4. AloneInv(r)'
    <3>1. TakingIn(r)' <=> TakingIn(r)
      BY <2>1 DEF TakingIn, Players
    <3>2. TakingOut(r)' <=> TakingOut(r)
      BY <2>1 DEF TakingOut, Players, Linked
    <3>. QED BY <2>1, <3>1, <3>2 DEF SerialInv, AloneInv
  <2>. QED BY <2>3, <2>4 DEF SerialInv
<1>2. ~Drop(r)
  BY SessionAssumption DEF Drop, SessionOK, HistoryOK, ServedAlone
<1>3. CASE Begin(r)
  BY <1>3, SerialBegin
<1>4. CASE Step(r)
  BY <1>4, SerialCreation, SerialLeaving, SerialEnding, SerialStats, SerialJoining DEF Step
<1>5. \A q \in Requests : q = r
  BY DEF ServedAlone
<1>6. CASE CreateElsewhere \/ \E g \in GameIds : DeleteElsewhere(g)
  BY <1>6, SerialElsewhere
<1>. QED BY <1>1, <1>2, <1>3, <1>4, <1>5, <1>6 DEF Next

\* Requests served one at a time count every completed game of a member, so
\* that whoever has played is never the newcomer who goes before the others
\* (seed_match_counts_for_new_player, update_player_match_counts).
THEOREM SerialCountsCover ==
    ASSUME NEW r0, ServedAlone(r0)
    PROVE  Spec => []CountsCoverGames
<1>1. Init => SerialInv(r0)
  BY InitSession DEF SerialInv
<1>2. FlightOK /\ GamesInv /\ SessionOK /\ SessionOK' /\ SerialInv(r0) /\ [Next]_vars
        => SerialInv(r0)'
  BY NextSerial
<1>3. SerialInv(r0) /\ SessionOK => CountsCoverGames
  <2>. SUFFICES ASSUME SerialInv(r0), SessionOK, pc[r0] = "idle", NEW m \in Members,
                       NEW played,
                       played = {g \in GameIds : m \in Players(g) /\ Linked(g) /\ ~Open(g)},
                       played # {}
                PROVE  m \in DOMAIN counts /\ counts[m] >= Cardinality(played)
    BY DEF CountsCoverGames, ServedAlone
  <2>1. Hand(r0) = {}
    BY DEF Hand, Creating, Leaving, Early, Moving
  <2>2. played = Over(r0, m)
    BY <2>1 DEF Over, Open
  <2>3. IsFiniteSet(played) /\ Cardinality(played) <= MatchCount(m)
    BY <2>2 DEF SerialInv, CoverInv
  <2>4. Cardinality(played) \in Nat /\ Cardinality(played) # 0
    BY <2>3, FS_EmptySet, FS_CardinalityType
  <2>. QED BY <2>3, <2>4 DEF MatchCount
<1>. QED BY <1>1, <1>2, <1>3, FlightInvariant, GamesInvariant, SessionInvariant, PTL DEF Spec

-----------------------------------------------------------------------------
\* Served one at a time, the requests implement SessionLifecycle.

\* Where a member and a game are, with one request in flight.
PlaceNow(r, m) ==
    IF pc[r] \in Creating /\ m \in Players(loc[r].game) THEN "waiting"
    ELSE IF pc[r] \in Leaving /\ m \in Players(loc[r].game) THEN "playing"
    ELSE IF m \in inGame THEN "playing"
    ELSE IF m \in active THEN "waiting" ELSE "away"

StageNow(r, g) ==
    IF ~Linked(g) THEN "none"
    ELSE IF Open(g) \/ (pc[r] \in Leaving /\ g = loc[r].game) THEN "on" ELSE "over"

LEMMA ViewIs ==
    ASSUME NEW r, Requests = {r}
    PROVE  /\ \A m : PlaceOf(m) = PlaceNow(r, m) /\ PlaceOf(m)' = PlaceNow(r, m)'
           /\ \A g : StageOf(g) = StageNow(r, g) /\ StageOf(g)' = StageNow(r, g)'
<1>1. GoingIn = (IF pc[r] \in Creating THEN {loc[r].game} ELSE {})
  BY DEF GoingIn, Creating
<1>2. GoingIn' = (IF pc'[r] \in Creating THEN {loc'[r].game} ELSE {})
  BY DEF GoingIn, Creating
<1>3. GoingOut = (IF pc[r] \in Leaving THEN {loc[r].game} ELSE {})
  BY DEF GoingOut, Leaving, Early, Moving
<1>4. GoingOut' = (IF pc'[r] \in Leaving THEN {loc'[r].game} ELSE {})
  BY DEF GoingOut, Leaving, Early, Moving
<1>5. \A m : PlaceOf(m) = PlaceNow(r, m)
  BY <1>1, <1>3 DEF PlaceOf, PlaceNow
<1>6. \A m : PlaceOf(m)' = PlaceNow(r, m)'
  BY <1>2, <1>4 DEF PlaceOf, PlaceNow
<1>7. \A g : StageOf(g) = StageNow(r, g)
  BY <1>3 DEF StageOf, StageNow
<1>8. \A g : StageOf(g)' = StageNow(r, g)'
  BY <1>4 DEF StageOf, StageNow
<1>. QED BY <1>5, <1>6, <1>7, <1>8

LEMMA InitSessionRefines == Init => Session!Init
<1>. SUFFICES ASSUME Init PROVE Session!Init
  OBVIOUS
<1>1. \A m \in Members : PlaceOf(m) = "away"
  BY DEF Init, PlaceOf, GoingIn, GoingOut
<1>2. \A g \in GameIds : StageOf(g) = "none" /\ TeamsOf(g) = <<{}, {}>>
  BY DEF Init, StageOf, TeamsOf, Linked, NoGame
<1>3. /\ stats.wins = [m \in Members |-> 0]
      /\ stats.playedWith = [m \in Members |-> [n \in Members |-> 0]]
  BY DEF Init, NoStats, Zero
<1>. QED BY <1>1, <1>2, <1>3 DEF Session!Init

\* A step that moves nobody, no game and no statistics.
LEMMA Unseen ==
    ASSUME NEW r, Requests = {r},
           \A m \in Members : PlaceNow(r, m)' = PlaceNow(r, m),
           \A g \in GameIds : StageNow(r, g)' = StageNow(r, g) /\ TeamsOf(g)' = TeamsOf(g),
           UNCHANGED stats
    PROVE  UNCHANGED Session!vars
<1>1. \A m \in Members : PlaceOf(m)' = PlaceOf(m)
  BY ViewIs
<1>2. \A g \in GameIds : StageOf(g)' = StageOf(g)
  BY ViewIs
<1>. QED BY <1>1, <1>2 DEF Session!vars

\* Whatever a request does to the players of the game in its hands.
LEMMA UnseenInHand ==
    ASSUME NEW r, ServedAlone(r), UNCHANGED <<game, stats>>, loc'[r].game = loc[r].game,
           \/ pc[r] \in Creating /\ pc'[r] \in Creating
           \/ pc[r] \in Leaving /\ pc'[r] \in Leaving,
           \A n : n \notin Players(loc[r].game) => /\ n \in active' <=> n \in active
                                                   /\ n \in inGame' <=> n \in inGame
    PROVE  UNCHANGED Session!vars
<1>1. \A h : /\ Players(h)' = Players(h) /\ Linked(h)' = Linked(h) /\ Open(h)' = Open(h)
             /\ game'[h] = game[h]
  BY GamesStay
<1>2. pc[r] \in Creating <=> pc'[r] \in Creating
  BY DEF Creating, Leaving, Early, Moving
<1>3. pc[r] \in Leaving <=> pc'[r] \in Leaving
  BY DEF Creating, Leaving, Early, Moving
<1>4. \A m : PlaceNow(r, m)' = PlaceNow(r, m)
  BY <1>1, <1>2, <1>3 DEF PlaceNow
<1>5. \A h : StageNow(r, h)' = StageNow(r, h) /\ TeamsOf(h)' = TeamsOf(h)
  BY <1>1, <1>3 DEF StageNow, TeamsOf
<1>. QED BY <1>4, <1>5, Unseen DEF ServedAlone

\* The abstract session counts its teams as the handlers do.
LEMMA SameCardinality == \A S : Session!Cardinality(S) = Cardinality(S)
BY Zenon DEF Session!Cardinality, Cardinality

LEMMA BeginRefines ==
    ASSUME NEW r, ServedAlone(r), FlightOK, SessionOK, SerialInv(r), Begin(r)
    PROVE  [Session!Next]_(Session!vars)
<1>0. r \in Requests
  BY DEF ServedAlone
<1>1. ASSUME pc[r] = "idle", pc'[r] \in {"choose", "checkPlayed"}, UNCHANGED database
      PROVE  UNCHANGED Session!vars
  <2>1. \A m : PlaceNow(r, m)' = PlaceNow(r, m)
    BY <1>1 DEF PlaceNow, database, Creating, Leaving, Early, Moving
  <2>2. \A h : StageNow(r, h)' = StageNow(r, h) /\ TeamsOf(h)' = TeamsOf(h)
    BY <1>1, GamesStay DEF StageNow, TeamsOf, database, Leaving, Early, Moving
  <2>. QED BY <1>1, <2>1, <2>2, Unseen DEF ServedAlone, database
<1>2. ASSUME pc[r] = "idle", pc'[r] \in {"setScore", "readTeam1"}, UNCHANGED database,
             loc'[r].game \in GameIds, Open(loc'[r].game)
      PROVE  UNCHANGED Session!vars
  <2>0. Players(loc'[r].game) \subseteq inGame
    BY <1>2 DEF SerialInv, TablesInv, Hand, Creating, Leaving, Early, Moving
  <2>1. \A m : PlaceNow(r, m)' = PlaceNow(r, m)
    BY <1>2, <2>0, GamesStay DEF PlaceNow, database, Creating, Leaving, Early, Moving
  <2>2. \A h : StageNow(r, h)' = StageNow(r, h) /\ TeamsOf(h)' = TeamsOf(h)
    BY <1>2, GamesStay DEF StageNow, TeamsOf, database, Leaving, Early, Moving
  <2>. QED BY <1>2, <2>1, <2>2, Unseen DEF ServedAlone, database
<1>3. CASE BeginCreate(r)
  BY <1>0, <1>1, <1>3, GoesTo DEF BeginCreate, Start
<1>4. ASSUME NEW g \in GameIds, BeginDelete(r, g) PROVE UNCHANGED Session!vars
  <2>1. PICK x : x = [NoLocals EXCEPT !.game = g] /\ Goto(r, "readTeam1", x)
    BY <1>4 DEF BeginDelete, Start
  <2>2. x.game = g
    BY <2>1 DEF NoLocals
  <2>3. pc'[r] = "readTeam1" /\ loc'[r] = x
    BY <1>0, <2>1, GoesTo
  <2>. QED BY <1>2, <1>4, <2>2, <2>3 DEF BeginDelete, Start, MayDelete, ServedAlone
<1>5. ASSUME NEW g \in GameIds, NEW winner \in Winners, NEW here \in BOOLEAN,
             BeginComplete(r, g, winner, here)
      PROVE  UNCHANGED Session!vars
  <2>1. PICK x : /\ x = [NoLocals EXCEPT !.game = g, !.winner = winner, !.here = here]
                   /\ Goto(r, "setScore", x)
    BY <1>5 DEF BeginComplete, Start
  <2>2. x.game = g
    BY <2>1 DEF NoLocals
  <2>3. pc'[r] = "setScore" /\ loc'[r] = x
    BY <1>0, <2>1, GoesTo
  <2>. QED BY <1>2, <1>5, <2>2, <2>3 DEF BeginComplete, Start, MayComplete, ServedAlone
<1>6. ASSUME NEW m \in Members, BeginActivate(r, m) PROVE UNCHANGED Session!vars
  BY <1>0, <1>1, <1>6, GoesTo DEF BeginActivate, Start
<1>7. ASSUME NEW m \in Members, DeactivateMember(r, m) PROVE Session!Leave(m)
  <2>1. /\ pc[r] = "idle" /\ pc'[r] = "idle" /\ m \in active /\ active' = active \ {m}
        /\ UNCHANGED <<inGame, game, stats>>
    BY <1>7 DEF DeactivateMember
  <2>2. m \notin inGame
    BY <2>1 DEF SerialInv, TablesInv, Hand, Creating, Leaving, Early, Moving
  <2>3. PlaceOf(m) = "waiting" /\ PlaceOf(m)' = "away"
    BY <2>1, <2>2, ViewIs DEF PlaceNow, Creating, Leaving, Early, Moving, ServedAlone
  <2>4. ASSUME NEW n, n # m PROVE PlaceOf(n)' = PlaceOf(n)
    <3>1. PlaceNow(r, n)' = PlaceNow(r, n)
      BY <2>1, <2>4 DEF PlaceNow, Creating, Leaving, Early, Moving
    <3>. QED BY <3>1, ViewIs DEF ServedAlone
  <2>5. ASSUME NEW h PROVE StageOf(h)' = StageOf(h) /\ TeamsOf(h)' = TeamsOf(h)
    <3>1. StageNow(r, h)' = StageNow(r, h) /\ TeamsOf(h)' = TeamsOf(h)
      BY <2>1, GamesStay DEF StageNow, TeamsOf, Leaving, Early, Moving
    <3>. QED BY <3>1, ViewIs DEF ServedAlone
  <2>. QED BY <2>1, <2>3, <2>4, <2>5 DEF Session!Leave, Session!Move
<1>8. ~CreatePeg(r)
  BY DEF CreatePeg, ServedAlone
<1>. QED BY <1>3, <1>4, <1>5, <1>6, <1>7, <1>8 DEF Begin, Session!Next

LEMMA CreationRefines ==
    ASSUME NEW r, ServedAlone(r), FlightOK, GamesInv, SessionOK, SerialInv(r),
           \/ ChooseTeams(r) \/ PutInGame(r) \/ LinkGame(r)
           \/ \E m \in Members : TakeFromActive(r, m)
    PROVE  [Session!Next]_(Session!vars)
<1>0. r \in Requests
  BY DEF ServedAlone
<1>. PICK l : l = loc[r]
  OBVIOUS
<1>. PICK g : g = l.game
  OBVIOUS
<1>1. CASE ChooseTeams(r)
  <2>0. PICK team1 \in kSubset(TeamSize, l.read) :
           \E team2 \in kSubset(TeamSize, l.read \ team1) : InsertGame(r, team1, team2)
    BY <1>1 DEF ChooseTeams
  <2>1. PICK team2 \in kSubset(TeamSize, l.read \ team1) : InsertGame(r, team1, team2)
    BY <2>0
  <2>2. PICK h \in Unused :
        /\ game' = [game EXCEPT ![h] = [NoGame EXCEPT !.live = TRUE, !.team1 = team1,
                                                      !.team2 = team2]]
        /\ Goto(r, IF team1 \cup team2 = {} THEN "link" ELSE "take",
                   [NoLocals EXCEPT !.game = h, !.team1 = team1, !.todo = team1 \cup team2])
        /\ UNCHANGED <<active, inGame, playedOnce, counts, stats, history>>
    BY <2>1 DEF InsertGame
  <2>3. /\ pc[r] = "choose" /\ l.read = active /\ team1 \cup team2 \subseteq active
        /\ active \cap inGame = {}
    BY <1>1, <2>1
      DEF ChooseTeams, SerialInv, AloneInv, TablesInv, kSubset, Hand, Creating, Leaving, Early,
        Moving
  <2>4. PICK to, x :
        /\ to = IF team1 \cup team2 = {} THEN "link" ELSE "take"
        /\ x = [NoLocals EXCEPT !.game = h, !.team1 = team1, !.todo = team1 \cup team2]
        /\ Goto(r, to, x)
    BY <2>2
  <2>5. pc'[r] = to /\ loc'[r].game = h /\ to \in {"link", "take"}
    <3>1. x.game = h /\ to \in {"link", "take"}
      BY <2>4 DEF NoLocals
    <3>2. pc'[r] = to /\ loc'[r] = x
      BY <1>0, <2>4, GoesTo
    <3>. QED BY <3>1, <3>2
  <2>6. /\ ~Linked(h) /\ ~Linked(h)' /\ Players(h)' = team1 \cup team2
        /\ \A k \in GameIds \ {h} :
              Open(k)' = Open(k) /\ Linked(k)' = Linked(k) /\ game'[k] = game[k]
    BY <2>2 DEF Unused, NoGame, FlightOK, RowsOK, Players, Linked, Open
  <2>7. \A m : PlaceNow(r, m)' = PlaceNow(r, m)
    BY <2>2, <2>3, <2>5, <2>6 DEF PlaceNow, Creating, Leaving, Early, Moving
  <2>8. \A k \in GameIds : StageNow(r, k)' = StageNow(r, k) /\ TeamsOf(k)' = TeamsOf(k)
    BY <2>3, <2>5, <2>6 DEF StageNow, TeamsOf, Leaving, Early, Moving
  <2>. QED BY <2>2, <2>7, <2>8, Unseen DEF ServedAlone
<1>2. ASSUME pc[r] \in Creating PROVE
        /\ g \in GameIds /\ l.todo \subseteq Players(g) /\ ~Linked(g) /\ TakingIn(r)
        /\ game[g].live /\ game[g].winner = "none" /\ DOMAIN l = Fields
  BY <1>0, <1>2 DEF GamesInv, CreationsOK, LinkedFirst, Linked, SerialInv, AloneInv, FlightOK,
    RequestsOK
<1>3. ASSUME NEW m \in Members, TakeFromActive(r, m) PROVE UNCHANGED Session!vars
  <2>1. PICK x : x = [l EXCEPT !.member = m] /\ Goto(r, "putInGame", x)
    BY <1>3 DEF TakeFromActive
  <2>2. /\ pc[r] = "take" /\ m \in l.todo /\ active' = active \ {m}
        /\ UNCHANGED <<inGame, game, stats>>
    BY <1>3 DEF TakeFromActive, Turn
  <2>3. x.game = g /\ m \in Players(g)
    BY <1>2, <2>1, <2>2 DEF Fields, Creating
  <2>4. pc'[r] = "putInGame" /\ loc'[r].game = loc[r].game
    BY <1>0, <2>1, <2>3, GoesTo
  <2>. QED BY <2>2, <2>3, <2>4, UnseenInHand DEF Creating
<1>4. CASE PutInGame(r)
  <2>1. PICK x, to :
          x = [l EXCEPT !.todo = l.todo \ {l.member}] /\ to \in {"link", "take"} /\ Goto(r, to, x)
    BY <1>4 DEF PutInGame
  <2>2. /\ pc[r] = "putInGame" /\ inGame' = inGame \cup {l.member}
        /\ UNCHANGED <<active, game, stats>>
    BY <1>4 DEF PutInGame
  <2>3. x.game = g /\ l.member \in Players(g)
    BY <1>2, <2>1, <2>2 DEF Fields, Creating, TakingIn
  <2>4. pc'[r] \in {"link", "take"} /\ loc'[r].game = loc[r].game
    BY <1>0, <2>1, <2>3, GoesTo
  <2>. QED BY <2>2, <2>3, <2>4, UnseenInHand DEF Creating
<1>5. CASE LinkGame(r)
  <2>1. /\ pc[r] = "link" /\ pc'[r] = "idle" /\ game' = [game EXCEPT ![g].link = "made"]
        /\ UNCHANGED <<active, inGame, stats>>
    BY <1>0, <1>5, GoesTo DEF LinkGame, Done
  <2>2. /\ g \in GameIds /\ ~Linked(g) /\ game[g].winner = "none"
        /\ Players(g) \subseteq inGame \ active
        /\ Cardinality(game[g].team1) = TeamSize /\ Cardinality(game[g].team2) = TeamSize
        /\ game[g].team1 \cap game[g].team2 = {}
        /\ game[g].team1 \subseteq Members /\ game[g].team2 \subseteq Members
    BY <1>2, <2>1 DEF Creating, TakingIn, SessionOK, DatabaseOK, GameRow
  <2>3. /\ Linked(g)' /\ Open(g)'
        /\ game'[g].team1 = game[g].team1 /\ game'[g].team2 = game[g].team2
        /\ \A k \in GameIds \ {g} :
              Open(k)' = Open(k) /\ Linked(k)' = Linked(k) /\ game'[k] = game[k]
    BY <2>1, <2>2 DEF Open, Linked, FlightOK, RowsOK, RowFields
  <2>4. /\ \A m \in Players(g) : PlaceNow(r, m) = "waiting" /\ PlaceNow(r, m)' = "playing"
        /\ \A m : m \notin Players(g) => PlaceNow(r, m)' = PlaceNow(r, m)
    BY <2>1, <2>2 DEF PlaceNow, Creating, Leaving, Early, Moving
  <2>5. /\ StageNow(r, g) = "none" /\ StageNow(r, g)' = "on"
        /\ TeamsOf(g)' = <<game[g].team1, game[g].team2>>
        /\ \A k \in GameIds \ {g} : StageNow(r, k)' = StageNow(r, k) /\ TeamsOf(k)' = TeamsOf(k)
    BY <2>1, <2>2, <2>3 DEF StageNow, TeamsOf, Leaving, Early, Moving
  <2>6. /\ \A m \in game[g].team1 \cup game[g].team2 :
              PlaceOf(m) = "waiting" /\ PlaceOf(m)' = "playing"
        /\ \A m : m \notin game[g].team1 \cup game[g].team2 => PlaceOf(m)' = PlaceOf(m)
        /\ StageOf(g) = "none" /\ StageOf(g)' = "on"
        /\ \A k \in GameIds \ {g} : StageOf(k)' = StageOf(k)
    BY <2>4, <2>5, ViewIs DEF Players, ServedAlone
  <2>7. Session!Play(g, game[g].team1, game[g].team2)
    <3>. PICK team1, team2 : team1 = game[g].team1 /\ team2 = game[g].team2
      OBVIOUS
    <3>1. Session!Move(team1 \cup team2, "waiting", "playing")
      BY <2>2, <2>6 DEF Session!Move
    <3>2. [h \in GameIds |-> StageOf(h)]' = [[h \in GameIds |-> StageOf(h)] EXCEPT ![g] = "on"]
      BY <2>2, <2>6
    <3>3. [h \in GameIds |-> TeamsOf(h)]'
            = [[h \in GameIds |-> TeamsOf(h)] EXCEPT ![g] = <<team1, team2>>]
      BY <2>2, <2>5
    <3>4. Session!Play(g, team1, team2)
      BY <2>1, <2>2, <2>6, <3>1, <3>2, <3>3, SameCardinality DEF Session!Play
    <3>. QED BY <3>4
  <2>. QED BY <2>2, <2>7 DEF Session!Next
<1>. QED BY <1>1, <1>3, <1>4, <1>5

LEMMA LeavingRefines ==
    ASSUME NEW r, ServedAlone(r), FlightOK, GamesInv, SessionOK, SerialInv(r),
           \/ SetScore(r) \/ ReadTeam1(r) \/ ReadTeam2(r) \/ MarkResult(r)
           \/ \E m \in Members : RatePlayer(r, m) \/ Reactivate(r, m)
           \/ LeaveGame(r) \/ MarkPlayed(r) \/ ReadStats(r)
    PROVE  UNCHANGED Session!vars
<1>0. r \in Requests
  BY DEF ServedAlone
<1>. PICK l : l = loc[r]
  OBVIOUS
<1>. PICK g : g = l.game
  OBVIOUS
<1>1. pc[r] \in Leaving
  BY DEF SetScore, ReadTeam1, ReadTeam2, RatePlayer, MarkResult, Reactivate, LeaveGame,
    MarkPlayed, ReadStats, Leaving, Early, Moving
<1>2. /\ g \in GameIds /\ Linked(g) /\ game[g].live /\ TakingOut(r)
      /\ DOMAIN l = Fields /\ l.here
  <2>1. g \in GameIds /\ DOMAIN l = Fields /\ l.here /\ TakingOut(r)
    BY <1>0, <1>1 DEF GamesInv, HandlersOK, Handling, Leaving, Early, Moving, Ending, SerialInv,
      AloneInv, FlightOK, RequestsOK, SessionOK, LocalsOK, Fits, ServedAlone
  <2>. QED BY <2>1 DEF TakingOut, SerialInv, TablesInv
<1>3. ASSUME NEW x, NEW to \in Leaving, Goto(r, to, x), x.game = g, UNCHANGED <<game, stats>>,
             \A n : n \notin Players(g) => /\ n \in active' <=> n \in active
                                           /\ n \in inGame' <=> n \in inGame
      PROVE  UNCHANGED Session!vars
  <2>1. pc'[r] = to /\ loc'[r] = x
    BY <1>0, <1>3, GoesTo
  <2>. QED BY <1>1, <1>3, <2>1, UnseenInHand
<1>r. ASSUME NEW x, Rated(r, x), UNCHANGED database, DOMAIN x = Fields, x.game = g, x.here
      PROVE  UNCHANGED Session!vars
  <2>1. PICK y, to :
          /\ y = IF x.todo = {} THEN [x EXCEPT !.todo = Both(x)] ELSE x
          /\ to = IF x.todo = {} THEN PutBack(x, Both(x)) ELSE "rate"
    OBVIOUS
  <2>2. Goto(r, to, y)
    BY <1>r, <2>1 DEF Rated
  <2>3. y.game = g /\ to \in Leaving
    BY <1>r, <2>1 DEF Fields, PutBack, AfterPlayers, Leaving, Early, Moving
  <2>. QED BY <1>3, <1>r, <2>2, <2>3 DEF database
<1>4. CASE SetScore(r)
  <2>1. /\ pc[r] = "setScore" /\ game' = [game EXCEPT ![g].winner = l.winner]
        /\ pc'[r] = "readTeam1" /\ loc'[r] = l
        /\ UNCHANGED <<active, inGame, stats>>
    BY <1>0, <1>2, <1>4, GoesTo DEF SetScore
  <2>2. /\ Linked(g)' /\ game'[g].team1 = game[g].team1 /\ game'[g].team2 = game[g].team2
        /\ \A k \in GameIds \ {g} :
              Open(k)' = Open(k) /\ Linked(k)' = Linked(k) /\ game'[k] = game[k]
    BY <1>2, <2>1 DEF Open, Linked, FlightOK, RowsOK, RowFields
  <2>3. \A m : PlaceNow(r, m)' = PlaceNow(r, m)
    BY <2>1, <2>2 DEF PlaceNow, Players, Creating, Leaving, Early
  <2>4. \A k \in GameIds : StageNow(r, k)' = StageNow(r, k) /\ TeamsOf(k)' = TeamsOf(k)
    BY <1>2, <2>1, <2>2 DEF StageNow, TeamsOf, Leaving, Early
  <2>. QED BY <2>1, <2>3, <2>4, Unseen DEF ServedAlone
<1>5. CASE ReadTeam1(r)
  <2>1. PICK x : x = [l EXCEPT !.team1 = TeamOf(g, "team1")] /\ Goto(r, "readTeam2", x)
    BY <1>5 DEF ReadTeam1
  <2>2. x.game = g
    BY <1>2, <2>1 DEF Fields
  <2>. QED BY <1>3, <1>5, <2>1, <2>2 DEF ReadTeam1, database, Leaving, Early
<1>6. CASE ReadTeam2(r)
  <2>1. PICK x : x = [l EXCEPT !.team2 = TeamOf(g, "team2"),
                               !.todo = l.team1 \cup TeamOf(g, "team2")]
    OBVIOUS
  <2>2. DOMAIN x = Fields /\ x.game = g /\ x.here
    BY <1>2, <2>1 DEF Fields
  <2>3. /\ UNCHANGED database
        /\ IF x.winner = "none" THEN Goto(r, PutBack(x, x.todo), x) ELSE Rated(r, x)
    BY <1>6, <2>1 DEF ReadTeam2
  <2>4. PutBack(x, x.todo) \in Leaving
    BY DEF PutBack, AfterPlayers, Leaving, Early, Moving
  <2>5. CASE x.winner # "none"
    BY <1>r, <2>2, <2>3, <2>5
  <2>6. CASE x.winner = "none"
    BY <1>3, <2>2, <2>3, <2>4, <2>6 DEF database
  <2>. QED BY <2>5, <2>6
<1>7. ASSUME NEW m \in Members, RatePlayer(r, m) PROVE UNCHANGED Session!vars
  <2>1. PICK x : x = [l EXCEPT !.member = m] /\ Goto(r, "mark", x)
    BY <1>7 DEF RatePlayer
  <2>2. x.game = g
    BY <1>2, <2>1 DEF Fields
  <2>. QED BY <1>3, <1>7, <2>1, <2>2 DEF RatePlayer, database, Leaving, Early
<1>12. CASE MarkResult(r)
  <2>1. PICK x : /\ DOMAIN x = Fields /\ x.todo = l.todo \ {l.member}
                 /\ \A f \in Fields \ {"todo"} : x[f] = l[f]
                 /\ Rated(r, x)
    BY <1>0, <1>2, <1>12, MarkGoes
  <2>2. x.game = g /\ x.here /\ UNCHANGED database
    BY <1>2, <1>12, <2>1 DEF Fields, MarkResult
  <2>. QED BY <1>r, <2>1, <2>2
<1>8. ASSUME NEW m \in Members, Reactivate(r, m) PROVE UNCHANGED Session!vars
  <2>1. PICK x : x = [l EXCEPT !.member = m] /\ Goto(r, "leaveGame", x)
    BY <1>8 DEF Reactivate
  <2>2. /\ pc[r] = "reactivate" /\ m \in l.todo /\ active' = active \cup {m}
        /\ UNCHANGED <<inGame, game, stats>>
    BY <1>8 DEF Reactivate, Turn
  <2>3. x.game = g /\ m \in Players(g)
    BY <1>2, <2>1, <2>2 DEF Fields, TakingOut, Early
  <2>. QED BY <1>3, <2>1, <2>2, <2>3 DEF Leaving, Moving
<1>9. CASE LeaveGame(r)
  <2>1. PICK x, to :
          /\ x = [l EXCEPT !.todo = l.todo \ {l.member}]
          /\ to = IF l.winner = "none" THEN PutBack(l, l.todo \ {l.member}) ELSE "markPlayed"
          /\ Goto(r, to, x)
    BY <1>9 DEF LeaveGame
  <2>2. /\ pc[r] = "leaveGame" /\ inGame' = inGame \ {l.member} /\ UNCHANGED <<active, game, stats>>
    BY <1>9 DEF LeaveGame
  <2>3. x.game = g /\ l.member \in Players(g)
    BY <1>2, <2>1, <2>2 DEF Fields, TakingOut, Early
  <2>4. to \in Leaving
    BY <2>1 DEF PutBack, AfterPlayers, Leaving, Moving
  <2>. QED BY <1>3, <2>1, <2>2, <2>3, <2>4
<1>10. CASE MarkPlayed(r)
  <2>1. Goto(r, PutBack(l, l.todo), l) /\ UNCHANGED <<active, inGame, game, stats>>
    BY <1>10 DEF MarkPlayed
  <2>2. PutBack(l, l.todo) \in Leaving
    BY DEF PutBack, AfterPlayers, Leaving, Moving
  <2>. QED BY <1>3, <2>1, <2>2
<1>11. CASE ReadStats(r)
  <2>1. PICK x : x = [l EXCEPT !.counts = counts, !.stats = stats] /\ Goto(r, "writeStats", x)
    BY <1>11 DEF ReadStats
  <2>2. x.game = g
    BY <1>2, <2>1 DEF Fields
  <2>. QED BY <1>3, <1>11, <2>1, <2>2 DEF ReadStats, database, Leaving
<1>. QED BY <1>4, <1>5, <1>6, <1>7, <1>8, <1>9, <1>10, <1>11, <1>12

\* The players of a game that ends are waiting again, and nobody else moves.
LEMMA EndedView ==
    ASSUME NEW r, ServedAlone(r), NEW g \in GameIds, g = loc[r].game, pc[r] \in Leaving,
           pc'[r] \notin Creating \cup Leaving, Players(g) \subseteq active \ inGame,
           UNCHANGED <<active, inGame>>
    PROVE  /\ \A m \in Players(g) : PlaceOf(m) = "playing" /\ PlaceOf(m)' = "waiting"
           /\ \A m : m \notin Players(g) => PlaceOf(m)' = PlaceOf(m)
<1>0. pc[r] \notin Creating
  BY DEF Creating, Leaving, Early, Moving
<1>1. \A m \in Players(g) : PlaceNow(r, m) = "playing" /\ PlaceNow(r, m)' = "waiting"
  BY <1>0 DEF PlaceNow
<1>2. \A m : m \notin Players(g) => PlaceNow(r, m)' = PlaceNow(r, m)
  BY <1>0 DEF PlaceNow
<1>. QED BY <1>1, <1>2, ViewIs DEF ServedAlone

LEMMA CompletionRefines ==
    ASSUME NEW r, ServedAlone(r), FlightOK, GamesInv, SessionOK, SerialInv(r), WriteStats(r)
    PROVE  Session!Next
<1>0. r \in Requests
  BY DEF ServedAlone
<1>. PICK l : l = loc[r]
  OBVIOUS
<1>. PICK g : g = l.game
  OBVIOUS
<1>1. /\ pc[r] = "writeStats" /\ pc'[r] = "idle" /\ stats' = Updated(l) /\ l.stats = stats
      /\ UNCHANGED <<active, inGame, game>> /\ l.winner \in Winners
  BY <1>0, GoesTo DEF WriteStats, Done, SerialInv, AloneInv, SessionOK, LocalsOK, Fits
<1>2. /\ g \in GameIds /\ Linked(g) /\ game[g].winner = l.winner
      /\ l.team1 = game[g].team1 /\ l.team2 = game[g].team2
      /\ Players(g) \subseteq active \ inGame /\ Players(g) \subseteq Members
  <2>1. g \in GameIds /\ TakingOut(r)
    BY <1>0, <1>1 DEF GamesInv, HandlersOK, Handling, Ending, SerialInv, AloneInv, Leaving
  <2>. QED BY <1>1, <2>1 DEF TakingOut, Early, SessionOK, DatabaseOK, GameRow, Players
<1>3. /\ \A m \in Players(g) : PlaceOf(m) = "playing" /\ PlaceOf(m)' = "waiting"
      /\ \A m : m \notin Players(g) => PlaceOf(m)' = PlaceOf(m)
  BY <1>1, <1>2, EndedView DEF Creating, Leaving, Early, Moving
<1>4. /\ StageOf(g) = "on" /\ StageOf(g)' = "over"
      /\ \A k \in GameIds \ {g} : StageOf(k)' = StageOf(k)
      /\ \A k \in GameIds : TeamsOf(k)' = TeamsOf(k)
  <2>1. /\ StageNow(r, g) = "on" /\ StageNow(r, g)' = "over"
        /\ \A k \in GameIds \ {g} : StageNow(r, k)' = StageNow(r, k)
    BY <1>1, <1>2, GamesStay DEF StageNow, Open, Leaving, Early, Moving, Winners
  <2>2. \A k \in GameIds : TeamsOf(k)' = TeamsOf(k)
    BY <1>1, GamesStay DEF TeamsOf
  <2>. QED BY <2>1, <2>2, ViewIs DEF ServedAlone
<1>. PICK side : side = IF l.winner = "team1" THEN 1 ELSE 2
  OBVIOUS
<1>5. /\ side \in {1, 2} /\ TeamsOf(g)[side] = l[l.winner]
      /\ TeamsOf(g)[1] \cup TeamsOf(g)[2] = Players(g) /\ Players(g) = l.team1 \cup l.team2
  BY <1>1, <1>2 DEF TeamsOf, Players, Winners
<1>6. stats.wins \in Totals /\ stats.playedWith \in [Members -> Totals]
  BY DEF SessionOK, DatabaseOK, StatsRow
<1>7. stats'.wins =
        [m \in Members |-> IF m \in l[l.winner] THEN stats.wins[m] + 1 ELSE stats.wins[m]]
  BY <1>1, <1>6 DEF Updated, Bump, Totals
<1>8. stats'.playedWith =
        [m \in Members |-> [n \in Members |->
            IF m # n /\ {m, n} \subseteq Players(g) THEN stats.playedWith[m][n] + 1
                                                    ELSE stats.playedWith[m][n]]]
  <2>1. stats'.playedWith = Met(stats.playedWith, l)
    BY <1>1 DEF Updated
  <2>2. ASSUME NEW m \in Members
        PROVE  Met(stats.playedWith, l)[m] =
                 [n \in Members |->
                    IF m # n /\ {m, n} \subseteq Players(g) THEN stats.playedWith[m][n] + 1
                                                            ELSE stats.playedWith[m][n]]
    <3>1. stats.playedWith[m] \in [Members -> Nat]
      BY <1>6 DEF Totals
    <3>2. CASE m \in Players(g)
      BY <1>5, <3>1, <3>2 DEF Met, Bump
    <3>3. CASE m \notin Players(g)
      BY <1>5, <3>1, <3>3 DEF Met, Bump
    <3>. QED BY <3>2, <3>3
  <2>3. Met(stats.playedWith, l) = [m \in Members |-> Met(stats.playedWith, l)[m]]
    BY DEF Met
  <2>. QED BY <2>1, <2>2, <2>3
<1>9. Session!Both(g) = Players(g)
  BY <1>2, <1>5 DEF Session!Both
<1>10. Session!Move(Players(g), "playing", "waiting")
  BY <1>2, <1>3 DEF Session!Move
<1>11. [h \in GameIds |-> StageOf(h)]' = [[h \in GameIds |-> StageOf(h)] EXCEPT ![g] = "over"]
  BY <1>2, <1>4
<1>12. [h \in GameIds |-> TeamsOf(h)]' = [h \in GameIds |-> TeamsOf(h)]
  BY <1>4
<1>13. Session!Finish(g, side)
  <2>1. [h \in GameIds |-> StageOf(h)][g] = "on"
    BY <1>2, <1>4
  <2>2. stats'.wins = [m \in Members |-> IF m \in [h \in GameIds |-> TeamsOf(h)][g][side]
                                         THEN stats.wins[m] + 1 ELSE stats.wins[m]]
    BY <1>2, <1>5, <1>7
  <2>3. stats'.playedWith =
          [m \in Members |-> [n \in Members |->
              IF m # n /\ {m, n} \subseteq Session!Both(g) THEN stats.playedWith[m][n] + 1
                                                          ELSE stats.playedWith[m][n]]]
    BY <1>8, <1>9
  <2>4. Session!Move(Session!Both(g), "playing", "waiting")
    BY <1>9, <1>10
  <2>. QED BY <1>11, <1>12, <2>1, <2>2, <2>3, <2>4 DEF Session!Finish
<1>. QED BY <1>2, <1>5, <1>13 DEF Session!Next

LEMMA DeletionRefines ==
    ASSUME NEW r, ServedAlone(r), FlightOK, GamesInv, SessionOK, SerialInv(r), Unlink(r)
    PROVE  Session!Next
<1>0. r \in Requests
  BY DEF ServedAlone
<1>. PICK g : g = loc[r].game
  OBVIOUS
<1>1. /\ pc[r] = "unlink" /\ pc'[r] = "delete" /\ game' = [game EXCEPT ![g].link = "removed"]
      /\ UNCHANGED <<active, inGame, stats>>
  BY <1>0, GoesTo DEF Unlink
<1>2. /\ g \in GameIds /\ Linked(g)
      /\ Players(g) \subseteq active \ inGame /\ Players(g) \subseteq Members
  <2>1. g \in GameIds /\ TakingOut(r)
    BY <1>0, <1>1 DEF GamesInv, HandlersOK, Handling, Ending, SerialInv, AloneInv, Leaving
  <2>. QED BY <1>1, <2>1 DEF TakingOut, Early, SessionOK, DatabaseOK, GameRow, Players
<1>3. /\ \A m \in Players(g) : PlaceOf(m) = "playing" /\ PlaceOf(m)' = "waiting"
      /\ \A m : m \notin Players(g) => PlaceOf(m)' = PlaceOf(m)
  BY <1>1, <1>2, EndedView DEF Creating, Leaving, Early, Moving
<1>4. /\ ~Linked(g)'
      /\ \A k \in GameIds \ {g} : Open(k)' = Open(k) /\ Linked(k)' = Linked(k) /\ game'[k] = game[k]
  BY <1>1, <1>2 DEF Linked, Open, FlightOK, RowsOK, RowFields
<1>5. /\ StageOf(g) = "on" /\ StageOf(g)' = "none"
      /\ \A k \in GameIds \ {g} : StageOf(k)' = StageOf(k)
  <2>1. /\ StageNow(r, g) = "on" /\ StageNow(r, g)' = "none"
        /\ \A k \in GameIds \ {g} : StageNow(r, k)' = StageNow(r, k)
    BY <1>1, <1>2, <1>4 DEF StageNow, Leaving, Early, Moving
  <2>. QED BY <2>1, ViewIs DEF ServedAlone
<1>6. /\ TeamsOf(g)[1] \cup TeamsOf(g)[2] = Players(g) /\ TeamsOf(g)' = <<{}, {}>>
      /\ \A k \in GameIds \ {g} : TeamsOf(k)' = TeamsOf(k)
  BY <1>2, <1>4 DEF TeamsOf, Players
<1>7. Session!Both(g) = Players(g)
  BY <1>2, <1>6 DEF Session!Both
<1>8. Session!Move(Players(g), "playing", "waiting")
  BY <1>2, <1>3 DEF Session!Move
<1>9. [h \in GameIds |-> StageOf(h)]' = [[h \in GameIds |-> StageOf(h)] EXCEPT ![g] = "none"]
  BY <1>2, <1>5
<1>10. [h \in GameIds |-> TeamsOf(h)]' = [[h \in GameIds |-> TeamsOf(h)] EXCEPT ![g] = <<{}, {}>>]
  BY <1>2, <1>6
<1>11. Session!CallOff(g)
  BY <1>1, <1>2, <1>5, <1>7, <1>8, <1>9, <1>10 DEF Session!CallOff
<1>. QED BY <1>2, <1>11 DEF Session!Next

LEMMA JoiningRefines ==
    ASSUME NEW r, ServedAlone(r), FlightOK, GamesInv, SessionOK, SerialInv(r),
           CheckPlayed(r) \/ SeedCount(r) \/ Join(r) \/ DeleteGame(r)
    PROVE  [Session!Next]_(Session!vars)
<1>0. r \in Requests
  BY DEF ServedAlone
<1>. PICK m : m = loc[r].member
  OBVIOUS
<1>1. ASSUME pc[r] \notin Creating \cup Leaving, pc'[r] \notin Creating \cup Leaving,
             UNCHANGED <<active, inGame, stats>>,
             \A h \in GameIds : StageNow(r, h)' = StageNow(r, h) /\ TeamsOf(h)' = TeamsOf(h)
      PROVE  UNCHANGED Session!vars
  <2>1. \A n : PlaceNow(r, n)' = PlaceNow(r, n)
    BY <1>1 DEF PlaceNow
  <2>. QED BY <1>1, <2>1, Unseen DEF ServedAlone
<1>2. CASE CheckPlayed(r) \/ SeedCount(r)
  <2>1. /\ pc[r] \in {"checkPlayed", "seed"} /\ pc'[r] \in {"seed", "join"}
        /\ UNCHANGED <<active, inGame, game, stats>>
    BY <1>0, <1>2, GoesTo DEF CheckPlayed, SeedCount, database
  <2>2. \A h : StageNow(r, h)' = StageNow(r, h) /\ TeamsOf(h)' = TeamsOf(h)
    BY <2>1, GamesStay DEF StageNow, TeamsOf, Leaving, Early, Moving
  <2>. QED BY <1>1, <2>1, <2>2 DEF Creating, Leaving, Early, Moving
<1>3. CASE DeleteGame(r)
  <2>1. /\ pc[r] = "delete" /\ pc'[r] = "idle" /\ ~Linked(loc[r].game)
        /\ game' = [game EXCEPT ![loc[r].game].live = FALSE]
        /\ UNCHANGED <<active, inGame, stats>>
    BY <1>0, <1>3, GoesTo DEF DeleteGame, Done, SerialInv, AloneInv, Linked
  <2>2. \A h \in GameIds : /\ Linked(h)' = Linked(h) /\ Open(h)' = Open(h)
                           /\ game'[h].team1 = game[h].team1 /\ game'[h].team2 = game[h].team2
    BY <2>1 DEF Linked, Open, FlightOK, RowsOK, RowFields
  <2>3. \A h \in GameIds : StageNow(r, h)' = StageNow(r, h) /\ TeamsOf(h)' = TeamsOf(h)
    BY <2>1, <2>2 DEF StageNow, TeamsOf, Leaving, Early, Moving
  <2>. QED BY <1>1, <2>1, <2>3 DEF Creating, Leaving, Early, Moving
<1>4. CASE Join(r)
  <2>1. /\ pc[r] = "join" /\ pc'[r] = "idle" /\ active' = active \cup {m}
        /\ m \in Members /\ m \notin active \cup inGame
        /\ UNCHANGED <<inGame, game, stats>>
    BY <1>0, <1>4, GoesTo DEF Join, Done, SerialInv, AloneInv, SessionOK, LocalsOK, Fits
  <2>2. /\ PlaceNow(r, m) = "away" /\ PlaceNow(r, m)' = "waiting"
        /\ \A n : n # m => PlaceNow(r, n)' = PlaceNow(r, n)
    BY <2>1 DEF PlaceNow, Creating, Leaving, Early, Moving
  <2>3. \A h : StageNow(r, h)' = StageNow(r, h) /\ TeamsOf(h)' = TeamsOf(h)
    BY <2>1, GamesStay DEF StageNow, TeamsOf, Leaving, Early, Moving
  <2>4. /\ PlaceOf(m) = "away" /\ PlaceOf(m)' = "waiting"
        /\ \A n : n # m => PlaceOf(n)' = PlaceOf(n)
        /\ \A h : StageOf(h)' = StageOf(h)
    BY <2>2, <2>3, ViewIs DEF ServedAlone
  <2>5. Session!Come(m)
    BY <2>1, <2>3, <2>4 DEF Session!Come, Session!Move
  <2>. QED BY <2>1, <2>5 DEF Session!Next
<1>. QED BY <1>2, <1>3, <1>4

\* Requests served one at a time implement the atomic session: a member plays
\* in one game at a time, and each completed game counts once (create_sbmm,
\* create_social, complete_game, delete_game, activate_member,
\* deactivate_member).
THEOREM SerialSessionIsAtomic ==
    ASSUME NEW r0, ServedAlone(r0)
    PROVE  Spec => ImplementsSession
<1>1. Init => Session!Init /\ SerialInv(r0)
  BY InitSession, InitSessionRefines DEF SerialInv
<1>2. FlightOK /\ GamesInv /\ SessionOK /\ SessionOK' /\ SerialInv(r0) /\ [Next]_vars
        => SerialInv(r0)' /\ [Session!Next]_(Session!vars)
  <2>. SUFFICES ASSUME FlightOK, GamesInv, SessionOK, SessionOK', SerialInv(r0), [Next]_vars
                PROVE  SerialInv(r0)' /\ [Session!Next]_(Session!vars)
    OBVIOUS
  <2>1. CASE UNCHANGED vars
    <3>1. \A m : PlaceOf(m)' = PlaceOf(m)
      BY <2>1 DEF vars, database, PlaceOf, GoingIn, GoingOut, Players
    <3>2. \A g : StageOf(g)' = StageOf(g) /\ TeamsOf(g)' = TeamsOf(g)
      BY <2>1 DEF vars, database, StageOf, TeamsOf, GoingOut, Open, Linked
    <3>. QED BY <2>1, <3>1, <3>2, NextSerial DEF vars, database, Session!vars
  <2>2. ~Drop(r0)
    BY SessionAssumption DEF Drop, SessionOK, HistoryOK, ServedAlone
  <2>3. CASE Begin(r0)
    BY <2>3, BeginRefines, NextSerial
  <2>4. CASE Step(r0)
    BY <2>4, CreationRefines, LeavingRefines, CompletionRefines, DeletionRefines, JoiningRefines,
      NextSerial DEF Step
  <2>5. \A q \in Requests : q = r0
    BY DEF ServedAlone
  <2>6. CASE CreateElsewhere \/ \E g \in GameIds : DeleteElsewhere(g)
    <3>1. \A m : PlaceNow(r0, m)' = PlaceNow(r0, m)
      <4>1. pc[r0] \in Creating \cup Leaving => loc[r0].game \in GameIds
        BY DEF ServedAlone, GamesInv, CreationsOK, HandlersOK, Creating, Handling, Leaving, Early,
          Moving, Ending
      <4>. QED BY <2>6, <4>1, SerialElsewhere DEF PlaceNow
    <3>2. \A g \in GameIds : StageNow(r0, g)' = StageNow(r0, g) /\ TeamsOf(g)' = TeamsOf(g)
      BY <2>6, SerialElsewhere DEF StageNow, TeamsOf
    <3>3. UNCHANGED Session!vars
      BY <2>6, <3>1, <3>2, Unseen, SerialElsewhere DEF ServedAlone
    <3>. QED BY <2>6, <3>3, SerialElsewhere
  <2>. QED BY <2>1, <2>2, <2>3, <2>4, <2>5, <2>6 DEF Next
<1>. QED
  BY <1>1, <1>2, FlightInvariant, GamesInvariant, SessionInvariant, PTL
    DEF Spec, ImplementsSession, Session!Spec
=============================================================================
