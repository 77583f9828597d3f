--------------------------- MODULE FixturesProofs ---------------------------
(***************************************************************************)
(* Theorems about the fixture handlers, for every set of clubs, users,     *)
(* fixtures, games and game types.  First whatever overlaps or stops: one  *)
(* invariant for the types, and one layer on top of another for consent,   *)
(* confirmation and what the ladder folds.                                 *)
(*                                                                         *)
(* Then when the server answers one request at a time and none stops       *)
(* half-way: the handlers take a fixture through the                       *)
(* life that FixtureLifecycle promises, and the ladder holds each result   *)
(* once.  Overlapping requests promise neither: the runs that expect a     *)
(* violation show it.                                                      *)
(*                                                                         *)
(* SerialInv says what a request that is alone may rely on: nobody changes *)
(* the status it read, nor the game it has inserted.  What the life cycle  *)
(* sees of a fixture is its View, without the game or the settlement in    *)
(* the hands of the request in flight: the UPDATE of the status that ends  *)
(* a request is where both become visible, and every other statement       *)
(* leaves every view as it was.  LadderInv says what a settlement carries  *)
(* from one statement to the next: the ratings it loaded, and then those   *)
(* it will save, are what the results decided so far fold into.            *)
(***************************************************************************)
EXTENDS FixtureRefinement, FiniteSetTheorems, SequenceTheorems, TLAPS

\* What a handler's program counter says of its locals.
LocalsOK ==
    \A r \in Requests :
        /\ pc[r] # "idle" => /\ loc[r].fixture \in FixtureIds
                             /\ fixture[loc[r].fixture].status # "absent"
        /\ pc[r] \in {"insertGame", "linkGame", "ratePlayers", "writePlayed"} =>
             loc[r].game \in GameIds /\ loc[r].winner \in Sides
        /\ pc[r] \in {"upsert", "count", "tally", "loadHome", "loadAway",
                      "saveHome", "saveAway", "writeConfirmed"} =>
             loc[r].club \in Clubs

RowsOK ==
    \A f \in FixtureIds :
        fixture[f].status # "absent" =>
            /\ fixture[f].home \in Clubs
            /\ fixture[f].away \in Clubs
            /\ fixture[f].home # fixture[f].away

TypeInv == TypeOK /\ LocalsOK /\ RowsOK

LEMMA SavedType ==
    ASSUME NEW rows \in Seq(EloRow), NEW t, NEW rating \in Rating, NEW bump \in Nat
    PROVE  Saved(rows, t, rating, bump) \in Seq(EloRow)
<1>1. CASE t # None /\ rows # <<>>
  <2>1. Len(rows) \in Nat /\ Len(rows) >= 1 /\ rows[1] \in EloRow
    BY <1>1
  <2>2. [rating |-> rating, played |-> rows[1].played + bump] \in EloRow
    BY <2>1 DEF EloRow
  <2>. QED BY <1>1, <2>1, <2>2 DEF Saved
<1>2. CASE ~(t # None /\ rows # <<>>)
  <2>1. [rating |-> rating, played |-> bump] \in EloRow
    BY DEF EloRow
  <2>. QED BY <1>2, <2>1 DEF Saved
<1>. QED BY <1>1, <1>2

LEMMA LoadableType ==
    ASSUME TypeOK, NEW c \in Clubs, NEW t \in Types, NEW rating \in Loadable(c, t)
    PROVE  rating \in Rating
<1>1. clubElo[c][t] \in Seq(EloRow)
  BY DEF TypeOK
<1>2. DefaultRating \in Rating
  BY DEF DefaultRating, Rating
<1>3. \A i \in 1..Len(clubElo[c][t]) : clubElo[c][t][i].rating \in Rating
  <2>1. \A i \in 1..Len(clubElo[c][t]) : clubElo[c][t][i] \in EloRow
    BY <1>1
  <2>. QED BY <2>1 DEF EloRow
<1>. QED BY <1>2, <1>3 DEF Loadable

LEMMA UpdateClubType ==
    ASSUME NEW rating \in Rating, NEW f \in FixtureIds, NEW side, NEW winner
    PROVE  UpdateClub(rating, f, side, winner) \in Rating
BY DEF UpdateClub, Rating

LEMMA InitTypeInv == Init => TypeInv
<1>. SUFFICES ASSUME Init PROVE TypeInv
  OBVIOUS
<1>1. DefaultRating \in Rating
  BY DEF DefaultRating, Rating
<1>2. NoLocals \in Locals
  BY <1>1 DEF NoLocals, Locals, Statuses
<1>3. clubElo \in [Clubs -> [Types -> Seq(EloRow)]]
  BY DEF Init
<1>4. fixture \in [FixtureIds -> FixtureRow]
  BY DEF Init, FixtureRow, Statuses, Types
<1>5. pc \in [Requests -> Labels] /\ drops \in 0..MaxDrops
  BY DropsAssumption DEF Init, Labels
<1>6. TypeOK
  BY <1>2, <1>3, <1>4, <1>5 DEF Init, TypeOK
<1>7. LocalsOK /\ RowsOK
  BY DEF Init, LocalsOK, RowsOK
<1>. QED BY <1>6, <1>7 DEF TypeInv

LEMMA ProposeTypeInv ==
    ASSUME TypeInv, NEW u \in Users, NEW h \in Clubs, NEW a \in Clubs,
           NEW t \in Types, NEW f \in FixtureIds, ProposeFixture(u, h, a, t, f)
    PROVE  TypeInv'
<1>. USE DEF TypeInv, ProposeFixture, history
<1>1. fixture' \in [FixtureIds -> FixtureRow]
  BY DEF TypeOK, FixtureRow, Statuses
<1>2. TypeOK'
  BY <1>1 DEF TypeOK
<1>3. LocalsOK'
  BY DEF TypeOK, LocalsOK, FixtureRow
<1>4. RowsOK'
  BY DEF TypeOK, RowsOK, FixtureRow
<1>. QED BY <1>2, <1>3, <1>4

LEMMA BeginTypeInv ==
    ASSUME TypeInv, NEW r \in Requests, NEW u \in Users, NEW f \in FixtureIds,
           Begin(r, u, f)
    PROVE  TypeInv'
<1>. USE DEF TypeInv, dbVars, history, Keep
<1>1. pc[r] = "idle" /\ UNCHANGED <<dbVars, history>> /\ fixture[f].status # "absent"
  BY DEF Begin, BeginAnswer, BeginCancel, BeginRecord, Recordable, BeginConfirm, ReadFixture
<1>2. RowsOK'
  BY <1>1 DEF RowsOK
<1>3. ASSUME NEW label \in {"accept", "decline", "cancel"}, ReadFixture(r, f, label)
      PROVE  TypeOK' /\ LocalsOK'
  <2>0. [loc[r] EXCEPT !.fixture = f, !.seen = fixture[f].status] \in Locals
    BY ZenonT(60) DEF TypeOK, Locals, FixtureRow
  <2>1. loc' \in [Requests -> Locals]
    BY <1>3, <2>0 DEF ReadFixture, TypeOK
  <2>2. pc' \in [Requests -> Labels]
    BY <1>3 DEF ReadFixture, Goto, TypeOK, Labels
  <2>3. TypeOK'
    BY <1>1, <2>1, <2>2 DEF TypeOK
  <2>4. LocalsOK'
    BY <1>1, <1>3 DEF ReadFixture, Goto, TypeOK, LocalsOK
  <2>. QED BY <2>3, <2>4
<1>4. ASSUME NEW answer \in {"accept", "decline"}, BeginAnswer(r, u, f, answer)
      PROVE  TypeInv'
  BY <1>2, <1>3, <1>4 DEF BeginAnswer
<1>5. CASE BeginCancel(r, u, f)
  BY <1>2, <1>3, <1>5 DEF BeginCancel
<1>6. ASSUME NEW side \in Sides, NEW g \in GameIds, BeginRecord(r, u, f, side, g)
      PROVE  TypeInv'
  <2>0. [loc[r] EXCEPT !.fixture = f, !.seen = fixture[f].status,
                       !.winner = side, !.game = g] \in Locals
    BY ZenonT(60) DEF TypeOK, Locals, FixtureRow
  <2>1. loc' \in [Requests -> Locals]
    BY <1>6, <2>0 DEF BeginRecord, Recordable, TypeOK
  <2>2. pc' \in [Requests -> Labels]
    BY <1>6 DEF BeginRecord, Recordable, Goto, TypeOK, Labels
  <2>3. TypeOK'
    BY <1>1, <2>1, <2>2 DEF TypeOK
  <2>4. LocalsOK'
    BY <1>1, <1>6 DEF BeginRecord, Recordable, Goto, TypeOK, LocalsOK
  <2>. QED BY <1>2, <2>3, <2>4
<1>7. CASE BeginConfirm(r, u, f)
  <2>1. ConfirmsFor(u, f) \in Clubs
    BY <1>1 DEF ConfirmsFor, RowsOK
  <2>0. [loc[r] EXCEPT !.fixture = f, !.seen = fixture[f].status,
                       !.club = ConfirmsFor(u, f)] \in Locals
    BY <2>1, ZenonT(60) DEF TypeOK, Locals, FixtureRow
  <2>2. loc' \in [Requests -> Locals]
    BY <1>7, <2>0 DEF BeginConfirm, TypeOK
  <2>3. pc' \in [Requests -> Labels]
    BY <1>7 DEF BeginConfirm, Goto, TypeOK, Labels
  <2>4. TypeOK'
    BY <1>1, <2>2, <2>3 DEF TypeOK
  <2>5. LocalsOK'
    BY <1>1, <1>7, <2>1 DEF BeginConfirm, Goto, TypeOK, LocalsOK
  <2>. QED BY <1>2, <2>4, <2>5
<1>. QED BY <1>4, <1>5, <1>6, <1>7 DEF Begin

LEMMA NoLocalsType == NoLocals \in Locals
BY DEF NoLocals, Locals, Statuses, DefaultRating, Rating

LEMMA StepTypeInv ==
    ASSUME TypeInv, NEW r \in Requests, Step(r)
    PROVE  TypeInv'
<1>. USE NoLocalsType DEF TypeInv, dbVars, history, Keep, Goto, Done
<1>. DEFINE F == loc[r].fixture
            row == fixture[F]
<1>1. pc[r] # "idle" /\ F \in FixtureIds /\ row.status # "absent"
      /\ row.home \in Clubs /\ row.away \in Clubs /\ row.type \in Types
  <2>1. pc[r] # "idle"
    BY DEF Step, WriteAccepted, WriteDeclined, WriteCancelled, InsertGame,
       LinkGame, RatePlayers, WritePlayed, UpsertConfirmation, CountConfirmations, MaySettle,
       TallyGames, LoadHome, LoadAway, SaveHome, SaveAway, WriteConfirmed
  <2>. QED BY <2>1 DEF LocalsOK, RowsOK, TypeOK, FixtureRow
<1>2. ASSUME NEW status \in Statuses \ {"absent"}, SetStatus(F, status), Done(r),
             UNCHANGED <<confirmations, game, fixtureGames, ratedGames, clubElo,
                         settled, vouched, dropped, drops>>,
             accepted' \subseteq accepted \cup {F}
      PROVE  TypeInv'
  <2>1. fixture' \in [FixtureIds -> FixtureRow]
    <3>1. [row EXCEPT !.status = status] \in FixtureRow
      <4>1. row \in FixtureRow
        BY <1>1 DEF TypeOK
      <4>. HIDE DEF row
      <4>. QED BY <4>1, <1>2 DEF FixtureRow
    <3>2. fixture' = [fixture EXCEPT ![F] = [row EXCEPT !.status = status]]
      BY <1>2 DEF SetStatus
    <3>. QED BY <1>1, <3>1, <3>2 DEF TypeOK
  <2>2. pc' \in [Requests -> Labels] /\ loc' \in [Requests -> Locals]
    BY <1>2 DEF TypeOK, Labels
  <2>3. TypeOK'
    BY <1>1, <1>2, <2>1, <2>2 DEF TypeOK
  <2>4. \A f \in FixtureIds : /\ fixture'[f].home = fixture[f].home
                              /\ fixture'[f].away = fixture[f].away
                              /\ fixture'[f].status \in {fixture[f].status, status}
                              /\ f = F => fixture[f].status # "absent"
    BY <1>1, <1>2 DEF SetStatus, TypeOK, FixtureRow
  <2>5. \A f \in FixtureIds : fixture[f].status = "absent" <=> fixture'[f].status = "absent"
    BY <1>1, <1>2, <2>4 DEF SetStatus, TypeOK, FixtureRow
  <2>6. LocalsOK'
    BY <1>2, <2>5 DEF LocalsOK, TypeOK
  <2>7. RowsOK'
    BY <2>4, <2>5 DEF RowsOK
  <2>. QED BY <2>3, <2>6, <2>7
<1>3. CASE WriteAccepted(r)
  BY <1>1, <1>2, <1>3 DEF WriteAccepted, Statuses
<1>4. CASE WriteDeclined(r) \/ WriteCancelled(r) \/ WritePlayed(r) \/ WriteConfirmed(r)
  BY <1>1, <1>2, <1>4 DEF WriteDeclined, WriteCancelled, WritePlayed, WriteConfirmed, Statuses
<1>5. CASE InsertGame(r)
  <2>1. loc[r].game \in GameIds /\ loc[r].winner \in Sides
    BY <1>5 DEF InsertGame, LocalsOK
  <2>2. TypeOK'
    BY <1>5, <2>1 DEF InsertGame, TypeOK, Labels
  <2>. QED BY <1>1, <1>5, <2>1, <2>2 DEF InsertGame, LocalsOK, RowsOK, TypeOK
<1>6. CASE LinkGame(r)
  <2>1. loc[r].game \in GameIds /\ loc[r].winner \in Sides
    BY <1>6 DEF LinkGame, LocalsOK
  <2>2. TypeOK'
    BY <1>1, <1>6, <2>1 DEF LinkGame, TypeOK, Labels
  <2>. QED BY <1>1, <1>6, <2>1, <2>2 DEF LinkGame, LocalsOK, RowsOK, TypeOK
<1>7. CASE RatePlayers(r)
  <2>1. loc[r].game \in GameIds /\ loc[r].winner \in Sides
    BY <1>7 DEF RatePlayers, LocalsOK
  <2>2. TypeOK'
    BY <1>7, <2>1 DEF RatePlayers, TypeOK, Labels
  <2>. QED BY <1>1, <1>7, <2>1, <2>2 DEF RatePlayers, LocalsOK, RowsOK, TypeOK
<1>8. CASE UpsertConfirmation(r)
  <2>1. loc[r].club \in Clubs
    BY <1>8 DEF UpsertConfirmation, LocalsOK
  <2>2. confirmations' \in [FixtureIds -> SUBSET Clubs]
        /\ vouched' \in [FixtureIds -> [Clubs -> SUBSET GameIds]]
    BY <1>1, <1>8, <2>1 DEF UpsertConfirmation, TypeOK
  <2>3. TypeOK'
    BY <1>8, <2>2 DEF UpsertConfirmation, TypeOK, Labels
  <2>. QED BY <1>1, <1>8, <2>1, <2>3 DEF UpsertConfirmation, LocalsOK, RowsOK, TypeOK
<1>9. CASE CountConfirmations(r)
  <2>1. pc[r] = "count" /\ UNCHANGED <<dbVars, history>>
        /\ \/ pc' = [pc EXCEPT ![r] = "tally"] /\ UNCHANGED loc
           \/ pc' = [pc EXCEPT ![r] = "idle"] /\ loc' = [loc EXCEPT ![r] = NoLocals]
    BY <1>9 DEF CountConfirmations, MaySettle
  <2>2. TypeOK'
    BY <2>1 DEF TypeOK, Labels
  <2>. QED BY <1>1, <2>1, <2>2 DEF LocalsOK, RowsOK, TypeOK
<1>10. ASSUME NEW locals \in Locals, NEW label \in {"loadHome", "loadAway", "saveHome"},
              pc[r] \in {"tally", "loadHome", "loadAway"},
              locals.fixture = F, locals.club = loc[r].club,
              Keep(r, locals), Goto(r, label), UNCHANGED <<dbVars, history>>
       PROVE  TypeInv'
  <2>1. TypeOK'
    BY <1>10 DEF TypeOK, Labels
  <2>2. LocalsOK'
    BY <1>1, <1>10 DEF LocalsOK, TypeOK
  <2>. QED BY <1>10, <2>1, <2>2 DEF RowsOK
<1>11. CASE TallyGames(r)
  <2>. DEFINE locals == [loc[r] EXCEPT !.winner = Outcome(loc[r].fixture)]
  <2>1. Outcome(loc[r].fixture) \in Sides \cup {"draw", "none"}
    BY DEF Outcome, Sides
  <2>2. locals \in Locals /\ locals.fixture = F /\ locals.club = loc[r].club
    BY <2>1 DEF TypeOK, Locals
  <2>. QED BY <1>10, <1>11, <2>2 DEF TallyGames
<1>12. CASE LoadHome(r)
  <2>1. PICK rating \in Loadable(row.home, row.type) :
           Keep(r, [loc[r] EXCEPT !.homeRating = rating])
    BY <1>12 DEF LoadHome
  <2>2. rating \in Rating
    BY <1>1, LoadableType
  <2>. DEFINE locals == [loc[r] EXCEPT !.homeRating = rating]
  <2>3. locals \in Locals /\ locals.fixture = F /\ locals.club = loc[r].club
    BY <2>2 DEF TypeOK, Locals
  <2>. QED BY <1>10, <1>12, <2>1, <2>3 DEF LoadHome
<1>13. CASE LoadAway(r)
  <2>. DEFINE locals(rating) ==
                [loc[r] EXCEPT
                   !.homeRating = UpdateClub(loc[r].homeRating, F, "home", loc[r].winner),
                   !.awayRating = UpdateClub(rating, F, "away", loc[r].winner)]
  <2>1. PICK rating \in Loadable(row.away, row.type) : Keep(r, locals(rating))
    BY <1>13 DEF LoadAway
  <2>2. rating \in Rating /\ loc[r].homeRating \in Rating
    BY <1>1, LoadableType DEF TypeOK, Locals
  <2>3. /\ UpdateClub(loc[r].homeRating, F, "home", loc[r].winner) \in Rating
        /\ UpdateClub(rating, F, "away", loc[r].winner) \in Rating
    BY <1>1, <2>2, UpdateClubType
  <2>4. /\ locals(rating) \in Locals
        /\ locals(rating).fixture = F
        /\ locals(rating).club = loc[r].club
    BY <2>3 DEF TypeOK, Locals
  <2>. QED BY <1>10, <1>13, <2>1, <2>4 DEF LoadAway
<1>14. CASE SaveHome(r) \/ SaveAway(r)
  <2>1. PICK c \in {row.home, row.away}, rating \in Rating, bump \in {0, 1},
             label \in {"saveAway", "writeConfirmed"} :
           /\ clubElo' = [clubElo EXCEPT ![c][row.type] = Saved(@, row.type, rating, bump)]
           /\ Goto(r, label)
    <3>1. loc[r].homeRating \in Rating /\ loc[r].awayRating \in Rating
      BY DEF TypeOK, Locals
    <3>2. Bump(loc[r].winner) \in {0, 1}
      BY DEF Bump
    <3>. QED BY <1>14, <3>1, <3>2 DEF SaveHome, SaveAway
  <2>2. clubElo[c][row.type] \in Seq(EloRow) /\ c \in Clubs
    BY <1>1 DEF TypeOK
  <2>3. Saved(clubElo[c][row.type], row.type, rating, bump) \in Seq(EloRow)
    BY <2>2, SavedType
  <2>4. clubElo' \in [Clubs -> [Types -> Seq(EloRow)]]
    BY <1>1, <2>1, <2>2, <2>3 DEF TypeOK
  <2>5. settled' \in [FixtureIds -> Nat]
    <3>1. \/ settled' = settled
          \/ settled' = [settled EXCEPT ![F] = settled[F] + 1]
      BY <1>14 DEF SaveHome, SaveAway
    <3>. QED BY <1>1, <3>1 DEF TypeOK
  <2>6. /\ pc[r] \in {"saveHome", "saveAway"}
        /\ UNCHANGED <<fixture, confirmations, game, fixtureGames, ratedGames,
                       loc, accepted, vouched, dropped, drops>>
    BY <1>14 DEF SaveHome, SaveAway
  <2>7. TypeOK'
    BY <2>1, <2>4, <2>5, <2>6 DEF TypeOK, Labels
  <2>. QED BY <1>1, <2>1, <2>6, <2>7 DEF LocalsOK, RowsOK, TypeOK
<1>. QED
  BY <1>3, <1>4, <1>5, <1>6, <1>7, <1>8, <1>9, <1>11, <1>12, <1>13, <1>14 DEF Step

LEMMA DropTypeInv ==
    ASSUME TypeInv, NEW r \in Requests, Drop(r)
    PROVE  TypeInv'
<1>1. drops' \in 0..MaxDrops /\ loc[r].fixture \in FixtureIds
  BY DropsAssumption DEF Drop, TypeInv, TypeOK, LocalsOK
<1>2. TypeOK'
  BY <1>1, NoLocalsType DEF Drop, Done, Goto, Keep, dbVars, TypeInv, TypeOK, Labels
<1>3. LocalsOK' /\ RowsOK'
  BY DEF Drop, Done, Goto, Keep, dbVars, TypeInv, TypeOK, LocalsOK, RowsOK
<1>. QED BY <1>2, <1>3 DEF TypeInv

LEMMA NextTypeInv == TypeInv /\ [Next]_vars => TypeInv'
<1>. SUFFICES ASSUME TypeInv, [Next]_vars PROVE TypeInv'
  OBVIOUS
<1>1. CASE Next
  BY <1>1, ProposeTypeInv, BeginTypeInv, StepTypeInv, DropTypeInv DEF Next, Propose
<1>2. CASE UNCHANGED vars
  BY <1>2 DEF vars, dbVars, history, TypeInv, TypeOK, LocalsOK, RowsOK
<1>. QED BY <1>1, <1>2

LEMMA TypeInvariant == Spec => []TypeInv
BY InitTypeInv, NextTypeInv, PTL DEF Spec

\* Every reachable state of the tables and of the requests in flight is
\* well-typed, whatever the clubs, fixtures, games, users and requests.
THEOREM TypeCorrect == Spec => []TypeOK
<1>1. TypeInv => TypeOK
  BY DEF TypeInv
<1>. QED BY <1>1, TypeInvariant, PTL

-----------------------------------------------------------------------------
\* Acceptance: what makes PlayNeedsAcceptance inductive is that the status a
\* recording or a confirmation reads proves the acceptance, and that nothing
\* takes an acceptance back.

Recording == {"insertGame", "linkGame", "ratePlayers", "writePlayed"}
Settling == {"tally", "loadHome", "loadAway", "saveHome", "saveAway", "writeConfirmed"}
Confirming == {"upsert", "count"} \cup Settling

AcceptInv ==
    /\ PlayNeedsAcceptance
    /\ \A f \in FixtureIds :
         fixture[f].status \in {"accepted", "played", "confirmed"} => f \in accepted
    /\ \A f \in accepted : fixture[f].status # "absent"
    /\ \A r \in Requests :
         pc[r] \in Recording \cup Confirming => loc[r].fixture \in accepted

\* What every request does when it begins.
Begun(r, f) ==
    /\ UNCHANGED <<dbVars, history>>
    /\ pc[r] = "idle"
    /\ \A q \in Requests \ {r} : pc'[q] = pc[q] /\ loc'[q] = loc[q]
    /\ pc'[r] \in {"accept", "decline", "cancel", "insertGame", "upsert"}
    /\ loc'[r].fixture = f
    /\ loc'[r].seen = fixture[f].status
    /\ fixture[f].status # "absent"
    /\ pc'[r] = "insertGame" => fixture[f].status \in {"accepted", "played"}
    /\ pc'[r] = "upsert" => fixture[f].status \in {"played", "confirmed"}

LEMMA BeginFrame ==
    ASSUME TypeInv, NEW r \in Requests, NEW u \in Users, NEW f \in FixtureIds,
           Begin(r, u, f)
    PROVE  Begun(r, f)
<1>. USE DEF TypeInv, TypeOK, Locals, Goto, Keep, ReadFixture, Begun
<1>1. ASSUME NEW answer \in {"accept", "decline"}, BeginAnswer(r, u, f, answer)
      PROVE  Begun(r, f)
  BY <1>1 DEF BeginAnswer
<1>2. CASE BeginCancel(r, u, f)
  BY <1>2 DEF BeginCancel
<1>3. ASSUME NEW side \in Sides, NEW g \in GameIds, BeginRecord(r, u, f, side, g)
      PROVE  Begun(r, f)
  BY <1>3 DEF BeginRecord, Recordable
<1>4. CASE BeginConfirm(r, u, f)
  BY <1>4 DEF BeginConfirm
<1>. QED BY <1>1, <1>2, <1>3, <1>4 DEF Begin

\* What every statement of a request, or its end, leaves alone.
Moved(r) ==
    /\ pc[r] # "idle"
    /\ loc[r].fixture \in FixtureIds
    /\ \A q \in Requests \ {r} : pc'[q] = pc[q] /\ loc'[q] = loc[q]
    /\ \/ pc'[r] = "idle" /\ loc'[r] = NoLocals
       \/ /\ loc'[r].fixture = loc[r].fixture
          /\ loc'[r].seen = loc[r].seen
          /\ \/ pc[r] \in Recording /\ pc'[r] \in Recording
             \/ pc[r] \in Confirming /\ pc'[r] \in Confirming
    /\ \A f \in FixtureIds :
         /\ fixture'[f].home = fixture[f].home
         /\ fixture'[f].away = fixture[f].away
         /\ fixture'[f].type = fixture[f].type
         /\ fixture'[f].status = "absent" <=> fixture[f].status = "absent"
         /\ confirmations[f] \subseteq confirmations'[f]
         /\ settled[f] <= settled'[f]
    /\ accepted \subseteq accepted'
    /\ dropped \subseteq dropped'

LEMMA StepFrame ==
    ASSUME TypeInv, NEW r \in Requests, Step(r) \/ Drop(r)
    PROVE  Moved(r)
<1>. USE DEF TypeInv, TypeOK, Goto, Keep, Done, dbVars, history
<1>. DEFINE F == loc[r].fixture
<1>1. pc[r] # "idle" /\ F \in FixtureIds /\ fixture[F].status # "absent"
  <2>1. pc[r] # "idle"
    BY DEF Step, WriteAccepted, WriteDeclined, WriteCancelled, InsertGame,
       LinkGame, RatePlayers, WritePlayed, UpsertConfirmation, CountConfirmations, MaySettle,
       TallyGames, LoadHome, LoadAway, SaveHome, SaveAway, WriteConfirmed, Drop
  <2>. QED BY <2>1 DEF LocalsOK
<1>2. ASSUME NEW status \in Statuses \ {"absent"}, SetStatus(F, status), Done(r),
             UNCHANGED <<confirmations, settled, dropped>>, accepted \subseteq accepted'
      PROVE  Moved(r)
  <2>1. \A f \in FixtureIds :
         /\ fixture'[f].home = fixture[f].home
         /\ fixture'[f].away = fixture[f].away
         /\ fixture'[f].type = fixture[f].type
         /\ fixture'[f].status = "absent" <=> fixture[f].status = "absent"
    BY <1>1, <1>2 DEF SetStatus, FixtureRow
  <2>. QED BY <1>1, <1>2, <2>1 DEF Moved
<1>3. CASE WriteAccepted(r) \/ WriteDeclined(r) \/ WriteCancelled(r)
           \/ WritePlayed(r) \/ WriteConfirmed(r)
  BY <1>2, <1>3 DEF WriteAccepted, WriteDeclined, WriteCancelled, WritePlayed,
     WriteConfirmed, Statuses
<1>4. CASE InsertGame(r) \/ LinkGame(r) \/ RatePlayers(r)
  BY <1>1, <1>4 DEF InsertGame, LinkGame, RatePlayers, Moved, Recording
<1>5. CASE UpsertConfirmation(r)
  BY <1>1, <1>5 DEF UpsertConfirmation, Moved, Confirming
<1>6. CASE CountConfirmations(r)
  BY <1>1, <1>6 DEF CountConfirmations, MaySettle, Moved, Confirming, Settling
<1>7. CASE TallyGames(r)
  BY <1>1, <1>7 DEF TallyGames, Moved, Confirming, Settling, Locals
<1>8. CASE LoadHome(r)
  BY <1>1, <1>8 DEF LoadHome, Moved, Confirming, Settling, Locals
<1>9. CASE LoadAway(r)
  BY <1>1, <1>9 DEF LoadAway, Moved, Confirming, Settling, Locals
<1>10. CASE SaveHome(r)
  BY <1>1, <1>10 DEF SaveHome, Moved, Confirming, Settling
<1>11. CASE SaveAway(r)
  <2>1. settled' = [settled EXCEPT ![F] = settled[F] + 1]
    BY <1>11 DEF SaveAway
  <2>2. \A f \in FixtureIds : settled[f] <= settled'[f]
    BY <1>1, <2>1
  <2>. QED BY <1>1, <1>11, <2>2 DEF SaveAway, Moved, Confirming, Settling
<1>12. CASE Drop(r)
  BY <1>1, <1>12 DEF Drop, Moved
<1>. QED
  BY <1>3, <1>4, <1>5, <1>6, <1>7, <1>8, <1>9, <1>10, <1>11, <1>12 DEF Step

LEMMA InitAcceptInv == Init => AcceptInv
BY DEF Init, AcceptInv, PlayNeedsAcceptance, Recording, Confirming, Settling

LEMMA StepAcceptInv ==
    ASSUME TypeInv, AcceptInv, NEW r \in Requests, Step(r) \/ Drop(r)
    PROVE  AcceptInv'
<1>. DEFINE F == loc[r].fixture
<1>1. Moved(r)
  BY StepFrame
<1>2. \A q \in Requests :
        pc'[q] \in Recording \cup Confirming => loc'[q].fixture \in accepted'
  BY <1>1 DEF Moved, AcceptInv, Recording, Confirming, Settling
<1>3. \A f \in accepted' : f \in accepted \/ (f = F /\ F \in FixtureIds)
  BY <1>1 DEF Step, WriteAccepted, WriteDeclined, WriteCancelled, InsertGame,
     LinkGame, RatePlayers, WritePlayed, UpsertConfirmation, CountConfirmations, MaySettle,
     TallyGames, LoadHome, LoadAway, SaveHome, SaveAway, WriteConfirmed, Drop,
     history, Moved
<1>4. \A f \in accepted' : fixture'[f].status # "absent"
  <2>1. \A f \in accepted' : f \in FixtureIds /\ fixture[f].status # "absent"
    BY <1>1, <1>3 DEF Moved, AcceptInv, TypeInv, TypeOK, LocalsOK
  <2>. QED BY <1>1, <2>1 DEF Moved
<1>5. \A f \in FixtureIds :
        fixture'[f].status \in {"accepted", "played", "confirmed"} => f \in accepted'
  <2>1. CASE WriteAccepted(r)
    BY <1>1, <2>1 DEF WriteAccepted, SetStatus, AcceptInv, TypeInv, TypeOK
  <2>2. CASE WritePlayed(r) \/ WriteConfirmed(r)
    BY <1>1, <2>2 DEF WritePlayed, WriteConfirmed, SetStatus, history,
       AcceptInv, TypeInv, TypeOK, Recording, Confirming, Settling
  <2>3. CASE WriteDeclined(r) \/ WriteCancelled(r)
    <3>1. PICK status \in {"declined", "cancelled"} :
            fixture' = [fixture EXCEPT ![F].status = status]
      BY <2>3 DEF WriteDeclined, WriteCancelled, SetStatus
    <3>2. \A f \in FixtureIds : fixture'[f].status \in {fixture[f].status, status}
      BY <3>1 DEF TypeInv, TypeOK, FixtureRow
    <3>. QED BY <1>1, <3>1, <3>2 DEF Moved, AcceptInv
  <2>4. CASE fixture' = fixture
    BY <1>1, <2>4 DEF Moved, AcceptInv
  <2>. QED
    BY <2>1, <2>2, <2>3, <2>4 DEF Step, InsertGame, LinkGame, RatePlayers,
       UpsertConfirmation, CountConfirmations, MaySettle, TallyGames, LoadHome, LoadAway,
       SaveHome, SaveAway, Drop, dbVars
<1>6. PlayNeedsAcceptance'
  <2>1. CASE LinkGame(r)
    BY <1>1, <2>1 DEF LinkGame, history, AcceptInv, PlayNeedsAcceptance, TypeInv,
       TypeOK, Recording
  <2>2. CASE UpsertConfirmation(r)
    BY <1>1, <2>2 DEF UpsertConfirmation, AcceptInv, PlayNeedsAcceptance, TypeInv,
       TypeOK, Confirming
  <2>3. CASE UNCHANGED <<fixtureGames, confirmations>>
    BY <1>1, <2>3 DEF Moved, AcceptInv, PlayNeedsAcceptance
  <2>. QED
    BY <2>1, <2>2, <2>3 DEF Step, WriteAccepted, WriteDeclined, WriteCancelled,
       InsertGame, RatePlayers, WritePlayed, CountConfirmations, MaySettle, TallyGames,
       LoadHome, LoadAway, SaveHome, SaveAway, WriteConfirmed, Drop, dbVars
<1>. QED BY <1>2, <1>4, <1>5, <1>6 DEF AcceptInv

LEMMA NextAcceptInv == TypeInv /\ AcceptInv /\ [Next]_vars => AcceptInv'
<1>. SUFFICES ASSUME TypeInv, AcceptInv, [Next]_vars PROVE AcceptInv'
  OBVIOUS
<1>1. ASSUME NEW u \in Users, NEW h \in Clubs, NEW a \in Clubs, NEW t \in Types,
             NEW f \in FixtureIds, ProposeFixture(u, h, a, t, f)
      PROVE  AcceptInv'
  BY <1>1 DEF ProposeFixture, history, AcceptInv, PlayNeedsAcceptance, TypeInv,
     TypeOK, FixtureRow
<1>2. ASSUME NEW r \in Requests, NEW u \in Users, NEW f \in FixtureIds, Begin(r, u, f)
      PROVE  AcceptInv'
  BY <1>2, BeginFrame DEF Begun, dbVars, history, AcceptInv, PlayNeedsAcceptance,
     Recording, Confirming, Settling
<1>3. CASE UNCHANGED vars
  BY <1>3 DEF vars, dbVars, history, AcceptInv, PlayNeedsAcceptance
<1>. QED BY <1>1, <1>2, <1>3, StepAcceptInv DEF Next, Propose

\* Only a fixture the away club's admin accepted ever gets a game or a
\* confirmation, however many accept, decline, cancel, record and confirm
\* requests overlap or stop half-way.
THEOREM PlayIsConsented == Spec => []PlayNeedsAcceptance
<1>1. AcceptInv => PlayNeedsAcceptance
  BY DEF AcceptInv
<1>. QED
  BY <1>1, TypeInvariant, InitAcceptInv, NextAcceptInv, PTL DEF Spec

-----------------------------------------------------------------------------
\* Confirmation and settlement.

LEMMA PairCount ==
    ASSUME NEW a, NEW b, a # b, NEW S
    PROVE  Cardinality(S \cap {a, b}) >= 2 <=> a \in S /\ b \in S
<1>1. Cardinality({a, b}) = 2 /\ Cardinality({a}) = 1 /\ Cardinality({b}) = 1
      /\ Cardinality({}) = 0
  <2>1. IsFiniteSet({a}) /\ Cardinality({a}) = 1 /\ Cardinality({b}) = 1
    BY FS_Singleton
  <2>2. Cardinality({a} \cup {b}) = Cardinality({a}) + 1
    BY <2>1, FS_AddElement
  <2>3. {a} \cup {b} = {a, b}
    OBVIOUS
  <2>. QED BY <2>1, <2>2, <2>3, FS_EmptySet
<1>2. CASE a \in S /\ b \in S
  <2>1. S \cap {a, b} = {a, b}
    BY <1>2
  <2>. QED BY <1>1, <1>2, <2>1
<1>3. CASE ~(a \in S /\ b \in S)
  <2>1. S \cap {a, b} \in {{a}, {b}, {}}
    BY <1>3
  <2>. QED BY <1>1, <1>3, <2>1
<1>. QED BY <1>2, <1>3

\* The COUNT(*) of both_confirmed reaches two exactly when both clubs of the
\* fixture have a confirmation; it relies on a fixture having two clubs.
LEMMA BothConfirmedMeansAgreed ==
    ASSUME TypeInv, NEW f \in FixtureIds, fixture[f].status # "absent"
    PROVE  BothConfirmed(f) <=> Agreed(f)
<1>1. fixture[f].home # fixture[f].away
  BY DEF TypeInv, RowsOK
<1>. QED BY <1>1, PairCount DEF BothConfirmed, ConfirmingClubs, Agreed

ConfirmInv ==
    /\ ConfirmedIsSettled
    /\ NoMissedSettlement
    /\ \A r \in Requests :
         /\ pc[r] \in Settling => Agreed(loc[r].fixture)
         /\ pc[r] = "writeConfirmed" => settled[loc[r].fixture] > 0
         /\ pc[r] \in Confirming /\ loc[r].seen = "confirmed" =>
              settled[loc[r].fixture] > 0

LEMMA AgreedExists ==
    ASSUME TypeInv, AcceptInv, NEW f \in FixtureIds, Agreed(f)
    PROVE  fixture[f].status # "absent"
BY DEF TypeInv, TypeOK, AcceptInv, PlayNeedsAcceptance, Agreed

LEMMA InitConfirmInv == Init => ConfirmInv
BY DEF Init, ConfirmInv, ConfirmedIsSettled, NoMissedSettlement, Agreed, Settling,
   Confirming

LEMMA ProposeConfirmInv ==
    ASSUME TypeInv, AcceptInv, ConfirmInv, NEW u \in Users, NEW h \in Clubs,
           NEW a \in Clubs, NEW t \in Types, NEW f \in FixtureIds,
           ProposeFixture(u, h, a, t, f)
    PROVE  ConfirmInv'
<1>. USE DEF ProposeFixture, history, TypeInv, TypeOK, FixtureRow
<1>1. fixture'[f].status = "proposed" /\ confirmations'[f] = {}
  BY DEF AcceptInv, PlayNeedsAcceptance
<1>2. \A g \in FixtureIds \ {f} : fixture'[g] = fixture[g]
  OBVIOUS
<1>3. \A g \in FixtureIds : Agreed(g)' <=> g # f /\ Agreed(g)
  BY <1>1, <1>2 DEF Agreed
<1>4. ConfirmedIsSettled'
  BY <1>1, <1>2 DEF ConfirmInv, ConfirmedIsSettled
<1>5. NoMissedSettlement'
  BY <1>3 DEF ConfirmInv, NoMissedSettlement
<1>6. \A r \in Requests : pc[r] # "idle" => loc[r].fixture # f /\ loc[r].fixture \in FixtureIds
  BY DEF LocalsOK
<1>. QED
  BY <1>3, <1>4, <1>5, <1>6 DEF ConfirmInv, Settling, Confirming

LEMMA BeginConfirmInv ==
    ASSUME TypeInv, ConfirmInv, NEW r \in Requests, NEW f \in FixtureIds, Begun(r, f)
    PROVE  ConfirmInv'
<1>. USE DEF Begun, dbVars, history
<1>1. ConfirmedIsSettled'
  BY DEF ConfirmInv, ConfirmedIsSettled
<1>2. NoMissedSettlement'
  BY DEF ConfirmInv, NoMissedSettlement, Agreed
<1>. QED
  BY <1>1, <1>2 DEF ConfirmInv, ConfirmedIsSettled, Agreed, Settling, Confirming

\* What a statement of a request does to confirmation and settlement.
ConfirmMoves(r) ==
    LET f == loc[r].fixture
    IN  /\ pc'[r] = "tally" => BothConfirmed(f) /\ pc[r] = "count"
        /\ pc'[r] \in Settling \ {"tally"} => pc[r] \in Settling
        /\ pc'[r] = "writeConfirmed" => settled'[f] > 0
        /\ pc[r] = "upsert" =>
              pc'[r] = "count" \/ UNCHANGED confirmations
        /\ pc[r] = "count" =>
              \/ pc'[r] = "tally"
              \/ ~BothConfirmed(f)
              \/ loc[r].seen = "confirmed"
              \/ f \in dropped'
        /\ pc[r] \in Settling \ {"writeConfirmed"} =>
              \/ pc'[r] \in Settling \ {"writeConfirmed"}
              \/ settled'[f] > 0
              \/ f \in dropped'
        /\ \A g \in FixtureIds :
              confirmations'[g] # confirmations[g] => g = f /\ pc[r] = "upsert"
        /\ \A g \in FixtureIds :
              fixture'[g].status = "confirmed" =>
                fixture[g].status = "confirmed" \/ (g = f /\ pc[r] = "writeConfirmed")

LEMMA StepConfirmMoves ==
    ASSUME TypeInv, NEW r \in Requests, Step(r) \/ Drop(r)
    PROVE  ConfirmMoves(r)
<1>. USE DEF TypeInv, TypeOK, Goto, Keep, Done, dbVars, history, ConfirmMoves, Settling
<1>. DEFINE F == loc[r].fixture
<1>1. F \in FixtureIds
  BY StepFrame DEF Moved
<1>2. ASSUME NEW status \in Statuses, SetStatus(F, status)
      PROVE  \A g \in FixtureIds :
                fixture'[g].status \in {fixture[g].status, status}
                /\ (g # F => fixture'[g].status = fixture[g].status)
  BY <1>1, <1>2 DEF SetStatus, FixtureRow
<1>3. CASE WriteAccepted(r) \/ WriteDeclined(r) \/ WriteCancelled(r) \/ WritePlayed(r)
  <2>1. PICK status \in {"accepted", "declined", "cancelled", "played"} : SetStatus(F, status)
    BY <1>3 DEF WriteAccepted, WriteDeclined, WriteCancelled, WritePlayed
  <2>2. \A g \in FixtureIds : fixture'[g].status \in {fixture[g].status, status}
    BY <1>2, <2>1 DEF Statuses
  <2>. QED
    BY <1>3, <2>2 DEF WriteAccepted, WriteDeclined, WriteCancelled, WritePlayed
<1>4. CASE WriteConfirmed(r)
  <2>1. \A g \in FixtureIds : g # F => fixture'[g].status = fixture[g].status
    BY <1>2, <1>4 DEF WriteConfirmed, Statuses
  <2>. QED BY <1>4, <2>1 DEF WriteConfirmed
<1>5. CASE InsertGame(r) \/ LinkGame(r) \/ RatePlayers(r)
  BY <1>5 DEF InsertGame, LinkGame, RatePlayers
<1>6. CASE UpsertConfirmation(r)
  BY <1>6 DEF UpsertConfirmation
<1>7. CASE CountConfirmations(r)
  BY <1>7 DEF CountConfirmations, MaySettle
<1>8. CASE TallyGames(r) \/ LoadHome(r) \/ LoadAway(r) \/ SaveHome(r)
  BY <1>8 DEF TallyGames, LoadHome, LoadAway, SaveHome
<1>9. CASE SaveAway(r)
  <2>1. settled'[F] > 0
    BY <1>1, <1>9 DEF SaveAway
  <2>. QED BY <1>9, <2>1 DEF SaveAway
<1>10. CASE Drop(r)
  BY <1>10 DEF Drop
<1>. QED BY <1>3, <1>4, <1>5, <1>6, <1>7, <1>8, <1>9, <1>10 DEF Step

LEMMA StepConfirmInv ==
    ASSUME TypeInv, AcceptInv, ConfirmInv, NEW r \in Requests, Step(r) \/ Drop(r)
    PROVE  ConfirmInv'
<1>. DEFINE F == loc[r].fixture
<1>1. Moved(r) /\ ConfirmMoves(r)
  BY StepFrame, StepConfirmMoves
<1>2. \A f \in FixtureIds : Agreed(f) => Agreed(f)'
  BY <1>1 DEF Moved, Agreed
<1>3. F \in FixtureIds /\ fixture[F].status # "absent"
  BY <1>1 DEF Moved, TypeInv, LocalsOK
<1>4. /\ settled \in [FixtureIds -> Nat]
      /\ settled' \in [FixtureIds -> Nat]
      /\ \A f \in FixtureIds : settled[f] > 0 => settled'[f] > 0
  <2>1. settled \in [FixtureIds -> Nat] /\ settled' \in [FixtureIds -> Nat]
    BY StepTypeInv, DropTypeInv DEF TypeInv, TypeOK
  <2>. QED BY <1>1, <2>1 DEF Moved
<1>5. ConfirmedIsSettled'
  BY <1>1, <1>4 DEF ConfirmMoves, ConfirmInv, ConfirmedIsSettled
<1>6. /\ pc'[r] \in Settling => loc'[r].fixture = F /\ Agreed(F)'
      /\ pc'[r] = "writeConfirmed" => settled'[F] > 0
      /\ pc'[r] \in Confirming /\ loc'[r].seen = "confirmed" =>
           loc'[r].fixture = F /\ settled'[F] > 0
  <2>1. pc'[r] \in Settling => Agreed(F)
    BY <1>1, <1>3, BothConfirmedMeansAgreed DEF ConfirmMoves, ConfirmInv, Settling
  <2>2. pc'[r] \in Confirming => /\ loc'[r].fixture = F
                                 /\ loc'[r].seen = loc[r].seen
                                 /\ pc[r] \in Confirming
    BY <1>1 DEF Moved, Recording, Confirming, Settling
  <2>3. Settling \subseteq Confirming
    BY DEF Confirming
  <2>. QED BY <1>1, <1>2, <1>3, <1>4, <2>1, <2>2, <2>3 DEF ConfirmMoves, ConfirmInv
<1>7. ASSUME NEW q \in Requests
      PROVE  /\ pc'[q] \in Settling => Agreed(loc[q].fixture)'
             /\ pc'[q] = "writeConfirmed" => settled'[loc'[q].fixture] > 0
             /\ pc'[q] \in Confirming /\ loc'[q].seen = "confirmed" =>
                  settled'[loc'[q].fixture] > 0
  <2>1. CASE q = r
    BY <1>6, <2>1 DEF Agreed, Settling
  <2>2. CASE q # r
    <3>1. pc'[q] = pc[q] /\ loc'[q] = loc[q]
      BY <1>1, <2>2 DEF Moved
    <3>2. pc[q] # "idle" => loc[q].fixture \in FixtureIds
      BY DEF TypeInv, LocalsOK
    <3>. QED
      BY <1>2, <1>4, <3>1, <3>2 DEF ConfirmInv, Agreed, Settling, Confirming
  <2>. QED BY <2>1, <2>2
<1>8. NoMissedSettlement'
  <2>. DEFINE Counting(q, f) == /\ loc[q].fixture = f
                                /\ pc[q] \in {"count", "tally", "loadHome", "loadAway",
                                              "saveHome", "saveAway"}
  <2>1. SUFFICES ASSUME NEW f \in FixtureIds, Agreed(f)', settled'[f] = 0, f \notin dropped'
                 PROVE  \E q \in Requests : Counting(q, f)'
    BY DEF NoMissedSettlement
  <2>2. settled[f] = 0 /\ f \notin dropped
    BY <1>1, <1>4, <2>1 DEF Moved
  <2>3. CASE Agreed(f)
    <3>1. PICK q \in Requests : Counting(q, f)
      BY <2>2, <2>3 DEF ConfirmInv, NoMissedSettlement
    <3>2. CASE q # r
      BY <1>1, <3>1, <3>2 DEF Moved
    <3>3. CASE q = r
      <4>1. F = f /\ BothConfirmed(f)
        BY <1>3, <2>3, <3>1, <3>3, BothConfirmedMeansAgreed
      <4>2. pc[r] = "count" => loc[r].seen # "confirmed"
        BY <2>2, <4>1 DEF ConfirmInv, Confirming
      <4>3. pc'[r] \in Settling \ {"writeConfirmed"}
        BY <1>1, <2>1, <3>1, <3>3, <4>1, <4>2 DEF ConfirmMoves, Settling
      <4>4. loc'[r].fixture = F
        BY <1>1, <4>3 DEF Moved, Settling
      <4>. QED BY <4>1, <4>3, <4>4 DEF Settling
    <3>. QED BY <3>2, <3>3
  <2>4. CASE ~Agreed(f)
    <3>1. confirmations'[f] # confirmations[f]
      BY <1>1, <2>1, <2>4 DEF Moved, Agreed
    <3>2. f = F /\ pc[r] = "upsert" /\ pc'[r] = "count"
      BY <1>1, <3>1 DEF ConfirmMoves
    <3>3. loc'[r].fixture = F
      BY <1>1, <3>2 DEF Moved
    <3>. QED BY <3>2, <3>3
  <2>. QED BY <2>3, <2>4
<1>. QED BY <1>5, <1>7, <1>8 DEF ConfirmInv

LEMMA NextConfirmInv == TypeInv /\ AcceptInv /\ ConfirmInv /\ [Next]_vars => ConfirmInv'
<1>. SUFFICES ASSUME TypeInv, AcceptInv, ConfirmInv, [Next]_vars PROVE ConfirmInv'
  OBVIOUS
<1>1. CASE UNCHANGED vars
  BY <1>1 DEF vars, dbVars, history, ConfirmInv, ConfirmedIsSettled,
     NoMissedSettlement, Agreed
<1>. QED
  BY <1>1, ProposeConfirmInv, BeginFrame, BeginConfirmInv, StepConfirmInv
     DEF Next, Propose

LEMMA ConfirmInvariant == Spec => [](TypeInv /\ AcceptInv /\ ConfirmInv)
BY TypeInvariant, InitAcceptInv, NextAcceptInv, InitConfirmInv, NextConfirmInv, PTL DEF Spec

\* The status `confirmed` is never ahead of the club ladder.
THEOREM ConfirmedMeansSettled == Spec => []ConfirmedIsSettled
<1>1. ConfirmInv => ConfirmedIsSettled
  BY DEF ConfirmInv
<1>. QED BY <1>1, ConfirmInvariant, PTL

\* Two clubs that confirm at the same time cannot both believe themselves the
\* first: once both confirmations are stored, the fixture is settled, or is
\* being settled, or a request on it stopped half-way.
THEOREM ConfirmationsCannotMiss == Spec => []NoMissedSettlement
<1>1. ConfirmInv => NoMissedSettlement
  BY DEF ConfirmInv
<1>. QED BY <1>1, ConfirmInvariant, PTL

-----------------------------------------------------------------------------
\* What a rating has absorbed.

\* Every fixture folded into the rating is one that club played, in that game
\* type, and that both clubs confirmed.
Sound(rating, c, t) ==
    \A f \in rating.won \cup rating.lost :
        /\ Agreed(f)
        /\ c \in {fixture[f].home, fixture[f].away}
        /\ t = fixture[f].type

SoundInv ==
    /\ SettlementNeedsBothClubs
    /\ \A r \in Requests :
         /\ pc[r] \in {"loadAway", "saveHome"} =>
              Sound(loc[r].homeRating, fixture[loc[r].fixture].home, fixture[loc[r].fixture].type)
         /\ pc[r] \in {"saveHome", "saveAway"} =>
              Sound(loc[r].awayRating, fixture[loc[r].fixture].away, fixture[loc[r].fixture].type)

\* An agreement is never undone, and the row it is about keeps its clubs.
LEMMA AgreementStable ==
    ASSUME TypeInv, AcceptInv, [Next]_vars, NEW f \in FixtureIds,
           fixture[f].status # "absent"
    PROVE  /\ Agreed(f) => Agreed(f)'
           /\ fixture'[f].home = fixture[f].home
           /\ fixture'[f].away = fixture[f].away
           /\ fixture'[f].type = fixture[f].type
<1>1. ASSUME NEW u \in Users, NEW h \in Clubs, NEW a \in Clubs, NEW t \in Types,
             NEW g \in FixtureIds, ProposeFixture(u, h, a, t, g)
      PROVE  UNCHANGED confirmations /\ fixture'[f] = fixture[f]
  BY <1>1 DEF ProposeFixture, TypeInv, TypeOK
<1>2. ASSUME NEW r \in Requests, NEW u \in Users, NEW g \in FixtureIds, Begin(r, u, g)
      PROVE  UNCHANGED <<confirmations, fixture>>
  BY <1>2, BeginFrame DEF Begun, dbVars
<1>3. ASSUME NEW r \in Requests, Step(r) \/ Drop(r)
      PROVE  /\ confirmations[f] \subseteq confirmations'[f]
             /\ fixture'[f].home = fixture[f].home
             /\ fixture'[f].away = fixture[f].away
             /\ fixture'[f].type = fixture[f].type
  BY <1>3, StepFrame DEF Moved
<1>4. CASE UNCHANGED vars
  BY <1>4 DEF vars, dbVars, Agreed
<1>. QED BY <1>1, <1>2, <1>3, <1>4 DEF Next, Propose, Agreed

LEMMA SoundStable ==
    ASSUME TypeInv, AcceptInv, [Next]_vars, NEW rating \in Rating, NEW c, NEW t,
           Sound(rating, c, t)
    PROVE  Sound(rating, c, t)'
BY AgreementStable, AgreedExists DEF Sound, Rating

LEMMA SavedRatings ==
    ASSUME NEW rows \in Seq(EloRow), NEW t, NEW rating \in Rating, NEW bump \in Nat,
           NEW i \in 1..Len(Saved(rows, t, rating, bump))
    PROVE  \/ Saved(rows, t, rating, bump)[i].rating = rating
           \/ \E j \in 1..Len(rows) :
                Saved(rows, t, rating, bump)[i].rating = rows[j].rating
<1>1. CASE t # None /\ rows # <<>>
  BY <1>1 DEF Saved
<1>2. CASE ~(t # None /\ rows # <<>>)
  BY <1>2 DEF Saved
<1>. QED BY <1>1, <1>2

LEMMA LoadedIsSound ==
    ASSUME TypeInv, SoundInv, NEW c \in Clubs, NEW t \in Types,
           NEW rating \in Loadable(c, t)
    PROVE  Sound(rating, c, t)
BY DEF Loadable, SoundInv, SettlementNeedsBothClubs, Sound, DefaultRating

LEMMA UpdatedIsSound ==
    ASSUME TypeInv, NEW f \in FixtureIds, Agreed(f), NEW rating \in Rating,
           NEW side \in Sides, NEW winner,
           Sound(rating, fixture[f][side], fixture[f].type)
    PROVE  Sound(UpdateClub(rating, f, side, winner), fixture[f][side], fixture[f].type)
BY DEF Sound, UpdateClub, Rating, Sides

LEMMA StepSoundInv ==
    ASSUME TypeInv, AcceptInv, ConfirmInv, SoundInv, NEW r \in Requests,
           Step(r) \/ Drop(r)
    PROVE  SoundInv'
<1>. DEFINE F == loc[r].fixture
            row == fixture[F]
<1>0. [Next]_vars
  BY DEF Next
<1>1. Moved(r)
  BY StepFrame
<1>2. F \in FixtureIds /\ row.status # "absent" /\ row.home \in Clubs /\ row.away \in Clubs
      /\ row.type \in Types /\ row = fixture[F]
  BY <1>1 DEF Moved, TypeInv, TypeOK, LocalsOK, RowsOK, FixtureRow
<1>3. \A q \in Requests : loc[q].homeRating \in Rating /\ loc[q].awayRating \in Rating
  BY DEF TypeInv, TypeOK, Locals
<1>4. \A c, t : \A x \in Rating : Sound(x, c, t) =>
        \A f \in x.won \cup x.lost :
           /\ Agreed(f)'
           /\ c \in {fixture'[f].home, fixture'[f].away}
           /\ t = fixture'[f].type
  BY <1>0, SoundStable DEF Sound
<1>5. \A q \in Requests \ {r} :
         /\ pc'[q] \in {"loadAway", "saveHome"} =>
              Sound(loc[q].homeRating, fixture[loc[q].fixture].home, fixture[loc[q].fixture].type)'
         /\ pc'[q] \in {"saveHome", "saveAway"} =>
              Sound(loc[q].awayRating, fixture[loc[q].fixture].away, fixture[loc[q].fixture].type)'
  <2>. SUFFICES ASSUME NEW q \in Requests \ {r},
                       pc[q] \in {"loadAway", "saveHome", "saveAway"}
                PROVE  /\ pc[q] \in {"loadAway", "saveHome"} =>
                            Sound(loc[q].homeRating, fixture[loc[q].fixture].home,
                                  fixture[loc[q].fixture].type)'
                       /\ pc[q] \in {"saveHome", "saveAway"} =>
                            Sound(loc[q].awayRating, fixture[loc[q].fixture].away,
                                  fixture[loc[q].fixture].type)'
    BY <1>1 DEF Moved
  <2>. DEFINE G == loc[q].fixture
  <2>1. /\ G \in FixtureIds
        /\ fixture'[G].home = fixture[G].home
        /\ fixture'[G].away = fixture[G].away
        /\ fixture'[G].type = fixture[G].type
        /\ loc'[q] = loc[q]
    BY <1>1 DEF Moved, TypeInv, LocalsOK
  <2>2. pc[q] \in {"loadAway", "saveHome"} =>
           Sound(loc[q].homeRating, fixture[G].home, fixture[G].type)
    BY DEF SoundInv
  <2>3. pc[q] \in {"saveHome", "saveAway"} =>
           Sound(loc[q].awayRating, fixture[G].away, fixture[G].type)
    BY DEF SoundInv
  <2>5. ASSUME pc[q] \in {"loadAway", "saveHome"}
        PROVE  Sound(loc[q].homeRating, fixture[G].home, fixture[G].type)'
    <3>1. \A f \in loc[q].homeRating.won \cup loc[q].homeRating.lost :
            /\ Agreed(f)'
            /\ fixture[G].home \in {fixture'[f].home, fixture'[f].away}
            /\ fixture[G].type = fixture'[f].type
      BY <1>3, <1>4, <2>2, <2>5
    <3>. QED BY <2>1, <3>1 DEF Sound
  <2>6. ASSUME pc[q] \in {"saveHome", "saveAway"}
        PROVE  Sound(loc[q].awayRating, fixture[G].away, fixture[G].type)'
    <3>1. \A f \in loc[q].awayRating.won \cup loc[q].awayRating.lost :
            /\ Agreed(f)'
            /\ fixture[G].away \in {fixture'[f].home, fixture'[f].away}
            /\ fixture[G].type = fixture'[f].type
      BY <1>3, <1>4, <2>3, <2>6
    <3>. QED BY <2>1, <3>1 DEF Sound
  <2>. QED BY <2>5, <2>6
<1>6. \/ pc'[r] \notin {"loadAway", "saveHome", "saveAway"} /\ clubElo' = clubElo
      \/ LoadHome(r) \/ LoadAway(r) \/ SaveHome(r) \/ SaveAway(r)
  BY DEF Step, Drop, dbVars, Done, Goto, WriteAccepted, WriteDeclined, WriteCancelled,
     InsertGame, LinkGame, RatePlayers, WritePlayed, UpsertConfirmation,
     CountConfirmations, MaySettle, TallyGames, WriteConfirmed, TypeInv, TypeOK
<1>7. /\ pc'[r] \in {"loadAway", "saveHome"} => Sound(loc'[r].homeRating, row.home, row.type)
      /\ pc'[r] \in {"saveHome", "saveAway"} => Sound(loc'[r].awayRating, row.away, row.type)
  <2>1. CASE LoadHome(r)
    <3>1. PICK rating \in Loadable(row.home, row.type) : loc'[r].homeRating = rating
      BY <2>1 DEF LoadHome, Keep, TypeInv, TypeOK, Locals
    <3>2. pc'[r] = "loadAway"
      BY <2>1 DEF LoadHome, Goto, TypeInv, TypeOK
    <3>. QED BY <1>2, <3>1, <3>2, LoadedIsSound
  <2>2. CASE LoadAway(r)
    <3>1. PICK rating \in Loadable(row.away, row.type) :
            /\ loc'[r].homeRating = UpdateClub(loc[r].homeRating, F, "home", loc[r].winner)
            /\ loc'[r].awayRating = UpdateClub(rating, F, "away", loc[r].winner)
      BY <2>2 DEF LoadAway, Keep, TypeInv, TypeOK, Locals
    <3>2. pc'[r] = "saveHome" /\ pc[r] = "loadAway"
      BY <2>2 DEF LoadAway, Goto, TypeInv, TypeOK
    <3>3. Agreed(F)
      BY <3>2 DEF ConfirmInv, Settling
    <3>4. /\ rating \in Rating
          /\ Sound(rating, row.away, row.type)
          /\ Sound(loc[r].homeRating, row.home, row.type)
      BY <1>2, <3>2, LoadedIsSound, LoadableType DEF SoundInv, TypeInv
    <3>. QED BY <1>2, <1>3, <3>1, <3>2, <3>3, <3>4, UpdatedIsSound DEF Sides
  <2>3. CASE SaveHome(r)
    BY <2>3 DEF SaveHome, Goto, SoundInv, TypeInv, TypeOK
  <2>4. CASE SaveAway(r)
    BY <2>4 DEF SaveAway, Goto, SoundInv, TypeInv, TypeOK
  <2>. QED BY <1>6, <2>1, <2>2, <2>3, <2>4
<1>8. /\ pc'[r] \in {"loadAway", "saveHome"} =>
           Sound(loc[r].homeRating, fixture[loc[r].fixture].home, fixture[loc[r].fixture].type)'
      /\ pc'[r] \in {"saveHome", "saveAway"} =>
           Sound(loc[r].awayRating, fixture[loc[r].fixture].away, fixture[loc[r].fixture].type)'
  <2>1. pc'[r] \in {"loadAway", "saveHome", "saveAway"} =>
          /\ loc'[r].fixture = F
          /\ fixture'[F].home = row.home
          /\ fixture'[F].away = row.away
          /\ fixture'[F].type = row.type
          /\ loc'[r].homeRating \in Rating
          /\ loc'[r].awayRating \in Rating
    BY <1>1, <1>2, StepTypeInv, DropTypeInv DEF Moved, TypeInv, TypeOK, Locals
  <2>2. ASSUME pc'[r] \in {"loadAway", "saveHome"}
        PROVE  Sound(loc[r].homeRating, fixture[loc[r].fixture].home,
                     fixture[loc[r].fixture].type)'
    <3>1. \A f \in loc'[r].homeRating.won \cup loc'[r].homeRating.lost :
            /\ Agreed(f)'
            /\ row.home \in {fixture'[f].home, fixture'[f].away}
            /\ row.type = fixture'[f].type
      BY <1>4, <1>7, <2>1, <2>2
    <3>. QED BY <2>1, <2>2, <3>1 DEF Sound
  <2>3. ASSUME pc'[r] \in {"saveHome", "saveAway"}
        PROVE  Sound(loc[r].awayRating, fixture[loc[r].fixture].away,
                     fixture[loc[r].fixture].type)'
    <3>1. \A f \in loc'[r].awayRating.won \cup loc'[r].awayRating.lost :
            /\ Agreed(f)'
            /\ row.away \in {fixture'[f].home, fixture'[f].away}
            /\ row.type = fixture'[f].type
      BY <1>4, <1>7, <2>1, <2>3
    <3>. QED BY <2>1, <2>3, <3>1 DEF Sound
  <2>. QED BY <2>2, <2>3
<1>9. ASSUME NEW c \in Clubs, NEW t \in Types, NEW i \in 1..Len(clubElo'[c][t])
      PROVE  Sound(clubElo'[c][t][i].rating, c, t) /\ clubElo'[c][t][i].rating \in Rating
  <2>1. clubElo'[c][t][i].rating \in Rating
    <3>1. clubElo'[c][t] \in Seq(EloRow)
      BY StepTypeInv, DropTypeInv DEF TypeInv, TypeOK
    <3>2. clubElo'[c][t][i] \in EloRow
      BY <1>9, <3>1
    <3>. QED BY <3>2 DEF EloRow
  <2>2. \A j \in 1..Len(clubElo[c][t]) : Sound(clubElo[c][t][j].rating, c, t)
    BY DEF SoundInv, SettlementNeedsBothClubs, Sound
  <2>3. ASSUME NEW d \in Clubs, NEW rating \in Rating, NEW bump \in Nat,
               Sound(rating, d, row.type),
               clubElo' = [clubElo EXCEPT ![d][row.type] = Saved(@, row.type, rating, bump)]
        PROVE  Sound(clubElo'[c][t][i].rating, c, t)
    <3>1. clubElo[d][row.type] \in Seq(EloRow)
      BY <1>2, <2>3 DEF TypeInv, TypeOK
    <3>2. CASE c = d /\ t = row.type
      <4>1. clubElo'[c][t] = Saved(clubElo[c][t], t, rating, bump)
        BY <1>2, <2>3, <3>2 DEF TypeInv, TypeOK
      <4>2. clubElo[c][t] \in Seq(EloRow)
        BY <3>1, <3>2
      <4>3. \A k \in 1..Len(Saved(clubElo[c][t], t, rating, bump)) :
               \/ Saved(clubElo[c][t], t, rating, bump)[k].rating = rating
               \/ \E j \in 1..Len(clubElo[c][t]) :
                    Saved(clubElo[c][t], t, rating, bump)[k].rating = clubElo[c][t][j].rating
        BY <4>2, SavedRatings, SMTT(30)
      <4>4. \/ clubElo'[c][t][i].rating = rating
            \/ \E j \in 1..Len(clubElo[c][t]) :
                 clubElo'[c][t][i].rating = clubElo[c][t][j].rating
        BY <4>1, <4>3
      <4>. QED BY <2>2, <2>3, <3>2, <4>4
    <3>3. CASE ~(c = d /\ t = row.type)
      <4>1. clubElo'[c][t] = clubElo[c][t]
        BY <1>2, <2>3, <3>3 DEF TypeInv, TypeOK
      <4>. QED BY <1>9, <2>2, <4>1
    <3>. QED BY <3>2, <3>3
  <2>4. CASE SaveHome(r)
    <3>1. Sound(loc[r].homeRating, row.home, row.type)
      BY <2>4 DEF SaveHome, SoundInv
    <3>. QED BY <1>2, <1>3, <2>1, <2>3, <2>4, <3>1 DEF SaveHome, Bump
  <2>5. CASE SaveAway(r)
    <3>1. Sound(loc[r].awayRating, row.away, row.type)
      BY <2>5 DEF SaveAway, SoundInv
    <3>. QED BY <1>2, <1>3, <2>1, <2>3, <2>5, <3>1 DEF SaveAway, Bump
  <2>6. CASE clubElo' = clubElo
    BY <1>9, <2>1, <2>2, <2>6
  <2>. QED BY <1>6, <2>4, <2>5, <2>6 DEF LoadHome, LoadAway, dbVars
<1>10. SettlementNeedsBothClubs'
  BY <1>4, <1>9 DEF SettlementNeedsBothClubs
<1>. QED BY <1>5, <1>8, <1>10 DEF SoundInv

LEMMA InitSoundInv == Init => SoundInv
BY DEF Init, SoundInv, SettlementNeedsBothClubs, Types

LEMMA NextSoundInv ==
    TypeInv /\ AcceptInv /\ ConfirmInv /\ SoundInv /\ [Next]_vars => SoundInv'
<1>. SUFFICES ASSUME TypeInv, AcceptInv, ConfirmInv, SoundInv, [Next]_vars
              PROVE  SoundInv'
  OBVIOUS
<1>1. ASSUME NEW r \in Requests, Step(r) \/ Drop(r)
      PROVE  SoundInv'
  BY <1>1, StepSoundInv
\* Every other step adds no rating, and keeps or starts no settlement.
<1>2. ASSUME UNCHANGED clubElo,
             \A q \in Requests :
                pc'[q] \in Settling => pc'[q] = pc[q] /\ loc'[q] = loc[q]
      PROVE  SoundInv'
  <2>1. \A c, t : \A x \in Rating : Sound(x, c, t) =>
          \A f \in x.won \cup x.lost :
             /\ Agreed(f)'
             /\ c \in {fixture'[f].home, fixture'[f].away}
             /\ t = fixture'[f].type
    BY SoundStable DEF Sound
  <2>2. ASSUME NEW c \in Clubs, NEW t \in Types, NEW i \in 1..Len(clubElo[c][t])
        PROVE  clubElo[c][t][i].rating \in Rating /\ Sound(clubElo[c][t][i].rating, c, t)
    <3>1. clubElo[c][t] \in Seq(EloRow)
      BY DEF TypeInv, TypeOK
    <3>2. clubElo[c][t][i] \in EloRow
      BY <2>2, <3>1
    <3>. QED BY <2>2, <3>2 DEF EloRow, SoundInv, SettlementNeedsBothClubs, Sound
  <2>3. SettlementNeedsBothClubs'
    BY <1>2, <2>1, <2>2 DEF SettlementNeedsBothClubs
  <2>4. ASSUME NEW q \in Requests, pc'[q] \in Settling
        PROVE  /\ pc[q] = pc'[q]
               /\ loc'[q] = loc[q]
               /\ fixture'[loc[q].fixture].home = fixture[loc[q].fixture].home
               /\ fixture'[loc[q].fixture].away = fixture[loc[q].fixture].away
               /\ fixture'[loc[q].fixture].type = fixture[loc[q].fixture].type
               /\ loc[q].homeRating \in Rating
               /\ loc[q].awayRating \in Rating
    <3>1. pc[q] = pc'[q] /\ loc'[q] = loc[q]
      BY <1>2, <2>4
    <3>2. loc[q].fixture \in FixtureIds /\ fixture[loc[q].fixture].status # "absent"
      BY <2>4, <3>1 DEF TypeInv, LocalsOK, Settling
    <3>3. loc[q].homeRating \in Rating /\ loc[q].awayRating \in Rating
      BY DEF TypeInv, TypeOK, Locals
    <3>. QED BY <3>1, <3>2, <3>3, AgreementStable
  <2>5. ASSUME NEW q \in Requests, pc'[q] \in {"loadAway", "saveHome"}
        PROVE  Sound(loc[q].homeRating, fixture[loc[q].fixture].home,
                     fixture[loc[q].fixture].type)'
    <3>1. pc'[q] \in Settling
      BY <2>5 DEF Settling
    <3>2. Sound(loc[q].homeRating, fixture[loc[q].fixture].home, fixture[loc[q].fixture].type)
      BY <2>4, <2>5, <3>1 DEF SoundInv
    <3>3. \A f \in loc[q].homeRating.won \cup loc[q].homeRating.lost :
            /\ Agreed(f)'
            /\ fixture[loc[q].fixture].home \in {fixture'[f].home, fixture'[f].away}
            /\ fixture[loc[q].fixture].type = fixture'[f].type
      BY <2>1, <2>4, <3>1, <3>2
    <3>. QED BY <2>4, <3>1, <3>3 DEF Sound
  <2>6. ASSUME NEW q \in Requests, pc'[q] \in {"saveHome", "saveAway"}
        PROVE  Sound(loc[q].awayRating, fixture[loc[q].fixture].away,
                     fixture[loc[q].fixture].type)'
    <3>1. pc'[q] \in Settling
      BY <2>6 DEF Settling
    <3>2. Sound(loc[q].awayRating, fixture[loc[q].fixture].away, fixture[loc[q].fixture].type)
      BY <2>4, <2>6, <3>1 DEF SoundInv
    <3>3. \A f \in loc[q].awayRating.won \cup loc[q].awayRating.lost :
            /\ Agreed(f)'
            /\ fixture[loc[q].fixture].away \in {fixture'[f].home, fixture'[f].away}
            /\ fixture[loc[q].fixture].type = fixture'[f].type
      BY <2>1, <2>4, <3>1, <3>2
    <3>. QED BY <2>4, <3>1, <3>3 DEF Sound
  <2>. QED BY <2>3, <2>5, <2>6 DEF SoundInv
<1>3. ASSUME NEW u \in Users, Propose(u)
      PROVE  UNCHANGED <<clubElo, pc, loc>>
  BY <1>3 DEF Propose, ProposeFixture
<1>4. ASSUME NEW r \in Requests, NEW u \in Users, NEW f \in FixtureIds, Begin(r, u, f)
      PROVE  /\ UNCHANGED clubElo
             /\ \A q \in Requests :
                   pc'[q] \in Settling => pc'[q] = pc[q] /\ loc'[q] = loc[q]
  BY <1>4, BeginFrame DEF Begun, dbVars, Settling
<1>5. CASE UNCHANGED vars
  BY <1>2, <1>5 DEF vars, dbVars
<1>. QED BY <1>1, <1>2, <1>3, <1>4, <1>5 DEF Next

\* A one-sided confirmation settles nothing: whatever requests overlap and
\* wherever they stop, a result on the ladder is one both clubs confirmed, of
\* a fixture that club played, in the fixture's game type.
THEOREM LadderNeedsBothClubs == Spec => []SettlementNeedsBothClubs
<1>1. SoundInv => SettlementNeedsBothClubs
  BY DEF SoundInv
<1>. QED BY <1>1, ConfirmInvariant, InitSoundInv, NextSoundInv, PTL DEF Spec

-----------------------------------------------------------------------------
\* games_played and the rating beside it.

PlayedIn(rows) == IF rows = <<>> THEN 0 ELSE rows[1].played

\* A rating in flight is at most its own settlement ahead of games_played.
FoldInv ==
    /\ GamesPlayedCoversFolds
    /\ \A c \in Clubs, t \in GameTypes : Len(clubElo[c][t]) <= 1
    /\ \A r \in Requests :
         LET row == fixture[loc[r].fixture]
             b   == Bump(loc[r].winner)
         IN  pc[r] \in Settling /\ row.type \in GameTypes =>
                /\ pc[r] = "loadAway" =>
                     loc[r].homeRating.folds <= PlayedIn(clubElo[row.home][row.type])
                /\ pc[r] = "saveHome" =>
                     loc[r].homeRating.folds <= PlayedIn(clubElo[row.home][row.type]) + b
                /\ pc[r] \in {"saveHome", "saveAway"} =>
                     loc[r].awayRating.folds <= PlayedIn(clubElo[row.away][row.type]) + b

\* An upsert of a real game type leaves one row, the new rating beside the
\* count it was added to.
LEMMA SavedRow ==
    ASSUME NEW rows \in Seq(EloRow), Len(rows) <= 1, NEW t \in GameTypes,
           NEW rating \in Rating, NEW bump \in Nat
    PROVE  Saved(rows, t, rating, bump) =
             <<[rating |-> rating, played |-> PlayedIn(rows) + bump]>>
<1>1. t # None
  BY NoneAssumption
<1>2. CASE rows = <<>>
  BY <1>1, <1>2 DEF Saved, PlayedIn
<1>3. CASE rows # <<>>
  <2>1. Len(rows) \in Nat /\ Len(rows) # 0
    BY <1>3, EmptySeq
  <2>2. Len(rows) <= 1
    OBVIOUS
  <2>3. Len(rows) = 1
    <3>1. \A n \in Nat : n <= 1 /\ n # 0 => n = 1
      OBVIOUS
    <3>. QED BY <2>1, <2>2, <3>1, Zenon
  <2>4. Saved(rows, t, rating, bump) =
          [rows EXCEPT ![1] = [rating |-> rating, played |-> rows[1].played + bump]]
    BY <1>1, <1>3 DEF Saved
  <2>. QED BY <1>3, <2>3, <2>4 DEF PlayedIn
<1>. QED BY <1>2, <1>3

LEMMA LoadedFolds ==
    ASSUME TypeInv, FoldInv, NEW c \in Clubs, NEW t \in GameTypes,
           NEW rating \in Loadable(c, t)
    PROVE  rating.folds <= PlayedIn(clubElo[c][t])
<1>1. clubElo[c][t] \in Seq(EloRow) /\ Len(clubElo[c][t]) <= 1
  BY DEF TypeInv, TypeOK, FoldInv, Types
<1>2. CASE clubElo[c][t] = <<>>
  BY <1>2 DEF Loadable, PlayedIn, DefaultRating
<1>3. CASE clubElo[c][t] # <<>>
  <2>1. rating = clubElo[c][t][1].rating /\ 1 \in 1..Len(clubElo[c][t])
    BY <1>1, <1>3 DEF Loadable
  <2>. QED BY <1>3, <2>1 DEF PlayedIn, FoldInv, GamesPlayedCoversFolds
<1>. QED BY <1>2, <1>3

LEMMA StepFoldInv ==
    ASSUME TypeInv, FoldInv, NEW r \in Requests, Step(r) \/ Drop(r)
    PROVE  FoldInv'
<1>. DEFINE F == loc[r].fixture
            row == fixture[F]
            B == Bump(loc[r].winner)
<1>1. Moved(r)
  BY StepFrame
<1>2. F \in FixtureIds /\ row.home \in Clubs /\ row.away \in Clubs
      /\ row.type \in Types /\ row.status # "absent"
  BY <1>1 DEF Moved, TypeInv, TypeOK, LocalsOK, RowsOK, FixtureRow
<1>3. \A q \in Requests : /\ loc[q].homeRating \in Rating
                          /\ loc[q].awayRating \in Rating
                          /\ Bump(loc[q].winner) \in Nat
  BY DEF TypeInv, TypeOK, Locals, Bump
<1>4. \A c \in Clubs, t \in GameTypes :
        /\ clubElo[c][t] \in Seq(EloRow)
        /\ Len(clubElo[c][t]) <= 1
        /\ PlayedIn(clubElo[c][t]) \in Nat
  <2>. SUFFICES ASSUME NEW c \in Clubs, NEW t \in GameTypes
                PROVE  /\ clubElo[c][t] \in Seq(EloRow)
                       /\ Len(clubElo[c][t]) <= 1
                       /\ PlayedIn(clubElo[c][t]) \in Nat
    OBVIOUS
  <2>1. clubElo[c][t] \in Seq(EloRow) /\ Len(clubElo[c][t]) <= 1
    BY DEF TypeInv, TypeOK, FoldInv, Types
  <2>2. clubElo[c][t] # <<>> => clubElo[c][t][1] \in EloRow
    BY <2>1
  <2>. QED BY <2>1, <2>2 DEF PlayedIn, EloRow
<1>5. \/ pc'[r] \notin {"loadAway", "saveHome", "saveAway"} /\ clubElo' = clubElo
      \/ LoadHome(r) \/ LoadAway(r) \/ SaveHome(r) \/ SaveAway(r)
  BY DEF Step, Drop, dbVars, Done, Goto, WriteAccepted, WriteDeclined, WriteCancelled,
     InsertGame, LinkGame, RatePlayers, WritePlayed, UpsertConfirmation,
     CountConfirmations, MaySettle, TallyGames, WriteConfirmed, TypeInv, TypeOK
\* What becomes of a row: left alone, or replaced by this request's upsert.
<1>6. ASSUME NEW d \in Clubs, NEW rating \in Rating,
             row.type \in GameTypes => rating.folds <= PlayedIn(clubElo[d][row.type]) + B,
             clubElo' = [clubElo EXCEPT ![d][row.type] = Saved(@, row.type, rating, B)]
      PROVE  \A c \in Clubs, t \in GameTypes :
               \/ clubElo'[c][t] = clubElo[c][t]
               \/ \E x \in Rating :
                    /\ clubElo'[c][t] = <<[rating |-> x,
                                           played |-> PlayedIn(clubElo[c][t]) + B]>>
                    /\ x.folds <= PlayedIn(clubElo[c][t]) + B
  <2>. SUFFICES ASSUME NEW c \in Clubs, NEW t \in GameTypes
                PROVE  \/ clubElo'[c][t] = clubElo[c][t]
                       \/ /\ clubElo'[c][t] = <<[rating |-> rating,
                                                 played |-> PlayedIn(clubElo[c][t]) + B]>>
                          /\ rating.folds <= PlayedIn(clubElo[c][t]) + B
    BY <1>6
  <2>1. CASE c = d /\ t = row.type
    <3>1. clubElo'[c][t] = Saved(clubElo[c][t], t, rating, B)
      BY <1>2, <1>6, <2>1 DEF TypeInv, TypeOK
    <3>2. Saved(clubElo[c][t], t, rating, B) =
            <<[rating |-> rating, played |-> PlayedIn(clubElo[c][t]) + B]>>
      BY <1>3, <1>4, SavedRow
    <3>. QED BY <1>6, <2>1, <3>1, <3>2
  <2>2. CASE ~(c = d /\ t = row.type)
    BY <1>2, <1>6, <2>2 DEF TypeInv, TypeOK, Types
  <2>. QED BY <2>1, <2>2
<1>7. \A c \in Clubs, t \in GameTypes :
        \/ clubElo'[c][t] = clubElo[c][t]
        \/ \E x \in Rating :
             /\ clubElo'[c][t] = <<[rating |-> x, played |-> PlayedIn(clubElo[c][t]) + B]>>
             /\ x.folds <= PlayedIn(clubElo[c][t]) + B
  <2>1. CASE SaveHome(r)
    <3>1. row.type \in GameTypes =>
            loc[r].homeRating.folds <= PlayedIn(clubElo[row.home][row.type]) + B
      BY <2>1 DEF SaveHome, FoldInv, Settling
    <3>. QED BY <1>2, <1>3, <1>6, <2>1, <3>1 DEF SaveHome
  <2>2. CASE SaveAway(r)
    <3>1. row.type \in GameTypes =>
            loc[r].awayRating.folds <= PlayedIn(clubElo[row.away][row.type]) + B
      BY <2>2 DEF SaveAway, FoldInv, Settling
    <3>. QED BY <1>2, <1>3, <1>6, <2>2, <3>1 DEF SaveAway
  <2>. QED BY <1>5, <2>1, <2>2 DEF LoadHome, LoadAway, dbVars
<1>8. ASSUME NEW c \in Clubs, NEW t \in GameTypes
      PROVE  /\ Len(clubElo'[c][t]) <= 1
             /\ \A i \in 1..Len(clubElo'[c][t]) :
                  clubElo'[c][t][i].rating.folds <= clubElo'[c][t][i].played
             /\ PlayedIn(clubElo'[c][t]) \in Nat
             /\ PlayedIn(clubElo[c][t]) <= PlayedIn(clubElo'[c][t])
  <2>1. CASE clubElo'[c][t] = clubElo[c][t]
    BY <1>4, <2>1 DEF FoldInv, GamesPlayedCoversFolds
  <2>2. ASSUME NEW x \in Rating,
               clubElo'[c][t] = <<[rating |-> x, played |-> PlayedIn(clubElo[c][t]) + B]>>,
               x.folds <= PlayedIn(clubElo[c][t]) + B
        PROVE  /\ Len(clubElo'[c][t]) <= 1
               /\ \A i \in 1..Len(clubElo'[c][t]) :
                    clubElo'[c][t][i].rating.folds <= clubElo'[c][t][i].played
               /\ PlayedIn(clubElo'[c][t]) \in Nat
               /\ PlayedIn(clubElo[c][t]) <= PlayedIn(clubElo'[c][t])
    BY <1>3, <1>4, <2>2 DEF PlayedIn
  <2>. QED BY <1>7, <2>1, <2>2
<1>9. GamesPlayedCoversFolds'
  BY <1>8 DEF GamesPlayedCoversFolds
<1>10. ASSUME NEW q \in Requests \ {r}, pc[q] \in Settling,
              fixture[loc[q].fixture].type \in GameTypes
       PROVE  LET G == fixture[loc[q].fixture]
                  b == Bump(loc[q].winner)
              IN  /\ pc[q] = "loadAway" =>
                       loc[q].homeRating.folds <= PlayedIn(clubElo'[G.home][G.type])
                  /\ pc[q] = "saveHome" =>
                       loc[q].homeRating.folds <= PlayedIn(clubElo'[G.home][G.type]) + b
                  /\ pc[q] \in {"saveHome", "saveAway"} =>
                       loc[q].awayRating.folds <= PlayedIn(clubElo'[G.away][G.type]) + b
  <2>. DEFINE G == fixture[loc[q].fixture]
  <2>1. G.home \in Clubs /\ G.away \in Clubs
    BY <1>10 DEF TypeInv, LocalsOK, RowsOK, Settling
  <2>2. /\ PlayedIn(clubElo[G.home][G.type]) <= PlayedIn(clubElo'[G.home][G.type])
        /\ PlayedIn(clubElo[G.away][G.type]) <= PlayedIn(clubElo'[G.away][G.type])
    BY <1>8, <1>10, <2>1
  <2>3. /\ PlayedIn(clubElo[G.home][G.type]) \in Nat
        /\ PlayedIn(clubElo[G.away][G.type]) \in Nat
        /\ PlayedIn(clubElo'[G.home][G.type]) \in Nat
        /\ PlayedIn(clubElo'[G.away][G.type]) \in Nat
    BY <1>4, <1>8, <1>10, <2>1
  <2>4. loc[q].homeRating.folds \in Nat /\ loc[q].awayRating.folds \in Nat
        /\ Bump(loc[q].winner) \in Nat
    BY <1>3 DEF Rating
  <2>5. /\ pc[q] = "loadAway" =>
             loc[q].homeRating.folds <= PlayedIn(clubElo[G.home][G.type])
        /\ pc[q] = "saveHome" =>
             loc[q].homeRating.folds <=
               PlayedIn(clubElo[G.home][G.type]) + Bump(loc[q].winner)
        /\ pc[q] \in {"saveHome", "saveAway"} =>
             loc[q].awayRating.folds <=
               PlayedIn(clubElo[G.away][G.type]) + Bump(loc[q].winner)
    BY <1>10 DEF FoldInv
  <2>. HIDE DEF G
  <2>7. ASSUME pc[q] = "loadAway"
        PROVE  loc[q].homeRating.folds <= PlayedIn(clubElo'[G.home][G.type])
    <3>1. loc[q].homeRating.folds <= PlayedIn(clubElo[G.home][G.type])
      BY <2>5, <2>7
    <3>. QED BY <2>2, <2>3, <2>4, <3>1
  <2>8. ASSUME pc[q] = "saveHome"
        PROVE  loc[q].homeRating.folds <=
                 PlayedIn(clubElo'[G.home][G.type]) + Bump(loc[q].winner)
    <3>1. loc[q].homeRating.folds <=
            PlayedIn(clubElo[G.home][G.type]) + Bump(loc[q].winner)
      BY <2>5, <2>8
    <3>. QED BY <2>2, <2>3, <2>4, <3>1
  <2>9. ASSUME pc[q] \in {"saveHome", "saveAway"}
        PROVE  loc[q].awayRating.folds <=
                 PlayedIn(clubElo'[G.away][G.type]) + Bump(loc[q].winner)
    <3>1. loc[q].awayRating.folds <=
            PlayedIn(clubElo[G.away][G.type]) + Bump(loc[q].winner)
      BY <2>5, <2>9
    <3>. QED BY <2>2, <2>3, <2>4, <3>1
  <2>. QED BY <2>7, <2>8, <2>9 DEF G
<1>11. ASSUME row.type \in GameTypes
       PROVE  /\ pc'[r] = "loadAway" =>
                   loc'[r].homeRating.folds <= PlayedIn(clubElo'[row.home][row.type])
              /\ pc'[r] = "saveHome" =>
                   loc'[r].homeRating.folds <=
                     PlayedIn(clubElo'[row.home][row.type]) + Bump(loc'[r].winner)
              /\ pc'[r] \in {"saveHome", "saveAway"} =>
                   loc'[r].awayRating.folds <=
                     PlayedIn(clubElo'[row.away][row.type]) + Bump(loc'[r].winner)
  <2>1. CASE LoadHome(r)
    <3>1. PICK rating \in Loadable(row.home, row.type) : loc'[r].homeRating = rating
      BY <2>1 DEF LoadHome, Keep, TypeInv, TypeOK, Locals
    <3>2. pc'[r] = "loadAway" /\ clubElo' = clubElo
      BY <2>1 DEF LoadHome, Goto, TypeInv, TypeOK, dbVars
    <3>. QED BY <1>2, <1>11, <3>1, <3>2, LoadedFolds
  <2>2. CASE LoadAway(r)
    <3>1. PICK rating \in Loadable(row.away, row.type) :
            /\ loc'[r].homeRating = UpdateClub(loc[r].homeRating, F, "home", loc[r].winner)
            /\ loc'[r].awayRating = UpdateClub(rating, F, "away", loc[r].winner)
            /\ loc'[r].winner = loc[r].winner
      BY <2>2 DEF LoadAway, Keep, TypeInv, TypeOK, Locals
    <3>2. pc'[r] = "saveHome" /\ pc[r] = "loadAway" /\ clubElo' = clubElo
      BY <2>2 DEF LoadAway, Goto, TypeInv, TypeOK, dbVars
    <3>3. rating.folds <= PlayedIn(clubElo[row.away][row.type]) /\ rating \in Rating
      BY <1>2, <1>11, LoadedFolds, LoadableType DEF TypeInv
    <3>4. loc[r].homeRating.folds <= PlayedIn(clubElo[row.home][row.type])
      BY <1>11, <3>2 DEF FoldInv, Settling
    <3>5. \A side, w : \A x \in Rating :
            UpdateClub(x, F, side, w).folds = x.folds + Bump(w)
      BY DEF UpdateClub, Bump, Rating
    <3>6. /\ PlayedIn(clubElo[row.home][row.type]) \in Nat
          /\ PlayedIn(clubElo[row.away][row.type]) \in Nat
          /\ loc[r].homeRating.folds \in Nat /\ rating.folds \in Nat
          /\ Bump(loc[r].winner) \in Nat
      BY <1>2, <1>3, <1>4, <1>11, <3>3 DEF Rating
    <3>7. /\ loc'[r].homeRating.folds = loc[r].homeRating.folds + Bump(loc[r].winner)
          /\ loc'[r].awayRating.folds = rating.folds + Bump(loc[r].winner)
      BY <1>3, <3>1, <3>3, <3>5
    <3>8. \A a, c, d \in Nat : a <= c => a + d <= c + d
      OBVIOUS
    <3>9. /\ loc'[r].homeRating.folds
               <= PlayedIn(clubElo[row.home][row.type]) + Bump(loc[r].winner)
          /\ loc'[r].awayRating.folds
               <= PlayedIn(clubElo[row.away][row.type]) + Bump(loc[r].winner)
      BY <3>3, <3>4, <3>6, <3>7, <3>8
    <3>. QED BY <3>1, <3>2, <3>9
  <2>3. CASE SaveHome(r)
    <3>1. pc[r] = "saveHome" /\ pc'[r] = "saveAway" /\ loc' = loc
      BY <2>3 DEF SaveHome, Goto, TypeInv, TypeOK
    <3>2. loc[r].awayRating.folds <= PlayedIn(clubElo[row.away][row.type]) + B
      BY <1>11, <3>1 DEF FoldInv, Settling
    <3>3. /\ PlayedIn(clubElo[row.away][row.type]) <= PlayedIn(clubElo'[row.away][row.type])
          /\ PlayedIn(clubElo[row.away][row.type]) \in Nat
          /\ PlayedIn(clubElo'[row.away][row.type]) \in Nat
      BY <1>2, <1>4, <1>8, <1>11
    <3>4. loc[r].awayRating.folds \in Nat /\ B \in Nat
      BY <1>3 DEF Rating
    <3>. QED BY <3>1, <3>2, <3>3, <3>4, SMTT(30)
  <2>4. CASE SaveAway(r)
    BY <2>4 DEF SaveAway, Goto, TypeInv, TypeOK
  <2>. QED BY <1>5, <2>1, <2>2, <2>3, <2>4
<1>12. pc'[r] \in Settling => /\ loc'[r].fixture = F
                              /\ fixture'[F].home = row.home
                              /\ fixture'[F].away = row.away
                              /\ fixture'[F].type = row.type
  BY <1>1 DEF Moved, Settling
<1>13. ASSUME NEW q \in Requests \ {r}, pc'[q] \in Settling
       PROVE  /\ pc[q] = pc'[q]
              /\ loc'[q] = loc[q]
              /\ fixture'[loc[q].fixture].home = fixture[loc[q].fixture].home
              /\ fixture'[loc[q].fixture].away = fixture[loc[q].fixture].away
              /\ fixture'[loc[q].fixture].type = fixture[loc[q].fixture].type
  BY <1>1, <1>13 DEF Moved, TypeInv, LocalsOK, Settling
<1>14. ASSUME NEW q \in Requests
       PROVE  (LET G == fixture[loc[q].fixture]
                   b == Bump(loc[q].winner)
               IN  pc[q] \in Settling /\ G.type \in GameTypes =>
                     /\ pc[q] = "loadAway" =>
                          loc[q].homeRating.folds <= PlayedIn(clubElo[G.home][G.type])
                     /\ pc[q] = "saveHome" =>
                          loc[q].homeRating.folds <= PlayedIn(clubElo[G.home][G.type]) + b
                     /\ pc[q] \in {"saveHome", "saveAway"} =>
                          loc[q].awayRating.folds <= PlayedIn(clubElo[G.away][G.type]) + b)'
  <2>1. CASE q = r
    BY <1>11, <1>12, <2>1
  <2>2. CASE q # r
    BY <1>10, <1>13, <2>2, SMTT(30)
  <2>. QED BY <2>1, <2>2
<1>. QED BY <1>8, <1>9, <1>14 DEF FoldInv

LEMMA NextFoldInv == TypeInv /\ FoldInv /\ [Next]_vars => FoldInv'
<1>. SUFFICES ASSUME TypeInv, FoldInv, [Next]_vars PROVE FoldInv'
  OBVIOUS
<1>1. ASSUME NEW r \in Requests, Step(r) \/ Drop(r)
      PROVE  FoldInv'
  BY <1>1, StepFoldInv
<1>2. ASSUME UNCHANGED clubElo,
             \A q \in Requests : pc'[q] \in Settling =>
                /\ pc'[q] = pc[q]
                /\ loc'[q] = loc[q]
                /\ fixture'[loc[q].fixture] = fixture[loc[q].fixture]
      PROVE  FoldInv'
  BY <1>2 DEF FoldInv, GamesPlayedCoversFolds
<1>3. ASSUME NEW u \in Users, Propose(u)
      PROVE  /\ UNCHANGED <<clubElo, pc, loc>>
             /\ \A q \in Requests : pc'[q] \in Settling =>
                  fixture'[loc[q].fixture] = fixture[loc[q].fixture]
  BY <1>3 DEF Propose, ProposeFixture, TypeInv, TypeOK, LocalsOK, Settling
<1>4. ASSUME NEW r \in Requests, NEW u \in Users, NEW f \in FixtureIds, Begin(r, u, f)
      PROVE  /\ UNCHANGED <<clubElo, fixture>>
             /\ \A q \in Requests :
                   pc'[q] \in Settling => pc'[q] = pc[q] /\ loc'[q] = loc[q]
  BY <1>4, BeginFrame DEF Begun, dbVars, Settling
<1>5. CASE UNCHANGED vars
  BY <1>2, <1>5 DEF vars, dbVars
<1>. QED BY <1>1, <1>2, <1>3, <1>4, <1>5 DEF Next

\* games_played never falls behind the rating beside it, even where
\* overlapping settlements overwrite each other's rating.
THEOREM GamesPlayedNeverBehind == Spec => []GamesPlayedCoversFolds
<1>1. Init => FoldInv
  BY DEF Init, FoldInv, GamesPlayedCoversFolds, Types, Settling
<1>2. FoldInv => GamesPlayedCoversFolds
  BY DEF FoldInv
<1>. QED BY <1>1, <1>2, TypeInvariant, NextFoldInv, PTL DEF Spec

-----------------------------------------------------------------------------
\* One request at a time.

\* What the request in flight, r, may rely on: nobody changes the status it read.
Alone(r) ==
    LET l == loc[r]
        f == l.fixture
    IN  /\ pc[r] # "idle" => fixture[f].status = l.seen
        /\ pc[r] \in {"accept", "decline"} => l.seen = "proposed"
        /\ pc[r] = "cancel" => l.seen # "confirmed"
        /\ pc[r] \in Recording => l.seen \in {"accepted", "played"}
        /\ pc[r] \in Confirming =>
              l.seen \in {"played", "confirmed"} /\ l.club \in {fixture[f].home, fixture[f].away}
        /\ pc[r] \in Settling => l.seen = "played"
        /\ pc[r] = "insertGame" => game[l.game] = "none"
        /\ pc[r] = "linkGame" =>
              game[l.game] # "none" /\ \A e \in FixtureIds : l.game \notin fixtureGames[e]
        /\ pc[r] \in {"ratePlayers", "writePlayed"} => l.game \in fixtureGames[f]

\* What the tables say of a fixture, between and during requests.
Standing(f) ==
    /\ \A g \in fixtureGames[f] : game[g] # "none"
    /\ fixture[f].status \in {"played", "confirmed"} => fixtureGames[f] \ Pending(f) # {}
    /\ fixture[f].status = "confirmed" => Agreed(f)

SerialInv(r) == Alone(r) /\ \A f \in FixtureIds : Standing(f)

\* Games and settlements in the hands of the request that is at a label.
Held(label, l, f) ==
    IF label \in {"ratePlayers", "writePlayed"} /\ l.fixture = f THEN {l.game} ELSE {}
Owed(label, l, f) == IF label = "writeConfirmed" /\ l.fixture = f THEN 1 ELSE 0

LEMMA InHand ==
    ASSUME NEW r, Requests = {r}, NEW f
    PROVE  /\ Pending(f) = Held(pc[r], loc[r], f)
           /\ Pending(f)' = Held(pc'[r], loc'[r], f)
           /\ BeingConfirmed(f) = Owed(pc[r], loc[r], f)
           /\ BeingConfirmed(f)' = Owed(pc'[r], loc'[r], f)
<1>1. Cardinality({}) = 0 /\ Cardinality({r}) = 1
  BY FS_EmptySet, FS_Singleton
<1>2. ASSUME NEW x, NEW y
      PROVE  {q \in {r} : x = "writeConfirmed" /\ y = f}
               = IF x = "writeConfirmed" /\ y = f THEN {r} ELSE {}
  OBVIOUS
<1>3. BeingConfirmed(f) = Owed(pc[r], loc[r], f)
  <2>1. {q \in Requests : pc[q] = "writeConfirmed" /\ loc[q].fixture = f}
          = IF pc[r] = "writeConfirmed" /\ loc[r].fixture = f THEN {r} ELSE {}
    OBVIOUS
  <2>. QED BY <1>1, <2>1 DEF BeingConfirmed, Owed
<1>4. BeingConfirmed(f)' = Owed(pc'[r], loc'[r], f)
  <2>1. {q \in Requests : pc'[q] = "writeConfirmed" /\ loc'[q].fixture = f}
          = IF pc'[r] = "writeConfirmed" /\ loc'[r].fixture = f THEN {r} ELSE {}
    OBVIOUS
  <2>. QED BY <1>1, <2>1 DEF BeingConfirmed, Owed
<1>5. Pending(f) = Held(pc[r], loc[r], f)
  BY DEF Pending, Held
<1>6. Pending(f)' = Held(pc'[r], loc'[r], f)
  BY DEF Pending, Held
<1>. QED BY <1>3, <1>4, <1>5, <1>6

\* A request begins: nothing is written, and nothing is in its hands.
LEMMA BeginSerial ==
    ASSUME TypeInv, AcceptInv, NEW r, Requests = {r}, SerialInv(r),
           NEW u \in Users, NEW f \in FixtureIds, Begin(r, u, f)
    PROVE  SerialInv(r)'
<1>0. Begun(r, f)
  BY BeginFrame
<1>1. UNCHANGED dbVars
  BY <1>0 DEF Begun
<1>2. ASSUME NEW e \in FixtureIds PROVE Standing(e)'
  <2>1. Pending(e)' = {} /\ Pending(e) = {}
    BY <1>0, InHand DEF Begun, Held
  <2>. QED BY <1>1, <2>1 DEF SerialInv, Standing, dbVars, Agreed
<1>3. Alone(r)'
  <2>. USE DEF TypeInv, TypeOK, Locals, Goto, Keep, ReadFixture
  <2>0. fixture[f] \in FixtureRow /\ fixture[f].status \in Statuses
    BY DEF FixtureRow
  <2>1. ASSUME NEW answer \in {"accept", "decline"}, BeginAnswer(r, u, f, answer)
        PROVE  Alone(r)'
    BY <1>1, <2>1 DEF BeginAnswer, Alone, dbVars, Recording, Confirming, Settling
  <2>2. CASE BeginCancel(r, u, f)
    BY <1>1, <2>2 DEF BeginCancel, Alone, dbVars, Recording, Confirming, Settling
  <2>3. ASSUME NEW side \in Sides, NEW g \in GameIds, BeginRecord(r, u, f, side, g)
        PROVE  Alone(r)'
    BY <1>1, <2>3 DEF BeginRecord, Recordable, FreeGame, Alone, dbVars, Recording, Confirming,
       Settling
  <2>4. CASE BeginConfirm(r, u, f)
    BY <1>1, <2>4 DEF BeginConfirm, ConfirmsFor, Alone, dbVars, Recording, Confirming, Settling
  <2>. QED BY <2>1, <2>2, <2>3, <2>4 DEF Begin
<1>. QED BY <1>2, <1>3 DEF SerialInv

LEMMA ProposeSerial ==
    ASSUME TypeInv, AcceptInv, NEW r, Requests = {r}, SerialInv(r),
           NEW u \in Users, NEW h \in Clubs, NEW a \in Clubs, NEW t \in Types,
           NEW f \in FixtureIds, ProposeFixture(u, h, a, t, f)
    PROVE  SerialInv(r)'
<1>. USE DEF ProposeFixture
<1>1. /\ fixture'[f].status = "proposed"
      /\ \A e \in FixtureIds \ {f} : fixture'[e] = fixture[e]
  BY DEF TypeInv, TypeOK
<1>2. pc[r] # "idle" => loc[r].fixture \in FixtureIds \ {f}
  BY DEF TypeInv, LocalsOK
<1>3. ASSUME NEW e \in FixtureIds PROVE Standing(e)'
  <2>1. Pending(e)' = Pending(e)
    BY DEF Pending
  <2>. QED BY <1>1, <2>1 DEF SerialInv, Standing, Agreed
<1>4. Alone(r)'
  BY <1>1, <1>2 DEF SerialInv, Alone, Recording, Confirming, Settling
<1>. QED BY <1>3, <1>4 DEF SerialInv

\* A statement that ends a request by writing the status.
LEMMA LastSerial ==
    ASSUME TypeInv, NEW r, Requests = {r}, SerialInv(r), pc[r] # "idle",
           NEW status \in Statuses, SetStatus(loc[r].fixture, status), Done(r),
           UNCHANGED <<confirmations, game, fixtureGames>>,
           status \in {"played", "confirmed"} => fixtureGames[loc[r].fixture] # {},
           status = "confirmed" => Agreed(loc[r].fixture)
    PROVE  SerialInv(r)'
<1>. DEFINE f == loc[r].fixture
<1>0. f \in FixtureIds
  BY DEF TypeInv, LocalsOK
<1>1. /\ fixture'[f].status = status /\ fixture'[f].home = fixture[f].home
      /\ fixture'[f].away = fixture[f].away
      /\ \A e \in FixtureIds \ {f} : fixture'[e] = fixture[e]
  BY <1>0 DEF SetStatus, TypeInv, TypeOK, FixtureRow
<1>2. pc'[r] = "idle"
  BY DEF Done, Goto, TypeInv, TypeOK
<1>3. ASSUME NEW e \in FixtureIds PROVE Standing(e)'
  <2>1. Pending(e)' = {}
    BY <1>2, InHand DEF Held
  <2>2. CASE e = f
    BY <1>1, <2>1, <2>2 DEF SerialInv, Standing, Agreed
  <2>3. CASE e # f
    BY <1>1, <2>1, <2>3 DEF SerialInv, Standing, Agreed
  <2>. QED BY <2>2, <2>3
<1>4. Alone(r)'
  BY <1>2 DEF Alone, Recording, Confirming, Settling
<1>. QED BY <1>3, <1>4 DEF SerialInv

\* A statement of a settlement that leaves fixtures and games alone.
LEMMA SettlingSerial ==
    ASSUME TypeInv, NEW r, Requests = {r}, SerialInv(r), pc[r] \in Settling,
           pc'[r] \in Settling, loc'[r].fixture = loc[r].fixture, loc'[r].seen = loc[r].seen,
           loc'[r].club = loc[r].club,
           UNCHANGED <<fixture, confirmations, game, fixtureGames>>
    PROVE  SerialInv(r)'
<1>1. ASSUME NEW e \in FixtureIds PROVE Standing(e)'
  <2>1. Pending(e)' = {} /\ Pending(e) = {}
    BY InHand DEF Held, Settling
  <2>. QED BY <2>1 DEF SerialInv, Standing, Agreed
<1>2. Alone(r)'
  BY DEF SerialInv, Alone, Recording, Confirming, Settling
<1>. QED BY <1>1, <1>2 DEF SerialInv

LEMMA StepSerial ==
    ASSUME TypeInv, ConfirmInv, NEW r, Requests = {r}, SerialInv(r), Step(r)
    PROVE  SerialInv(r)'
<1>. DEFINE l == loc[r]
            f == loc[r].fixture
<1>a. pc[r] # "idle" /\ f \in FixtureIds
  BY StepFrame DEF Moved
<1>t. /\ pc \in [Requests -> Labels] /\ loc \in [Requests -> Locals]
      /\ fixture \in [FixtureIds -> FixtureRow] /\ fixtureGames \in [FixtureIds -> SUBSET GameIds]
      /\ confirmations \in [FixtureIds -> SUBSET Clubs]
      /\ game \in [GameIds -> Sides \cup {"none"}]
  BY DEF TypeInv, TypeOK
<1>l. pc[r] \in Recording => l.game \in GameIds /\ l.winner \in Sides
  BY DEF TypeInv, LocalsOK, Recording
<1>s. \A e \in FixtureIds : Standing(e)
  BY DEF SerialInv
<1>w. Alone(r)
  BY DEF SerialInv
<1>1. CASE WriteAccepted(r)
  BY <1>1, <1>a, LastSerial DEF WriteAccepted, Statuses
<1>2. CASE WriteDeclined(r)
  BY <1>2, <1>a, LastSerial DEF WriteDeclined, Statuses
<1>3. CASE WriteCancelled(r)
  BY <1>3, <1>a, LastSerial DEF WriteCancelled, Statuses
<1>4. CASE WritePlayed(r)
  <2>1. fixtureGames[f] # {}
    BY <1>4, <1>w DEF Alone, WritePlayed
  <2>. QED BY <1>4, <1>a, <2>1, LastSerial DEF WritePlayed, Statuses
<1>5. CASE WriteConfirmed(r)
  <2>1. Agreed(f) /\ fixture[f].status = "played"
    BY <1>5, <1>w DEF Alone, WriteConfirmed, ConfirmInv, Settling
  <2>2. fixtureGames[f] # {}
    BY <1>a, <1>s, <2>1 DEF Standing
  <2>. QED BY <1>5, <1>a, <2>1, <2>2, LastSerial DEF WriteConfirmed, Statuses
<1>6. CASE InsertGame(r)
  <2>1. /\ pc[r] = "insertGame" /\ pc'[r] = "linkGame" /\ loc' = loc
        /\ game' = [game EXCEPT ![l.game] = l.winner]
        /\ UNCHANGED <<fixture, confirmations, fixtureGames>>
    BY <1>6, <1>t DEF InsertGame, Goto
  <2>2. game[l.game] = "none" /\ l.game \in GameIds
    BY <1>w, <1>l, <2>1 DEF Alone, Recording
  <2>3. \A e \in FixtureIds : l.game \notin fixtureGames[e]
    BY <1>s, <2>2 DEF Standing
  <2>4. game'[l.game] # "none"
    BY <1>t, <1>l, <2>1 DEF Recording, Sides
  <2>5. Alone(r)'
    BY <1>w, <2>1, <2>3, <2>4 DEF Alone, Recording, Confirming, Settling
  <2>6. ASSUME NEW e \in FixtureIds PROVE Standing(e)'
    <3>1. Pending(e)' = Pending(e)
      BY <2>1, InHand DEF Held
    <3>2. \A g \in fixtureGames[e] : game'[g] = game[g]
      BY <1>t, <2>1, <2>3
    <3>. QED BY <1>s, <2>1, <3>1, <3>2 DEF Standing, Agreed
  <2>. QED BY <2>5, <2>6 DEF SerialInv
<1>7. CASE LinkGame(r)
  <2>1. /\ pc[r] = "linkGame" /\ pc'[r] = "ratePlayers" /\ loc' = loc
        /\ fixtureGames' = [fixtureGames EXCEPT ![f] = @ \cup {l.game}]
        /\ UNCHANGED <<fixture, confirmations, game>>
    BY <1>7, <1>t DEF LinkGame, Goto
  <2>2. l.game \in GameIds /\ l.game \notin fixtureGames[f] /\ game[l.game] # "none"
    BY <1>w, <1>a, <1>l, <2>1 DEF Alone, Recording
  <2>3. fixtureGames'[f] = fixtureGames[f] \cup {l.game}
    BY <1>a, <1>t, <2>1
  <2>4. Alone(r)'
    BY <1>w, <2>1, <2>3 DEF Alone, Recording, Confirming, Settling
  <2>5. ASSUME NEW e \in FixtureIds PROVE Standing(e)'
    <3>1. Pending(e) = {} /\ Pending(e)' = IF e = f THEN {l.game} ELSE {}
      BY <2>1, InHand DEF Held
    <3>2. CASE e = f
      BY <1>s, <2>1, <2>2, <2>3, <3>1, <3>2 DEF Standing, Agreed
    <3>3. CASE e # f
      BY <1>s, <1>t, <2>1, <3>1, <3>3 DEF Standing, Agreed
    <3>. QED BY <3>2, <3>3
  <2>. QED BY <2>4, <2>5 DEF SerialInv
<1>8. CASE RatePlayers(r)
  <2>1. /\ pc[r] = "ratePlayers" /\ pc'[r] = "writePlayed" /\ loc' = loc
        /\ UNCHANGED <<fixture, confirmations, game, fixtureGames>>
    BY <1>8, <1>t DEF RatePlayers, Goto
  <2>2. Alone(r)'
    BY <1>w, <2>1 DEF Alone, Recording, Confirming, Settling
  <2>3. ASSUME NEW e \in FixtureIds PROVE Standing(e)'
    <3>1. Pending(e)' = Pending(e)
      BY <2>1, InHand DEF Held
    <3>. QED BY <1>s, <2>1, <3>1 DEF Standing, Agreed
  <2>. QED BY <2>2, <2>3 DEF SerialInv
<1>9. CASE UpsertConfirmation(r)
  <2>1. /\ pc[r] = "upsert" /\ pc'[r] = "count" /\ loc' = loc
        /\ \A e \in FixtureIds : confirmations[e] \subseteq confirmations'[e]
        /\ UNCHANGED <<fixture, game, fixtureGames>>
    BY <1>9, <1>t, <1>a DEF UpsertConfirmation, Goto
  <2>2. Alone(r)'
    BY <1>w, <2>1 DEF Alone, Recording, Confirming, Settling
  <2>3. ASSUME NEW e \in FixtureIds PROVE Standing(e)'
    <3>1. Pending(e)' = Pending(e)
      BY <2>1, InHand DEF Held
    <3>. QED BY <1>s, <2>1, <3>1 DEF Standing, Agreed
  <2>. QED BY <2>2, <2>3 DEF SerialInv
<1>10. CASE CountConfirmations(r)
  <2>1. /\ pc[r] = "count" /\ UNCHANGED <<fixture, confirmations, game, fixtureGames>>
        /\ \/ pc'[r] = "tally" /\ loc' = loc /\ l.seen # "confirmed"
           \/ pc'[r] = "idle"
    BY <1>10, <1>t DEF CountConfirmations, MaySettle, Goto, Done, dbVars
  <2>2. Alone(r)'
    BY <1>w, <2>1 DEF Alone, Recording, Confirming, Settling
  <2>3. ASSUME NEW e \in FixtureIds PROVE Standing(e)'
    <3>1. Pending(e)' = {} /\ Pending(e) = {}
      BY <2>1, InHand DEF Held
    <3>. QED BY <1>s, <2>1, <3>1 DEF Standing, Agreed
  <2>. QED BY <2>2, <2>3 DEF SerialInv
<1>11. CASE TallyGames(r)
  BY <1>11, <1>t, SettlingSerial DEF TallyGames, Goto, Keep, Settling, dbVars, Locals
<1>12. CASE LoadHome(r)
  BY <1>12, <1>t, SettlingSerial DEF LoadHome, Goto, Keep, Settling, dbVars, Locals
<1>13. CASE LoadAway(r)
  BY <1>13, <1>t, SettlingSerial DEF LoadAway, Goto, Keep, Settling, dbVars, Locals
<1>14. CASE SaveHome(r) \/ SaveAway(r)
  BY <1>14, <1>t, SettlingSerial DEF SaveHome, SaveAway, Goto, Settling
<1>. QED
  BY <1>1, <1>2, <1>3, <1>4, <1>5, <1>6, <1>7, <1>8, <1>9, <1>10, <1>11, <1>12, <1>13, <1>14
  DEF Step

-----------------------------------------------------------------------------
\* What FixtureLifecycle sees of a fixture, and its actions in those terms.

View(f) == [phase |-> fixture[f].status, result |-> fixtureGames[f] \ Pending(f),
            endorsed |-> EndorsedBy(f), counted |-> settled[f] - BeingConfirmed(f)]

Phases == [e \in FixtureIds |-> fixture[e].status]
Results == [e \in FixtureIds |-> fixtureGames[e] \ Pending(e)]
Endorsements == [e \in FixtureIds |-> EndorsedBy(e)]
Counts == [e \in FixtureIds |-> settled[e] - BeingConfirmed(e)]

\* A view with a game more, and a view once settled.
PlayedView(f, g) ==
    [phase |-> "played", result |-> View(f).result \cup {g},
     endorsed |-> View(f).endorsed, counted |-> View(f).counted]
ConfirmedView(f) ==
    [phase |-> "confirmed", result |-> View(f).result,
     endorsed |-> View(f).endorsed, counted |-> View(f).counted + 1]

\* Nothing of the other fixtures changes, and of f what turns its view into v.
Only(f, v) == View(f)' = v /\ \A e \in FixtureIds \ {f} : View(e)' = View(e)

LEMMA SeesNothing ==
    ASSUME \A e \in FixtureIds : View(e)' = View(e)
    PROVE  UNCHANGED Lifecycle!vars
<1>1. ASSUME NEW e \in FixtureIds
      PROVE  /\ fixture'[e].status = fixture[e].status
             /\ (fixtureGames[e] \ Pending(e))' = fixtureGames[e] \ Pending(e)
             /\ EndorsedBy(e)' = EndorsedBy(e)
             /\ (settled[e] - BeingConfirmed(e))' = settled[e] - BeingConfirmed(e)
  BY View(e)' = View(e) DEF View
<1>. QED BY <1>1 DEF Lifecycle!vars

\* A change of one fixture's view is a change of each of the abstract variables.
LEMMA SeesOne ==
    ASSUME NEW f \in FixtureIds, NEW v, Only(f, v)
    PROVE  /\ Phases' = [Phases EXCEPT ![f] = v.phase]
           /\ Results' = [Results EXCEPT ![f] = v.result]
           /\ Endorsements' = [Endorsements EXCEPT ![f] = v.endorsed]
           /\ Counts' = [Counts EXCEPT ![f] = v.counted]
<1>1. ASSUME NEW e \in FixtureIds, e # f
      PROVE  /\ fixture'[e].status = fixture[e].status
             /\ (fixtureGames[e] \ Pending(e))' = fixtureGames[e] \ Pending(e)
             /\ EndorsedBy(e)' = EndorsedBy(e)
             /\ (settled[e] - BeingConfirmed(e))' = settled[e] - BeingConfirmed(e)
  <2>1. View(e)' = View(e)
    BY <1>1 DEF Only
  <2>. QED BY <2>1 DEF View
<1>2. /\ fixture'[f].status = v.phase
      /\ (fixtureGames[f] \ Pending(f))' = v.result
      /\ EndorsedBy(f)' = v.endorsed
      /\ (settled[f] - BeingConfirmed(f))' = v.counted
  BY DEF Only, View
<1>. QED BY <1>1, <1>2 DEF Phases, Results, Endorsements, Counts

LEMMA ViewMaps ==
    ASSUME NEW f \in FixtureIds
    PROVE  /\ Phases[f] = fixture[f].status /\ Phases = [Phases EXCEPT ![f] = Phases[f]]
           /\ Results[f] = fixtureGames[f] \ Pending(f)
           /\ Results = [Results EXCEPT ![f] = Results[f]]
           /\ Endorsements[f] = EndorsedBy(f)
           /\ Endorsements = [Endorsements EXCEPT ![f] = Endorsements[f]]
           /\ Counts[f] = settled[f] - BeingConfirmed(f)
           /\ Counts = [Counts EXCEPT ![f] = Counts[f]]
BY DEF Phases, Results, Endorsements, Counts

LEMMA SeesMove ==
    ASSUME NEW f \in FixtureIds, NEW to, Only(f, [View(f) EXCEPT !.phase = to]),
           \/ fixture[f].status = "absent" /\ to = "proposed"
           \/ fixture[f].status = "proposed" /\ to \in {"accepted", "declined"}
           \/ /\ fixture[f].status \in {"proposed", "accepted", "declined", "played"}
              /\ to = "cancelled"
    PROVE  Lifecycle!Next
<1>. DEFINE v == [View(f) EXCEPT !.phase = to]
<1>1. /\ v.phase = to /\ v.result = fixtureGames[f] \ Pending(f)
      /\ v.endorsed = EndorsedBy(f) /\ v.counted = settled[f] - BeingConfirmed(f)
  BY DEF View
<1>. HIDE DEF v
<1>2. /\ Phases' = [Phases EXCEPT ![f] = to]
      /\ Results' = Results
      /\ Endorsements' = Endorsements
      /\ Counts' = Counts
  <2>1. Only(f, v)
    BY DEF v
  <2>2. /\ Phases' = [Phases EXCEPT ![f] = v.phase]
        /\ Results' = [Results EXCEPT ![f] = v.result]
        /\ Endorsements' = [Endorsements EXCEPT ![f] = v.endorsed]
        /\ Counts' = [Counts EXCEPT ![f] = v.counted]
    BY <2>1, SeesOne
  <2>. QED BY <1>1, <2>2, ViewMaps
<1>. QED BY <1>2, ViewMaps DEF Phases, Results, Endorsements, Counts, Lifecycle!Next,
            Lifecycle!Propose, Lifecycle!Answer, Lifecycle!Cancel,
            Lifecycle!Move

LEMMA SeesPlay ==
    ASSUME NEW f \in FixtureIds, NEW g \in GameIds,
           fixture[f].status \in {"accepted", "played"}, g \notin View(f).result,
           Only(f, PlayedView(f, g))
    PROVE  Lifecycle!Next
<1>. DEFINE v == PlayedView(f, g)
<1>1. /\ v.phase = "played" /\ v.result = (fixtureGames[f] \ Pending(f)) \cup {g}
      /\ v.endorsed = EndorsedBy(f) /\ v.counted = settled[f] - BeingConfirmed(f)
      /\ g \notin fixtureGames[f] \ Pending(f)
  BY DEF View, PlayedView
<1>. HIDE DEF v
<1>2. /\ Phases' = [Phases EXCEPT ![f] = "played"]
      /\ Results' = [Results EXCEPT ![f] = @ \cup {g}]
      /\ Endorsements' = Endorsements
      /\ Counts' = Counts
  <2>1. Only(f, v)
    BY DEF v
  <2>2. /\ Phases' = [Phases EXCEPT ![f] = v.phase]
        /\ Results' = [Results EXCEPT ![f] = v.result]
        /\ Endorsements' = [Endorsements EXCEPT ![f] = v.endorsed]
        /\ Counts' = [Counts EXCEPT ![f] = v.counted]
    BY <2>1, SeesOne
  <2>. QED BY <1>1, <2>2, ViewMaps
<1>3. Lifecycle!Play(f, g)
  BY <1>1, <1>2 DEF Phases, Results, Endorsements, Counts, Lifecycle!Play, Lifecycle!Move
<1>. QED BY <1>3 DEF Lifecycle!Next

LEMMA SeesEndorse ==
    ASSUME NEW f \in FixtureIds, NEW side \in Sides, fixture[f].status = "played",
           Only(f, [View(f) EXCEPT !.endorsed = View(f).endorsed \cup {side}])
    PROVE  Lifecycle!Next
<1>. DEFINE v == [View(f) EXCEPT !.endorsed = View(f).endorsed \cup {side}]
<1>1. /\ v.phase = fixture[f].status /\ v.result = fixtureGames[f] \ Pending(f)
      /\ v.endorsed = EndorsedBy(f) \cup {side} /\ v.counted = settled[f] - BeingConfirmed(f)
  BY DEF View
<1>. HIDE DEF v
<1>2. /\ Phases' = Phases
      /\ Results' = Results
      /\ Endorsements' = [Endorsements EXCEPT ![f] = @ \cup {side}]
      /\ Counts' = Counts
  <2>1. Only(f, v)
    BY DEF v
  <2>2. /\ Phases' = [Phases EXCEPT ![f] = v.phase]
        /\ Results' = [Results EXCEPT ![f] = v.result]
        /\ Endorsements' = [Endorsements EXCEPT ![f] = v.endorsed]
        /\ Counts' = [Counts EXCEPT ![f] = v.counted]
    BY <2>1, SeesOne
  <2>. QED BY <1>1, <2>2, ViewMaps
<1>3. Lifecycle!Endorse(f, side)
  BY <1>2 DEF Phases, Results, Endorsements, Counts, Lifecycle!Endorse
<1>. QED BY <1>3 DEF Lifecycle!Next, Lifecycle!Sides, Sides

LEMMA SeesSettle ==
    ASSUME NEW f \in FixtureIds, fixture[f].status = "played", View(f).endorsed = Sides,
           View(f).result # {},
           Only(f, ConfirmedView(f))
    PROVE  Lifecycle!Next
<1>. DEFINE v == ConfirmedView(f)
<1>1. /\ v.phase = "confirmed" /\ v.result = fixtureGames[f] \ Pending(f)
      /\ v.endorsed = EndorsedBy(f) /\ v.counted = (settled[f] - BeingConfirmed(f)) + 1
      /\ fixtureGames[f] \ Pending(f) # {} /\ EndorsedBy(f) = Sides
  BY DEF View, ConfirmedView
<1>. HIDE DEF v
<1>2. /\ Phases' = [Phases EXCEPT ![f] = "confirmed"]
      /\ Results' = Results
      /\ Endorsements' = Endorsements
      /\ Counts' = [Counts EXCEPT ![f] = @ + 1]
  <2>1. Only(f, v)
    BY DEF v
  <2>2. /\ Phases' = [Phases EXCEPT ![f] = v.phase]
        /\ Results' = [Results EXCEPT ![f] = v.result]
        /\ Endorsements' = [Endorsements EXCEPT ![f] = v.endorsed]
        /\ Counts' = [Counts EXCEPT ![f] = v.counted]
    BY <2>1, SeesOne
  <2>. QED BY <1>1, <2>2, ViewMaps
<1>3. Lifecycle!Settle(f)
  BY <1>1, <1>2
  DEF Phases, Results, Endorsements, Counts, Lifecycle!Settle, Lifecycle!Move, Lifecycle!Sides,
      Sides
<1>. QED BY <1>3 DEF Lifecycle!Next

-----------------------------------------------------------------------------
\* Every step of the handlers is a step of the life cycle, or is not seen.

\* What the view of a fixture is made of.
LEMMA ViewOf ==
    ASSUME NEW r, Requests = {r}, NEW f
    PROVE  /\ View(f) = [phase |-> fixture[f].status,
                         result |-> fixtureGames[f] \ Held(pc[r], loc[r], f),
                         endorsed |-> EndorsedBy(f),
                         counted |-> settled[f] - Owed(pc[r], loc[r], f)]
           /\ View(f)' = [phase |-> fixture'[f].status,
                          result |-> fixtureGames'[f] \ Held(pc'[r], loc'[r], f),
                          endorsed |-> EndorsedBy(f)',
                          counted |-> settled'[f] - Owed(pc'[r], loc'[r], f)]
BY InHand DEF View

Refines == [Lifecycle!Next]_(Lifecycle!vars)

\* A step that leaves the tables alone and takes nothing in hand, nor lets go.
LEMMA QuietRefines ==
    ASSUME NEW r, Requests = {r}, UNCHANGED <<fixture, confirmations, fixtureGames, settled>>,
           \A f \in FixtureIds : /\ Held(pc'[r], loc'[r], f) = Held(pc[r], loc[r], f)
                                 /\ Owed(pc'[r], loc'[r], f) = Owed(pc[r], loc[r], f)
    PROVE  Refines
<1>1. ASSUME NEW e \in FixtureIds PROVE View(e)' = View(e)
  <2>1. EndorsedBy(e)' = EndorsedBy(e)
    BY DEF EndorsedBy
  <2>. QED BY <2>1, ViewOf
<1>. QED BY <1>1, SeesNothing DEF Refines

\* A statement that ends a request by writing the status, with nothing in hand.
LEMMA LastOnly ==
    ASSUME TypeInv, NEW r, Requests = {r}, pc[r] # "idle",
           pc[r] \notin {"ratePlayers", "writePlayed", "writeConfirmed"},
           NEW f \in FixtureIds, f = loc[r].fixture,
           NEW status, SetStatus(f, status), Done(r),
           UNCHANGED <<confirmations, fixtureGames, settled>>
    PROVE  Only(f, [View(f) EXCEPT !.phase = status])
<1>0. f \in FixtureIds
  OBVIOUS
<1>1. /\ fixture'[f].status = status /\ fixture'[f].home = fixture[f].home
      /\ fixture'[f].away = fixture[f].away
      /\ \A e \in FixtureIds \ {f} : fixture'[e] = fixture[e]
  BY <1>0 DEF SetStatus, TypeInv, TypeOK, FixtureRow
<1>2. pc'[r] = "idle"
  BY DEF Done, Goto, TypeInv, TypeOK
<1>3. \A e \in FixtureIds : EndorsedBy(e)' = EndorsedBy(e)
  BY <1>1 DEF EndorsedBy, Sides
<1>4. ASSUME NEW e \in FixtureIds
      PROVE  /\ Held(pc[r], loc[r], e) = {} /\ Held(pc'[r], loc'[r], e) = {}
             /\ Owed(pc[r], loc[r], e) = 0 /\ Owed(pc'[r], loc'[r], e) = 0
  BY <1>2 DEF Held, Owed
<1>5. ASSUME NEW e \in FixtureIds \ {f} PROVE View(e)' = View(e)
  <2>1. fixture'[e] = fixture[e] /\ EndorsedBy(e)' = EndorsedBy(e)
    BY <1>1, <1>3
  <2>2. /\ Held(pc[r], loc[r], e) = {} /\ Held(pc'[r], loc'[r], e) = {}
        /\ Owed(pc[r], loc[r], e) = 0 /\ Owed(pc'[r], loc'[r], e) = 0
    BY <1>4
  <2>3. View(e) = [phase |-> fixture[e].status, result |-> fixtureGames[e] \ {},
                   endorsed |-> EndorsedBy(e), counted |-> settled[e] - 0]
    BY <2>2, ViewOf
  <2>4. View(e)' = [phase |-> fixture'[e].status, result |-> fixtureGames'[e] \ {},
                    endorsed |-> EndorsedBy(e)', counted |-> settled'[e] - 0]
    BY <2>2, ViewOf
  <2>. QED BY <2>1, <2>3, <2>4
<1>6. View(f)' = [View(f) EXCEPT !.phase = status]
  <2>1. View(f) = [phase |-> fixture[f].status, result |-> fixtureGames[f] \ {},
                   endorsed |-> EndorsedBy(f), counted |-> settled[f] - 0]
    BY <1>0, <1>4, ViewOf, ZenonT(60)
  <2>2. View(f)' = [phase |-> fixture'[f].status, result |-> fixtureGames'[f] \ {},
                    endorsed |-> EndorsedBy(f)', counted |-> settled'[f] - 0]
    BY <1>0, <1>4, ViewOf
  <2>3. fixture'[f].status = status /\ EndorsedBy(f)' = EndorsedBy(f)
    BY <1>0, <1>1, <1>3
  <2>. QED BY <2>1, <2>2, <2>3
<1>. QED BY <1>5, <1>6 DEF Only

LEMMA ProposeRefines ==
    ASSUME TypeInv, AcceptInv, NEW r, Requests = {r},
           NEW u \in Users, NEW h \in Clubs, NEW a \in Clubs, NEW t \in Types,
           NEW f \in FixtureIds, ProposeFixture(u, h, a, t, f)
    PROVE  Refines
<1>. USE DEF ProposeFixture, history
<1>1. /\ fixture'[f].status = "proposed" /\ fixture[f].status = "absent"
      /\ \A e \in FixtureIds \ {f} : fixture'[e] = fixture[e]
  BY DEF TypeInv, TypeOK
<1>2. confirmations[f] = {}
  BY <1>1 DEF AcceptInv, PlayNeedsAcceptance
<1>3. ASSUME NEW e \in FixtureIds PROVE EndorsedBy(e)' = EndorsedBy(e)
  BY <1>1, <1>2 DEF EndorsedBy
<1>4. ASSUME NEW e \in FixtureIds
      PROVE  /\ View(e) = [phase |-> fixture[e].status,
                           result |-> fixtureGames[e] \ Held(pc[r], loc[r], e),
                           endorsed |-> EndorsedBy(e),
                           counted |-> settled[e] - Owed(pc[r], loc[r], e)]
             /\ View(e)' = [phase |-> fixture'[e].status,
                            result |-> fixtureGames[e] \ Held(pc[r], loc[r], e),
                            endorsed |-> EndorsedBy(e),
                            counted |-> settled[e] - Owed(pc[r], loc[r], e)]
  <2>1. View(e)' = [phase |-> fixture'[e].status,
                    result |-> fixtureGames'[e] \ Held(pc'[r], loc'[r], e),
                    endorsed |-> EndorsedBy(e)',
                    counted |-> settled'[e] - Owed(pc'[r], loc'[r], e)]
    BY ViewOf
  <2>. QED BY <1>3, <2>1, ViewOf
<1>5. Only(f, [View(f) EXCEPT !.phase = "proposed"])
  <2>. DEFINE R == fixtureGames[f] \ Held(pc[r], loc[r], f)
              n == settled[f] - Owed(pc[r], loc[r], f)
  <2>1. /\ View(f) = [phase |-> fixture[f].status, result |-> R, endorsed |-> EndorsedBy(f),
                      counted |-> n]
        /\ View(f)' = [phase |-> "proposed", result |-> R, endorsed |-> EndorsedBy(f),
                       counted |-> n]
    BY <1>1, <1>4
  <2>2. ASSUME NEW e \in FixtureIds \ {f} PROVE View(e)' = View(e)
    BY <1>1, <1>4
  <2>. HIDE DEF R, n
  <2>. QED BY <2>1, <2>2 DEF Only
<1>. QED BY <1>1, <1>5, SeesMove DEF Refines

LEMMA BeginRefines ==
    ASSUME TypeInv, NEW r, Requests = {r}, NEW u \in Users, NEW f \in FixtureIds, Begin(r, u, f)
    PROVE  Refines
<1>1. Begun(r, f)
  BY BeginFrame
<1>. QED BY <1>1, QuietRefines DEF Begun, Held, Owed, dbVars, history

LEMMA StepRefines ==
    ASSUME TypeInv, ConfirmInv, NEW r, Requests = {r}, SerialInv(r), Step(r)
    PROVE  Refines
<1>. DEFINE l == loc[r]
<1>. PICK f : f = loc[r].fixture
  OBVIOUS
<1>a. pc[r] # "idle" /\ f \in FixtureIds /\ fixture[f].status # "absent"
  BY StepFrame DEF Moved, TypeInv, LocalsOK
<1>t. /\ pc \in [Requests -> Labels] /\ loc \in [Requests -> Locals]
      /\ fixture \in [FixtureIds -> FixtureRow] /\ fixtureGames \in [FixtureIds -> SUBSET GameIds]
      /\ confirmations \in [FixtureIds -> SUBSET Clubs] /\ settled \in [FixtureIds -> Nat]
      /\ game \in [GameIds -> Sides \cup {"none"}]
  BY DEF TypeInv, TypeOK
<1>w. Alone(r) /\ Standing(f)
  BY <1>a DEF SerialInv
<1>c. fixture[f].home # fixture[f].away /\ {fixture[f].home, fixture[f].away} \subseteq Clubs
  BY <1>a DEF TypeInv, RowsOK
<1>1. CASE WriteAccepted(r)
  <2>1. fixture[f].status = "proposed"
    BY <1>1, <1>a, <1>w DEF WriteAccepted, Alone
  <2>2. Only(f, [View(f) EXCEPT !.phase = "accepted"])
    BY <1>1, <1>a, LastOnly DEF WriteAccepted
  <2>. QED BY <1>a, <2>1, <2>2, SeesMove DEF Refines
<1>2. CASE WriteDeclined(r)
  <2>1. fixture[f].status = "proposed"
    BY <1>2, <1>a, <1>w DEF WriteDeclined, Alone
  <2>2. Only(f, [View(f) EXCEPT !.phase = "declined"])
    BY <1>2, <1>a, LastOnly DEF WriteDeclined, history
  <2>. QED BY <1>a, <2>1, <2>2, SeesMove DEF Refines
<1>3. CASE WriteCancelled(r)
  <2>1. fixture[f].status # "confirmed"
    BY <1>3, <1>a, <1>w DEF WriteCancelled, Alone
  <2>2. Only(f, [View(f) EXCEPT !.phase = "cancelled"])
    BY <1>3, <1>a, LastOnly DEF WriteCancelled, history
  <2>3. CASE fixture[f].status = "cancelled"
    <3>1. View(f)' = View(f)
      BY <2>2, <2>3 DEF Only, View
    <3>. QED BY <2>2, <3>1, SeesNothing DEF Only, Refines
  <2>4. CASE fixture[f].status # "cancelled"
    <3>1. fixture[f].status \in {"proposed", "accepted", "declined", "played"}
      BY <1>a, <1>t, <2>1, <2>4 DEF FixtureRow, Statuses
    <3>. QED BY <1>a, <2>2, <3>1, SeesMove DEF Refines
  <2>. QED BY <2>3, <2>4
<1>4. CASE InsertGame(r)
  BY <1>4, <1>t, QuietRefines DEF InsertGame, Goto, Held, Owed, history
<1>5. CASE LinkGame(r)
  <2>1. /\ pc[r] = "linkGame" /\ pc'[r] = "ratePlayers" /\ loc' = loc
        /\ fixtureGames' = [fixtureGames EXCEPT ![f] = @ \cup {l.game}]
        /\ UNCHANGED <<fixture, confirmations, settled>>
    BY <1>5, <1>t DEF LinkGame, Goto, history
  <2>2. l.game \notin fixtureGames[f]
    BY <1>a, <1>w, <2>1 DEF Alone
  <2>3. ASSUME NEW e \in FixtureIds PROVE View(e)' = View(e)
    <3>1. /\ Held(pc[r], loc[r], e) = {} /\ Owed(pc[r], loc[r], e) = 0
          /\ Held(pc'[r], loc'[r], e) = (IF e = f THEN {l.game} ELSE {})
          /\ Owed(pc'[r], loc'[r], e) = 0
      BY <2>1 DEF Held, Owed
    <3>2. fixtureGames'[e] \ Held(pc'[r], loc'[r], e) = fixtureGames[e] \ Held(pc[r], loc[r], e)
      BY <1>t, <1>a, <2>1, <2>2, <3>1
    <3>3. EndorsedBy(e)' = EndorsedBy(e)
      BY <2>1 DEF EndorsedBy
    <3>4. View(e)' = [phase |-> fixture'[e].status,
                      result |-> fixtureGames'[e] \ Held(pc'[r], loc'[r], e),
                      endorsed |-> EndorsedBy(e)',
                      counted |-> settled'[e] - Owed(pc'[r], loc'[r], e)]
      BY ViewOf
    <3>. QED BY <2>1, <3>1, <3>2, <3>3, <3>4, ViewOf
  <2>. QED BY <2>3, SeesNothing DEF Refines
<1>6. CASE RatePlayers(r)
  BY <1>6, <1>t, QuietRefines DEF RatePlayers, Goto, Held, Owed, history
<1>7. CASE WritePlayed(r)
  <2>. PICK g : g = l.game
    OBVIOUS
  <2>1. /\ pc[r] = "writePlayed" /\ g \in fixtureGames[f] /\ g \in GameIds
        /\ fixture[f].status \in {"accepted", "played"}
    BY <1>7, <1>a, <1>w DEF WritePlayed, Alone, Recording, TypeInv, LocalsOK
  <2>2. /\ pc'[r] = "idle" /\ fixture'[f].status = "played"
        /\ fixture'[f].home = fixture[f].home /\ fixture'[f].away = fixture[f].away
        /\ \A e \in FixtureIds \ {f} : fixture'[e] = fixture[e]
        /\ UNCHANGED <<confirmations, fixtureGames, settled>>
    BY <1>7, <1>t, <1>a DEF WritePlayed, SetStatus, Done, Goto, FixtureRow, history
  <2>3. ASSUME NEW e \in FixtureIds
        PROVE  /\ View(e) = [phase |-> fixture[e].status,
                             result |-> fixtureGames[e] \ (IF e = f THEN {g} ELSE {}),
                             endorsed |-> EndorsedBy(e), counted |-> settled[e] - 0]
               /\ View(e)' = [phase |-> fixture'[e].status, result |-> fixtureGames[e] \ {},
                              endorsed |-> EndorsedBy(e), counted |-> settled[e] - 0]
    <3>1. /\ Held(pc[r], loc[r], e) = (IF e = f THEN {g} ELSE {})
          /\ Owed(pc[r], loc[r], e) = 0
          /\ Held(pc'[r], loc'[r], e) = {} /\ Owed(pc'[r], loc'[r], e) = 0
      BY <2>1, <2>2 DEF Held, Owed
    <3>2. EndorsedBy(e)' = EndorsedBy(e)
      BY <2>2 DEF EndorsedBy, Sides
    <3>3. View(e)' = [phase |-> fixture'[e].status,
                      result |-> fixtureGames'[e] \ Held(pc'[r], loc'[r], e),
                      endorsed |-> EndorsedBy(e)',
                      counted |-> settled'[e] - Owed(pc'[r], loc'[r], e)]
      BY ViewOf
    <3>. QED BY <2>2, <3>1, <3>2, <3>3, ViewOf
  <2>4. fixtureGames[f] \ {} = (fixtureGames[f] \ {g}) \cup {g} /\ g \notin fixtureGames[f] \ {g}
    BY <2>1
  <2>5. Only(f, PlayedView(f, g))
    <3>1. View(f)' = PlayedView(f, g)
      <4>1. /\ View(f) = [phase |-> fixture[f].status, result |-> fixtureGames[f] \ {g},
                          endorsed |-> EndorsedBy(f), counted |-> settled[f] - 0]
            /\ View(f)' = [phase |-> "played", result |-> (fixtureGames[f] \ {g}) \cup {g},
                           endorsed |-> EndorsedBy(f), counted |-> settled[f] - 0]
        BY <1>a, <2>2, <2>3, <2>4
      <4>2. /\ View(f).result = fixtureGames[f] \ {g} /\ View(f).endorsed = EndorsedBy(f)
            /\ View(f).counted = settled[f] - 0
        BY <4>1
      <4>. QED BY <4>1, <4>2 DEF PlayedView
    <3>2. ASSUME NEW e \in FixtureIds \ {f} PROVE View(e)' = View(e)
      BY <2>2, <2>3, ZenonT(60)
    <3>. QED BY <3>1, <3>2 DEF Only
  <2>6. g \notin View(f).result
    BY <1>a, <2>3, <2>4
  <2>. QED BY <1>a, <2>1, <2>5, <2>6, SeesPlay DEF Refines
<1>8. CASE UpsertConfirmation(r)
  <2>. PICK side \in Sides : fixture[f][side] = l.club
    BY <1>8, <1>a, <1>w DEF UpsertConfirmation, Alone, Confirming, Sides
  <2>1. /\ pc[r] = "upsert" /\ pc'[r] = "count" /\ loc' = loc
        /\ fixture[f].status \in {"played", "confirmed"} /\ l.club \in Clubs
        /\ confirmations' = [confirmations EXCEPT ![f] = @ \cup {l.club}]
        /\ UNCHANGED <<fixture, fixtureGames, settled>>
    BY <1>8, <1>t, <1>a, <1>w
    DEF UpsertConfirmation, Goto, Alone, Confirming, TypeInv, LocalsOK
  <2>2. EndorsedBy(f)' = EndorsedBy(f) \cup {side}
    BY <1>a, <1>t, <1>c, <2>1 DEF EndorsedBy, Sides
  <2>3. ASSUME NEW e \in FixtureIds \ {f} PROVE EndorsedBy(e)' = EndorsedBy(e)
    BY <1>a, <1>t, <2>1 DEF EndorsedBy
  <2>4. ASSUME NEW e \in FixtureIds
        PROVE  /\ View(e) = [phase |-> fixture[e].status, result |-> fixtureGames[e] \ {},
                             endorsed |-> EndorsedBy(e), counted |-> settled[e] - 0]
               /\ View(e)' = [phase |-> fixture[e].status, result |-> fixtureGames[e] \ {},
                              endorsed |-> EndorsedBy(e)', counted |-> settled[e] - 0]
    <3>1. /\ Held(pc[r], loc[r], e) = {} /\ Owed(pc[r], loc[r], e) = 0
          /\ Held(pc'[r], loc'[r], e) = {} /\ Owed(pc'[r], loc'[r], e) = 0
      BY <2>1 DEF Held, Owed
    <3>2. View(e)' = [phase |-> fixture'[e].status,
                      result |-> fixtureGames'[e] \ Held(pc'[r], loc'[r], e),
                      endorsed |-> EndorsedBy(e)',
                      counted |-> settled'[e] - Owed(pc'[r], loc'[r], e)]
      BY ViewOf
    <3>3. View(e) = [phase |-> fixture[e].status,
                     result |-> fixtureGames[e] \ Held(pc[r], loc[r], e),
                     endorsed |-> EndorsedBy(e),
                     counted |-> settled[e] - Owed(pc[r], loc[r], e)]
      BY ViewOf
    <3>. QED BY <2>1, <3>1, <3>2, <3>3
  <2>5. Only(f, [View(f) EXCEPT !.endorsed = View(f).endorsed \cup {side}])
    <3>1. View(f)' = [View(f) EXCEPT !.endorsed = View(f).endorsed \cup {side}]
      <4>1. /\ View(f) = [phase |-> fixture[f].status, result |-> fixtureGames[f] \ {},
                          endorsed |-> EndorsedBy(f), counted |-> settled[f] - 0]
            /\ View(f)' = [phase |-> fixture[f].status, result |-> fixtureGames[f] \ {},
                           endorsed |-> EndorsedBy(f) \cup {side}, counted |-> settled[f] - 0]
        BY <1>a, <2>2, <2>4
      <4>. QED BY <4>1
    <3>2. ASSUME NEW e \in FixtureIds \ {f} PROVE View(e)' = View(e)
      BY <2>3, <2>4
    <3>. QED BY <3>1, <3>2 DEF Only
  <2>6. CASE fixture[f].status = "played"
    BY <1>a, <2>5, <2>6, SeesEndorse DEF Refines
  <2>7. CASE fixture[f].status = "confirmed"
    <3>1. Agreed(f)
      BY <1>w, <2>7 DEF Standing
    <3>2. side \in EndorsedBy(f)
      BY <3>1 DEF Agreed, EndorsedBy, Sides
    <3>3. View(f)' = View(f)
      <4>1. EndorsedBy(f)' = EndorsedBy(f)
        BY <2>2, <3>2
      <4>. QED BY <1>a, <2>4, <4>1
    <3>. QED BY <2>5, <3>3, SeesNothing DEF Only, Refines
  <2>. QED BY <2>1, <2>6, <2>7
<1>9. CASE CountConfirmations(r)
  <2>1. /\ pc[r] = "count" /\ pc'[r] \in {"tally", "idle"}
        /\ UNCHANGED <<fixture, confirmations, fixtureGames, settled>>
    BY <1>9, <1>t DEF CountConfirmations, MaySettle, Goto, Done, dbVars, history
  <2>. QED BY <2>1, QuietRefines DEF Held, Owed
<1>10. CASE TallyGames(r) \/ LoadHome(r) \/ LoadAway(r) \/ SaveHome(r)
  <2>1. /\ pc[r] \in {"tally", "loadHome", "loadAway", "saveHome"}
        /\ pc'[r] \in {"loadHome", "loadAway", "saveHome", "saveAway"}
        /\ UNCHANGED <<fixture, confirmations, fixtureGames, settled>>
    BY <1>10, <1>t DEF TallyGames, LoadHome, LoadAway, SaveHome, Goto, dbVars, history
  <2>. QED BY <2>1, QuietRefines DEF Held, Owed
<1>11. CASE SaveAway(r)
  <2>1. /\ pc[r] = "saveAway" /\ pc'[r] = "writeConfirmed" /\ loc' = loc
        /\ settled' = [settled EXCEPT ![f] = @ + 1]
        /\ UNCHANGED <<fixture, confirmations, fixtureGames>>
    BY <1>11, <1>t DEF SaveAway, Goto
  <2>2. ASSUME NEW e \in FixtureIds PROVE View(e)' = View(e)
    <3>1. /\ Held(pc[r], loc[r], e) = {} /\ Owed(pc[r], loc[r], e) = 0
          /\ Held(pc'[r], loc'[r], e) = {}
          /\ Owed(pc'[r], loc'[r], e) = (IF e = f THEN 1 ELSE 0)
      BY <2>1 DEF Held, Owed
    <3>2. settled'[e] - Owed(pc'[r], loc'[r], e) = settled[e] - Owed(pc[r], loc[r], e)
      BY <1>t, <1>a, <2>1, <3>1
    <3>3. EndorsedBy(e)' = EndorsedBy(e)
      BY <2>1 DEF EndorsedBy
    <3>4. View(e)' = [phase |-> fixture'[e].status,
                      result |-> fixtureGames'[e] \ Held(pc'[r], loc'[r], e),
                      endorsed |-> EndorsedBy(e)',
                      counted |-> settled'[e] - Owed(pc'[r], loc'[r], e)]
      BY ViewOf
    <3>. QED BY <2>1, <3>1, <3>2, <3>3, <3>4, ViewOf
  <2>. QED BY <2>2, SeesNothing DEF Refines
<1>12. CASE WriteConfirmed(r)
  <2>1. pc[r] = "writeConfirmed" /\ Agreed(f) /\ fixture[f].status = "played"
    BY <1>12, <1>a, <1>w DEF WriteConfirmed, Alone, ConfirmInv, Settling
  <2>2. /\ pc'[r] = "idle" /\ fixture'[f].status = "confirmed"
        /\ fixture'[f].home = fixture[f].home /\ fixture'[f].away = fixture[f].away
        /\ \A e \in FixtureIds \ {f} : fixture'[e] = fixture[e]
        /\ UNCHANGED <<confirmations, fixtureGames, settled>>
    BY <1>12, <1>t, <1>a DEF WriteConfirmed, SetStatus, Done, Goto, FixtureRow, history
  <2>3. ASSUME NEW e \in FixtureIds
        PROVE  /\ View(e) = [phase |-> fixture[e].status, result |-> fixtureGames[e] \ {},
                             endorsed |-> EndorsedBy(e),
                             counted |-> settled[e] - (IF e = f THEN 1 ELSE 0)]
               /\ View(e)' = [phase |-> fixture'[e].status, result |-> fixtureGames[e] \ {},
                              endorsed |-> EndorsedBy(e), counted |-> settled[e] - 0]
    <3>1. /\ Held(pc[r], loc[r], e) = {}
          /\ Owed(pc[r], loc[r], e) = (IF e = f THEN 1 ELSE 0)
          /\ Held(pc'[r], loc'[r], e) = {} /\ Owed(pc'[r], loc'[r], e) = 0
      BY <2>1, <2>2 DEF Held, Owed
    <3>2. EndorsedBy(e)' = EndorsedBy(e)
      BY <2>2 DEF EndorsedBy, Sides
    <3>3. View(e)' = [phase |-> fixture'[e].status,
                      result |-> fixtureGames'[e] \ Held(pc'[r], loc'[r], e),
                      endorsed |-> EndorsedBy(e)',
                      counted |-> settled'[e] - Owed(pc'[r], loc'[r], e)]
      BY ViewOf
    <3>4. View(e) = [phase |-> fixture[e].status,
                     result |-> fixtureGames[e] \ Held(pc[r], loc[r], e),
                     endorsed |-> EndorsedBy(e),
                     counted |-> settled[e] - Owed(pc[r], loc[r], e)]
      BY ViewOf
    <3>. QED BY <2>2, <3>1, <3>2, <3>3, <3>4
  <2>4. settled[f] - 0 = (settled[f] - 1) + 1
    BY <1>a, <1>t
  <2>5. Only(f, ConfirmedView(f))
    <3>1. View(f)' = ConfirmedView(f)
      <4>1. /\ View(f) = [phase |-> fixture[f].status, result |-> fixtureGames[f] \ {},
                          endorsed |-> EndorsedBy(f), counted |-> settled[f] - 1]
            /\ View(f)' = [phase |-> "confirmed", result |-> fixtureGames[f] \ {},
                           endorsed |-> EndorsedBy(f), counted |-> (settled[f] - 1) + 1]
        BY <1>a, <2>2, <2>3, <2>4
      <4>2. /\ View(f).result = fixtureGames[f] \ {} /\ View(f).endorsed = EndorsedBy(f)
            /\ View(f).counted = settled[f] - 1
        BY <4>1
      <4>. QED BY <4>1, <4>2 DEF ConfirmedView
    <3>2. ASSUME NEW e \in FixtureIds \ {f} PROVE View(e)' = View(e)
      BY <2>2, <2>3
    <3>. QED BY <3>1, <3>2 DEF Only
  <2>6. View(f).endorsed = Sides /\ View(f).result # {}
    <3>1. EndorsedBy(f) = Sides
      BY <2>1 DEF Agreed, EndorsedBy, Sides
    <3>2. fixtureGames[f] # {}
      BY <1>w, <2>1 DEF Standing
    <3>. QED BY <1>a, <2>3, <3>1, <3>2
  <2>. QED BY <1>a, <2>1, <2>5, <2>6, SeesSettle DEF Refines
<1>. QED
  BY <1>1, <1>2, <1>3, <1>4, <1>5, <1>6, <1>7, <1>8, <1>9, <1>10, <1>11, <1>12 DEF Step

LEMMA InitSerial ==
    ASSUME Init, NEW r, Requests = {r}
    PROVE  SerialInv(r)
BY DEF Init, SerialInv, Alone, Standing, Recording, Confirming, Settling

LEMMA NextSerial ==
    ASSUME TypeInv, AcceptInv, ConfirmInv, NEW r, Requests = {r}, MaxDrops = 0,
           SerialInv(r), [Next]_vars
    PROVE  SerialInv(r)' /\ Refines
<1>1. CASE UNCHANGED vars
  <2>1. SerialInv(r)'
    <3>1. \A f \in FixtureIds : Pending(f)' = Pending(f)
      BY <1>1 DEF vars, Pending
    <3>. QED BY <1>1, <3>1 DEF vars, dbVars, SerialInv, Alone, Standing, Agreed
  <2>2. Refines
    BY <1>1, QuietRefines DEF vars, dbVars, history
  <2>. QED BY <2>1, <2>2
<1>2. ASSUME NEW u \in Users, Propose(u) PROVE SerialInv(r)' /\ Refines
  BY <1>2, ProposeSerial, ProposeRefines DEF Propose
<1>3. ASSUME NEW u \in Users, NEW f \in FixtureIds, Begin(r, u, f) PROVE SerialInv(r)' /\ Refines
  BY <1>3, BeginSerial, BeginRefines
<1>4. CASE Step(r)
  BY <1>4, StepSerial, StepRefines
<1>5. ~Drop(r)
  BY DEF Drop, TypeInv, TypeOK
<1>. QED BY <1>1, <1>2, <1>3, <1>4, <1>5 DEF Next

LEMMA InitRefines ==
    ASSUME Init, NEW r, Requests = {r}
    PROVE  Lifecycle!Init
<1>1. ASSUME NEW e \in FixtureIds
      PROVE  /\ fixture[e].status = "absent" /\ fixtureGames[e] \ Pending(e) = {}
             /\ EndorsedBy(e) = {} /\ settled[e] - BeingConfirmed(e) = 0
  <2>1. BeingConfirmed(e) = 0
    BY InHand DEF Init, Owed
  <2>. QED BY <2>1 DEF Init, EndorsedBy
<1>. QED BY <1>1 DEF Lifecycle!Init

\* Served one at a time and none of them stopped, the handlers take a fixture
\* through the life that fixtures.rs and migration 0011 promise: the result
\* counts once, at the step that confirms it, when both sides have endorsed it,
\* and nothing changes after (propose to settle_fixture).
THEOREM SerialRequestsKeepTheLifecycle ==
    ASSUME NEW r0, Requests = {r0}, MaxDrops = 0
    PROVE  Spec => ImplementsLifecycle
<1>1. Init => Lifecycle!Init /\ SerialInv(r0)
  BY InitRefines, InitSerial
<1>2. (TypeInv /\ AcceptInv /\ ConfirmInv) /\ SerialInv(r0) /\ [Next]_vars
        => SerialInv(r0)' /\ [Lifecycle!Next]_(Lifecycle!vars)
  BY NextSerial DEF Refines
<1>. QED BY <1>1, <1>2, ConfirmInvariant, PTL DEF Spec, ImplementsLifecycle, Lifecycle!Spec

-----------------------------------------------------------------------------
\* The ladder: what the rows of club_elo are folded from.

\* The row of a club that has been through the results of the fixtures in D.
WinsIn(c, D) == {f \in D : fixture[f][Outcome(f)] = c}
RowOf(c, D) ==
    [rating |-> [won |-> WinsIn(c, D), lost |-> D \ WinsIn(c, D), folds |-> Cardinality(D)],
     played |-> Cardinality(D)]

\* The rows of a club in a game type are the one row of the results in D.
Folded(rows, c, D) == rows = <<RowOf(c, D)>> \/ (rows = <<>> /\ D = {})

\* D with the result of f, which folds in nothing when it is a draw.
Folding(f, D) == IF Outcome(f) = "draw" THEN D ELSE D \cup {f}

\* A fixture is settled when it is confirmed, or about to be.
SettledOnce(r) ==
    \A e \in FixtureIds :
        settled[e] > 0 <=> \/ fixture[e].status = "confirmed"
                           \/ pc[r] = "writeConfirmed" /\ e = loc[r].fixture

\* What the rows hold; between its two saves a settlement is ahead by one
\* result in the row of the home club.
HeldRows(r, c, t) ==
    IF pc[r] = "saveAway" /\ c = fixture[loc[r].fixture].home /\ t = fixture[loc[r].fixture].type
    THEN Folding(loc[r].fixture, Decided(c, t))
    ELSE Decided(c, t)

RowsFolded(r) ==
    \A c \in Clubs, t \in GameTypes :
        IsFiniteSet(Decided(c, t)) /\ Folded(clubElo[c][t], c, HeldRows(r, c, t))

\* What a settlement carries from one statement to the next.
Carried(r) ==
    LET l == loc[r]
        f == l.fixture
        h == fixture[f].home
        a == fixture[f].away
        t == fixture[f].type
    IN  /\ pc[r] \in Settling \ {"tally"} => l.winner = Outcome(f)
        /\ pc[r] = "loadAway" /\ t # None => l.homeRating = RowOf(h, Decided(h, t)).rating
        /\ pc[r] = "saveHome" /\ t # None =>
              l.homeRating = RowOf(h, Folding(f, Decided(h, t))).rating
        /\ pc[r] \in {"saveHome", "saveAway"} /\ t # None =>
              l.awayRating = RowOf(a, Folding(f, Decided(a, t))).rating

LadderInv(r) == SettledOnce(r) /\ RowsFolded(r) /\ Carried(r)

LEMMA RowOfNothing ==
    ASSUME NEW c
    PROVE  RowOf(c, {}) = [rating |-> DefaultRating, played |-> 0]
<1>1. Cardinality({}) = 0
  BY FS_EmptySet
<1>2. WinsIn(c, {}) = {}
  BY DEF WinsIn
<1>. QED BY <1>1, <1>2 DEF RowOf, DefaultRating

LEMMA FoldingCounts ==
    ASSUME NEW f, NEW D, IsFiniteSet(D), f \notin D
    PROVE  /\ Cardinality(D) \in Nat /\ IsFiniteSet(Folding(f, D))
           /\ Cardinality(Folding(f, D)) = Cardinality(D) + Bump(Outcome(f))
BY FS_CardinalityType, FS_AddElement DEF Folding, Bump

\* Updating a club's rating with a result folds the result into it.
LEMMA UpdateFolds ==
    ASSUME NEW f, NEW D, IsFiniteSet(D), f \notin D, NEW side \in Sides,
           fixture[f].home # fixture[f].away
    PROVE  UpdateClub(RowOf(fixture[f][side], D).rating, f, side, Outcome(f))
             = RowOf(fixture[f][side], Folding(f, D)).rating
<1>. DEFINE c == fixture[f][side]
            w == Outcome(f)
<1>1. CASE w = "draw"
  BY <1>1 DEF UpdateClub, Folding
<1>2. CASE w # "draw"
  <2>1. w \in Sides
    BY <1>2 DEF Outcome, Sides
  <2>2. fixture[f][w] = c <=> w = side
    BY <2>1 DEF Sides
  <2>3. Cardinality(D \cup {f}) = Cardinality(D) + 1
    BY FS_AddElement
  <2>4. WinsIn(c, D \cup {f}) = WinsIn(c, D) \cup (IF w = side THEN {f} ELSE {})
    BY <2>2 DEF WinsIn
  <2>5. (D \cup {f}) \ WinsIn(c, D \cup {f})
          = (D \ WinsIn(c, D)) \cup (IF w = side THEN {} ELSE {f})
    BY <2>4 DEF WinsIn
  <2>6. Folding(f, D) = D \cup {f}
    BY <1>2 DEF Folding
  <2>7. RowOf(c, D \cup {f}).rating
          = [won |-> WinsIn(c, D) \cup (IF w = side THEN {f} ELSE {}),
             lost |-> (D \ WinsIn(c, D)) \cup (IF w = side THEN {} ELSE {f}),
             folds |-> Cardinality(D) + 1]
    BY <2>3, <2>4, <2>5 DEF RowOf
  <2>8. /\ RowOf(c, D).rating.won = WinsIn(c, D) /\ RowOf(c, D).rating.lost = D \ WinsIn(c, D)
        /\ RowOf(c, D).rating.folds = Cardinality(D)
    BY DEF RowOf
  <2>. QED BY <1>2, <2>6, <2>7, <2>8 DEF UpdateClub
<1>. QED BY <1>1, <1>2

\* Saving the updated rating leaves the one row of the results so far.
LEMMA SaveFolds ==
    ASSUME NEW rows, NEW c, NEW f, NEW D, IsFiniteSet(D), f \notin D, NEW t, t # None,
           Folded(rows, c, D)
    PROVE  Saved(rows, t, RowOf(c, Folding(f, D)).rating, Bump(Outcome(f)))
             = <<RowOf(c, Folding(f, D))>>
<1>. DEFINE E == Folding(f, D)
            b == Bump(Outcome(f))
<1>1. Cardinality(E) = Cardinality(D) + b /\ Cardinality(D) \in Nat /\ b \in Nat
  BY FoldingCounts DEF Bump
<1>2. RowOf(c, E) = [rating |-> RowOf(c, E).rating, played |-> Cardinality(E)]
  BY DEF RowOf
<1>3. CASE rows = <<RowOf(c, D)>>
  <2>1. rows # <<>> /\ rows[1].played = Cardinality(D)
    BY <1>3 DEF RowOf
  <2>2. Saved(rows, t, RowOf(c, E).rating, b)
          = [rows EXCEPT ![1] = [rating |-> RowOf(c, E).rating, played |-> Cardinality(D) + b]]
    BY <2>1 DEF Saved
  <2>3. [rows EXCEPT ![1] = RowOf(c, E)] = <<RowOf(c, E)>>
    BY <1>3
  <2>. QED BY <1>1, <1>2, <2>2, <2>3
<1>4. CASE rows = <<>> /\ D = {}
  <2>1. Cardinality(D) = 0
    BY <1>4, FS_EmptySet
  <2>2. Saved(rows, t, RowOf(c, E).rating, b)
          = Append(rows, [rating |-> RowOf(c, E).rating, played |-> b])
    BY <1>4 DEF Saved
  <2>3. Cardinality(E) = b
    BY <1>1, <2>1
  <2>. QED BY <1>2, <1>4, <2>2, <2>3
<1>. QED BY <1>3, <1>4 DEF Folded

\* Whatever row the SELECT returns, the state loaded is the one of those results.
LEMMA LoadsFolded ==
    ASSUME NEW c, NEW t, NEW D, Folded(clubElo[c][t], c, D), NEW rating \in Loadable(c, t)
    PROVE  rating = RowOf(c, D).rating
<1>1. CASE clubElo[c][t] = <<RowOf(c, D)>>
  BY <1>1 DEF Loadable
<1>2. CASE clubElo[c][t] = <<>> /\ D = {}
  BY <1>2, RowOfNothing DEF Loadable
<1>. QED BY <1>1, <1>2 DEF Folded

LEMMA OutcomeStays ==
    ASSUME NEW e, fixtureGames'[e] = fixtureGames[e], \A g \in fixtureGames[e] : game'[g] = game[g]
    PROVE  Outcome(e)' = Outcome(e)
<1>1. \A side : Won(e, side)' = Won(e, side)
  BY DEF Won
<1>2. Won(e, "home")' = Won(e, "home") /\ Won(e, "away")' = Won(e, "away")
  BY <1>1
<1>. QED BY <1>2 DEF Outcome

\* Nothing happens to a settled fixture, its games, or the rows of the ladder.
SettledStay ==
    /\ UNCHANGED <<clubElo, settled>>
    /\ \A e \in FixtureIds : settled[e] > 0 =>
          /\ fixture'[e].home = fixture[e].home /\ fixture'[e].away = fixture[e].away
          /\ fixture'[e].type = fixture[e].type /\ Outcome(e)' = Outcome(e)

LEMMA DecidedStay ==
    ASSUME SettledStay, NEW c, NEW t
    PROVE  Decided(c, t)' = Decided(c, t)
BY DEF SettledStay, Decided

LEMMA RowStays ==
    ASSUME NEW c, NEW D,
           \A e \in D : /\ fixture'[e][Outcome(e)'] = fixture[e][Outcome(e)]
    PROVE  RowOf(c, D)' = RowOf(c, D)
<1>1. WinsIn(c, D)' = WinsIn(c, D)
  BY DEF WinsIn
<1>. QED BY <1>1 DEF RowOf

LEMMA DecidedRowStays ==
    ASSUME SettledStay, NEW c, NEW t
    PROVE  RowOf(c, Decided(c, t))' = RowOf(c, Decided(c, t))
<1>. PICK D : D = Decided(c, t)
  OBVIOUS
<1>1. ASSUME NEW e \in D PROVE fixture'[e][Outcome(e)'] = fixture[e][Outcome(e)]
  <2>1. settled[e] > 0 /\ e \in FixtureIds /\ Outcome(e) # "draw"
    BY DEF Decided
  <2>2. Outcome(e) \in Sides /\ Outcome(e)' = Outcome(e)
    BY <2>1 DEF SettledStay, Outcome, Sides
  <2>. QED BY <2>1, <2>2 DEF SettledStay, Sides
<1>2. RowOf(c, D)' = RowOf(c, D)
  BY <1>1, RowStays
<1>3. Decided(c, t)' = D
  BY DecidedStay
<1>. QED BY <1>2, <1>3

\* A step outside a settlement that does nothing to a settled fixture.
LEMMA LadderStays ==
    ASSUME NEW r, LadderInv(r), SettledStay, SettledOnce(r)', pc[r] # "saveAway",
           pc'[r] \notin Settling \ {"tally"}
    PROVE  LadderInv(r)'
<1>1. RowsFolded(r)'
  <2>. SUFFICES ASSUME NEW c \in Clubs, NEW t \in GameTypes
                PROVE  (IsFiniteSet(Decided(c, t)) /\ Folded(clubElo[c][t], c, HeldRows(r, c, t)))'
    BY DEF RowsFolded
  <2>1. HeldRows(r, c, t) = Decided(c, t) /\ HeldRows(r, c, t)' = Decided(c, t)'
    BY DEF HeldRows, Settling
  <2>2. IsFiniteSet(Decided(c, t)) /\ Folded(clubElo[c][t], c, Decided(c, t))
    BY <2>1 DEF LadderInv, RowsFolded
  <2>3. Decided(c, t)' = Decided(c, t) /\ RowOf(c, Decided(c, t))' = RowOf(c, Decided(c, t))
    BY DecidedStay, DecidedRowStays
  <2>4. Folded(clubElo[c][t], c, Decided(c, t))'
    BY <2>2, <2>3 DEF Folded, SettledStay
  <2>. QED BY <2>1, <2>2, <2>3, <2>4 DEF Folded
<1>2. Carried(r)'
  BY DEF Carried, Settling
<1>. QED BY <1>1, <1>2 DEF LadderInv

\* A statement that ends a request by writing a status other than confirmed.
LEMMA WriteLadder ==
    ASSUME TypeInv, NEW r, Requests = {r}, LadderInv(r), pc[r] \notin {"idle"} \cup Settling,
           fixture[loc[r].fixture].status # "confirmed",
           NEW status, status # "confirmed", SetStatus(loc[r].fixture, status), Done(r),
           UNCHANGED <<game, fixtureGames, clubElo, settled>>
    PROVE  LadderInv(r)'
<1>. PICK f : f = loc[r].fixture
  OBVIOUS
<1>0. f \in FixtureIds
  BY DEF TypeInv, LocalsOK
<1>1. /\ fixture'[f].status = status
      /\ \A e \in FixtureIds \ {f} : fixture'[e] = fixture[e]
  BY <1>0 DEF SetStatus, TypeInv, TypeOK, FixtureRow
<1>2. pc'[r] = "idle"
  BY DEF Done, Goto, TypeInv, TypeOK
<1>3. ~(settled[f] > 0)
  BY <1>0 DEF LadderInv, SettledOnce, Settling
<1>4. SettledOnce(r)'
  BY <1>1, <1>2, <1>3 DEF LadderInv, SettledOnce, Settling
<1>5. SettledStay
  <2>1. \A e \in FixtureIds : Outcome(e)' = Outcome(e)
    BY OutcomeStays
  <2>. QED BY <1>1, <1>3, <2>1 DEF SettledStay
<1>. QED BY <1>2, <1>4, <1>5, LadderStays DEF Settling

\* With the tables it reads unchanged, the ladder a settlement computes is too.
LEMMA ResultsStay ==
    ASSUME UNCHANGED <<fixture, game, fixtureGames, settled>>, NEW c, NEW t, NEW f
    PROVE  /\ Outcome(f)' = Outcome(f) /\ Decided(c, t)' = Decided(c, t)
           /\ RowOf(c, Decided(c, t))' = RowOf(c, Decided(c, t))
           /\ RowOf(c, Folding(f, Decided(c, t)))' = RowOf(c, Folding(f, Decided(c, t)))
<1>1. \A e : Outcome(e)' = Outcome(e)
  BY OutcomeStays
<1>2. Decided(c, t)' = Decided(c, t)
  BY <1>1 DEF Decided
<1>3. ASSUME NEW D PROVE RowOf(c, D)' = RowOf(c, D)
  BY <1>1, RowStays
<1>4. PICK D : D = Decided(c, t)
  OBVIOUS
<1>5. PICK E : E = Folding(f, D)
  OBVIOUS
<1>6. Folding(f, D)' = E
  BY <1>1, <1>5 DEF Folding
<1>7. RowOf(c, D)' = RowOf(c, D) /\ RowOf(c, E)' = RowOf(c, E)
  BY <1>3
<1>8. Decided(c, t)' = D
  BY <1>2, <1>4
<1>. QED BY <1>1, <1>4, <1>5, <1>6, <1>7, <1>8

\* What a settlement in flight is about.
SettlingRow(r, f, h, a, t) ==
    /\ f = loc[r].fixture /\ f \in FixtureIds
    /\ h = fixture[f].home /\ a = fixture[f].away /\ t = fixture[f].type
    /\ h \in Clubs /\ a \in Clubs /\ h # a /\ t \in Types

LEMMA SettlingRowOf ==
    ASSUME TypeInv, NEW r \in Requests, pc[r] # "idle"
    PROVE  \E f, h, a, t : SettlingRow(r, f, h, a, t)
BY DEF SettlingRow, TypeInv, TypeOK, LocalsOK, RowsOK, FixtureRow

\* Until its last save, the fixture a settlement is about is not on the ladder.
LEMMA NotYetDecided ==
    ASSUME NEW r, SerialInv(r), LadderInv(r), pc[r] \in Settling \ {"writeConfirmed"},
           loc[r].fixture \in FixtureIds
    PROVE  ~(settled[loc[r].fixture] > 0) /\ \A c, t : loc[r].fixture \notin Decided(c, t)
BY DEF SerialInv, Alone, Settling, LadderInv, SettledOnce, Decided

\* The statements of a settlement before its first save.
LEMMA LoadsLadder ==
    ASSUME NEW r, LadderInv(r), Carried(r)', UNCHANGED dbVars, UNCHANGED settled,
           pc[r] \in {"tally", "loadHome", "loadAway"},
           pc'[r] \in {"loadHome", "loadAway", "saveHome"}
    PROVE  LadderInv(r)'
<1>1. SettledOnce(r)'
  BY DEF LadderInv, SettledOnce, dbVars
<1>2. RowsFolded(r)'
  <2>. SUFFICES ASSUME NEW c \in Clubs, NEW t \in GameTypes
                PROVE  (IsFiniteSet(Decided(c, t)) /\ Folded(clubElo[c][t], c, HeldRows(r, c, t)))'
    BY DEF RowsFolded
  <2>1. HeldRows(r, c, t) = Decided(c, t) /\ HeldRows(r, c, t)' = Decided(c, t)'
    BY DEF HeldRows
  <2>2. IsFiniteSet(Decided(c, t)) /\ Folded(clubElo[c][t], c, Decided(c, t))
    BY <2>1 DEF LadderInv, RowsFolded
  <2>3. Decided(c, t)' = Decided(c, t) /\ RowOf(c, Decided(c, t))' = RowOf(c, Decided(c, t))
    BY ResultsStay DEF dbVars
  <2>4. Folded(clubElo[c][t], c, Decided(c, t))'
    BY <2>2, <2>3 DEF Folded, dbVars
  <2>. QED BY <2>1, <2>2, <2>3, <2>4 DEF Folded
<1>. QED BY <1>1, <1>2 DEF LadderInv

LEMMA TallyLadder ==
    ASSUME TypeInv, NEW r \in Requests, LadderInv(r), TallyGames(r)
    PROVE  LadderInv(r)'
<1>. PICK f, h, a, t : SettlingRow(r, f, h, a, t)
  BY SettlingRowOf DEF TallyGames
<1>1. /\ pc[r] = "tally" /\ pc'[r] = "loadHome" /\ UNCHANGED <<dbVars, settled>>
      /\ loc'[r].fixture = f /\ loc'[r].winner = Outcome(f)
  BY DEF TallyGames, Goto, Keep, TypeInv, TypeOK, Locals, history, SettlingRow
<1>2. Outcome(f)' = Outcome(f)
  BY <1>1, ResultsStay DEF dbVars
<1>3. Carried(r)'
  BY <1>1, <1>2 DEF Carried
<1>. QED BY <1>1, <1>3, LoadsLadder

LEMMA LoadHomeLadder ==
    ASSUME TypeInv, NEW r \in Requests, LadderInv(r), LoadHome(r)
    PROVE  LadderInv(r)'
<1>. PICK f, h, a, t : SettlingRow(r, f, h, a, t)
  BY SettlingRowOf DEF LoadHome
<1>1. /\ pc[r] = "loadHome" /\ pc'[r] = "loadAway" /\ UNCHANGED <<dbVars, settled>>
      /\ loc'[r].fixture = f /\ loc'[r].winner = loc[r].winner
      /\ loc'[r].homeRating \in Loadable(h, t)
  BY DEF LoadHome, Goto, Keep, TypeInv, TypeOK, Locals, history, SettlingRow
<1>2. Outcome(f)' = Outcome(f) /\ RowOf(h, Decided(h, t))' = RowOf(h, Decided(h, t))
  BY <1>1, ResultsStay DEF dbVars
<1>3. loc[r].winner = Outcome(f)
  BY <1>1 DEF LadderInv, Carried, Settling, SettlingRow
<1>4. ASSUME t # None PROVE loc'[r].homeRating = RowOf(h, Decided(h, t)).rating
  <2>1. Folded(clubElo[h][t], h, Decided(h, t))
    BY <1>1, <1>4 DEF LadderInv, RowsFolded, HeldRows, SettlingRow, Types
  <2>. QED BY <1>1, <2>1, LoadsFolded
<1>5. fixture' = fixture /\ f = loc'[r].fixture
  BY <1>1 DEF dbVars
<1>6. Carried(r)'
  BY <1>1, <1>2, <1>3, <1>4, <1>5 DEF Carried, SettlingRow
<1>. QED BY <1>1, <1>6, LoadsLadder

LEMMA LoadAwayLadder ==
    ASSUME TypeInv, NEW r \in Requests, SerialInv(r), LadderInv(r), LoadAway(r)
    PROVE  LadderInv(r)'
<1>. PICK f, h, a, t : SettlingRow(r, f, h, a, t)
  BY SettlingRowOf DEF LoadAway
<1>1. /\ pc[r] = "loadAway" /\ pc'[r] = "saveHome" /\ UNCHANGED <<dbVars, settled>>
      /\ loc'[r].fixture = f /\ loc'[r].winner = loc[r].winner
      /\ loc'[r].homeRating = UpdateClub(loc[r].homeRating, f, "home", loc[r].winner)
      /\ \E rating \in Loadable(a, t) :
            loc'[r].awayRating = UpdateClub(rating, f, "away", loc[r].winner)
  BY DEF LoadAway, Goto, Keep, TypeInv, TypeOK, Locals, history, SettlingRow
<1>2. /\ Outcome(f)' = Outcome(f)
      /\ RowOf(h, Folding(f, Decided(h, t)))' = RowOf(h, Folding(f, Decided(h, t)))
      /\ RowOf(a, Folding(f, Decided(a, t)))' = RowOf(a, Folding(f, Decided(a, t)))
  BY <1>1, ResultsStay DEF dbVars
<1>3. loc[r].winner = Outcome(f)
  BY <1>1 DEF LadderInv, Carried, Settling, SettlingRow
<1>4. f \notin Decided(h, t) /\ f \notin Decided(a, t)
  BY <1>1, NotYetDecided DEF Settling, SettlingRow
<1>5. ASSUME t # None
      PROVE  /\ loc'[r].homeRating = RowOf(h, Folding(f, Decided(h, t))).rating
             /\ loc'[r].awayRating = RowOf(a, Folding(f, Decided(a, t))).rating
  <2>1. /\ IsFiniteSet(Decided(h, t)) /\ IsFiniteSet(Decided(a, t))
        /\ Folded(clubElo[a][t], a, Decided(a, t))
    BY <1>1, <1>5 DEF LadderInv, RowsFolded, HeldRows, SettlingRow, Types
  <2>2. loc[r].homeRating = RowOf(h, Decided(h, t)).rating
    BY <1>1, <1>5 DEF LadderInv, Carried, SettlingRow
  <2>3. PICK rating \in Loadable(a, t) :
           loc'[r].awayRating = UpdateClub(rating, f, "away", loc[r].winner)
    BY <1>1
  <2>4. rating = RowOf(a, Decided(a, t)).rating
    BY <2>1, LoadsFolded
  <2>5. /\ UpdateClub(RowOf(h, Decided(h, t)).rating, f, "home", Outcome(f))
             = RowOf(h, Folding(f, Decided(h, t))).rating
        /\ UpdateClub(RowOf(a, Decided(a, t)).rating, f, "away", Outcome(f))
             = RowOf(a, Folding(f, Decided(a, t))).rating
    BY <1>4, <2>1, UpdateFolds DEF SettlingRow, Sides
  <2>. QED BY <1>1, <1>3, <2>2, <2>3, <2>4, <2>5
<1>6. fixture' = fixture /\ f = loc'[r].fixture
  BY <1>1 DEF dbVars
<1>7. Carried(r)'
  BY <1>1, <1>2, <1>3, <1>5, <1>6 DEF Carried, SettlingRow
<1>. QED BY <1>1, <1>7, LoadsLadder

LEMMA SaveHomeLadder ==
    ASSUME TypeInv, NEW r \in Requests, SerialInv(r), LadderInv(r), SaveHome(r)
    PROVE  LadderInv(r)'
<1>. PICK f, h, a, t : SettlingRow(r, f, h, a, t)
  BY SettlingRowOf DEF SaveHome
<1>1. /\ pc[r] = "saveHome" /\ pc'[r] = "saveAway" /\ loc' = loc
      /\ clubElo' = [clubElo EXCEPT ![h][t] = Saved(@, t, loc[r].homeRating, Bump(loc[r].winner))]
      /\ UNCHANGED <<fixture, game, fixtureGames, settled>>
  BY DEF SaveHome, Goto, TypeInv, TypeOK, history, SettlingRow
<1>2. f = loc'[r].fixture /\ f = loc[r].fixture /\ h \in Clubs /\ a \in Clubs /\ t \in Types
  BY <1>1 DEF SettlingRow
<1>3. loc[r].winner = Outcome(f) /\ f \notin Decided(h, t)
  BY <1>1, <1>2, NotYetDecided DEF LadderInv, Carried, Settling, SettlingRow
<1>4. Carried(r)'
  <2>1. /\ Outcome(f)' = Outcome(f)
        /\ RowOf(a, Folding(f, Decided(a, t)))' = RowOf(a, Folding(f, Decided(a, t)))
    BY <1>1, ResultsStay
  <2>2. t # None => loc[r].awayRating = RowOf(a, Folding(f, Decided(a, t))).rating
    BY <1>1 DEF LadderInv, Carried, SettlingRow
  <2>. QED BY <1>1, <1>2, <1>3, <2>1, <2>2 DEF Carried, SettlingRow
<1>5. RowsFolded(r)'
  <2>. SUFFICES ASSUME NEW c \in Clubs, NEW s \in GameTypes
                PROVE  (IsFiniteSet(Decided(c, s)) /\ Folded(clubElo[c][s], c, HeldRows(r, c, s)))'
    BY DEF RowsFolded
  <2>1. IsFiniteSet(Decided(c, s)) /\ Folded(clubElo[c][s], c, Decided(c, s))
    BY <1>1 DEF LadderInv, RowsFolded, HeldRows
  <2>2. /\ Decided(c, s)' = Decided(c, s) /\ Outcome(f)' = Outcome(f)
        /\ RowOf(c, Decided(c, s))' = RowOf(c, Decided(c, s))
        /\ RowOf(c, Folding(f, Decided(c, s)))' = RowOf(c, Folding(f, Decided(c, s)))
    BY <1>1, ResultsStay
  <2>3. CASE c = h /\ s = t
    <3>1. t # None
      BY <2>3, NoneAssumption
    <3>2. Saved(clubElo[c][s], t, loc[r].homeRating, Bump(loc[r].winner))
            = <<RowOf(c, Folding(f, Decided(c, s)))>>
      <4>1. loc[r].homeRating = RowOf(c, Folding(f, Decided(c, s))).rating
        BY <1>1, <2>3, <3>1 DEF LadderInv, Carried, SettlingRow
      <4>. QED BY <1>3, <2>1, <2>3, <3>1, <4>1, SaveFolds
    <3>3. clubElo'[c][s] = <<RowOf(c, Folding(f, Decided(c, s)))>>
      BY <1>1, <1>2, <2>3, <3>2 DEF TypeInv, TypeOK
    <3>4. HeldRows(r, c, s)' = Folding(f, Decided(c, s))'
      BY <1>1, <1>2, <2>3 DEF HeldRows, SettlingRow
    <3>. QED BY <2>1, <2>2, <3>3, <3>4 DEF Folded
  <2>4. CASE ~(c = h /\ s = t)
    <3>1. clubElo'[c][s] = clubElo[c][s]
      BY <1>1, <1>2, <2>4 DEF TypeInv, TypeOK, Types
    <3>2. HeldRows(r, c, s)' = Decided(c, s)'
      BY <1>1, <1>2, <2>4 DEF HeldRows, SettlingRow
    <3>. QED BY <2>1, <2>2, <3>1, <3>2 DEF Folded
  <2>. QED BY <2>3, <2>4
<1>6. SettledOnce(r)'
  BY <1>1 DEF LadderInv, SettledOnce
<1>. QED BY <1>4, <1>5, <1>6 DEF LadderInv

LEMMA SaveAwayLadder ==
    ASSUME TypeInv, NEW r \in Requests, SerialInv(r), LadderInv(r), SaveAway(r)
    PROVE  LadderInv(r)'
<1>. PICK f, h, a, t : SettlingRow(r, f, h, a, t)
  BY SettlingRowOf DEF SaveAway
<1>1. /\ pc[r] = "saveAway" /\ pc'[r] = "writeConfirmed" /\ loc' = loc
      /\ clubElo' = [clubElo EXCEPT ![a][t] = Saved(@, t, loc[r].awayRating, Bump(loc[r].winner))]
      /\ settled' = [settled EXCEPT ![f] = @ + 1]
      /\ UNCHANGED <<fixture, game, fixtureGames>>
  BY DEF SaveAway, Goto, TypeInv, TypeOK, SettlingRow
<1>2. f = loc[r].fixture /\ f \in FixtureIds /\ h \in Clubs /\ a \in Clubs /\ h # a /\ t \in Types
  BY DEF SettlingRow
<1>3. loc[r].winner = Outcome(f) /\ ~(settled[f] > 0) /\ \A c, s : f \notin Decided(c, s)
  BY <1>1, <1>2, NotYetDecided DEF LadderInv, Carried, Settling, SettlingRow
<1>4. settled'[f] > 0 /\ \A e \in FixtureIds \ {f} : settled'[e] = settled[e]
  BY <1>1, <1>2 DEF TypeInv, TypeOK
<1>5. \A e : Outcome(e)' = Outcome(e)
  BY <1>1, OutcomeStays
<1>6. Carried(r)'
  BY <1>1, <1>2, <1>3, <1>5 DEF Carried
<1>7. SettledOnce(r)'
  BY <1>1, <1>2, <1>4 DEF LadderInv, SettledOnce
<1>8. RowsFolded(r)'
  <2>. SUFFICES ASSUME NEW c \in Clubs, NEW s \in GameTypes
                PROVE  (IsFiniteSet(Decided(c, s)) /\ Folded(clubElo[c][s], c, HeldRows(r, c, s)))'
    BY DEF RowsFolded
  <2>. PICK D : D = Decided(c, s)
    OBVIOUS
  <2>1. IsFiniteSet(D) /\ Folded(clubElo[c][s], c, HeldRows(r, c, s))
    BY DEF LadderInv, RowsFolded
  <2>2. Decided(c, s)' = IF c \in {h, a} /\ s = t THEN Folding(f, D) ELSE D
    <3>1. Decided(c, s)' = {e \in FixtureIds : /\ settled'[e] > 0
                                               /\ fixture[e].type = s
                                               /\ c \in {fixture[e].home, fixture[e].away}
                                               /\ Outcome(e) # "draw"}
      BY <1>1, <1>5 DEF Decided
    <3>2. f \in Decided(c, s)' <=> c \in {h, a} /\ s = t /\ Outcome(f) # "draw"
      BY <1>2, <1>4, <3>1 DEF SettlingRow
    <3>3. \A e \in FixtureIds \ {f} : e \in Decided(c, s)' <=> e \in D
      BY <1>4, <3>1 DEF Decided
    <3>4. f \notin D /\ D \subseteq FixtureIds /\ Decided(c, s)' \subseteq FixtureIds
      BY <1>3, <3>1 DEF Decided
    <3>. QED BY <1>2, <3>2, <3>3, <3>4 DEF Folding
  <2>3. \A E : RowOf(c, E)' = RowOf(c, E)
    BY <1>1, <1>5, RowStays
  <2>4. HeldRows(r, c, s)' = Decided(c, s)'
    BY <1>1 DEF HeldRows
  <2>5. IsFiniteSet(Decided(c, s)')
    BY <1>3, <2>1, <2>2, FoldingCounts
  <2>6. PICK E : E = Decided(c, s)'
    OBVIOUS
  <2>7. CASE c = h /\ s = t
    <3>1. HeldRows(r, c, s) = E
      BY <1>1, <2>2, <2>6, <2>7 DEF HeldRows, SettlingRow
    <3>2. clubElo'[c][s] = clubElo[c][s]
      BY <1>1, <1>2, <2>7 DEF TypeInv, TypeOK
    <3>. QED BY <2>1, <2>3, <2>4, <2>5, <2>6, <3>1, <3>2 DEF Folded
  <2>8. CASE c = a /\ s = t
    <3>1. t # None
      BY <2>8, NoneAssumption
    <3>2. E = Folding(f, D) /\ HeldRows(r, c, s) = D
      BY <1>2, <2>2, <2>6, <2>8 DEF HeldRows, SettlingRow
    <3>3. loc[r].awayRating = RowOf(c, Folding(f, D)).rating
      BY <1>1, <2>8, <3>1 DEF LadderInv, Carried, SettlingRow
    <3>4. Saved(clubElo[c][s], t, loc[r].awayRating, Bump(loc[r].winner)) = <<RowOf(c, E)>>
      BY <1>3, <2>1, <3>1, <3>2, <3>3, SaveFolds
    <3>5. clubElo'[c][s] = <<RowOf(c, E)>>
      BY <1>1, <1>2, <2>8, <3>4 DEF TypeInv, TypeOK
    <3>. QED BY <2>3, <2>4, <2>5, <2>6, <3>5 DEF Folded
  <2>9. CASE ~(c \in {h, a} /\ s = t)
    <3>1. clubElo'[c][s] = clubElo[c][s]
      BY <1>1, <1>2, <2>9 DEF TypeInv, TypeOK, Types
    <3>2. E = D /\ HeldRows(r, c, s) = D
      BY <2>2, <2>6, <2>9 DEF HeldRows, SettlingRow
    <3>. QED BY <2>1, <2>3, <2>4, <2>5, <2>6, <3>1, <3>2 DEF Folded
  <2>. QED BY <2>7, <2>8, <2>9
<1>. QED BY <1>6, <1>7, <1>8 DEF LadderInv

LEMMA StepLadder ==
    ASSUME TypeInv, ConfirmInv, NEW r, Requests = {r}, SerialInv(r), LadderInv(r), Step(r)
    PROVE  LadderInv(r)'
<1>. DEFINE l == loc[r]
            f == loc[r].fixture
<1>a. pc[r] # "idle" /\ f \in FixtureIds
  BY StepFrame DEF Moved
<1>w. Alone(r)
  BY DEF SerialInv
<1>t. /\ pc \in [Requests -> Labels] /\ loc \in [Requests -> Locals]
      /\ fixtureGames \in [FixtureIds -> SUBSET GameIds] /\ game \in [GameIds -> Sides \cup {"none"}]
  BY DEF TypeInv, TypeOK
<1>1. CASE WriteAccepted(r) \/ WriteDeclined(r) \/ WriteCancelled(r) \/ WritePlayed(r)
  <2>1. pc[r] \in {"accept", "decline", "cancel", "writePlayed"}
    BY <1>1 DEF WriteAccepted, WriteDeclined, WriteCancelled, WritePlayed
  <2>2. fixture[f].status # "confirmed"
    BY <1>w, <2>1 DEF Alone, Recording
  <2>. QED
    BY <1>1, <2>1, <2>2, WriteLadder
    DEF WriteAccepted, WriteDeclined, WriteCancelled, WritePlayed, Settling, history
<1>2. CASE InsertGame(r)
  <2>1. /\ pc[r] = "insertGame" /\ pc'[r] = "linkGame" /\ loc' = loc
        /\ game' = [game EXCEPT ![l.game] = l.winner]
        /\ UNCHANGED <<fixture, fixtureGames, clubElo, settled>>
    BY <1>2, <1>t DEF InsertGame, Goto, history
  <2>2. game[l.game] = "none"
    BY <1>w, <2>1 DEF Alone
  <2>3. ASSUME NEW e \in FixtureIds PROVE Outcome(e)' = Outcome(e)
    <3>1. l.game \notin fixtureGames[e]
      BY <2>2 DEF SerialInv, Standing
    <3>2. \A g \in fixtureGames[e] : game'[g] = game[g]
      BY <1>t, <2>1, <3>1
    <3>. QED BY <2>1, <3>2, OutcomeStays
  <2>4. SettledStay
    BY <2>1, <2>3 DEF SettledStay
  <2>5. SettledOnce(r)'
    BY <2>1 DEF LadderInv, SettledOnce
  <2>. QED BY <2>1, <2>4, <2>5, LadderStays DEF Settling
<1>3. CASE LinkGame(r)
  <2>1. /\ pc[r] = "linkGame" /\ pc'[r] = "ratePlayers" /\ loc' = loc
        /\ \A e \in FixtureIds \ {f} : fixtureGames'[e] = fixtureGames[e]
        /\ UNCHANGED <<fixture, game, clubElo, settled>>
    BY <1>3, <1>t DEF LinkGame, Goto, history
  <2>2. ~(settled[f] > 0)
    BY <1>w, <1>a, <2>1 DEF Alone, Recording, LadderInv, SettledOnce
  <2>3. SettledStay
    <3>1. \A e \in FixtureIds \ {f} : Outcome(e)' = Outcome(e)
      BY <2>1, OutcomeStays
    <3>. QED BY <2>1, <2>2, <3>1 DEF SettledStay
  <2>4. SettledOnce(r)'
    BY <2>1 DEF LadderInv, SettledOnce
  <2>. QED BY <2>1, <2>3, <2>4, LadderStays DEF Settling
<1>4. CASE RatePlayers(r) \/ UpsertConfirmation(r) \/ CountConfirmations(r)
  <2>1. /\ pc[r] \in {"ratePlayers", "upsert", "count"}
        /\ pc'[r] \in {"writePlayed", "count", "tally", "idle"}
        /\ UNCHANGED <<fixture, fixtureGames, game, clubElo, settled>>
    BY <1>4, <1>t
    DEF RatePlayers, UpsertConfirmation, CountConfirmations, MaySettle, Goto, Done, dbVars, history
  <2>2. SettledStay
    BY <2>1, OutcomeStays DEF SettledStay
  <2>3. SettledOnce(r)'
    BY <2>1 DEF LadderInv, SettledOnce
  <2>. QED BY <2>1, <2>2, <2>3, LadderStays DEF Settling
<1>5. CASE WriteConfirmed(r)
  <2>1. /\ pc[r] = "writeConfirmed" /\ pc'[r] = "idle"
        /\ fixture' = [fixture EXCEPT ![f].status = "confirmed"]
        /\ UNCHANGED <<fixtureGames, game, clubElo, settled>>
    BY <1>5, <1>t DEF WriteConfirmed, SetStatus, Done, Goto, history
  <2>2. /\ fixture'[f].status = "confirmed" /\ fixture'[f].home = fixture[f].home
        /\ fixture'[f].away = fixture[f].away /\ fixture'[f].type = fixture[f].type
        /\ \A e \in FixtureIds \ {f} : fixture'[e] = fixture[e]
    BY <1>a, <2>1 DEF TypeInv, TypeOK, FixtureRow
  <2>3. SettledStay
    BY <2>1, <2>2, OutcomeStays DEF SettledStay
  <2>4. SettledOnce(r)'
    BY <1>a, <2>1, <2>2 DEF LadderInv, SettledOnce
  <2>. QED BY <2>1, <2>3, <2>4, LadderStays DEF Settling
<1>. QED
  BY <1>1, <1>2, <1>3, <1>4, <1>5, TallyLadder, LoadHomeLadder, LoadAwayLadder, SaveHomeLadder,
     SaveAwayLadder DEF Step

\* A step of nobody in flight that does nothing to a settled fixture.
LEMMA QuietLadder ==
    ASSUME TypeInv, NEW r \in Requests, LadderInv(r), SettledStay, SettledOnce(r)',
           UNCHANGED <<pc, loc, game, fixtureGames>>,
           pc[r] # "idle" => fixture'[loc[r].fixture] = fixture[loc[r].fixture]
    PROVE  LadderInv(r)'
<1>1. CASE pc[r] = "idle"
  BY <1>1, LadderStays DEF Settling
<1>2. CASE pc[r] # "idle"
  <2>. PICK f, h, a, t : SettlingRow(r, f, h, a, t)
    BY <1>2, SettlingRowOf
  <2>1. f = loc[r].fixture /\ fixture'[f] = fixture[f] /\ loc'[r] = loc[r] /\ pc'[r] = pc[r]
    BY <1>2 DEF SettlingRow
  <2>2. \A e : Outcome(e)' = Outcome(e)
    BY OutcomeStays
  <2>3. ASSUME NEW c, NEW s
        PROVE  /\ Decided(c, s)' = Decided(c, s)
               /\ RowOf(c, Decided(c, s))' = RowOf(c, Decided(c, s))
               /\ RowOf(c, Folding(f, Decided(c, s)))' = RowOf(c, Folding(f, Decided(c, s)))
    <3>1. Decided(c, s)' = Decided(c, s) /\ RowOf(c, Decided(c, s))' = RowOf(c, Decided(c, s))
      BY DecidedStay, DecidedRowStays
    <3>2. PICK D : D = Decided(c, s)
      OBVIOUS
    <3>3. PICK E : E = Folding(f, D)
      OBVIOUS
    <3>4. ASSUME NEW e \in E PROVE fixture'[e][Outcome(e)'] = fixture[e][Outcome(e)]
      <4>1. CASE e = f
        BY <2>1, <2>2, <4>1
      <4>2. CASE e # f
        <5>1. settled[e] > 0 /\ e \in FixtureIds /\ Outcome(e) # "draw"
          BY <3>2, <3>3, <4>2 DEF Decided, Folding
        <5>2. Outcome(e) \in Sides
          BY <5>1 DEF Outcome, Sides
        <5>. QED BY <2>2, <5>1, <5>2 DEF SettledStay, Sides
      <4>. QED BY <4>1, <4>2
    <3>5. RowOf(c, E)' = RowOf(c, E)
      BY <3>4, RowStays
    <3>6. Folding(f, D)' = E /\ Decided(c, s)' = D
      BY <2>2, <3>1, <3>2, <3>3 DEF Folding
    <3>. QED BY <3>1, <3>2, <3>3, <3>5, <3>6
  <2>4. Carried(r)'
    <3>1. Carried(r)
      BY DEF LadderInv
    <3>. QED BY <2>1, <2>2, <2>3, <3>1 DEF Carried
  <2>5. RowsFolded(r)'
    <3>. SUFFICES ASSUME NEW c \in Clubs, NEW s \in GameTypes
                  PROVE  (IsFiniteSet(Decided(c, s)) /\ Folded(clubElo[c][s], c, HeldRows(r, c, s)))'
      BY DEF RowsFolded
    <3>1. IsFiniteSet(Decided(c, s)) /\ Folded(clubElo[c][s], c, HeldRows(r, c, s))
      BY DEF LadderInv, RowsFolded
    <3>2. /\ Decided(c, s)' = Decided(c, s)
          /\ RowOf(c, Decided(c, s))' = RowOf(c, Decided(c, s))
          /\ RowOf(c, Folding(f, Decided(c, s)))' = RowOf(c, Folding(f, Decided(c, s)))
          /\ clubElo'[c][s] = clubElo[c][s]
      BY <2>3 DEF SettledStay
    <3>3. CASE pc[r] = "saveAway" /\ c = h /\ s = t
      <4>1. /\ HeldRows(r, c, s) = Folding(f, Decided(c, s))
            /\ HeldRows(r, c, s)' = Folding(f, Decided(c, s))'
        BY <2>1, <3>3 DEF HeldRows, SettlingRow
      <4>2. Folding(f, Decided(c, s))' = Folding(f, Decided(c, s))
        BY <2>2, <3>2 DEF Folding
      <4>. QED BY <3>1, <3>2, <4>1, <4>2 DEF Folded
    <3>4. CASE ~(pc[r] = "saveAway" /\ c = h /\ s = t)
      <4>1. HeldRows(r, c, s) = Decided(c, s) /\ HeldRows(r, c, s)' = Decided(c, s)'
        BY <2>1, <3>4 DEF HeldRows, SettlingRow
      <4>. QED BY <3>1, <3>2, <4>1 DEF Folded
    <3>. QED BY <3>3, <3>4
  <2>. QED BY <2>4, <2>5 DEF LadderInv
<1>. QED BY <1>1, <1>2

LEMMA InitLadder ==
    ASSUME Init, NEW r, Requests = {r}
    PROVE  LadderInv(r)
<1>1. \A c, t : Decided(c, t) = {}
  BY DEF Init, Decided
<1>2. IsFiniteSet({})
  BY FS_EmptySet
<1>3. \A c, t : HeldRows(r, c, t) = {}
  BY <1>1 DEF Init, HeldRows
<1>4. RowsFolded(r)
  BY <1>1, <1>2, <1>3 DEF Init, RowsFolded, Folded, Types
<1>5. SettledOnce(r) /\ Carried(r)
  BY DEF Init, SettledOnce, Carried, Settling
<1>. QED BY <1>4, <1>5 DEF LadderInv

LEMMA NextLadder ==
    ASSUME TypeInv, ConfirmInv, NEW r, Requests = {r}, MaxDrops = 0, SerialInv(r), LadderInv(r),
           [Next]_vars
    PROVE  LadderInv(r)'
<1>1. CASE UNCHANGED vars
  <2>1. UNCHANGED <<fixture, game, fixtureGames, settled, clubElo, pc, loc>>
    BY <1>1 DEF vars, dbVars, history
  <2>2. SettledStay /\ SettledOnce(r)'
    BY <2>1, OutcomeStays DEF SettledStay, LadderInv, SettledOnce
  <2>. QED BY <2>1, <2>2, QuietLadder
<1>2. ASSUME NEW u \in Users, Propose(u) PROVE LadderInv(r)'
  <2>1. PICK h \in Clubs, a \in Clubs, t \in Types, f \in FixtureIds : ProposeFixture(u, h, a, t, f)
    BY <1>2 DEF Propose
  <2>2. /\ fixture[f].status = "absent" /\ fixture'[f].status = "proposed"
        /\ \A e \in FixtureIds \ {f} : fixture'[e] = fixture[e]
        /\ UNCHANGED <<game, fixtureGames, clubElo, settled, pc, loc>>
    BY <2>1 DEF ProposeFixture, history, TypeInv, TypeOK
  <2>3. pc[r] # "idle" => loc[r].fixture # f
    BY <2>2 DEF TypeInv, LocalsOK
  <2>4. SettledOnce(r)'
    BY <2>2 DEF LadderInv, SettledOnce
  <2>5. ~(settled[f] > 0)
    BY <2>2, <2>3 DEF LadderInv, SettledOnce
  <2>6. SettledStay
    BY <2>2, <2>5, OutcomeStays DEF SettledStay
  <2>7. pc[r] # "idle" => loc[r].fixture \in FixtureIds
    BY DEF TypeInv, LocalsOK
  <2>. QED BY <2>2, <2>3, <2>4, <2>6, <2>7, QuietLadder
<1>3. ASSUME NEW u \in Users, NEW f \in FixtureIds, Begin(r, u, f) PROVE LadderInv(r)'
  <2>1. /\ pc[r] = "idle" /\ UNCHANGED <<fixture, game, fixtureGames, clubElo, settled>>
        /\ pc'[r] \notin Settling
    BY <1>3, BeginFrame DEF Begun, dbVars, history, Settling
  <2>2. SettledStay
    BY <2>1, OutcomeStays DEF SettledStay
  <2>3. SettledOnce(r)'
    BY <2>1 DEF LadderInv, SettledOnce, Settling
  <2>. QED BY <2>1, <2>2, <2>3, LadderStays
<1>4. CASE Step(r)
  BY <1>4, StepLadder
<1>5. ~Drop(r)
  BY DEF Drop, TypeInv, TypeOK
<1>. QED BY <1>1, <1>2, <1>3, <1>4, <1>5 DEF Next

\* Served one at a time and none of them stopped, settlements put each result
\* on the ladder once: between requests a club's row in a game type holds the
\* result of each of its settled fixtures that was not a draw, and counts them
\* (settle_fixture, load_club_state, save_club_state; club_elo.rs).
THEOREM SerialLadderIsExact ==
    ASSUME NEW r0, Requests = {r0}, MaxDrops = 0
    PROVE  Spec => []LadderRecordsEachResultOnce
<1>1. Init => SerialInv(r0) /\ LadderInv(r0)
  BY InitSerial, InitLadder
<1>2. (TypeInv /\ AcceptInv /\ ConfirmInv) /\ (SerialInv(r0) /\ LadderInv(r0)) /\ [Next]_vars
        => (SerialInv(r0) /\ LadderInv(r0))'
  BY NextSerial, NextLadder
<1>3. LadderInv(r0) => LadderRecordsEachResultOnce
  <2>. SUFFICES ASSUME LadderInv(r0), pc[r0] = "idle", NEW c \in Clubs, NEW t \in GameTypes
                PROVE  /\ Folded(clubElo[c][t], c, Decided(c, t))
                       /\ Decided(c, t) = {} => Cardinality(Decided(c, t)) = 0
    BY DEF LadderRecordsEachResultOnce, Folded, RowOf, WinsIn
  <2>1. HeldRows(r0, c, t) = Decided(c, t)
    BY DEF HeldRows
  <2>. QED BY <2>1, FS_EmptySet DEF LadderInv, RowsFolded
<1>. QED BY <1>1, <1>2, <1>3, ConfirmInvariant, PTL DEF Spec
=============================================================================
