---------------------------- MODULE RatingsProofs ---------------------------
(***************************************************************************)
(* Proof that a rating row sums up its player's results, for the whole     *)
(* server.  A completion reads every row before it writes any, so its      *)
(* locals carry the argument: each row it has read is the only one of a    *)
(* player in a scope, and still as it was read until it is written, unless *)
(* another request was at work on that rating too (Exact, Apart).  A row   *)
(* that was not found is still missing when it is linked, and a row that   *)
(* was inserted is nobody's until then (Backed).  The sums over the        *)
(* results then follow one result at a time, a mark that is on its way     *)
(* counting as made (Tallied); what may be lost or missed when requests    *)
(* overlap never runs ahead of the results (NeverAhead).                   *)
(***************************************************************************)
EXTENDS AccountsProofs, SequenceTheorems, FiniteSetTheorems

Result == [game : Games, won : BOOLEAN]

-----------------------------------------------------------------------------
\* What another result does to the sums over a run of results.

Lost(s) == {i \in DOMAIN s : \E j \in i..Len(s) : ~s[j].won}

LEMMA LostIsFinite ==
    ASSUME NEW s \in Seq(Result)
    PROVE  IsFiniteSet(Lost(s)) /\ Cardinality(Lost(s)) \in 0..Len(s)
<1>0. Len(s) \in Nat /\ 1 \in Int
  OBVIOUS
<1>1. IsFiniteSet(1..Len(s)) /\ Cardinality(1..Len(s)) = Len(s)
  BY <1>0, FS_Interval
<1>2. Lost(s) \in SUBSET (1..Len(s))
  BY DEF Lost
<1>3. IsFiniteSet(Lost(s)) /\ Cardinality(Lost(s)) <= Len(s)
  BY <1>1, <1>2, FS_Subset
<1>. QED BY <1>3, FS_CardinalityType

LEMMA StreakIsNat ==
    ASSUME NEW s \in Seq(Result)
    PROVE  Streak(s) \in Nat
<1>1. Streak(s) = Len(s) - Cardinality(Lost(s))
  BY DEF Streak, Lost
<1>. QED BY <1>1, LostIsFinite

LEMMA StreakGoesOn ==
    ASSUME NEW s \in Seq(Result), NEW x \in Result
    PROVE  Streak(Append(s, x)) = IF x.won THEN Streak(s) + 1 ELSE 0
<1>. SUFFICES ASSUME NEW t, t = Append(s, x)
              PROVE  Streak(t) = IF x.won THEN Streak(s) + 1 ELSE 0
  OBVIOUS
<1>0. /\ t \in Seq(Result) /\ Len(t) = Len(s) + 1 /\ DOMAIN t = 1..Len(t)
      /\ \A i \in 1..Len(s) : t[i] = s[i]
      /\ t[Len(s) + 1] = x
  BY AppendProperties
<1>1. Streak(t) = Len(t) - Cardinality(Lost(t)) /\ Streak(s) = Len(s) - Cardinality(Lost(s))
  BY DEF Streak, Lost
<1>2. Cardinality(Lost(s)) \in Nat
  BY LostIsFinite
<1>3. CASE x.won
  <2>1. Lost(t) = Lost(s)
    BY <1>0, <1>3 DEF Lost
  <2>. QED BY <1>0, <1>1, <1>2, <1>3, <2>1
<1>4. CASE ~x.won
  <2>1. Lost(t) = 1..Len(t)
    BY <1>0, <1>4 DEF Lost
  <2>2. Cardinality(Lost(t)) = Len(t)
    <3>1. Len(t) \in Nat /\ 1 \in Int
      BY <1>0
    <3>2. Cardinality(1..Len(t)) = Len(t)
      BY <3>1, FS_Interval
    <3>. QED BY <2>1, <3>2
  <2>. QED BY <1>0, <1>1, <1>4, <2>2
<1>. QED BY <1>3, <1>4

LEMMA RatedIsNat ==
    ASSUME NEW s \in Seq(Result)
    PROVE  RatedCount(s) \in Nat
<1>. DEFINE R == {i \in DOMAIN s : GameOf[s[i].game].rated}
<1>1. Len(s) \in Nat /\ 1 \in Int /\ R \in SUBSET (1..Len(s))
  OBVIOUS
<1>2. IsFiniteSet(1..Len(s))
  BY <1>1, FS_Interval
<1>3. IsFiniteSet(R)
  BY <1>1, <1>2, FS_Subset
<1>4. Cardinality(R) \in Nat
  BY <1>3, FS_CardinalityType
<1>. QED BY <1>4 DEF RatedCount

LEMMA RatedGoesOn ==
    ASSUME NEW s \in Seq(Result), NEW x \in Result
    PROVE  /\ RatedCount(s) \in Nat
           /\ RatedCount(Append(s, x)) =
                 IF GameOf[x.game].rated THEN RatedCount(s) + 1 ELSE RatedCount(s)
<1>. SUFFICES ASSUME NEW t, t = Append(s, x)
              PROVE  /\ RatedCount(s) \in Nat
                     /\ RatedCount(t) =
                          IF GameOf[x.game].rated THEN RatedCount(s) + 1 ELSE RatedCount(s)
  OBVIOUS
<1>. DEFINE R(q) == {i \in DOMAIN q : GameOf[q[i].game].rated}
<1>0. /\ t \in Seq(Result) /\ Len(t) = Len(s) + 1 /\ DOMAIN t = 1..Len(t)
      /\ \A i \in 1..Len(s) : t[i] = s[i]
      /\ t[Len(s) + 1] = x
  BY AppendProperties
<1>a. Len(s) \in Nat /\ 1 \in Int
  OBVIOUS
<1>b. R(s) \in SUBSET (1..Len(s))
  OBVIOUS
<1>1. IsFiniteSet(1..Len(s)) /\ R(s) \in SUBSET (1..Len(s))
  BY <1>a, <1>b, FS_Interval
<1>2. IsFiniteSet(R(s)) /\ Cardinality(R(s)) \in Nat
  BY <1>1, FS_Subset, FS_CardinalityType
<1>3. RatedCount(t) = Cardinality(R(t)) /\ RatedCount(s) = Cardinality(R(s))
  BY DEF RatedCount
<1>4. CASE GameOf[x.game].rated
  <2>1. R(t) = R(s) \cup {Len(s) + 1} /\ Len(s) + 1 \notin R(s)
    BY <1>0, <1>4
  <2>. HIDE DEF R
  <2>2. Cardinality(R(t)) = Cardinality(R(s)) + 1
    BY <1>2, <2>1, FS_AddElement
  <2>. QED BY <1>2, <1>3, <1>4, <2>2
<1>5. CASE ~GameOf[x.game].rated
  <2>1. R(t) = R(s)
    BY <1>0, <1>5
  <2>. QED BY <1>2, <1>3, <1>5, <2>1
<1>. QED BY <1>4, <1>5

Beginning(s, i) == SubSeq(s, 1, i)

\* b is the longest streak there was.
IsBest(s, b) ==
    /\ \E i \in 0..Len(s) : b = Streak(Beginning(s, i))
    /\ \A i \in 0..Len(s) : Streak(Beginning(s, i)) <= b

LEMMA BeginningStreak ==
    ASSUME NEW s \in Seq(Result), NEW i \in 0..Len(s)
    PROVE  Streak(Beginning(s, i)) \in Nat
<1>1. Beginning(s, i) \in Seq(Result)
  BY SubSeqProperties DEF Beginning
<1>. QED BY <1>1, StreakIsNat

LEMMA BeginningsOfAppend ==
    ASSUME NEW s \in Seq(Result), NEW x \in Result
    PROVE  /\ \A i \in 0..Len(s) : Beginning(Append(s, x), i) = Beginning(s, i)
           /\ Beginning(Append(s, x), Len(s) + 1) = Append(s, x)
<1>0. Append(s, x) \in Seq(Result) /\ Len(Append(s, x)) = Len(s) + 1
  BY AppendProperties
<1>1. ASSUME NEW i \in 0..Len(s) PROVE SubSeq(Append(s, x), 1, i) = SubSeq(s, 1, i)
  <2>1. /\ \A j \in 1..i : Append(s, x)[j] = s[j] /\ s[j] \in Result
        /\ \A j \in 1..i : Append(s, x)[j] \in Result
    BY AppendProperties
  <2>2. /\ SubSeq(Append(s, x), 1, i) \in Seq(Result) /\ Len(SubSeq(Append(s, x), 1, i)) = i
        /\ \A j \in 1..i : SubSeq(Append(s, x), 1, i)[j] = Append(s, x)[j]
    BY <2>1, SubSeqProperties
  <2>3. /\ SubSeq(s, 1, i) \in Seq(Result) /\ Len(SubSeq(s, 1, i)) = i
        /\ \A j \in 1..i : SubSeq(s, 1, i)[j] = s[j]
    BY <2>1, SubSeqProperties
  <2>. QED BY <2>1, <2>2, <2>3, SeqEqual
<1>2. SubSeq(Append(s, x), 1, Len(s) + 1) = Append(s, x)
  BY <1>0, SubSeqFull
<1>. QED BY <1>1, <1>2 DEF Beginning

LEMMA BestGoesOn ==
    ASSUME NEW s \in Seq(Result), NEW x \in Result, NEW b \in Nat, IsBest(s, b)
    PROVE  IsBest(Append(s, x), IF x.won THEN Larger(Streak(s) + 1, b) ELSE b)
<1>. DEFINE c == IF x.won THEN Larger(Streak(s) + 1, b) ELSE b
            n == Len(s)
<1>0. n \in Nat /\ Len(Append(s, x)) = n + 1
  BY AppendProperties
<1>1. Streak(Append(s, x)) = IF x.won THEN Streak(s) + 1 ELSE 0
  BY StreakGoesOn
<1>2. Streak(s) \in Nat
  BY StreakIsNat
<1>3. c \in Nat /\ b <= c /\ Streak(Append(s, x)) <= c /\ c \in {b, Streak(Append(s, x))}
  BY <1>1, <1>2 DEF Larger
<1>4. PICK m \in 0..n : b = Streak(Beginning(s, m))
  BY DEF IsBest
<1>5. \A i \in 0..n : Streak(Beginning(s, i)) \in Nat /\ Streak(Beginning(s, i)) <= b
  BY BeginningStreak DEF IsBest
<1>6. /\ \A i \in 0..n : Beginning(Append(s, x), i) = Beginning(s, i)
      /\ Beginning(Append(s, x), n + 1) = Append(s, x)
  BY BeginningsOfAppend
<1>. HIDE DEF c, n
<1>7. ASSUME NEW i \in 0..n + 1 PROVE Streak(Beginning(Append(s, x), i)) <= c
  <2>1. CASE i = n + 1
    BY <1>3, <1>6, <2>1
  <2>2. CASE i \in 0..n
    <3>1. Streak(Beginning(Append(s, x), i)) = Streak(Beginning(s, i))
      BY <1>6, <2>2
    <3>2. Streak(Beginning(s, i)) \in Nat /\ Streak(Beginning(s, i)) <= b
      BY <1>5, <2>2
    <3>. QED BY <1>3, <3>1, <3>2
  <2>. QED BY <1>0, <2>1, <2>2
<1>8. \E i \in 0..n + 1 : c = Streak(Beginning(Append(s, x), i))
  <2>1. CASE c = Streak(Append(s, x))
    <3>1. c = Streak(Beginning(Append(s, x), n + 1))
      BY <1>6, <2>1
    <3>2. n + 1 \in 0..n + 1
      BY <1>0
    <3>. QED BY <3>1, <3>2
  <2>2. CASE c = b
    <3>1. m \in 0..n + 1 /\ c = Streak(Beginning(Append(s, x), m))
      BY <1>0, <1>4, <1>6, <2>2
    <3>. QED BY <3>1
  <2>. QED BY <1>3, <2>1, <2>2
<1>9. IsBest(Append(s, x), c)
  BY <1>0, <1>7, <1>8 DEF IsBest
<1>. QED BY <1>9 DEF c

LEMMA NoResults == Streak(<<>>) = 0 /\ RatedCount(<<>>) = 0 /\ IsBest(<<>>, 0)
<1>1. Streak(<<>>) = 0
  BY FS_EmptySet DEF Streak
<1>2. RatedCount(<<>>) = 0
  BY FS_EmptySet DEF RatedCount
<1>3. Beginning(<<>>, 0) = <<>>
  BY SubSeqEmpty DEF Beginning
<1>4. 0..Len(<<>>) = {0}
  OBVIOUS
<1>5. IsBest(<<>>, 0)
  BY <1>1, <1>3, <1>4 DEF IsBest
<1>. QED BY <1>1, <1>2, <1>5

LEMMA BestIsBestStreak ==
    ASSUME NEW s \in Seq(Result), NEW b, IsBest(s, b)
    PROVE  b = BestStreak(s)
<1>. DEFINE streaks == {Streak(Beginning(s, i)) : i \in 0..Len(s)}
<1>1. streaks \subseteq Nat
  BY BeginningStreak
<1>2. b \in streaks /\ \A t \in streaks : t <= b
  BY DEF IsBest
<1>3. BestStreak(s) = CHOOSE c \in streaks : \A t \in streaks : t <= c
  BY DEF BestStreak, Beginning
<1>. HIDE DEF streaks
<1>4. ASSUME NEW c \in streaks, \A t \in streaks : t <= c PROVE c = b
  <2>1. c \in Nat /\ b \in Nat /\ c <= b /\ b <= c
    BY <1>1, <1>2, <1>4
  <2>. QED BY <2>1
<1>. QED BY <1>2, <1>3, <1>4

-----------------------------------------------------------------------------
ReadRow == [player : Players, elo : Nat, games : Nat, streak : Nat, best : Nat]

RatingLoc ==
    [user : {None}, game : Games \cup {None}, scope : Scopes, todo : Seq(Players),
     rows : Seq(ReadRow), fresh : Nat \cup {None}, at : Nat]

Keys == Players \X Scopes

Fetching == {"fetch", "insertElo", "linkElo"}
Writing == {"save", "mark"}

\* The tables, as far as the proofs need them: the bounds are kept in ClubServerProofs.
RatingTables ==
    /\ games \subseteq Games
    /\ lastElo \in Nat
    /\ elos \in [DOMAIN elos -> EloRow] /\ DOMAIN elos \subseteq 1..lastElo
    /\ userElos \subseteq Players \X DOMAIN elos
    /\ wins \cup loses \subseteq (DOMAIN elos) \X Games
    /\ ledger \in [Keys -> Seq(Result)]
    /\ blurred \subseteq Keys

\* A rating row is one player's, and only such rows have marks.
Owned ==
    /\ \A p, q \in Players : \A e \in DOMAIN elos :
          <<p, e>> \in userElos /\ <<q, e>> \in userElos => p = q
    /\ \A m \in wins \cup loses : \E p \in Players : <<p, m[1]>> \in userElos

\* The rating of the i-th row a request has read.
Of(l, i) == <<l.rows[i].player, l.scope>>

\* The ratings the locals are about.
Works(l) ==
    {<<p, l.scope>> : p \in ToSet(l.todo)} \cup {<<l.rows[i].player, l.scope>> : i \in DOMAIN l.rows}

\* What a label says of the locals.
Shape(label, l) ==
    /\ l \in RatingLoc
    /\ label \in Fetching => l.todo # <<>> /\ l.at = 1
    /\ label \in Writing => l.todo = <<>> /\ l.game \in Games /\ l.at \in 1..Len(l.rows)

\* What stands behind the locals, whoever else is at work.
Linked(l) ==
    \A i \in DOMAIN l.rows :
        /\ <<l.rows[i].player, l.rows[i].elo>> \in userElos
        /\ elos[l.rows[i].elo].scope = l.scope
        /\ l.rows[i].games <= RatedCount(ledger[Of(l, i)])

Backed(label, l) ==
    /\ Linked(l)
    /\ label = "linkElo" =>
          /\ l.fresh \in DOMAIN elos /\ elos[l.fresh] = DefaultElo(l.scope)
          /\ \A p \in Players : <<p, l.fresh>> \notin userElos
    /\ label = "mark" => [game |-> l.game, won |-> Won(l)] \in ToSet(ledger[Of(l, l.at)])

Unsaved(label, l, i) ==
    \/ label \in Fetching
    \/ label = "save" /\ i >= l.at
    \/ label = "mark" /\ i > l.at

\* What was read of a rating is still so, until the row is written.
Exact(label, l) ==
    /\ \A i \in DOMAIN l.rows : Of(l, i) \notin blurred /\ Unsaved(label, l, i) =>
          /\ l.rows[i].games = elos[l.rows[i].elo].games
          /\ l.rows[i].streak = elos[l.rows[i].elo].streak
          /\ l.rows[i].best = elos[l.rows[i].elo].best
    /\ label \in {"insertElo", "linkElo"} /\ <<Head(l.todo), l.scope>> \notin blurred =>
          EloRowsOf(Head(l.todo), l.scope) = {}

\* Nobody is dealt with twice.
Once(l) ==
    /\ \A i, j \in DOMAIN l.rows :
          i # j /\ l.rows[i].player = l.rows[j].player => Of(l, i) \in blurred
    /\ \A i \in DOMAIN l.rows, j \in DOMAIN l.todo :
          l.rows[i].player = l.todo[j] => Of(l, i) \in blurred
    /\ \A i, j \in DOMAIN l.todo :
          i # j /\ l.todo[i] = l.todo[j] => <<l.todo[i], l.scope>> \in blurred

RatingRequests ==
    \A r \in Requests : pc[r] \in RatingLabels =>
        Shape(pc[r], loc[r]) /\ Backed(pc[r], loc[r]) /\ Exact(pc[r], loc[r]) /\ Once(loc[r])

Apart ==
    \A q, r \in Requests : q # r =>
        /\ Concerns(q) \cap Concerns(r) \subseteq blurred
        /\ pc[q] = "linkElo" /\ pc[r] = "linkElo" => loc[q].fresh # loc[r].fresh

\* The first two parts of RatingsCountGames.
NeverAhead ==
    /\ \A e \in DOMAIN elos : elos[e].best >= elos[e].streak
    /\ \A k \in Keys : \A e \in EloRowsOf(k[1], k[2]) :
          /\ elos[e].games <= RatedCount(ledger[k])
          /\ \A g \in Games :
                /\ <<e, g>> \in wins => [game |-> g, won |-> TRUE] \in ToSet(ledger[k])
                /\ <<e, g>> \in loses => [game |-> g, won |-> FALSE] \in ToSet(ledger[k])

Pending(e, g, won) ==
    \E r \in Requests :
        /\ pc[r] = "mark" /\ loc[r].game = g /\ Won(loc[r]) = won
        /\ loc[r].rows[loc[r].at].elo = e

\* The rows of a rating sum up its results, but for a mark that is on its way.
Tallied(k) ==
    /\ \A e, f \in EloRowsOf(k[1], k[2]) : e = f
    /\ ledger[k] # <<>> => EloRowsOf(k[1], k[2]) # {}
    /\ \A e \in EloRowsOf(k[1], k[2]) :
          /\ elos[e].games = RatedCount(ledger[k])
          /\ elos[e].streak = Streak(ledger[k])
          /\ IsBest(ledger[k], elos[e].best)
          /\ \A g \in games :
                /\ [game |-> g, won |-> TRUE] \in ToSet(ledger[k]) =>
                      <<e, g>> \in wins \/ Pending(e, g, TRUE)
                /\ [game |-> g, won |-> FALSE] \in ToSet(ledger[k]) =>
                      <<e, g>> \in loses \/ Pending(e, g, FALSE)

RatingInv ==
    /\ RatingTables /\ Owned /\ RatingRequests /\ Apart /\ NeverAhead
    /\ \A k \in Keys \ blurred : Tallied(k)

-----------------------------------------------------------------------------
\* Who else is at work while ratings are worked on.

RatingRests(q) == pc[q] \in RatingLabels \/ pc'[q] \in RatingLabels => Stays(q)

LEMMA ElsewhereRests ==
    ASSUME FlightOK, OthersOK, NEW r \in Requests,
           \/ AccountStep(r) \/ Erase(r) \/ BeginAccountCall(r) \/ StopAccountCall(r)
           \/ MembershipStep(r) \/ BeginMembershipCall(r) \/ StopMembershipCall(r)
           \/ LogoStep(r) \/ BeginLogoCall(r) \/ StopLogo(r)
           \/ MatchStep(r) \/ BeginMatchCall(r) \/ StopSocial(r)
    PROVE  \A q \in Requests : RatingRests(q)
<1>0. ASSUME NEW to, NEW x, Moves(r, to, x), pc[r] \notin RatingLabels, to \notin RatingLabels
      PROVE  \A q \in Requests : RatingRests(q)
  BY <1>0 DEF Moves, RatingRests, Stays, FlightOK, LocOK, PcOK
<1>1. \E to, x : Moves(r, to, x)
  BY AccountMoves, MembershipBegins, MembershipMoves, MembershipStops, LogoMoves, MatchMoves
  DEF Erase, ForeignMove
<1>2. pc'[r] \notin RatingLabels
  <2>1. CASE AccountStep(r) \/ Erase(r) \/ BeginAccountCall(r)
    BY <2>1, AccountTargets DEF Erase, AccountLabels, RatingLabels
  <2>2. CASE MembershipStep(r) \/ BeginMembershipCall(r)
    BY <2>2, MembershipUsers, MembershipBegun DEF MembershipLabels, RatingLabels
  <2>3. CASE LogoStep(r) \/ BeginLogoCall(r)
    BY <2>3, LogoUsers, LogoBegun DEF LogoLabels, Uploading, Removing, RatingLabels
  <2>4. CASE MatchStep(r) \/ BeginMatchCall(r)
    BY <2>4, MatchUsers DEF SocialLabels, RatingLabels
  <2>5. CASE StopAccountCall(r) \/ StopMembershipCall(r) \/ StopLogo(r) \/ StopSocial(r)
    BY <2>5 DEF StopAccountCall, StopMembershipCall, StopLogo, StopSocial, Drop, RatingLabels,
       FlightOK, PcOK
  <2>. QED BY <2>1, <2>2, <2>3, <2>4, <2>5
<1>3. pc[r] \notin RatingLabels
  <2>. USE DEF RatingLabels
  <2>1. CASE AccountStep(r) \/ Erase(r) \/ StopAccountCall(r)
    BY <2>1 DEF AccountStep, Authenticate, Sweep, GiveUp, AskRefresh, FindSession, SweepOld,
       Rotate, Resend, EditProfile, CheckPassword, IssueSession, SignIn, Logout, ClearCookies,
       Mail, DiscardLetter, SetPassword, SetVerified, SpendLetter, RevokeSessions, Erase,
       Tombstone, StopAccountCall, AccountLabels
  <2>2. CASE BeginAccountCall(r)
    BY <2>2 DEF BeginAccountCall, Send, BeginLogin, BeginLogout, Register, RequestLetter,
       UseLetter, Start
  <2>3. CASE MembershipStep(r) \/ StopMembershipCall(r)
    BY <2>3 DEF MembershipStep, FoundMember, Apply, FindMember, Admit, ClearRequest, ReadMember,
       Unseat, DropDummy, DropUser, InsertDummy, InsertPlaceholder, SeatDummy, AddBot, MakeAdmin,
       UnmakeAdmin, WriteAdmin, RecordInvitation, FindInvited, SeatInvited, StopMembershipCall,
       MembershipLabels
  <2>4. CASE BeginMembershipCall(r)
    <3>1. ASSUME NEW label, NEW x, BeginFor(r, label, x) \/ Start(r, label, x)
          PROVE  pc[r] = "idle"
      BY <3>1 DEF BeginFor, Start
    <3>2. ASSUME NEW u \in Users, NEW c \in Clubs,
                 CreateClub(r, u, c) \/ RequestToJoin(r, u, c) \/ CreateDummy(r, u, c)
          PROVE  pc[r] = "idle"
      BY <3>1, <3>2 DEF CreateClub, RequestToJoin, CreateDummy
    <3>3. ASSUME NEW u \in Users, NEW i, AcceptRequest(r, u, i) \/ RejectRequest(r, u, i)
          PROVE  pc[r] = "idle"
      BY <3>1, <3>3 DEF AcceptRequest, RejectRequest, BeginAnswer
    <3>4. ASSUME NEW u \in Users, NEW m,
                 \/ DeleteMember(r, u, m) \/ LeaveClub(r, u, m)
                 \/ PromoteMember(r, u, m) \/ DemoteMember(r, u, m)
          PROVE  pc[r] = "idle"
      BY <3>1, <3>4 DEF DeleteMember, LeaveClub, PromoteMember, DemoteMember, BeginMemberCall
    <3>5. ASSUME NEW u \in Users, NEW c \in Clubs, NEW who \in Users, Invite(r, u, c, who)
          PROVE  pc[r] = "idle"
      BY <3>1, <3>5 DEF Invite
    <3>. QED BY <2>4, <3>2, <3>3, <3>4, <3>5 DEF BeginMembershipCall
  <2>5. CASE LogoStep(r) \/ BeginLogoCall(r) \/ StopLogo(r)
    BY <2>5 DEF LogoStep, PutLogo, SetLogo, ReadLogo, DropLogo, ClearLogo, BeginLogoCall,
       UploadLogo, RemoveLogo, BeginLogo, Start, StopLogo, LogoLabels, Uploading, Removing
  <2>6. CASE MatchStep(r) \/ BeginMatchCall(r) \/ StopSocial(r)
    BY <2>6 DEF MatchStep, Swap, Split, BeginMatchCall, CreateSocial, Start, StopSocial,
       SocialLabels
  <2>. QED BY <2>1, <2>2, <2>3, <2>4, <2>5, <2>6
<1>4. PICK to, x : Moves(r, to, x)
  BY <1>1
<1>5. to \notin RatingLabels
  BY <1>2, <1>4 DEF Moves, FlightOK, PcOK
<1>. QED BY <1>0, <1>3, <1>4, <1>5

RatingMove(r) == BeginRatingCall(r) \/ RatingStep(r) \/ StopRating(r)

LEMMA RatingNext ==
    ASSUME FlightOK, OthersOK, [Next]_vars
    PROVE  \/ /\ \A q \in Requests : RatingRests(q)
              /\ UNCHANGED ratingsVars \/ \E g \in Games : DeleteGame(g)
           \/ \E r \in Requests : RatingMove(r)
<1>. DEFINE Goal == \/ /\ \A q \in Requests : RatingRests(q)
                       /\ UNCHANGED ratingsVars \/ \E g \in Games : DeleteGame(g)
                    \/ \E r \in Requests : RatingMove(r)
<1>0. ASSUME UNCHANGED flight PROVE \A q \in Requests : RatingRests(q)
  BY <1>0 DEF flight, RatingRests, Stays
<1>1. CASE UNCHANGED vars
  BY <1>0, <1>1 DEF vars
<1>2. CASE AtOnce
  <2>1. UNCHANGED flight
    BY <1>2 DEF AtOnce, TimePasses, AccessExpires, RefreshExpires, LetterExpires, DropAccess,
       DropRefresh, MembershipAtOnce, DeleteClub, CancelRequest, RatingAtOnce, DeleteGame,
       MatchAtOnce, CreateSbmm
  <2>2. UNCHANGED ratingsVars \/ \E g \in Games : DeleteGame(g)
    BY <1>2 DEF AtOnce, RatingAtOnce
  <2>. QED BY <1>0, <2>1, <2>2
<1>3. ASSUME NEW r \in Requests, Begin(r) \/ Step(r) \/ Stop(r) PROVE Goal
  <2>1. CASE RatingMove(r)
    BY <2>1
  <2>2. CASE ~RatingMove(r)
    <3>1. UNCHANGED ratingsVars
      BY <1>3, <2>2 DEF Begin, Step, Stop, Erase, RatingMove
    <3>2. \A q \in Requests : RatingRests(q)
      BY <1>3, <2>2, ElsewhereRests DEF Begin, Step, Stop, RatingMove
    <3>. QED BY <3>1, <3>2
  <2>. QED BY <2>1, <2>2
<1>. QED BY <1>1, <1>2, <1>3 DEF Next

-----------------------------------------------------------------------------
\* What the locals of a request are about.

LEMMA WorkedOn ==
    ASSUME NEW label, NEW l, Shape(label, l)
    PROVE  /\ \A i \in DOMAIN l.rows :
                 /\ l.rows[i] \in ReadRow /\ Of(l, i) \in Keys /\ Of(l, i) \in Works(l)
           /\ \A j \in DOMAIN l.todo :
                 l.todo[j] \in Players /\ <<l.todo[j], l.scope>> \in Keys \cap Works(l)
           /\ Works(l) \subseteq Keys
           /\ l.todo # <<>> =>
                 Head(l.todo) \in Players /\ <<Head(l.todo), l.scope>> \in Keys \cap Works(l)
<1>1. l.todo \in Seq(Players) /\ l.rows \in Seq(ReadRow) /\ l.scope \in Scopes
  BY DEF Shape, RatingLoc
<1>2. ASSUME NEW i \in DOMAIN l.rows
      PROVE  l.rows[i] \in ReadRow /\ Of(l, i) \in Keys /\ Of(l, i) \in Works(l)
  <2>1. l.rows[i] \in ReadRow
    BY <1>1
  <2>. QED BY <1>1, <2>1 DEF Of, Keys, ReadRow, Works
<1>3. ASSUME NEW j \in DOMAIN l.todo
      PROVE  l.todo[j] \in Players /\ <<l.todo[j], l.scope>> \in Keys \cap Works(l)
  <2>1. l.todo[j] \in Players /\ l.todo[j] \in ToSet(l.todo)
    BY <1>1 DEF ToSet
  <2>. QED BY <1>1, <2>1 DEF Keys, Works
<1>4. Works(l) \subseteq Keys
  <2>1. ToSet(l.todo) \subseteq Players
    BY <1>1 DEF ToSet
  <2>2. \A i \in DOMAIN l.rows : l.rows[i].player \in Players
    BY <1>2 DEF ReadRow
  <2>. QED BY <1>1, <2>1, <2>2 DEF Works, Keys
<1>5. ASSUME l.todo # <<>>
      PROVE  Head(l.todo) \in Players /\ <<Head(l.todo), l.scope>> \in Keys \cap Works(l)
  <2>1. 1 \in DOMAIN l.todo /\ Head(l.todo) = l.todo[1]
    BY <1>1, <1>5
  <2>. QED BY <1>3, <2>1
<1>. QED BY <1>2, <1>3, <1>4, <1>5

LEMMA ConcernsAre ==
    ASSUME NEW r \in Requests
    PROVE  Concerns(r) = IF pc[r] \in RatingLabels THEN Works(loc[r]) ELSE {}
BY DEF Concerns, Works

LEMMA ConcernsBecome ==
    ASSUME NEW r \in Requests
    PROVE  Concerns(r)' = IF pc'[r] \in RatingLabels THEN Works(loc'[r]) ELSE {}
BY DEF Concerns, Works

\* A rating row is that of one player in one scope.
LEMMA OneKey ==
    ASSUME RatingTables, Owned, NEW k \in Keys, NEW e \in EloRowsOf(k[1], k[2]),
           NEW p \in Players, <<p, e>> \in userElos
    PROVE  <<p, elos[e].scope>> = k
BY DEF EloRowsOf, Owned, Keys

-----------------------------------------------------------------------------
\* What a statement leaves of the rest.

Grows ==
    /\ userElos \subseteq userElos' /\ blurred \subseteq blurred'
    /\ \A e \in DOMAIN elos : e \in DOMAIN elos' /\ elos'[e].scope = elos[e].scope
    /\ \A k \in Keys : /\ RatedCount(ledger[k]) <= RatedCount(ledger'[k])
                       /\ ToSet(ledger[k]) \subseteq ToSet(ledger'[k])

Undisturbed(k) ==
    /\ EloRowsOf(k[1], k[2])' = EloRowsOf(k[1], k[2])
    /\ \A e \in EloRowsOf(k[1], k[2]) : elos'[e] = elos[e]

LEMMA LedgerCounts ==
    ASSUME RatingTables, NEW k \in Keys
    PROVE  ledger[k] \in Seq(Result) /\ RatedCount(ledger[k]) \in Nat
<1>1. ledger[k] \in Seq(Result)
  BY DEF RatingTables
<1>. QED BY <1>1, RatedIsNat


LEMMA LinkedCarries ==
    ASSUME RatingTables, RatingTables', Grows, NEW label, NEW l, Shape(label, l), Linked(l)
    PROVE  Linked(l)'
<1>1. ASSUME NEW i \in DOMAIN l.rows
      PROVE  /\ <<l.rows[i].player, l.rows[i].elo>> \in userElos'
             /\ elos'[l.rows[i].elo].scope = l.scope
             /\ l.rows[i].games <= RatedCount(ledger'[Of(l, i)])
  <2>0. l.rows[i] \in ReadRow /\ Of(l, i) \in Keys
    BY WorkedOn
  <2>1. /\ <<l.rows[i].player, l.rows[i].elo>> \in userElos
        /\ elos[l.rows[i].elo].scope = l.scope
        /\ l.rows[i].games <= RatedCount(ledger[Of(l, i)])
        /\ l.rows[i].games \in Nat
    BY <2>0 DEF Linked, ReadRow
  <2>2. l.rows[i].elo \in DOMAIN elos
    BY <2>1 DEF RatingTables
  <2>3. /\ RatedCount(ledger[Of(l, i)]) \in Nat /\ RatedCount(ledger'[Of(l, i)]) \in Nat
        /\ RatedCount(ledger[Of(l, i)]) <= RatedCount(ledger'[Of(l, i)])
    BY <2>0, RatedIsNat DEF Grows, RatingTables
  <2>. QED BY <2>1, <2>2, <2>3 DEF Grows
<1>. QED BY <1>1 DEF Linked

LEMMA BackedCarries ==
    ASSUME RatingTables, RatingTables', Grows, NEW label, NEW l, Shape(label, l), Backed(label, l),
           label = "linkElo" => /\ elos'[l.fresh] = elos[l.fresh]
                                /\ \A p \in Players : <<p, l.fresh>> \notin userElos'
    PROVE  Backed(label, l)'
<1>1. Linked(l)'
  BY LinkedCarries DEF Backed
<1>2. ASSUME label = "linkElo"
      PROVE  /\ l.fresh \in DOMAIN elos' /\ elos'[l.fresh] = DefaultElo(l.scope)
             /\ \A p \in Players : <<p, l.fresh>> \notin userElos'
  BY <1>2 DEF Backed, Grows
<1>3. ASSUME label = "mark"
      PROVE  [game |-> l.game, won |-> Won(l)] \in ToSet(ledger'[Of(l, l.at)])
  <2>1. l.at \in DOMAIN l.rows
    BY <1>3 DEF Shape, Writing, RatingLoc
  <2>. QED BY <1>3, <2>1, WorkedOn DEF Backed, Grows
<1>. QED BY <1>1, <1>2, <1>3 DEF Backed

LEMMA ExactCarries ==
    ASSUME RatingTables, Grows, NEW label, NEW l, Shape(label, l), Linked(l), Exact(label, l),
           \A i \in DOMAIN l.rows :
               Of(l, i) \notin blurred' /\ Unsaved(label, l, i) => Undisturbed(Of(l, i)),
           label \in {"insertElo", "linkElo"} /\ <<Head(l.todo), l.scope>> \notin blurred' =>
               Undisturbed(<<Head(l.todo), l.scope>>)
    PROVE  Exact(label, l)'
<1>1. ASSUME NEW i \in DOMAIN l.rows, Of(l, i) \notin blurred', Unsaved(label, l, i)
      PROVE  elos'[l.rows[i].elo] = elos[l.rows[i].elo] /\ Of(l, i) \notin blurred
  <2>1. Undisturbed(Of(l, i)) /\ Of(l, i) \notin blurred
    BY <1>1 DEF Grows
  <2>2. l.rows[i].elo \in EloRowsOf(l.rows[i].player, l.scope)
    BY DEF Linked, RatingTables, EloRowsOf
  <2>3. l.rows[i].elo \in EloRowsOf(Of(l, i)[1], Of(l, i)[2])
    BY <2>2 DEF Of
  <2>. QED BY <2>1, <2>3 DEF Undisturbed
<1>2. ASSUME label \in {"insertElo", "linkElo"}, <<Head(l.todo), l.scope>> \notin blurred'
      PROVE  EloRowsOf(Head(l.todo), l.scope)' = {}
  <2>. DEFINE k == <<Head(l.todo), l.scope>>
  <2>1. k \notin blurred /\ Undisturbed(k)
    BY <1>2 DEF Grows
  <2>2. EloRowsOf(k[1], k[2]) = {}
    BY <1>2, <2>1 DEF Exact
  <2>3. EloRowsOf(k[1], k[2])' = {}
    BY <2>1, <2>2 DEF Undisturbed
  <2>. QED BY <2>3
<1>. QED BY <1>1, <1>2 DEF Exact

\* The locals of a request whose ratings are left alone hold what they held.
LEMMA LocalsCarry ==
    ASSUME RatingTables, RatingTables', Grows,
           NEW label, NEW l, Shape(label, l), Backed(label, l), Exact(label, l), Once(l),
           \A k \in Works(l) \ blurred' : Undisturbed(k),
           label = "linkElo" => /\ elos'[l.fresh] = elos[l.fresh]
                                /\ \A p \in Players : <<p, l.fresh>> \notin userElos'
    PROVE  Backed(label, l)' /\ Exact(label, l)' /\ Once(l)'
<1>1. Backed(label, l)'
  BY BackedCarries
<1>2. Exact(label, l)'
  <2>1. \A i \in DOMAIN l.rows : Of(l, i) \notin blurred' => Undisturbed(Of(l, i))
    BY WorkedOn
  <2>2. ASSUME label \in {"insertElo", "linkElo"}, <<Head(l.todo), l.scope>> \notin blurred'
        PROVE  Undisturbed(<<Head(l.todo), l.scope>>)
    <3>1. l.todo # <<>>
      BY <2>2 DEF Shape, Fetching
    <3>. QED BY <2>2, <3>1, WorkedOn
  <2>. QED BY <2>1, <2>2, ExactCarries DEF Backed
<1>3. Once(l)'
  BY DEF Once, Grows
<1>. QED BY <1>1, <1>2, <1>3

\* The other requests, when only r moves and disturbs no ratings but its own.
LEMMA RequestsCarry ==
    ASSUME RatingTables, RatingTables', RatingRequests, Apart, Grows, NEW r \in Requests,
           \A q \in Requests \ {r} : RatingRests(q),
           \A k \in Keys \ (Concerns(r) \cup blurred') : Undisturbed(k),
           \A q \in Requests \ {r} : pc[q] = "linkElo" =>
               /\ elos'[loc[q].fresh] = elos[loc[q].fresh]
               /\ \A p \in Players : <<p, loc[q].fresh>> \notin userElos',
           pc'[r] \in RatingLabels =>
               /\ Shape(pc'[r], loc'[r]) /\ Once(loc[r])'
               /\ Backed(pc[r], loc[r])' /\ Exact(pc[r], loc[r])'
    PROVE  RatingRequests'
<1>. SUFFICES ASSUME NEW q \in Requests, NEW label, NEW l, label = pc'[q], l = loc'[q],
                     label \in RatingLabels
              PROVE  Shape(label, l) /\ Backed(label, l)' /\ Exact(label, l)' /\ Once(l)'
  BY DEF RatingRequests
<1>1. CASE q = r
  BY <1>1
<1>2. CASE q # r
  <2>1. label = pc[q] /\ l = loc[q]
    BY <1>2 DEF RatingRests, Stays
  <2>2. Shape(label, l) /\ Backed(label, l) /\ Exact(label, l) /\ Once(l)
    BY <2>1 DEF RatingRequests
  <2>3. Concerns(q) = Works(l)
    BY <2>1, ConcernsAre
  <2>4. \A k \in Works(l) \ blurred' : Undisturbed(k)
    <3>1. Concerns(q) \cap Concerns(r) \subseteq blurred'
      BY <1>2 DEF Apart, Grows
    <3>. QED BY <2>2, <2>3, <3>1, WorkedOn
  <2>5. label = "linkElo" => /\ elos'[l.fresh] = elos[l.fresh]
                             /\ \A p \in Players : <<p, l.fresh>> \notin userElos'
    <3>1. q \in Requests \ {r} /\ (label = "linkElo" => pc[q] = "linkElo")
      BY <1>2, <2>1
    <3>2. label = "linkElo" =>
              /\ elos'[loc[q].fresh] = elos[loc[q].fresh]
              /\ \A p \in Players : <<p, loc[q].fresh>> \notin userElos'
      BY <3>1
    <3>3. l.fresh = loc[q].fresh
      BY <2>1
    <3>. QED BY <3>2, <3>3
  <2>. QED BY <2>2, <2>4, <2>5, LocalsCarry
<1>. QED BY <1>1, <1>2

LEMMA ApartCarries ==
    ASSUME Apart, blurred \subseteq blurred', NEW r \in Requests,
           \A q \in Requests \ {r} : RatingRests(q),
           \A q \in Requests \ {r} : Concerns(q) \cap Concerns(r)' \subseteq blurred',
           pc'[r] = "linkElo" =>
               \A q \in Requests \ {r} : pc[q] = "linkElo" => loc[q].fresh # loc'[r].fresh
    PROVE  Apart'
<1>1. ASSUME NEW q \in Requests, q # r PROVE Concerns(q)' = Concerns(q)
  BY <1>1, ConcernsAre, ConcernsBecome DEF RatingRests, Stays
<1>2. ASSUME NEW p \in Requests, NEW q \in Requests, p # q
      PROVE  Concerns(p)' \cap Concerns(q)' \subseteq blurred'
  <2>1. CASE p # r /\ q # r
    BY <1>1, <1>2, <2>1 DEF Apart
  <2>2. CASE p = r \/ q = r
    BY <1>1, <1>2, <2>2
  <2>. QED BY <2>1, <2>2
<1>3. ASSUME NEW p \in Requests, NEW q \in Requests, p # q, pc'[p] = "linkElo", pc'[q] = "linkElo"
      PROVE  loc'[p].fresh # loc'[q].fresh
  <2>1. ASSUME NEW o \in Requests, o # r, pc'[o] = "linkElo"
        PROVE  pc[o] = "linkElo" /\ loc'[o] = loc[o]
    BY <2>1 DEF RatingRests, Stays, RatingLabels
  <2>. QED BY <1>3, <2>1 DEF Apart
<1>. QED BY <1>2, <1>3 DEF Apart

\* What sums up the results of a rating still does, when nothing of it changes.
LEMMA TallyCarries ==
    ASSUME NEW k \in Keys, Tallied(k), Undisturbed(k), ledger'[k] = ledger[k],
           games' \subseteq games,
           \A e \in EloRowsOf(k[1], k[2]) : \A g \in games' :
               /\ <<e, g>> \in wins \/ Pending(e, g, TRUE) =>
                     <<e, g>> \in wins' \/ Pending(e, g, TRUE)'
               /\ <<e, g>> \in loses \/ Pending(e, g, FALSE) =>
                     <<e, g>> \in loses' \/ Pending(e, g, FALSE)'
    PROVE  Tallied(k)'
<1>. SUFFICES /\ \A e, f \in EloRowsOf(k[1], k[2])' : e = f
              /\ ledger'[k] # <<>> => EloRowsOf(k[1], k[2])' # {}
              /\ \A e \in EloRowsOf(k[1], k[2])' :
                    /\ elos'[e].games = RatedCount(ledger'[k])
                    /\ elos'[e].streak = Streak(ledger'[k])
                    /\ IsBest(ledger'[k], elos'[e].best)
                    /\ \A g \in games' :
                          /\ [game |-> g, won |-> TRUE] \in ToSet(ledger'[k]) =>
                                <<e, g>> \in wins' \/ Pending(e, g, TRUE)'
                          /\ [game |-> g, won |-> FALSE] \in ToSet(ledger'[k]) =>
                                <<e, g>> \in loses' \/ Pending(e, g, FALSE)'
  BY DEF Tallied
<1>1. EloRowsOf(k[1], k[2])' = EloRowsOf(k[1], k[2])
  BY DEF Undisturbed
<1>2. ASSUME NEW e \in EloRowsOf(k[1], k[2]) PROVE elos'[e] = elos[e]
  BY DEF Undisturbed
<1>. QED BY <1>1, <1>2 DEF Tallied

\* A mark on its way arrives, or stays on its way, whatever others do.
LEMMA PendingCarries ==
    ASSUME NEW r \in Requests, \A q \in Requests \ {r} : RatingRests(q),
           NEW e, NEW g, NEW won, Pending(e, g, won),
           ~(pc[r] = "mark" /\ loc[r].rows[loc[r].at].elo = e /\ loc[r].game = g /\ Won(loc[r]) = won)
    PROVE  Pending(e, g, won)'
<1>1. PICK q \in Requests :
         /\ pc[q] = "mark" /\ loc[q].game = g /\ Won(loc[q]) = won
         /\ loc[q].rows[loc[q].at].elo = e
  BY DEF Pending
<1>2. q # r /\ pc'[q] = pc[q] /\ loc'[q] = loc[q]
  BY <1>1 DEF RatingRests, Stays, RatingLabels
<1>3. Won(loc'[q]) = won
  BY <1>1, <1>2
<1>4. Won(loc[q])' = won
  BY <1>3 DEF Won
<1>. QED BY <1>1, <1>2, <1>4 DEF Pending


LEMMA OthersRest ==
    ASSUME FlightOK, NEW r \in Requests, NEW to, NEW x, Goto(r, to, x) \/ Drop(r)
    PROVE  \A q \in Requests \ {r} : RatingRests(q)
BY DEF FlightOK, LocOK, PcOK, Goto, Drop, RatingRests, Stays

LEMMA TablesRest ==
    ASSUME RatingTables, Owned, NeverAhead, blurred \subseteq blurred', blurred' \subseteq Keys,
           UNCHANGED <<games, elos, userElos, wins, loses, lastElo, ledger>>
    PROVE  /\ RatingTables' /\ Owned' /\ NeverAhead' /\ Grows
           /\ \A k \in Keys : Undisturbed(k)
<1>1. ASSUME NEW k \in Keys PROVE EloRowsOf(k[1], k[2])' = EloRowsOf(k[1], k[2])
  BY DEF EloRowsOf
<1>2. RatingTables' /\ Owned'
  BY DEF RatingTables, Owned
<1>3. NeverAhead'
  BY <1>1 DEF NeverAhead
<1>4. Grows
  BY LedgerCounts DEF Grows
<1>. QED BY <1>1, <1>2, <1>3, <1>4 DEF Undisturbed

-----------------------------------------------------------------------------
\* Requests come and go.

LEMMA BeginKeeps ==
    ASSUME FlightOK, RatingInv, NEW r \in Requests, NEW l, BeginRating(r, l),
           l \in RatingLoc, l.todo # <<>>, l.rows = <<>>, l.at = 1
    PROVE  RatingInv'
<1>1. pc[r] = "idle" /\ pc'[r] = "fetch" /\ loc'[r] = l
  BY GoesTo DEF BeginRating, Start
<1>2. \A q \in Requests \ {r} : RatingRests(q)
  BY OthersRest DEF BeginRating, Start
<1>3. Shape("fetch", l)
  BY DEF Shape, Fetching, Writing
<1>4. /\ Works(l) \subseteq Keys /\ Works(l) = {<<p, l.scope>> : p \in ToSet(l.todo)}
      /\ \A j \in DOMAIN l.todo : <<l.todo[j], l.scope>> \in Keys
  <2>1. {<<l.rows[i].player, l.scope>> : i \in DOMAIN l.rows} = {}
    OBVIOUS
  <2>. QED BY <1>3, <2>1, WorkedOn DEF Works
<1>5. /\ blurred \subseteq blurred' /\ blurred' \subseteq Keys
      /\ \A p \in Twice(l.todo) : <<p, l.scope>> \in blurred'
      /\ \A q \in Requests \ {r} : Concerns(q) \cap Works(l) \subseteq blurred'
  BY <1>4 DEF BeginRating, Twice, RatingInv, RatingTables
<1>6. /\ RatingTables' /\ Owned' /\ NeverAhead' /\ Grows
      /\ \A k \in Keys : Undisturbed(k)
  BY <1>5, TablesRest DEF BeginRating, RatingInv
<1>7. Once(l)'
  <2>1. ASSUME NEW i \in DOMAIN l.todo, NEW j \in DOMAIN l.todo, i # j, l.todo[i] = l.todo[j]
        PROVE  <<l.todo[i], l.scope>> \in blurred'
    <3>1. l.todo[i] \in Twice(l.todo)
      BY <2>1 DEF Twice, ToSet
    <3>. QED BY <1>5, <3>1
  <2>2. DOMAIN l.rows = {}
    OBVIOUS
  <2>. QED BY <2>1, <2>2 DEF Once
<1>8. Backed("fetch", l)' /\ Exact("fetch", l)'
  BY DEF Backed, Linked, Exact
<1>9. RatingRequests'
  <2>1. \A q \in Requests \ {r} : pc[q] = "linkElo" =>
            /\ elos'[loc[q].fresh] = elos[loc[q].fresh]
            /\ \A p \in Players : <<p, loc[q].fresh>> \notin userElos'
    BY DEF BeginRating, RatingInv, RatingRequests, RatingLabels, Backed
  <2>2. Once(loc[r])' /\ Backed(pc[r], loc[r])' /\ Exact(pc[r], loc[r])'
    BY <1>1, <1>7, <1>8 DEF Once, Backed, Exact
  <2>. QED BY <1>1, <1>2, <1>3, <1>6, <2>1, <2>2, RequestsCarry DEF RatingInv
<1>10. Apart'
  <2>1. Concerns(r)' = Works(l)
    BY <1>1, ConcernsBecome DEF RatingLabels
  <2>. QED BY <1>1, <1>2, <1>5, <2>1, ApartCarries DEF RatingInv
<1>11. ASSUME NEW k \in Keys \ blurred' PROVE Tallied(k)'
  <2>1. Tallied(k)
    BY <1>5, <1>11 DEF RatingInv
  <2>2. ASSUME NEW e, NEW g, NEW won, Pending(e, g, won) PROVE Pending(e, g, won)'
    BY <1>1, <1>2, <2>2, PendingCarries
  <2>3. ledger'[k] = ledger[k] /\ games' = games /\ wins' = wins /\ loses' = loses
    BY DEF BeginRating
  <2>. QED BY <1>6, <2>1, <2>2, <2>3, TallyCarries
<1>. QED BY <1>6, <1>9, <1>10, <1>11 DEF RatingInv

LooseLocals ==
    [user : {None}, game : Games \cup {None}, scope : Scopes \cup {None}, todo : Seq(Players),
     rows : Seq(ReadRow), fresh : Nat \cup {None}, at : Nat]

LEMMA CallKeeps ==
    ASSUME FlightOK, RatingInv, NEW r \in Requests, BeginRatingCall(r)
    PROVE  RatingInv'
<1>0. RatingLocals \in LooseLocals
  BY DEF RatingLocals, LooseLocals
<1>1. ASSUME NEW g \in Games, CompleteGame(r, g) PROVE RatingInv'
  <2>1. PICK l :
           /\ l = [RatingLocals EXCEPT !.game = g, !.scope = GameOf[g].scope,
                                       !.todo = GameOf[g].winners \o GameOf[g].losers]
           /\ BeginRating(r, l)
    BY <1>1 DEF CompleteGame
  <2>2. /\ GameOf[g].scope \in Scopes /\ GameOf[g].winners \o GameOf[g].losers # <<>>
        /\ GameOf[g].winners \o GameOf[g].losers \in Seq(Players)
    BY RatingsAssumption, ConcatProperties
  <2>3. PICK s \in Scopes, t \in Seq(Players) :
           t # <<>> /\ l = [RatingLocals EXCEPT !.game = g, !.scope = s, !.todo = t]
    BY <2>1, <2>2
  <2>4. l \in LooseLocals /\ l.scope = s
    BY <1>0, <2>3 DEF LooseLocals
  <2>5. l.todo = t /\ l.rows = <<>> /\ l.at = 1
    BY <2>3 DEF RatingLocals
  <2>6. l \in RatingLoc
    BY <2>4 DEF LooseLocals, RatingLoc
  <2>. QED BY <2>1, <2>3, <2>5, <2>6, BeginKeeps
<1>2. ASSUME NEW p \in Players, SeatPlayer(r, p) PROVE RatingInv'
  <2>1. PICK l :
           /\ l = [RatingLocals EXCEPT !.scope = "internal", !.todo = <<p>>]
           /\ BeginRating(r, l)
    BY <1>2 DEF SeatPlayer
  <2>2. "internal" \in Scopes /\ <<p>> \in Seq(Players) /\ <<p>> # <<>>
    BY DEF Scopes
  <2>3. PICK s \in Scopes, t \in Seq(Players) :
           t # <<>> /\ l = [RatingLocals EXCEPT !.scope = s, !.todo = t]
    BY <2>1, <2>2
  <2>4. l \in LooseLocals /\ l.scope = s
    BY <1>0, <2>3 DEF LooseLocals
  <2>5. l.todo = t /\ l.rows = <<>> /\ l.at = 1
    BY <2>3 DEF RatingLocals
  <2>6. l \in RatingLoc
    BY <2>4 DEF LooseLocals, RatingLoc
  <2>. QED BY <2>1, <2>3, <2>5, <2>6, BeginKeeps
<1>. QED BY <1>1, <1>2 DEF BeginRatingCall

LEMMA StopKeeps ==
    ASSUME FlightOK, RatingInv, NEW r \in Requests, StopRating(r)
    PROVE  RatingInv'
<1>1. pc[r] \in RatingLabels /\ pc'[r] = "idle"
  BY DEF StopRating, Drop, FlightOK, PcOK
<1>2. \A q \in Requests \ {r} : RatingRests(q)
  BY OthersRest DEF StopRating
<1>3. Concerns(r) = Works(loc[r]) /\ Concerns(r) \subseteq Keys
  BY <1>1, ConcernsAre, WorkedOn DEF RatingInv, RatingRequests
<1>4. blurred \subseteq blurred' /\ blurred' \subseteq Keys /\ Concerns(r) \subseteq blurred'
  BY <1>3 DEF StopRating, RatingInv, RatingTables
<1>5. /\ RatingTables' /\ Owned' /\ NeverAhead' /\ Grows
      /\ \A k \in Keys : Undisturbed(k)
  BY <1>4, TablesRest DEF StopRating, RatingInv
<1>6. RatingRequests'
  <2>1. \A q \in Requests \ {r} : pc[q] = "linkElo" =>
            /\ elos'[loc[q].fresh] = elos[loc[q].fresh]
            /\ \A p \in Players : <<p, loc[q].fresh>> \notin userElos'
    BY DEF StopRating, RatingInv, RatingRequests, RatingLabels, Backed
  <2>2. pc'[r] \notin RatingLabels
    BY <1>1 DEF RatingLabels
  <2>. QED BY <1>2, <1>5, <2>1, <2>2, RequestsCarry DEF RatingInv
<1>7. Apart'
  <2>1. Concerns(r)' = {}
    BY <1>1, ConcernsBecome DEF RatingLabels
  <2>. QED BY <1>1, <1>2, <1>4, <2>1, ApartCarries DEF RatingInv
<1>8. ASSUME NEW k \in Keys \ blurred' PROVE Tallied(k)'
  <2>1. Tallied(k)
    BY <1>4, <1>8 DEF RatingInv
  <2>2. ASSUME NEW e \in EloRowsOf(k[1], k[2]), NEW g, NEW won, Pending(e, g, won)
        PROVE  Pending(e, g, won)'
    <3>1. CASE pc[r] = "mark" /\ loc[r].rows[loc[r].at].elo = e
      <4>1. loc[r].at \in DOMAIN loc[r].rows /\ Shape(pc[r], loc[r]) /\ Backed(pc[r], loc[r])
        BY <1>1, <3>1 DEF RatingInv, RatingRequests, Shape, Writing, RatingLoc
      <4>2. /\ loc[r].rows[loc[r].at].player \in Players
            /\ <<loc[r].rows[loc[r].at].player, e>> \in userElos
            /\ elos[e].scope = loc[r].scope
            /\ Of(loc[r], loc[r].at) \in Concerns(r)
        <5>1. loc[r].rows[loc[r].at] \in ReadRow /\ Of(loc[r], loc[r].at) \in Works(loc[r])
          BY <4>1, WorkedOn
        <5>2. /\ <<loc[r].rows[loc[r].at].player, loc[r].rows[loc[r].at].elo>> \in userElos
              /\ elos[loc[r].rows[loc[r].at].elo].scope = loc[r].scope
          BY <4>1 DEF Backed, Linked
        <5>. QED BY <1>3, <3>1, <5>1, <5>2 DEF ReadRow
      <4>3. Of(loc[r], loc[r].at) = k
        BY <4>2, OneKey DEF RatingInv, Of
      <4>. QED BY <1>4, <1>8, <4>2, <4>3
    <3>2. CASE ~(pc[r] = "mark" /\ loc[r].rows[loc[r].at].elo = e)
      BY <1>2, <2>2, <3>2, PendingCarries
    <3>. QED BY <3>1, <3>2
  <2>3. ledger'[k] = ledger[k] /\ games' = games /\ wins' = wins /\ loses' = loses
    BY DEF StopRating
  <2>. QED BY <1>5, <2>1, <2>2, <2>3, TallyCarries
<1>. QED BY <1>5, <1>6, <1>7, <1>8 DEF RatingInv


LEMMA NobodyMoves ==
    ASSUME RatingTables, RatingTables', RatingRequests, Apart, Grows,
           \A q \in Requests : RatingRests(q),
           \A k \in Keys : Undisturbed(k), elos' = elos, userElos' = userElos
    PROVE  RatingRequests' /\ Apart'
<1>1. RatingRequests'
  <2>. SUFFICES ASSUME NEW q \in Requests, NEW label, NEW l, label = pc'[q], l = loc'[q],
                       label \in RatingLabels
                PROVE  Shape(label, l) /\ Backed(label, l)' /\ Exact(label, l)' /\ Once(l)'
    BY DEF RatingRequests
  <2>1. label = pc[q] /\ l = loc[q]
    BY DEF RatingRests, Stays
  <2>2. Shape(label, l) /\ Backed(label, l) /\ Exact(label, l) /\ Once(l)
    BY <2>1 DEF RatingRequests
  <2>3. \A k \in Works(l) \ blurred' : Undisturbed(k)
    BY <2>2, WorkedOn
  <2>4. label = "linkElo" => /\ elos'[l.fresh] = elos[l.fresh]
                             /\ \A p \in Players : <<p, l.fresh>> \notin userElos'
    BY <2>2 DEF Backed
  <2>. QED BY <2>2, <2>3, <2>4, LocalsCarry
<1>2. Apart'
  <2>1. \A q \in Requests : Concerns(q)' = Concerns(q)
    BY ConcernsAre, ConcernsBecome DEF RatingRests, Stays
  <2>2. \A q \in Requests : pc'[q] = "linkElo" => pc[q] = "linkElo" /\ loc'[q] = loc[q]
    BY DEF RatingRests, Stays, RatingLabels
  <2>3. ASSUME NEW p \in Requests, NEW q \in Requests, p # q
        PROVE  Concerns(p)' \cap Concerns(q)' \subseteq blurred'
    BY <2>1, <2>3 DEF Apart, Grows
  <2>. QED BY <2>2, <2>3 DEF Apart
<1>. QED BY <1>1, <1>2

LEMMA RestPending ==
    ASSUME \A q \in Requests : RatingRests(q), NEW e, NEW g, NEW won, Pending(e, g, won)
    PROVE  Pending(e, g, won)'
<1>1. PICK q \in Requests :
         /\ pc[q] = "mark" /\ loc[q].game = g /\ Won(loc[q]) = won
         /\ loc[q].rows[loc[q].at].elo = e
  BY DEF Pending
<1>2. pc'[q] = pc[q] /\ loc'[q] = loc[q]
  BY <1>1 DEF RatingRests, Stays, RatingLabels
<1>3. Won(loc[q])' = won
  BY <1>1, <1>2 DEF Won
<1>. QED BY <1>1, <1>2, <1>3 DEF Pending

\* Where nobody works on ratings, a game may still be deleted, with its marks.
LEMMA RestKeeps ==
    ASSUME RatingInv, \A q \in Requests : RatingRests(q),
           UNCHANGED ratingsVars \/ \E g \in Games : DeleteGame(g)
    PROVE  RatingInv'
<1>0. UNCHANGED <<elos, userElos, lastElo, ledger, blurred>>
  BY DEF ratingsVars, history, DeleteGame
<1>1. /\ games' \subseteq games /\ wins' \subseteq wins /\ loses' \subseteq loses
      /\ \A e : \A g \in games' : /\ <<e, g>> \in wins => <<e, g>> \in wins'
                                  /\ <<e, g>> \in loses => <<e, g>> \in loses'
  BY DEF ratingsVars, DeleteGame
<1>2. \A k \in Keys : Undisturbed(k)
  BY <1>0 DEF Undisturbed, EloRowsOf
<1>3. Grows
  BY <1>0, LedgerCounts DEF Grows, RatingInv
<1>4. RatingTables' /\ Owned'
  BY <1>0, <1>1 DEF RatingInv, RatingTables, Owned
<1>5. NeverAhead'
  <2>1. \A k \in Keys : EloRowsOf(k[1], k[2])' = EloRowsOf(k[1], k[2])
    BY <1>2 DEF Undisturbed
  <2>. QED BY <1>0, <1>1, <2>1 DEF RatingInv, NeverAhead
<1>6. RatingRequests' /\ Apart'
  BY <1>0, <1>2, <1>3, <1>4, NobodyMoves DEF RatingInv
<1>7. ASSUME NEW k \in Keys \ blurred' PROVE Tallied(k)'
  <2>1. Tallied(k)
    BY <1>0, <1>7 DEF RatingInv
  <2>. QED BY <1>0, <1>1, <1>2, <2>1, RestPending, TallyCarries
<1>. QED BY <1>4, <1>5, <1>6, <1>7 DEF RatingInv

-----------------------------------------------------------------------------
\* elo_row_for_member.

\* The locals once row e, as it was read or made, goes to the rows that were read.
WithRow(l, e, elo) ==
    [l EXCEPT !.todo = Tail(@), !.fresh = None,
              !.rows = Append(@, [player |-> Head(l.todo), elo |-> e, games |-> elo.games,
                                  streak |-> elo.streak, best |-> elo.best])]

LEMMA FetchedLocals ==
    ASSUME NEW l, Shape("fetch", l), Backed("fetch", l)', Exact("fetch", l)', Once(l)',
           NEW e \in Nat, NEW elo \in EloRow, elos'[e] = elo, elo.scope = l.scope,
           <<Head(l.todo), e>> \in userElos',
           elo.games <= RatedCount(ledger'[<<Head(l.todo), l.scope>>]),
           NEW x, x = WithRow(l, e, elo),
           NEW to, \/ to = "fetch" /\ x.todo # <<>>
                   \/ to = "save" /\ x.todo = <<>> /\ l.game # None
    PROVE  Shape(to, x) /\ Backed(to, x)' /\ Exact(to, x)' /\ Once(x)' /\ Works(x) \subseteq Works(l)
<1>. DEFINE p == Head(l.todo)
            new == [player |-> p, elo |-> e, games |-> elo.games, streak |-> elo.streak,
                    best |-> elo.best]
            n == Len(l.rows)
<1>1. /\ l \in RatingLoc /\ l.todo \in Seq(Players) /\ l.rows \in Seq(ReadRow) /\ l.todo # <<>>
      /\ l.at = 1 /\ l.scope \in Scopes
  BY DEF Shape, RatingLoc, Fetching
<1>2. p \in Players /\ new \in ReadRow
  <2>1. p \in Players
    BY <1>1
  <2>. QED BY <2>1 DEF ReadRow, EloRow
<1>3. /\ x.todo = Tail(l.todo) /\ x.rows = Append(l.rows, new) /\ x.scope = l.scope
      /\ x.at = 1 /\ x.game = l.game
  BY <1>1 DEF RatingLoc, WithRow
<1>4. x \in RatingLoc
  <2>1. Tail(l.todo) \in Seq(Players) /\ Append(l.rows, new) \in Seq(ReadRow)
    BY <1>1, <1>2, AppendProperties, HeadTailProperties
  <2>. QED BY <1>1, <2>1 DEF RatingLoc, WithRow
<1>5. /\ n \in Nat /\ DOMAIN x.rows = 1..n + 1 /\ Len(x.rows) = n + 1 /\ DOMAIN l.rows = 1..n
      /\ \A i \in 1..n : x.rows[i] = l.rows[i]
      /\ x.rows[n + 1] = new
  BY <1>1, <1>2, <1>3, AppendProperties
<1>6. \A j \in DOMAIN x.todo : j + 1 \in DOMAIN l.todo /\ x.todo[j] = l.todo[j + 1] /\ j \in Nat
  BY <1>1, <1>3
<1>7. 1 \in DOMAIN l.todo /\ l.todo[1] = p
  BY <1>1
<1>8. /\ new.player = p /\ new.elo = e
      /\ new.games = elo.games /\ new.streak = elo.streak /\ new.best = elo.best
  OBVIOUS
<1>. HIDE DEF p, new, n
<1>9. Shape(to, x)
  BY <1>1, <1>3, <1>4, <1>5 DEF Shape, Fetching, Writing, RatingLoc
<1>10. \A i \in 1..n : Of(x, i) = Of(l, i)
  BY <1>3, <1>5 DEF Of
<1>11. Of(x, n + 1) = <<p, l.scope>>
  BY <1>3, <1>5, <1>8 DEF Of
<1>12. Backed(to, x)'
  <2>1. ASSUME NEW i \in DOMAIN x.rows
        PROVE  /\ <<x.rows[i].player, x.rows[i].elo>> \in userElos'
               /\ elos'[x.rows[i].elo].scope = x.scope
               /\ x.rows[i].games <= RatedCount(ledger'[Of(x, i)])
    <3>1. CASE i \in 1..n
      BY <1>3, <1>5, <1>10, <3>1 DEF Backed, Linked
    <3>2. CASE i = n + 1
      BY <1>3, <1>5, <1>8, <1>11, <3>2 DEF p
    <3>3. i \in 1..n \/ i = n + 1
      BY <1>5
    <3>. QED BY <3>1, <3>2, <3>3
  <2>. QED BY <2>1 DEF Backed, Linked
<1>13. Exact(to, x)'
  <2>1. ASSUME NEW i \in DOMAIN x.rows, Of(x, i) \notin blurred'
        PROVE  /\ x.rows[i].games = elos'[x.rows[i].elo].games
               /\ x.rows[i].streak = elos'[x.rows[i].elo].streak
               /\ x.rows[i].best = elos'[x.rows[i].elo].best
    <3>1. CASE i \in 1..n
      BY <1>3, <1>5, <1>10, <2>1, <3>1 DEF Exact, Unsaved, Fetching
    <3>2. CASE i = n + 1
      BY <1>5, <1>8, <3>2
    <3>. QED BY <1>5, <3>1, <3>2
  <2>. QED BY <2>1 DEF Exact
<1>14. Once(x)'
  <2>1. ASSUME NEW i \in DOMAIN x.rows, NEW j \in DOMAIN x.rows, i # j,
               x.rows[i].player = x.rows[j].player
        PROVE  Of(x, i) \in blurred'
    <3>1. CASE i \in 1..n /\ j \in 1..n
      BY <1>5, <1>10, <2>1, <3>1 DEF Once
    <3>2. CASE i \in 1..n /\ j = n + 1
      BY <1>5, <1>7, <1>8, <1>10, <2>1, <3>2 DEF Once
    <3>3. CASE i = n + 1 /\ j \in 1..n
      <4>1. Of(l, j) = <<p, l.scope>>
        BY <1>5, <1>8, <2>1, <3>3 DEF Of
      <4>2. l.rows[j].player = l.todo[1]
        BY <1>5, <1>7, <1>8, <2>1, <3>3
      <4>3. Of(l, j) \in blurred'
        BY <1>5, <1>7, <3>3, <4>2 DEF Once
      <4>. QED BY <1>11, <3>3, <4>1, <4>3
    <3>. QED BY <1>5, <2>1, <3>1, <3>2, <3>3
  <2>2. ASSUME NEW i \in DOMAIN x.rows, NEW j \in DOMAIN x.todo, x.rows[i].player = x.todo[j]
        PROVE  Of(x, i) \in blurred'
    <3>1. CASE i \in 1..n
      BY <1>5, <1>6, <1>10, <2>2, <3>1 DEF Once
    <3>2. CASE i = n + 1
      <4>1. 1 # j + 1 /\ l.todo[1] = l.todo[j + 1] /\ j + 1 \in DOMAIN l.todo
        <5>1. j + 1 \in DOMAIN l.todo /\ x.todo[j] = l.todo[j + 1] /\ 1 # j + 1
          BY <1>1, <1>3, <1>6
        <5>2. x.rows[i].player = p
          BY <1>5, <1>8, <3>2
        <5>. QED BY <1>7, <2>2, <5>1, <5>2
      <4>2. <<l.todo[1], l.scope>> \in blurred'
        BY <1>7, <4>1 DEF Once
      <4>. QED BY <1>7, <1>11, <3>2, <4>2
    <3>. QED BY <1>5, <3>1, <3>2
  <2>3. ASSUME NEW i \in DOMAIN x.todo, NEW j \in DOMAIN x.todo, i # j, x.todo[i] = x.todo[j]
        PROVE  <<x.todo[i], x.scope>> \in blurred'
    <3>1. /\ i + 1 # j + 1 /\ l.todo[i + 1] = l.todo[j + 1]
          /\ i + 1 \in DOMAIN l.todo /\ j + 1 \in DOMAIN l.todo
      BY <1>6, <2>3
    <3>2. <<l.todo[i + 1], l.scope>> \in blurred'
      BY <3>1 DEF Once
    <3>. QED BY <1>3, <1>6, <3>2
  <2>. QED BY <2>1, <2>2, <2>3 DEF Once
<1>15. Works(x) \subseteq Works(l)
  <2>1. \A q \in ToSet(x.todo) : q \in ToSet(l.todo)
    BY <1>6 DEF ToSet
  <2>2. p \in ToSet(l.todo)
    BY <1>7 DEF ToSet
  <2>3. \A i \in DOMAIN x.rows : \/ x.rows[i].player = p
                                 \/ i \in DOMAIN l.rows /\ x.rows[i].player = l.rows[i].player
    BY <1>5, <1>8
  <2>. QED BY <1>3, <2>1, <2>2, <2>3 DEF Works
<1>. QED BY <1>9, <1>12, <1>13, <1>14, <1>15


\* What Fetched does, for a request that read or made row e.
LEMMA FetchedMoves ==
    ASSUME FlightOK, NEW r \in Requests, NEW l, l = loc[r], NEW e, NEW elo, Fetched(r, e, elo)
    PROVE  \/ pc'[r] = "idle"
           \/ \E to, x :
                /\ pc'[r] = to /\ loc'[r] = x
                /\ x = WithRow(l, e, elo)
                /\ \/ to = "fetch" /\ x.todo # <<>>
                   \/ to = "save" /\ x.todo = <<>> /\ l.game # None
<1>. PICK x : x = WithRow(l, e, elo)
  OBVIOUS
<1>1. \/ Done(r)
      \/ Goto(r, "fetch", x) /\ x.todo # <<>>
      \/ Goto(r, "save", x) /\ x.todo = <<>> /\ l.game # None
  BY DEF Fetched, WithRow
<1>. QED BY <1>1, GoesTo DEF Done

LEMMA FetchedRests ==
    ASSUME FlightOK, NEW r \in Requests, NEW e, NEW elo, Fetched(r, e, elo)
    PROVE  \A q \in Requests \ {r} : RatingRests(q)
<1>1. \E to, x : Goto(r, to, x)
  BY DEF Fetched, Done
<1>. QED BY <1>1, OthersRest

LEMMA FetchKeeps ==
    ASSUME FlightOK, RatingInv, NEW r \in Requests, Fetch(r)
    PROVE  RatingInv'
<1>. PICK l : l = loc[r]
  OBVIOUS
<1>. DEFINE found == EloRowsOf(Head(l.todo), l.scope)
<1>0. pc[r] = "fetch" /\ "fetch" \in RatingLabels /\ "insertElo" \in RatingLabels
  BY DEF Fetch, RatingLabels
<1>1. Shape("fetch", l) /\ Backed("fetch", l) /\ Exact("fetch", l) /\ Once(l)
  BY <1>0 DEF RatingInv, RatingRequests
<1>2. UNCHANGED <<games, elos, userElos, wins, loses, lastElo, ledger, blurred>>
  BY DEF Fetch, ratingsVars, history
<1>3. /\ RatingTables' /\ Owned' /\ NeverAhead' /\ Grows
      /\ \A k \in Keys : Undisturbed(k)
  BY <1>2, TablesRest DEF RatingInv, RatingTables
<1>4. Concerns(r) = Works(l) /\ Works(l) \subseteq Keys
  BY <1>0, <1>1, ConcernsAre, WorkedOn
<1>5. Backed("fetch", l)' /\ Exact("fetch", l)' /\ Once(l)'
  BY <1>1, <1>3, <1>4, LocalsCarry DEF RatingInv
<1>6. /\ Head(l.todo) \in Players /\ <<Head(l.todo), l.scope>> \in Keys /\ l.scope \in Scopes
      /\ l.game \in Games \cup {None}
  BY <1>1, WorkedOn DEF Shape, Fetching, RatingLoc
<1>7. \/ found = {} /\ pc'[r] = "insertElo" /\ loc'[r] = l
      \/ \E e \in found : Fetched(r, e, elos[e])
  BY GoesTo DEF Fetch, Proceed
<1>8. \A q \in Requests \ {r} : RatingRests(q)
  BY FetchedRests, OthersRest DEF Fetch, Proceed
<1>9. /\ pc'[r] \in RatingLabels =>
            /\ Shape(pc'[r], loc'[r]) /\ Once(loc[r])'
            /\ Backed(pc[r], loc[r])' /\ Exact(pc[r], loc[r])'
            /\ Works(loc'[r]) \subseteq Works(l)
      /\ pc'[r] # "linkElo"
  <2>. SUFFICES ASSUME NEW to, NEW x, to = pc'[r], x = loc'[r]
                PROVE  /\ to \in RatingLabels =>
                             /\ Shape(to, x) /\ Once(x)' /\ Backed(to, x)' /\ Exact(to, x)'
                             /\ Works(x) \subseteq Works(l)
                       /\ to # "linkElo"
    BY DEF Once, Backed, Linked, Exact, Won
  <2>1. CASE found = {} /\ to = "insertElo" /\ x = l
    <3>1. Shape("insertElo", l)
      BY <1>1 DEF Shape, Fetching, Writing
    <3>2. Backed("insertElo", l)'
      BY <1>5 DEF Backed
    <3>3. found' = {}
      BY <1>2, <2>1 DEF EloRowsOf
    <3>4. Exact("insertElo", l)'
      BY <1>5, <3>3 DEF Exact, Unsaved, Fetching
    <3>. QED BY <1>5, <2>1, <3>1, <3>2, <3>4
  <2>2. ASSUME NEW e \in found, Fetched(r, e, elos[e])
        PROVE  /\ to \in RatingLabels =>
                     /\ Shape(to, x) /\ Once(x)' /\ Backed(to, x)' /\ Exact(to, x)'
                     /\ Works(x) \subseteq Works(l)
               /\ to # "linkElo"
    <3>1. PICK elo : elo = elos[e]
      OBVIOUS
    <3>2. /\ e \in DOMAIN elos /\ elo \in EloRow /\ elo.scope = l.scope /\ e \in Nat
          /\ <<Head(l.todo), e>> \in userElos' /\ elos'[e] = elo
      BY <1>2, <3>1 DEF EloRowsOf, RatingInv, RatingTables
    <3>3. elo.games <= RatedCount(ledger'[<<Head(l.todo), l.scope>>])
      BY <1>2, <1>6, <3>1 DEF RatingInv, NeverAhead
    <3>4. CASE to = "idle"
      BY <3>4 DEF RatingLabels
    <3>5. CASE /\ x = WithRow(l, e, elo)
               /\ \/ to = "fetch" /\ x.todo # <<>>
                  \/ to = "save" /\ x.todo = <<>> /\ l.game # None
      BY <1>1, <1>5, <3>2, <3>3, <3>5, FetchedLocals, ZenonT(60)
    <3>. QED BY <2>2, <3>1, <3>4, <3>5, FetchedMoves
  <2>. QED BY <1>7, <2>1, <2>2
<1>10. RatingRequests'
  <2>1. \A q \in Requests \ {r} : pc[q] = "linkElo" =>
            /\ elos'[loc[q].fresh] = elos[loc[q].fresh]
            /\ \A p \in Players : <<p, loc[q].fresh>> \notin userElos'
    BY <1>2 DEF RatingInv, RatingRequests, RatingLabels, Backed
  <2>. QED BY <1>3, <1>8, <1>9, <2>1, RequestsCarry DEF RatingInv
<1>11. Apart'
  <2>1. Concerns(r)' \subseteq Concerns(r)
    BY <1>4, <1>9, ConcernsBecome
  <2>. QED BY <1>2, <1>8, <1>9, <2>1, ApartCarries DEF RatingInv, Apart
<1>12. ASSUME NEW k \in Keys \ blurred' PROVE Tallied(k)'
  <2>1. Tallied(k)
    BY <1>2, <1>12 DEF RatingInv
  <2>2. ASSUME NEW e, NEW g, NEW won, Pending(e, g, won) PROVE Pending(e, g, won)'
    BY <1>0, <1>8, <2>2, PendingCarries
  <2>. QED BY <1>2, <1>3, <2>1, <2>2, TallyCarries
<1>. QED BY <1>3, <1>10, <1>11, <1>12 DEF RatingInv


LEMMA InsertKeeps ==
    ASSUME FlightOK, RatingInv, NEW r \in Requests, InsertElo(r)
    PROVE  RatingInv'
<1>. PICK l : l = loc[r]
  OBVIOUS
<1>. PICK e : e = lastElo + 1
  OBVIOUS
<1>. PICK x : x = [l EXCEPT !.fresh = e]
  OBVIOUS
<1>0. pc[r] = "insertElo" /\ "insertElo" \in RatingLabels /\ "linkElo" \in RatingLabels
  BY DEF InsertElo, RatingLabels
<1>1. Shape("insertElo", l) /\ Backed("insertElo", l) /\ Exact("insertElo", l) /\ Once(l)
  BY <1>0 DEF RatingInv, RatingRequests
<1>2. /\ elos' = [i \in DOMAIN elos \cup {e} |-> IF i = e THEN DefaultElo(l.scope) ELSE elos[i]]
      /\ lastElo' = e
      /\ UNCHANGED <<games, userElos, wins, loses, ledger, blurred>>
      /\ Goto(r, "linkElo", x)
  BY DEF InsertElo, history
<1>3. pc'[r] = "linkElo" /\ loc'[r] = x
  BY <1>2, GoesTo
<1>4. e \in Nat /\ e \notin DOMAIN elos /\ \A p : <<p, e>> \notin userElos
  BY DEF RatingInv, RatingTables
<1>5. /\ l \in RatingLoc /\ l.scope \in Scopes
      /\ x.rows = l.rows /\ x.todo = l.todo /\ x.scope = l.scope /\ x.at = l.at
      /\ x.game = l.game /\ x.fresh = e /\ x \in RatingLoc
  BY <1>1, <1>4 DEF Shape, RatingLoc
<1>6. /\ DOMAIN elos' = DOMAIN elos \cup {e} /\ elos'[e] = DefaultElo(l.scope)
      /\ \A i \in DOMAIN elos : elos'[i] = elos[i]
  BY <1>2, <1>4
<1>7. DefaultElo(l.scope) \in EloRow
  BY <1>5 DEF DefaultElo, EloRow
<1>8. RatingTables'
  <2>1. elos' \in [DOMAIN elos' -> EloRow]
    BY <1>2, <1>7 DEF RatingInv, RatingTables
  <2>2. DOMAIN elos' \subseteq 1..lastElo' /\ lastElo' \in Nat
    BY <1>2, <1>6 DEF RatingInv, RatingTables
  <2>. QED BY <1>2, <1>6, <2>1, <2>2 DEF RatingInv, RatingTables
<1>9. \A k \in Keys : Undisturbed(k)
  <2>1. ASSUME NEW k \in Keys PROVE EloRowsOf(k[1], k[2])' = EloRowsOf(k[1], k[2])
    BY <1>2, <1>4, <1>6 DEF EloRowsOf
  <2>2. ASSUME NEW k \in Keys, NEW i \in EloRowsOf(k[1], k[2]) PROVE elos'[i] = elos[i]
    BY <1>6 DEF EloRowsOf
  <2>. QED BY <2>1, <2>2 DEF Undisturbed
<1>10. Grows
  <2>1. ledger' = ledger /\ userElos' = userElos /\ blurred' = blurred
    BY <1>2
  <2>2. \A k \in Keys : RatedCount(ledger[k]) \in Nat
    BY LedgerCounts DEF RatingInv
  <2>. QED BY <1>6, <2>1, <2>2 DEF Grows
<1>11. Owned'
  BY <1>2, <1>4, <1>6 DEF RatingInv, Owned
<1>12. NeverAhead'
  <2>1. ASSUME NEW i \in DOMAIN elos' PROVE elos'[i].best >= elos'[i].streak
    BY <1>6 DEF RatingInv, NeverAhead, DefaultElo
  <2>2. ASSUME NEW k \in Keys, NEW i \in EloRowsOf(k[1], k[2])'
        PROVE  /\ elos'[i].games <= RatedCount(ledger'[k])
               /\ \A g \in Games :
                     /\ <<i, g>> \in wins' => [game |-> g, won |-> TRUE] \in ToSet(ledger'[k])
                     /\ <<i, g>> \in loses' => [game |-> g, won |-> FALSE] \in ToSet(ledger'[k])
    <3>1. i \in EloRowsOf(k[1], k[2]) /\ elos'[i] = elos[i]
      BY <1>9, <2>2 DEF Undisturbed
    <3>. QED BY <1>2, <3>1 DEF RatingInv, NeverAhead
  <2>. QED BY <2>1, <2>2 DEF NeverAhead
<1>13. Backed("insertElo", l)' /\ Exact("insertElo", l)' /\ Once(l)'
  BY <1>1, <1>8, <1>9, <1>10, WorkedOn, LocalsCarry DEF RatingInv
<1>14. Shape("linkElo", x)
  BY <1>1, <1>5 DEF Shape, Fetching, Writing
<1>15. \A i \in DOMAIN x.rows : Of(x, i) = Of(l, i)
  BY <1>5 DEF Of
<1>16. Backed("linkElo", x)'
  <2>1. Linked(x)'
    BY <1>5, <1>13, <1>15 DEF Backed, Linked
  <2>2. /\ x.fresh \in DOMAIN elos' /\ elos'[x.fresh] = DefaultElo(x.scope)
        /\ \A p \in Players : <<p, x.fresh>> \notin userElos'
    BY <1>2, <1>4, <1>5, <1>6
  <2>. QED BY <2>1, <2>2 DEF Backed
<1>17. Exact("linkElo", x)'
  BY <1>5, <1>13, <1>15 DEF Exact, Unsaved, Fetching
<1>18. Once(x)'
  BY <1>5, <1>13, <1>15 DEF Once
<1>19. \A q \in Requests \ {r} : RatingRests(q)
  BY <1>2, OthersRest
<1>20. ASSUME NEW q \in Requests \ {r}, pc[q] = "linkElo"
       PROVE  /\ elos'[loc[q].fresh] = elos[loc[q].fresh] /\ loc[q].fresh # x.fresh
              /\ \A p \in Players : <<p, loc[q].fresh>> \notin userElos'
  <2>1. /\ loc[q].fresh \in DOMAIN elos
        /\ \A p \in Players : <<p, loc[q].fresh>> \notin userElos
    BY <1>0, <1>20 DEF RatingInv, RatingRequests, Backed
  <2>. QED BY <1>2, <1>4, <1>5, <1>6, <2>1
<1>21. RatingRequests'
  <2>1. /\ Shape(pc'[r], loc'[r]) /\ Once(loc[r])'
        /\ Backed(pc[r], loc[r])' /\ Exact(pc[r], loc[r])'
    <3>. SUFFICES ASSUME NEW to, NEW y, to = pc'[r], y = loc'[r]
                  PROVE  Shape(to, y) /\ Once(y)' /\ Backed(to, y)' /\ Exact(to, y)'
      BY DEF Once, Backed, Linked, Exact, Won
    <3>. QED BY <1>3, <1>14, <1>16, <1>17, <1>18
  <2>. QED BY <1>8, <1>9, <1>10, <1>19, <1>20, <2>1, RequestsCarry DEF RatingInv
<1>22. Apart'
  <2>1. Concerns(r)' = Concerns(r)
    <3>1. Works(x) = Works(l)
      BY <1>5 DEF Works
    <3>. QED BY <1>0, <1>3, <3>1, ConcernsAre, ConcernsBecome
  <2>2. \A q \in Requests \ {r} : pc[q] = "linkElo" => loc[q].fresh # loc'[r].fresh
    BY <1>3, <1>20
  <2>3. \A q \in Requests \ {r} : Concerns(q) \cap Concerns(r)' \subseteq blurred'
    BY <1>2, <2>1 DEF RatingInv, Apart
  <2>. QED BY <1>2, <1>19, <2>2, <2>3, ApartCarries DEF RatingInv
<1>23. ASSUME NEW k \in Keys \ blurred' PROVE Tallied(k)'
  <2>1. Tallied(k)
    BY <1>2, <1>23 DEF RatingInv
  <2>2. ASSUME NEW i, NEW g, NEW won, Pending(i, g, won) PROVE Pending(i, g, won)'
    BY <1>0, <1>19, <2>2, PendingCarries
  <2>. QED BY <1>2, <1>9, <2>1, <2>2, TallyCarries
<1>. QED BY <1>8, <1>11, <1>12, <1>21, <1>22, <1>23 DEF RatingInv


LEMMA LinkKeeps ==
    ASSUME FlightOK, RatingInv, NEW r \in Requests, LinkElo(r)
    PROVE  RatingInv'
<1>. PICK l : l = loc[r]
  OBVIOUS
<1>. PICK p : p = Head(l.todo)
  OBVIOUS
<1>a. PICK e : e = l.fresh
  OBVIOUS
<1>. PICK key : key = <<p, l.scope>>
  OBVIOUS
<1>b. PICK elo : elo = DefaultElo(l.scope)
  OBVIOUS
<1>0. pc[r] = "linkElo" /\ "linkElo" \in RatingLabels
  BY DEF LinkElo, RatingLabels
<1>1. Shape("linkElo", l) /\ Backed("linkElo", l) /\ Exact("linkElo", l) /\ Once(l)
  BY <1>0 DEF RatingInv, RatingRequests
<1>2. /\ userElos' = userElos \cup {<<p, e>>}
      /\ UNCHANGED <<games, elos, wins, loses, lastElo, ledger, blurred>>
      /\ Fetched(r, e, elo)
  BY <1>a, <1>b DEF LinkElo, history
<1>3. /\ p \in Players /\ key \in Keys /\ key \in Works(l) /\ l.scope \in Scopes
      /\ key[1] = p /\ key[2] = l.scope
      /\ l.todo \in Seq(Players) /\ l.todo # <<>>
  BY <1>1, WorkedOn DEF Shape, Fetching, RatingLoc
<1>4. /\ e \in DOMAIN elos /\ e \in Nat /\ elos[e] = elo /\ elo \in EloRow
      /\ elo.scope = l.scope /\ elo.games = 0 /\ elo.streak = 0 /\ elo.best = 0
      /\ \A q \in Players : <<q, e>> \notin userElos
  BY <1>1, <1>a, <1>b DEF Backed, RatingInv, RatingTables, DefaultElo
<1>5. ASSUME NEW k \in Keys
      PROVE  EloRowsOf(k[1], k[2])' = IF k = key THEN EloRowsOf(k[1], k[2]) \cup {e}
                                      ELSE EloRowsOf(k[1], k[2])
  <2>1. k = key <=> k[1] = p /\ k[2] = l.scope
    BY <1>3 DEF Keys
  <2>2. k[1] \in Players
    BY DEF Keys
  <2>. QED BY <1>2, <1>4, <2>1, <2>2 DEF EloRowsOf
<1>6. \A k \in Keys \ {key} : Undisturbed(k)
  BY <1>2, <1>5 DEF Undisturbed
<1>7. RatingTables'
  BY <1>2, <1>3, <1>4 DEF RatingInv, RatingTables
<1>8. Owned'
  BY <1>2, <1>4 DEF RatingInv, Owned
<1>9. Grows
  BY <1>2, LedgerCounts DEF RatingInv, Grows
<1>10. \A g : <<e, g>> \notin wins \cup loses
  BY <1>4 DEF RatingInv, Owned
<1>11. NeverAhead'
  <2>1. ASSUME NEW k \in Keys, NEW i \in EloRowsOf(k[1], k[2])'
        PROVE  /\ elos'[i].games <= RatedCount(ledger'[k])
               /\ \A g \in Games :
                     /\ <<i, g>> \in wins' => [game |-> g, won |-> TRUE] \in ToSet(ledger'[k])
                     /\ <<i, g>> \in loses' => [game |-> g, won |-> FALSE] \in ToSet(ledger'[k])
    <3>1. CASE i \in EloRowsOf(k[1], k[2])
      BY <1>2, <3>1 DEF RatingInv, NeverAhead
    <3>2. CASE i = e
      BY <1>2, <1>4, <1>10, <3>2, LedgerCounts DEF RatingInv
    <3>. QED BY <1>5, <2>1, <3>1, <3>2
  <2>. QED BY <1>2, <2>1 DEF RatingInv, NeverAhead
<1>12. Shape("fetch", l) /\ Linked(l) /\ Exact("fetch", l)
  BY <1>1 DEF Shape, Fetching, Writing, Backed, Exact, Unsaved
<1>13. Backed("fetch", l)' /\ Once(l)'
  <2>1. Linked(l)'
    BY <1>7, <1>9, <1>12, LinkedCarries DEF RatingInv
  <2>. QED BY <1>1, <1>2, <2>1 DEF Backed, Once
<1>14. Exact("fetch", l)'
  <2>1. ASSUME NEW i \in DOMAIN l.rows, Of(l, i) \notin blurred' PROVE Undisturbed(Of(l, i))
    <3>1. 1 \in DOMAIN l.todo /\ l.todo[1] = p
      BY <1>3
    <3>2. l.rows[i].player # p
      BY <1>1, <1>2, <2>1, <3>1 DEF Once
    <3>3. Of(l, i) # key /\ Of(l, i) \in Keys
      BY <1>1, <3>2, WorkedOn DEF Of
    <3>. QED BY <1>6, <3>3
  <2>. QED BY <1>9, <1>12, <2>1, ExactCarries DEF RatingInv
<1>15. \A q \in Requests \ {r} : RatingRests(q)
  BY <1>2, FetchedRests
<1>16. /\ pc'[r] \in RatingLabels =>
             /\ Shape(pc'[r], loc'[r]) /\ Once(loc[r])'
             /\ Backed(pc[r], loc[r])' /\ Exact(pc[r], loc[r])'
             /\ Works(loc'[r]) \subseteq Works(l)
       /\ pc'[r] # "linkElo"
  <2>. SUFFICES ASSUME NEW to, NEW x, to = pc'[r], x = loc'[r]
                PROVE  /\ to \in RatingLabels =>
                             /\ Shape(to, x) /\ Once(x)' /\ Backed(to, x)' /\ Exact(to, x)'
                             /\ Works(x) \subseteq Works(l)
                       /\ to # "linkElo"
    BY DEF Once, Backed, Linked, Exact, Won
  <2>1. elos'[e] = elo /\ <<Head(l.todo), e>> \in userElos'
    BY <1>2, <1>4
  <2>2. elo.games <= RatedCount(ledger'[<<Head(l.todo), l.scope>>])
    BY <1>2, <1>3, <1>4, LedgerCounts DEF RatingInv
  <2>3. CASE to = "idle"
    BY <2>3 DEF RatingLabels
  <2>4. CASE /\ x = WithRow(l, e, elo)
             /\ \/ to = "fetch" /\ x.todo # <<>>
                \/ to = "save" /\ x.todo = <<>> /\ l.game # None
    BY <1>4, <1>12, <1>13, <1>14, <2>1, <2>2, <2>4, FetchedLocals
  <2>. QED BY <1>2, <2>3, <2>4, FetchedMoves
<1>17. Concerns(r) = Works(l) /\ Concerns(r)' \subseteq Concerns(r)
  BY <1>0, <1>16, ConcernsAre, ConcernsBecome
<1>18. RatingRequests'
  <2>1. ASSUME NEW q \in Requests \ {r}, pc[q] = "linkElo"
        PROVE  /\ elos'[loc[q].fresh] = elos[loc[q].fresh]
               /\ \A o \in Players : <<o, loc[q].fresh>> \notin userElos'
    <3>1. \A o \in Players : <<o, loc[q].fresh>> \notin userElos
      BY <1>0, <2>1 DEF RatingInv, RatingRequests, Backed
    <3>2. loc[q].fresh # e
      BY <1>0, <1>a, <2>1 DEF RatingInv, Apart
    <3>. QED BY <1>2, <3>1, <3>2
  <2>2. \A k \in Keys \ (Concerns(r) \cup blurred') : Undisturbed(k)
    BY <1>3, <1>6, <1>17
  <2>. QED BY <1>7, <1>9, <1>15, <1>16, <2>1, <2>2, RequestsCarry DEF RatingInv
<1>19. Apart'
  BY <1>2, <1>15, <1>16, <1>17, ApartCarries DEF RatingInv, Apart
<1>20. ASSUME NEW k \in Keys \ blurred' PROVE Tallied(k)'
  <2>1. Tallied(k)
    BY <1>2, <1>20 DEF RatingInv
  <2>2. CASE k # key
    <3>1. ASSUME NEW i, NEW g, NEW won, Pending(i, g, won) PROVE Pending(i, g, won)'
      BY <1>0, <1>15, <3>1, PendingCarries
    <3>. QED BY <1>2, <1>6, <2>1, <2>2, <3>1, TallyCarries
  <2>3. CASE k = key
    <3>1. EloRowsOf(k[1], k[2]) = {}
      BY <1>1, <1>2, <1>20, <1>3, <2>3 DEF Exact
    <3>2. ledger'[k] = <<>> /\ EloRowsOf(k[1], k[2])' = {e}
      BY <1>2, <1>5, <2>1, <2>3, <3>1 DEF Tallied
    <3>3. ToSet(<<>>) = {}
      BY DEF ToSet
    <3>4. /\ elos'[e].games = RatedCount(<<>>) /\ elos'[e].streak = Streak(<<>>)
          /\ IsBest(<<>>, elos'[e].best)
      BY <1>2, <1>4, NoResults
    <3>. QED BY <3>2, <3>3, <3>4 DEF Tallied
  <2>. QED BY <2>2, <2>3
<1>. QED BY <1>7, <1>8, <1>11, <1>18, <1>19, <1>20 DEF RatingInv


-----------------------------------------------------------------------------
\* update_elo.

LEMMA Appended ==
    ASSUME NEW s \in Seq(Result), NEW x \in Result
    PROVE  /\ Append(s, x) \in Seq(Result) /\ Append(s, x) # <<>>
           /\ ToSet(Append(s, x)) = ToSet(s) \cup {x}
<1>1. /\ Append(s, x) \in Seq(Result) /\ Append(s, x) # <<>> /\ Len(s) \in Nat
      /\ DOMAIN s = 1..Len(s) /\ DOMAIN Append(s, x) = 1..Len(s) + 1
      /\ \A i \in 1..Len(s) : Append(s, x)[i] = s[i]
      /\ Append(s, x)[Len(s) + 1] = x
  BY AppendProperties
<1>. PICK t : t = Append(s, x)
  OBVIOUS
<1>2. PICK n \in Nat : n = Len(s)
  BY <1>1
<1>3. /\ DOMAIN s = 1..n /\ DOMAIN t = 1..n + 1 /\ \A i \in 1..n : t[i] = s[i]
      /\ t[n + 1] = x
  BY <1>1, <1>2
<1>4. ToSet(t) = ToSet(s) \cup {x}
  <2>1. ASSUME NEW y \in ToSet(t) PROVE y \in ToSet(s) \cup {x}
    <3>1. PICK i \in 1..n + 1 : y = t[i]
      BY <1>3 DEF ToSet
    <3>2. i \in 1..n \/ i = n + 1
      BY <1>2
    <3>. QED BY <1>3, <3>1, <3>2 DEF ToSet
  <2>2. ASSUME NEW y \in ToSet(s) PROVE y \in ToSet(t)
    <3>1. PICK i \in 1..n : y = s[i]
      BY <1>3 DEF ToSet
    <3>2. i \in 1..n + 1 /\ t[i] = y
      BY <1>2, <1>3, <3>1
    <3>. QED BY <1>3, <3>2 DEF ToSet
  <2>3. x \in ToSet(t)
    <3>1. n + 1 \in 1..n + 1
      BY <1>2
    <3>. QED BY <1>3, <3>1 DEF ToSet
  <2>. QED BY <2>1, <2>2, <2>3
<1>. QED BY <1>1, <1>4

LEMMA WrittenRow ==
    ASSUME NEW elo \in EloRow, NEW read \in ReadRow, NEW won, NEW rated
    PROVE  LET new == Written(elo, read, won, rated)
           IN  /\ new \in EloRow /\ new.scope = elo.scope
               /\ new.games = IF rated THEN read.games + 1 ELSE elo.games
               /\ new.streak = IF won THEN read.streak + 1 ELSE 0
               /\ new.best = IF won THEN Larger(read.streak + 1, read.best) ELSE elo.best
<1>1. PICK x, y, z :
         /\ x = IF rated THEN read.games + 1 ELSE elo.games
         /\ y = IF won THEN read.streak + 1 ELSE 0
         /\ z = IF won THEN Larger(read.streak + 1, read.best) ELSE elo.best
  OBVIOUS
<1>2. x \in Nat /\ y \in Nat /\ z \in Nat
  BY <1>1 DEF EloRow, ReadRow, Larger
<1>3. PICK new : new = [elo EXCEPT !.games = x, !.streak = y, !.best = z]
  OBVIOUS
<1>4. new \in EloRow /\ new.scope = elo.scope
  BY <1>2, <1>3 DEF EloRow
<1>5. new.games = x /\ new.streak = y /\ new.best = z
  BY <1>3 DEF EloRow
<1>6. Written(elo, read, won, rated) = new
  BY <1>1, <1>3 DEF Written
<1>. QED BY <1>1, <1>4, <1>5, <1>6

LEMMA SaveKeeps ==
    ASSUME FlightOK, RatingInv, NEW r \in Requests, Save(r)
    PROVE  RatingInv'
<1>a. PICK l : l = loc[r]
  OBVIOUS
<1>b. PICK at : at = l.at
  OBVIOUS
<1>c. PICK read : read = l.rows[at]
  OBVIOUS
<1>d. PICK e : e = read.elo
  OBVIOUS
<1>e. PICK key : key = <<read.player, l.scope>>
  OBVIOUS
<1>f. PICK won : won = Won(l)
  OBVIOUS
<1>g. PICK rated : rated = Rated(l)
  OBVIOUS
<1>h. PICK res : res = [game |-> l.game, won |-> won]
  OBVIOUS
<1>0. pc[r] = "save" /\ "save" \in RatingLabels /\ "mark" \in RatingLabels
  BY DEF Save, RatingLabels
<1>1. Shape("save", l) /\ Backed("save", l) /\ Exact("save", l) /\ Once(l)
  BY <1>0, <1>a DEF RatingInv, RatingRequests
<1>2. /\ l \in RatingLoc /\ l.game \in Games /\ at \in DOMAIN l.rows /\ at \in Nat
      /\ l.scope \in Scopes /\ DOMAIN l.rows = 1..Len(l.rows)
  BY <1>1, <1>b DEF Shape, Writing, RatingLoc
<1>3. /\ read \in ReadRow /\ key \in Keys /\ key \in Works(l) /\ key = Of(l, at)
      /\ read.player \in Players /\ key[1] = read.player /\ key[2] = l.scope
  BY <1>1, <1>2, <1>c, <1>e, WorkedOn DEF Of, ReadRow
<1>4. won \in BOOLEAN /\ rated \in BOOLEAN /\ res \in Result /\ rated = GameOf[res.game].rated
      /\ res.won = won /\ res.game = l.game
  BY <1>2, <1>b, <1>f, <1>g, <1>h, RatingsAssumption DEF Won, Rated, Result
<1>5. /\ <<read.player, e>> \in userElos /\ e \in DOMAIN elos /\ elos[e] \in EloRow
      /\ elos[e].scope = l.scope /\ read.games <= RatedCount(ledger[key])
  BY <1>1, <1>2, <1>3, <1>c, <1>d DEF Backed, Linked, RatingInv, RatingTables
<1>i. PICK new : new = Written(elos[e], read, won, rated)
  OBVIOUS
<1>6. /\ elos' = [elos EXCEPT ![e] = new]
      /\ ledger' = [ledger EXCEPT ![key] = Append(@, res)]
      /\ UNCHANGED <<games, userElos, wins, loses, lastElo, blurred>>
      /\ Goto(r, "mark", l)
  <2>1. elos' = [elos EXCEPT ![loc[r].rows[loc[r].at].elo] =
              Written(@, loc[r].rows[loc[r].at], Won(loc[r]), Rated(loc[r]))]
    BY DEF Save
  <2>2. elos' = [elos EXCEPT ![e] = new]
    BY <2>1, <1>a, <1>b, <1>c, <1>d, <1>f, <1>g, <1>i
  <2>3. ledger' = [ledger EXCEPT ![key] = Append(@, res)]
    BY <1>a, <1>b, <1>c, <1>e, <1>f, <1>h DEF Save
  <2>4. UNCHANGED <<games, userElos, wins, loses, lastElo, blurred>> /\ Goto(r, "mark", l)
    BY <1>a DEF Save, Proceed
  <2>. QED BY <2>2, <2>3, <2>4
<1>7. /\ new \in EloRow /\ new.scope = l.scope
      /\ new.games = IF rated THEN read.games + 1 ELSE elos[e].games
      /\ new.streak = IF won THEN read.streak + 1 ELSE 0
      /\ new.best = IF won THEN Larger(read.streak + 1, read.best) ELSE elos[e].best
  BY <1>3, <1>5, <1>i, WrittenRow
<1>8. pc'[r] = "mark" /\ loc'[r] = l
  BY <1>6, GoesTo
<1>9. /\ DOMAIN elos' = DOMAIN elos /\ elos'[e] = new
      /\ \A i \in DOMAIN elos \ {e} : elos'[i] = elos[i]
  BY <1>5, <1>6 DEF RatingInv, RatingTables
<1>10. ledger[key] \in Seq(Result) /\ RatedCount(ledger[key]) \in Nat
  BY <1>3, LedgerCounts DEF RatingInv
<1>11. /\ ledger'[key] = Append(ledger[key], res)
       /\ \A k \in Keys \ {key} : ledger'[k] = ledger[k]
  BY <1>3, <1>6 DEF RatingInv, RatingTables
<1>12. RatingTables'
  <2>1. elos' \in [DOMAIN elos' -> EloRow]
    BY <1>5, <1>6, <1>7 DEF RatingInv, RatingTables
  <2>2. ledger' \in [Keys -> Seq(Result)]
    <3>1. Append(ledger[key], res) \in Seq(Result)
      BY <1>4, <1>10, Appended
    <3>. QED BY <1>3, <1>6, <3>1 DEF RatingInv, RatingTables
  <2>. QED BY <1>6, <1>9, <2>1, <2>2 DEF RatingInv, RatingTables
<1>13. Owned'
  BY <1>6, <1>9 DEF RatingInv, Owned
<1>14. RatedCount(ledger'[key]) = IF rated THEN RatedCount(ledger[key]) + 1 ELSE RatedCount(ledger[key])
  BY <1>4, <1>10, <1>11, RatedGoesOn
<1>15. ToSet(ledger'[key]) = ToSet(ledger[key]) \cup {res} /\ ledger'[key] # <<>>
  BY <1>4, <1>10, <1>11, Appended
<1>16. Grows
  <2>1. ASSUME NEW k \in Keys
        PROVE  /\ RatedCount(ledger[k]) <= RatedCount(ledger'[k])
               /\ ToSet(ledger[k]) \subseteq ToSet(ledger'[k])
    <3>1. CASE k = key
      BY <1>4, <1>10, <1>14, <1>15, <3>1
    <3>2. CASE k # key
      BY <1>11, <3>2, LedgerCounts DEF RatingInv
    <3>. QED BY <3>1, <3>2
  <2>. QED BY <1>5, <1>6, <1>7, <1>9, <2>1 DEF Grows
<1>17. \A k \in Keys : EloRowsOf(k[1], k[2])' = EloRowsOf(k[1], k[2])
  BY <1>5, <1>6, <1>7, <1>9 DEF EloRowsOf
<1>18. ASSUME NEW k \in Keys, e \in EloRowsOf(k[1], k[2]) PROVE k = key
  BY <1>3, <1>5, <1>18, <1>e, OneKey DEF RatingInv
<1>19. \A k \in Keys \ {key} : Undisturbed(k)
  <2>1. ASSUME NEW k \in Keys \ {key}, NEW i \in EloRowsOf(k[1], k[2]) PROVE elos'[i] = elos[i]
    BY <1>9, <1>18, <2>1 DEF EloRowsOf
  <2>. QED BY <1>17, <2>1 DEF Undisturbed
<1>20. NeverAhead'
  <2>1. ASSUME NEW i \in DOMAIN elos' PROVE elos'[i].best >= elos'[i].streak
    <3>1. CASE i = e
      BY <1>3, <1>4, <1>5, <1>7, <1>9, <3>1 DEF Larger, EloRow, ReadRow
    <3>2. CASE i # e
      BY <1>9, <2>1, <3>2 DEF RatingInv, NeverAhead
    <3>. QED BY <3>1, <3>2
  <2>2. ASSUME NEW k \in Keys, NEW i \in EloRowsOf(k[1], k[2])
        PROVE  elos'[i].games <= RatedCount(ledger'[k])
    <3>0. elos[i].games <= RatedCount(ledger[k]) /\ i \in DOMAIN elos
      BY DEF RatingInv, NeverAhead, EloRowsOf
    <3>1. CASE i = e
      <4>1. k = key
        BY <1>18, <2>2, <3>1
      <4>. QED BY <1>3, <1>4, <1>5, <1>7, <1>9, <1>10, <1>14, <3>0, <3>1, <4>1
           DEF EloRow, ReadRow
    <3>2. CASE i # e
      <4>1. /\ elos'[i] = elos[i] /\ elos[i].games \in Nat
            /\ RatedCount(ledger[k]) \in Nat /\ RatedCount(ledger'[k]) \in Nat
        BY <1>9, <1>12, <3>0, <3>2, RatedIsNat DEF RatingInv, RatingTables, EloRow
      <4>2. RatedCount(ledger[k]) <= RatedCount(ledger'[k])
        BY <1>16 DEF Grows
      <4>. QED BY <3>0, <4>1, <4>2
    <3>. QED BY <3>1, <3>2
  <2>3. ASSUME NEW k \in Keys, NEW i \in EloRowsOf(k[1], k[2]), NEW g \in Games
        PROVE  /\ <<i, g>> \in wins => [game |-> g, won |-> TRUE] \in ToSet(ledger'[k])
               /\ <<i, g>> \in loses => [game |-> g, won |-> FALSE] \in ToSet(ledger'[k])
    <3>1. ToSet(ledger[k]) \subseteq ToSet(ledger'[k])
      BY <1>16 DEF Grows
    <3>. QED BY <3>1 DEF RatingInv, NeverAhead
  <2>. QED BY <1>6, <1>17, <2>1, <2>2, <2>3 DEF NeverAhead
<1>21. Shape("mark", l) /\ Linked(l) /\ Exact("mark", l)
  BY <1>1, <1>2 DEF Shape, Writing, Fetching, Backed, Exact, Unsaved, RatingLoc
<1>22. Backed("mark", l)'
  <2>1. Linked(l)'
    BY <1>12, <1>16, <1>21, LinkedCarries DEF RatingInv
  <2>2. [game |-> l.game, won |-> Won(l)] \in ToSet(ledger'[Of(l, l.at)])
    BY <1>3, <1>15, <1>b, <1>f, <1>h
  <2>. QED BY <2>1, <2>2 DEF Backed
<1>23. Exact("mark", l)'
  <2>1. ASSUME NEW i \in DOMAIN l.rows, Of(l, i) \notin blurred', Unsaved("mark", l, i)
        PROVE  Undisturbed(Of(l, i))
    <3>1. i # at
      BY <1>2, <1>b, <2>1 DEF Unsaved, Fetching
    <3>2. l.rows[i].player # l.rows[at].player
      BY <1>1, <1>2, <1>6, <2>1, <3>1 DEF Once
    <3>3. Of(l, i) # key /\ Of(l, i) \in Keys
      BY <1>1, <1>3, <3>2, WorkedOn DEF Of
    <3>. QED BY <1>19, <3>3
  <2>. QED BY <1>16, <1>21, <2>1, ExactCarries DEF RatingInv
<1>24. Once(l)'
  BY <1>1, <1>6 DEF Once
<1>25. \A q \in Requests \ {r} : RatingRests(q)
  BY <1>6, OthersRest
<1>26. Concerns(r) = Works(l) /\ Concerns(r)' = Works(l)
  BY <1>0, <1>8, <1>a, ConcernsAre, ConcernsBecome
<1>27. RatingRequests'
  <2>1. /\ Shape(pc'[r], loc'[r]) /\ Once(loc[r])'
        /\ Backed(pc[r], loc[r])' /\ Exact(pc[r], loc[r])'
    <3>. SUFFICES ASSUME NEW to, NEW y, to = pc'[r], y = loc'[r]
                  PROVE  Shape(to, y) /\ Once(y)' /\ Backed(to, y)' /\ Exact(to, y)'
      BY DEF Once, Backed, Linked, Exact, Won
    <3>. QED BY <1>8, <1>21, <1>22, <1>23, <1>24
  <2>2. ASSUME NEW q \in Requests \ {r}, pc[q] = "linkElo"
        PROVE  /\ elos'[loc[q].fresh] = elos[loc[q].fresh]
               /\ \A o \in Players : <<o, loc[q].fresh>> \notin userElos'
    <3>1. /\ loc[q].fresh \in DOMAIN elos
          /\ \A o \in Players : <<o, loc[q].fresh>> \notin userElos
      BY <2>2 DEF RatingInv, RatingRequests, Backed, RatingLabels
    <3>2. loc[q].fresh # e
      BY <1>3, <1>5, <3>1
    <3>. QED BY <1>6, <1>9, <3>1, <3>2
  <2>3. \A k \in Keys \ (Concerns(r) \cup blurred') : Undisturbed(k)
    BY <1>3, <1>19, <1>26
  <2>. QED BY <1>12, <1>16, <1>25, <2>1, <2>2, <2>3, RequestsCarry DEF RatingInv
<1>28. Apart'
  BY <1>6, <1>8, <1>25, <1>26, ApartCarries DEF RatingInv, Apart
<1>29. ASSUME NEW k \in Keys \ blurred' PROVE Tallied(k)'
  <2>1. Tallied(k)
    BY <1>6, <1>29 DEF RatingInv
  <2>2. ASSUME NEW i, NEW g, NEW w, Pending(i, g, w) PROVE Pending(i, g, w)'
    BY <1>0, <1>25, <2>2, PendingCarries
  <2>3. CASE k # key
    BY <1>6, <1>11, <1>19, <2>1, <2>2, <2>3, TallyCarries
  <2>4. CASE k = key
    <3>1. e \in EloRowsOf(k[1], k[2])
      BY <1>3, <1>5, <2>4 DEF EloRowsOf
    <3>2. \A i \in EloRowsOf(k[1], k[2]) : i = e
      BY <2>1, <3>1 DEF Tallied
    <3>3. /\ read.games = elos[e].games /\ read.streak = elos[e].streak
          /\ read.best = elos[e].best
      <4>1. Of(l, at) \notin blurred /\ Unsaved("save", l, at)
        BY <1>2, <1>3, <1>6, <1>29, <1>b, <2>4 DEF Unsaved
      <4>. QED BY <1>1, <1>2, <1>c, <1>d, <4>1 DEF Exact
    <3>4. /\ elos[e].games = RatedCount(ledger[key]) /\ elos[e].streak = Streak(ledger[key])
          /\ IsBest(ledger[key], elos[e].best) /\ elos[e].best \in Nat
      BY <1>5, <2>1, <2>4, <3>1 DEF Tallied, EloRow
    <3>5. new.games = RatedCount(ledger'[key])
      BY <1>7, <1>14, <3>3, <3>4
    <3>6. new.streak = Streak(ledger'[key])
      BY <1>4, <1>7, <1>10, <1>11, <3>3, <3>4, StreakGoesOn
    <3>7. IsBest(ledger'[key], new.best)
      BY <1>4, <1>7, <1>10, <1>11, <3>3, <3>4, BestGoesOn
    <3>8. ASSUME NEW g \in games
          PROVE  /\ [game |-> g, won |-> TRUE] \in ToSet(ledger'[key]) =>
                       <<e, g>> \in wins' \/ Pending(e, g, TRUE)'
                 /\ [game |-> g, won |-> FALSE] \in ToSet(ledger'[key]) =>
                       <<e, g>> \in loses' \/ Pending(e, g, FALSE)'
      <4>1. Pending(e, l.game, won)'
        <5>1. Won(loc[r])' = won
          BY <1>8, <1>f DEF Won
        <5>2. pc'[r] = "mark" /\ loc'[r].game = l.game /\ loc'[r].rows[loc'[r].at].elo = e
          BY <1>8, <1>b, <1>c, <1>d
        <5>. QED BY <5>1, <5>2 DEF Pending
      <4>2. ASSUME NEW w, [game |-> g, won |-> w] = res PROVE g = l.game /\ w = won
        <5>1. [game |-> g, won |-> w].game = g /\ [game |-> g, won |-> w].won = w
          OBVIOUS
        <5>. QED BY <1>4, <4>2, <5>1
      <4>3. /\ [game |-> g, won |-> TRUE] \in ToSet(ledger[key]) =>
                  <<e, g>> \in wins \/ Pending(e, g, TRUE)
            /\ [game |-> g, won |-> FALSE] \in ToSet(ledger[key]) =>
                  <<e, g>> \in loses \/ Pending(e, g, FALSE)
        BY <2>1, <2>4, <3>1 DEF Tallied
      <4>4. ASSUME [game |-> g, won |-> TRUE] \in ToSet(ledger'[key])
            PROVE  <<e, g>> \in wins' \/ Pending(e, g, TRUE)'
        <5>1. CASE [game |-> g, won |-> TRUE] = res
          BY <4>1, <4>2, <5>1
        <5>2. CASE [game |-> g, won |-> TRUE] \in ToSet(ledger[key])
          BY <1>6, <2>2, <4>3, <5>2
        <5>. QED BY <1>15, <4>4, <5>1, <5>2
      <4>5. ASSUME [game |-> g, won |-> FALSE] \in ToSet(ledger'[key])
            PROVE  <<e, g>> \in loses' \/ Pending(e, g, FALSE)'
        <5>1. CASE [game |-> g, won |-> FALSE] = res
          BY <4>1, <4>2, <5>1
        <5>2. CASE [game |-> g, won |-> FALSE] \in ToSet(ledger[key])
          BY <1>6, <2>2, <4>3, <5>2
        <5>. QED BY <1>15, <4>5, <5>1, <5>2
      <4>. QED BY <4>4, <4>5
    <3>9. EloRowsOf(k[1], k[2])' = EloRowsOf(k[1], k[2])
      BY <1>17
    <3>. QED BY <1>6, <1>9, <1>15, <2>4, <3>1, <3>2, <3>5, <3>6, <3>7, <3>8, <3>9, ZenonT(60) DEF Tallied
  <2>. QED BY <2>3, <2>4
<1>. QED BY <1>12, <1>13, <1>20, <1>27, <1>28, <1>29 DEF RatingInv

\* The locals once the next row is to be written.
Onward(l) == [l EXCEPT !.at = @ + 1]

LEMMA OnwardKeeps ==
    ASSUME NEW l, Shape("mark", l), Backed("mark", l)', Exact("mark", l)', Once(l)',
           l.at # Len(l.rows), NEW x, x = Onward(l)
    PROVE  /\ Shape("save", x) /\ Backed("save", x)' /\ Exact("save", x)' /\ Once(x)'
           /\ Works(x) = Works(l)
<1>1. /\ l \in RatingLoc /\ l.at \in 1..Len(l.rows) /\ l.todo = <<>> /\ l.game \in Games
      /\ Len(l.rows) \in Nat
  BY DEF Shape, Writing, RatingLoc
<1>2. x \in RatingLoc
  BY <1>1 DEF Onward, RatingLoc
<1>3. /\ x.at = l.at + 1 /\ x.rows = l.rows /\ x.todo = l.todo /\ x.scope = l.scope
      /\ x.game = l.game
  BY <1>1 DEF Onward, RatingLoc
<1>4. Shape("save", x)
  BY <1>1, <1>2, <1>3 DEF Shape, Fetching, Writing
<1>5. \A i : Of(x, i) = Of(l, i)
  BY <1>3 DEF Of
<1>6. Backed("save", x)'
  BY <1>3, <1>5 DEF Backed, Linked
<1>7. Exact("save", x)'
  <2>1. ASSUME NEW i \in DOMAIN l.rows, Unsaved("save", x, i) PROVE Unsaved("mark", l, i)
    BY <1>1, <1>3, <2>1 DEF Unsaved, Fetching
  <2>. QED BY <1>3, <1>5, <2>1 DEF Exact
<1>8. Once(x)'
  BY <1>3, <1>5 DEF Once
<1>. QED BY <1>3, <1>4, <1>6, <1>7, <1>8 DEF Works

LEMMA MarkKeeps ==
    ASSUME FlightOK, RatingInv, NEW r \in Requests, Mark(r)
    PROVE  RatingInv'
<1>a. PICK l : l = loc[r]
  OBVIOUS
<1>b. PICK e : e = l.rows[l.at].elo
  OBVIOUS
<1>c. PICK won : won = Won(l)
  OBVIOUS
<1>d. PICK key : key = Of(l, l.at)
  OBVIOUS
<1>0. pc[r] = "mark" /\ "mark" \in RatingLabels /\ "save" \in RatingLabels
  BY DEF Mark, RatingLabels
<1>1. Shape("mark", l) /\ Backed("mark", l) /\ Exact("mark", l) /\ Once(l)
  BY <1>0, <1>a DEF RatingInv, RatingRequests
<1>2. l \in RatingLoc /\ l.game \in Games /\ l.at \in DOMAIN l.rows /\ won \in BOOLEAN
  BY <1>1, <1>c DEF Shape, Writing, RatingLoc, Won
<1>3. l.rows[l.at] \in ReadRow /\ key \in Keys /\ key \in Works(l)
  BY <1>1, <1>2, <1>d, WorkedOn
<1>4. /\ l.rows[l.at].player \in Players /\ <<l.rows[l.at].player, e>> \in userElos
      /\ e \in DOMAIN elos /\ elos[e].scope = l.scope
      /\ [game |-> l.game, won |-> won] \in ToSet(ledger[key])
  BY <1>1, <1>2, <1>3, <1>b, <1>c, <1>d DEF Backed, Linked, RatingInv, RatingTables, ReadRow
<1>5. UNCHANGED <<games, elos, userElos, lastElo, ledger, blurred>>
  BY DEF Mark, history
<1>6. /\ wins \subseteq wins' /\ loses \subseteq loses'
      /\ \A m \in wins' \ wins : m = <<e, l.game>> /\ won
      /\ \A m \in loses' \ loses : m = <<e, l.game>> /\ ~won
      /\ l.game \in games => IF won THEN <<e, l.game>> \in wins' ELSE <<e, l.game>> \in loses'
  BY <1>a, <1>b, <1>c DEF Mark
<1>7. Done(r) \/ (Goto(r, "save", Onward(l)) /\ l.at # Len(l.rows))
  BY <1>a DEF Mark, Onward
<1>8. \/ pc'[r] = "idle"
      \/ pc'[r] = "save" /\ loc'[r] = Onward(l) /\ l.at # Len(l.rows)
  BY <1>7, GoesTo DEF Done
<1>9. \A q \in Requests \ {r} : RatingRests(q)
  BY <1>7, OthersRest DEF Done
<1>10. \A k \in Keys : EloRowsOf(k[1], k[2])' = EloRowsOf(k[1], k[2])
  BY <1>5 DEF EloRowsOf
<1>11. Grows /\ \A k \in Keys : Undisturbed(k)
  BY <1>5, <1>10, LedgerCounts DEF Grows, Undisturbed, RatingInv
<1>12. RatingTables'
  <2>1. wins' \cup loses' \subseteq (DOMAIN elos) \X Games
    BY <1>2, <1>4, <1>6 DEF RatingInv, RatingTables
  <2>. QED BY <1>5, <2>1 DEF RatingInv, RatingTables
<1>13. Owned'
  <2>1. ASSUME NEW m \in wins' \cup loses' PROVE \E p \in Players : <<p, m[1]>> \in userElos
    <3>1. CASE m \in wins \cup loses
      BY <3>1 DEF RatingInv, Owned
    <3>2. CASE m \notin wins \cup loses
      BY <1>4, <1>6, <3>2
    <3>. QED BY <3>1, <3>2
  <2>. QED BY <1>5, <2>1 DEF RatingInv, Owned
<1>14. NeverAhead'
  <2>1. ASSUME NEW k \in Keys, NEW i \in EloRowsOf(k[1], k[2]), NEW g \in Games
        PROVE  /\ <<i, g>> \in wins' => [game |-> g, won |-> TRUE] \in ToSet(ledger[k])
               /\ <<i, g>> \in loses' => [game |-> g, won |-> FALSE] \in ToSet(ledger[k])
    <3>0. /\ <<i, g>> \in wins => [game |-> g, won |-> TRUE] \in ToSet(ledger[k])
          /\ <<i, g>> \in loses => [game |-> g, won |-> FALSE] \in ToSet(ledger[k])
      BY DEF RatingInv, NeverAhead
    <3>1. CASE i = e /\ g = l.game
      <4>1. key = k
        BY <1>4, <1>d, <3>1, OneKey DEF RatingInv, Of
      <4>2. <<i, g>> \in wins' => <<i, g>> \in wins \/ won
        BY <1>6
      <4>3. <<i, g>> \in loses' => <<i, g>> \in loses \/ ~won
        BY <1>6
      <4>4. CASE won
        <5>1. [game |-> g, won |-> TRUE] \in ToSet(ledger[k])
          BY <1>2, <1>4, <3>1, <4>1, <4>4
        <5>. QED BY <3>0, <4>3, <4>4, <5>1
      <4>5. CASE ~won
        <5>1. [game |-> g, won |-> FALSE] \in ToSet(ledger[k])
          BY <1>2, <1>4, <3>1, <4>1, <4>5
        <5>. QED BY <3>0, <4>2, <4>5, <5>1
      <4>. QED BY <4>4, <4>5
    <3>2. CASE ~(i = e /\ g = l.game)
      <4>1. (<<i, g>> \in wins' => <<i, g>> \in wins) /\ (<<i, g>> \in loses' => <<i, g>> \in loses)
        BY <1>6, <3>2
      <4>. QED BY <3>0, <4>1
    <3>. QED BY <3>1, <3>2
  <2>. QED BY <1>5, <1>10, <2>1 DEF RatingInv, NeverAhead
<1>15. Backed("mark", l)' /\ Exact("mark", l)' /\ Once(l)'
  BY <1>1, <1>11, <1>12, WorkedOn, LocalsCarry DEF RatingInv
<1>16. pc'[r] \in RatingLabels =>
           /\ Shape(pc'[r], loc'[r]) /\ Once(loc[r])'
           /\ Backed(pc[r], loc[r])' /\ Exact(pc[r], loc[r])'
           /\ Works(loc'[r]) = Works(l) /\ pc'[r] # "linkElo"
  <2>. SUFFICES ASSUME NEW to, NEW x, to = pc'[r], x = loc'[r], to \in RatingLabels
                PROVE  /\ Shape(to, x) /\ Once(x)' /\ Backed(to, x)' /\ Exact(to, x)'
                       /\ Works(x) = Works(l) /\ to # "linkElo"
    BY DEF Once, Backed, Linked, Exact, Won
  <2>1. to = "save" /\ x = Onward(l) /\ l.at # Len(l.rows)
    BY <1>8 DEF RatingLabels
  <2>2. /\ Shape("save", x) /\ Backed("save", x)' /\ Exact("save", x)' /\ Once(x)'
        /\ Works(x) = Works(l)
    BY <1>1, <1>15, <2>1, OnwardKeeps
  <2>. QED BY <2>1, <2>2
<1>17. Concerns(r) = Works(l) /\ Concerns(r)' \subseteq Concerns(r)
  BY <1>0, <1>16, <1>a, ConcernsAre, ConcernsBecome
<1>18. RatingRequests'
  <2>1. ASSUME NEW q \in Requests \ {r}, pc[q] = "linkElo"
        PROVE  /\ elos'[loc[q].fresh] = elos[loc[q].fresh]
               /\ \A o \in Players : <<o, loc[q].fresh>> \notin userElos'
    BY <1>5, <2>1 DEF RatingInv, RatingRequests, Backed, RatingLabels
  <2>. QED BY <1>9, <1>11, <1>12, <1>16, <2>1, RequestsCarry DEF RatingInv
<1>19. Apart'
  <2>1. pc'[r] # "linkElo"
    BY <1>8
  <2>. QED BY <1>5, <1>9, <1>17, <2>1, ApartCarries DEF RatingInv, Apart
<1>20. ASSUME NEW k \in Keys \ blurred' PROVE Tallied(k)'
  <2>1. Tallied(k)
    BY <1>5, <1>20 DEF RatingInv
  <2>2. ASSUME NEW i, NEW g \in games', NEW w, Pending(i, g, w), ~Pending(i, g, w)'
        PROVE  i = e /\ g = l.game /\ w = won /\ l.game \in games
    BY <1>0, <1>5, <1>9, <1>a, <1>b, <1>c, <2>2, PendingCarries
  <2>3. ASSUME NEW i, NEW g \in games'
        PROVE  /\ <<i, g>> \in wins \/ Pending(i, g, TRUE) =>
                     <<i, g>> \in wins' \/ Pending(i, g, TRUE)'
               /\ <<i, g>> \in loses \/ Pending(i, g, FALSE) =>
                     <<i, g>> \in loses' \/ Pending(i, g, FALSE)'
    <3>1. <<i, g>> \in wins => <<i, g>> \in wins'
      BY <1>6
    <3>2. <<i, g>> \in loses => <<i, g>> \in loses'
      BY <1>6
    <3>3. ASSUME Pending(i, g, TRUE), ~Pending(i, g, TRUE)' PROVE <<i, g>> \in wins'
      <4>1. i = e /\ g = l.game /\ TRUE = won /\ l.game \in games
        BY <2>2, <3>3
      <4>2. IF won THEN <<e, l.game>> \in wins' ELSE <<e, l.game>> \in loses'
        BY <1>6, <4>1
      <4>3. IF TRUE THEN <<e, l.game>> \in wins' ELSE <<e, l.game>> \in loses'
        BY <4>1, <4>2
      <4>. QED BY <4>1, <4>3
    <3>4. ASSUME Pending(i, g, FALSE), ~Pending(i, g, FALSE)' PROVE <<i, g>> \in loses'
      <4>1. i = e /\ g = l.game /\ FALSE = won /\ l.game \in games
        BY <2>2, <3>4
      <4>2. ~won
        BY <4>1
      <4>. QED BY <1>6, <4>1, <4>2
    <3>. QED BY <3>1, <3>2, <3>3, <3>4
  <2>. QED BY <1>5, <1>11, <2>1, <2>3, TallyCarries
<1>. QED BY <1>12, <1>13, <1>14, <1>18, <1>19, <1>20 DEF RatingInv

-----------------------------------------------------------------------------
LEMMA RatingsInitially == Init => RatingInv
<1>. SUFFICES ASSUME Init PROVE RatingInv
  OBVIOUS
<1>1. /\ games = Games /\ elos = [e \in {} |-> None] /\ userElos = {} /\ wins = {} /\ loses = {}
      /\ lastElo = 0 /\ ledger = [k \in Players \X Scopes |-> <<>>] /\ blurred = {}
      /\ \A r \in Requests : pc[r] = "idle"
  BY DEF Init, RatingsInit, FlightInit
<1>2. DOMAIN elos = {} /\ \A k \in Keys : EloRowsOf(k[1], k[2]) = {}
  BY <1>1 DEF EloRowsOf
<1>3. RatingTables
  <2>1. elos \in [DOMAIN elos -> EloRow]
    BY <1>1
  <2>2. ledger \in [Keys -> Seq(Result)]
    BY <1>1 DEF Keys
  <2>. QED BY <1>1, <1>2, <2>1, <2>2 DEF RatingTables
<1>4. Owned /\ NeverAhead
  BY <1>1, <1>2 DEF Owned, NeverAhead
<1>5. RatingRequests /\ Apart
  <2>1. \A r \in Requests : pc[r] \notin RatingLabels /\ pc[r] # "linkElo"
    BY <1>1 DEF RatingLabels
  <2>. QED BY <2>1, ConcernsAre DEF RatingRequests, Apart
<1>6. ASSUME NEW k \in Keys PROVE Tallied(k)
  BY <1>1, <1>2 DEF Tallied, Keys
<1>. QED BY <1>3, <1>4, <1>5, <1>6 DEF RatingInv

LEMMA RatingsStep == FlightOK /\ OthersOK /\ RatingInv /\ [Next]_vars => RatingInv'
BY RatingNext, RestKeeps, CallKeeps, FetchKeeps, InsertKeeps, LinkKeeps, SaveKeeps, MarkKeeps,
   StopKeeps DEF RatingMove, RatingStep

\* A mark on its way is one of a rating that somebody works on.
LEMMA PendingIsWorkedOn ==
    ASSUME RatingInv, NEW k \in Keys, NEW e \in EloRowsOf(k[1], k[2]), NEW g, NEW won,
           Pending(e, g, won)
    PROVE  \E r \in Requests : k \in Concerns(r)
<1>1. PICK r \in Requests : pc[r] = "mark" /\ loc[r].rows[loc[r].at].elo = e
  BY DEF Pending
<1>. PICK l : l = loc[r]
  OBVIOUS
<1>2. Shape("mark", l) /\ Backed("mark", l)
  BY <1>1 DEF RatingInv, RatingRequests, RatingLabels
<1>3. l.at \in DOMAIN l.rows
  BY <1>2 DEF Shape, Writing, RatingLoc
<1>4. l.rows[l.at] \in ReadRow /\ Of(l, l.at) \in Works(l)
  BY <1>2, <1>3, WorkedOn
<1>5. /\ l.rows[l.at].player \in Players /\ <<l.rows[l.at].player, e>> \in userElos
      /\ elos[e].scope = l.scope
  BY <1>1, <1>2, <1>3, <1>4 DEF Backed, Linked, ReadRow
<1>6. Of(l, l.at) = k
  BY <1>5, OneKey DEF RatingInv, Of
<1>. QED BY <1>1, <1>4, <1>6, ConcernsAre DEF RatingLabels

LEMMA RatingsCount == RatingInv => RatingsCountGames
<1>. SUFFICES ASSUME RatingInv PROVE RatingsCountGames
  OBVIOUS
<1>1. games \subseteq Games
  BY DEF RatingInv, RatingTables
<1>2. ASSUME NEW k \in Keys \ (blurred \cup UNION {Concerns(r) : r \in Requests})
      PROVE  /\ Cardinality(EloRowsOf(k[1], k[2])) <= 1
             /\ ledger[k] # <<>> => EloRowsOf(k[1], k[2]) # {}
             /\ \A e \in EloRowsOf(k[1], k[2]) :
                   /\ elos[e].games = RatedCount(ledger[k])
                   /\ elos[e].streak = Streak(ledger[k])
                   /\ elos[e].best = BestStreak(ledger[k])
                   /\ \A g \in games :
                         /\ [game |-> g, won |-> TRUE] \in ToSet(ledger[k]) => <<e, g>> \in wins
                         /\ [game |-> g, won |-> FALSE] \in ToSet(ledger[k]) => <<e, g>> \in loses
  <2>1. Tallied(k)
    BY <1>2 DEF RatingInv
  <2>2. Cardinality(EloRowsOf(k[1], k[2])) <= 1
    <3>1. CASE EloRowsOf(k[1], k[2]) = {}
      BY <3>1, FS_EmptySet
    <3>2. CASE EloRowsOf(k[1], k[2]) # {}
      <4>1. PICK e \in EloRowsOf(k[1], k[2]) : \A f \in EloRowsOf(k[1], k[2]) : e = f
        BY <2>1, <3>2 DEF Tallied
      <4>2. EloRowsOf(k[1], k[2]) = {e} /\ Cardinality({e}) = 1
        BY <4>1, FS_Singleton
      <4>3. Cardinality(EloRowsOf(k[1], k[2])) = 1
        BY <4>2
      <4>. QED BY <4>3
    <3>. QED BY <3>1, <3>2
  <2>3. \A e \in EloRowsOf(k[1], k[2]) : \A g, won : ~Pending(e, g, won)
    BY <1>2, PendingIsWorkedOn
  <2>4. ledger[k] \in Seq(Result)
    BY <1>2, LedgerCounts DEF RatingInv
  <2>. QED BY <2>1, <2>2, <2>3, <2>4, BestIsBestStreak DEF Tallied
<1>. QED BY <1>1, <1>2 DEF RatingInv, NeverAhead, RatingsCountGames, Keys

\* A player has one rating row of a scope, and it sums up the results in their
\* order, however often a game is completed, deleted or played by a user on both
\* teams: the games counted, the streaks and the marks.  A rating that two
\* requests worked on at once, or one stopped at, may lose results but never
\* counts or marks one that was not (update_elo, elo_row_for_member,
\* add_member_to_active_set, delete_game).
THEOREM RatingsAreExact == Spec => []RatingsCountGames
<1>1. Init => OthersOK /\ RatingInv
  BY OthersInit, RatingsInitially
<1>2. (FlightOK /\ TablesOK) /\ (OthersOK /\ RatingInv) /\ [Next]_vars => (OthersOK /\ RatingInv)'
  BY OthersStep, RatingsStep
<1>. QED BY <1>1, <1>2, RatingsCount, TypesHold, PTL DEF Spec
=============================================================================
