--------------------------- MODULE AccountsProofs ---------------------------
(***************************************************************************)
(* Proofs about accounts and sessions, for the whole server of ClubServer: *)
(* any number of users, browsers and requests, any bounds.  The requests   *)
(* of the other modules move between labels of their own and touch nothing *)
(* of an account (ForeignMove, AccountNext); what is left is one case for  *)
(* every statement of the handlers of auth.rs.                             *)
(***************************************************************************)
EXTENDS ClubServer, TLAPS

\* The labels of requests that are not about an account.
Foreign ==
    {"idle"} \cup MembershipLabels \cup LogoLabels \cup RatingLabels \cup SocialLabels

LocOK == loc = [r \in Requests |-> loc[r]]

PcOK == pc \in [Requests -> Foreign \cup AccountLabels]

\* Request r goes from its label to another, with new locals.
Moves(r, to, x) ==
    /\ pc' = [pc EXCEPT ![r] = to]
    /\ loc' = [loc EXCEPT ![r] = x]
    /\ asked' = asked

ForeignMove(r) ==
    /\ pc[r] \in Foreign
    /\ \E to \in Foreign : \E x : Moves(r, to, x)

LEMMA MembershipMoves ==
    ASSUME NEW r \in Requests, MembershipStep(r)
    PROVE  ForeignMove(r)
<1>. USE DEF ForeignMove, Moves, Foreign, MembershipLabels, Proceed, Done, Goto
<1>1. CASE FoundMember(r)
  BY <1>1 DEF FoundMember
<1>2. CASE Apply(r)
  BY <1>2 DEF Apply
<1>3. CASE FindMember(r)
  BY <1>3 DEF FindMember
<1>4. CASE Admit(r)
  BY <1>4 DEF Admit
<1>5. CASE ClearRequest(r)
  BY <1>5 DEF ClearRequest
<1>6. CASE ReadMember(r)
  BY <1>6 DEF ReadMember
<1>7. CASE Unseat(r)
  BY <1>7 DEF Unseat
<1>8. CASE DropDummy(r)
  BY <1>8 DEF DropDummy
<1>9. CASE DropUser(r)
  BY <1>9 DEF DropUser
<1>10. CASE InsertDummy(r)
  BY <1>10 DEF InsertDummy
<1>11. CASE InsertPlaceholder(r)
  BY <1>11 DEF InsertPlaceholder
<1>12. CASE SeatDummy(r)
  BY <1>12 DEF SeatDummy
<1>13. CASE AddBot(r)
  BY <1>13 DEF AddBot
<1>14. CASE MakeAdmin(r) \/ UnmakeAdmin(r)
  BY <1>14 DEF MakeAdmin, UnmakeAdmin, WriteAdmin
<1>15. CASE RecordInvitation(r)
  BY <1>15 DEF RecordInvitation
<1>16. CASE FindInvited(r)
  BY <1>16 DEF FindInvited
<1>17. CASE SeatInvited(r)
  BY <1>17 DEF SeatInvited
<1>. QED
  BY <1>1, <1>2, <1>3, <1>4, <1>5, <1>6, <1>7, <1>8, <1>9, <1>10, <1>11, <1>12, <1>13, <1>14,
     <1>15, <1>16, <1>17
  DEF MembershipStep

LEMMA MembershipBegins ==
    ASSUME NEW r \in Requests, BeginMembershipCall(r)
    PROVE  ForeignMove(r)
<1>. USE DEF ForeignMove, Moves, Foreign, MembershipLabels, Start, Goto, BeginFor
<1>1. ASSUME NEW u \in Users, NEW c \in Clubs,
             CreateClub(r, u, c) \/ RequestToJoin(r, u, c) \/ CreateDummy(r, u, c)
      PROVE  ForeignMove(r)
  BY <1>1 DEF CreateClub, RequestToJoin, CreateDummy
<1>2. ASSUME NEW u \in Users, NEW q, AcceptRequest(r, u, q) \/ RejectRequest(r, u, q)
      PROVE  ForeignMove(r)
  BY <1>2 DEF AcceptRequest, RejectRequest, BeginAnswer
<1>3. ASSUME NEW u \in Users, NEW m,
             \/ DeleteMember(r, u, m) \/ LeaveClub(r, u, m)
             \/ PromoteMember(r, u, m) \/ DemoteMember(r, u, m)
      PROVE  ForeignMove(r)
  BY <1>3 DEF DeleteMember, LeaveClub, PromoteMember, DemoteMember, BeginMemberCall
<1>4. ASSUME NEW u \in Users, NEW c \in Clubs, NEW who \in Users, Invite(r, u, c, who)
      PROVE  ForeignMove(r)
  BY <1>4 DEF Invite
<1>. QED BY <1>1, <1>2, <1>3, <1>4 DEF BeginMembershipCall

LEMMA LogoMoves ==
    ASSUME NEW r \in Requests, LogoStep(r) \/ BeginLogoCall(r) \/ StopLogo(r)
    PROVE  ForeignMove(r)
<1>. USE DEF ForeignMove, Moves, Foreign, LogoLabels, Uploading, Removing, Start, Proceed, Done,
             Goto
<1>1. CASE LogoStep(r)
  BY <1>1 DEF LogoStep, PutLogo, SetLogo, ReadLogo, DropLogo, ClearLogo
<1>2. CASE BeginLogoCall(r)
  BY <1>2 DEF BeginLogoCall, UploadLogo, RemoveLogo, BeginLogo
<1>3. CASE StopLogo(r)
  BY <1>3 DEF StopLogo, Drop
<1>. QED BY <1>1, <1>2, <1>3

LEMMA RatingMoves ==
    ASSUME NEW r \in Requests, RatingStep(r) \/ BeginRatingCall(r) \/ StopRating(r)
    PROVE  ForeignMove(r)
<1>. USE DEF ForeignMove, Moves, Foreign, RatingLabels, Start, Proceed, Done, Goto
<1>1. CASE RatingStep(r)
  BY <1>1 DEF RatingStep, Fetch, Fetched, InsertElo, LinkElo, Save, Mark
<1>2. CASE BeginRatingCall(r)
  BY <1>2 DEF BeginRatingCall, CompleteGame, SeatPlayer, BeginRating
<1>3. CASE StopRating(r)
  BY <1>3 DEF StopRating, Drop
<1>. QED BY <1>1, <1>2, <1>3

LEMMA MatchMoves ==
    ASSUME NEW r \in Requests, MatchStep(r) \/ BeginMatchCall(r) \/ StopSocial(r)
    PROVE  ForeignMove(r)
<1>. USE DEF ForeignMove, Moves, Foreign, SocialLabels, Start, Done, Goto
<1>1. CASE MatchStep(r)
  BY <1>1 DEF MatchStep, Swap, Split
<1>2. CASE BeginMatchCall(r)
  BY <1>2 DEF BeginMatchCall, CreateSocial
<1>3. CASE StopSocial(r)
  BY <1>3 DEF StopSocial, Drop
<1>. QED BY <1>1, <1>2, <1>3

LEMMA MembershipStops ==
    ASSUME NEW r \in Requests, StopMembershipCall(r)
    PROVE  ForeignMove(r)
BY DEF StopMembershipCall, Drop, ForeignMove, Moves, Foreign

-----------------------------------------------------------------------------
\* Types, as far as the proofs need them: the bounds are kept in ClubServerProofs.

AccountLocals ==
    [user : Users \cup {None}, browser : Browsers \cup {None},
     op : {None, "edit", "erase", "verify", "reset"},
     access : (Nat \X Nat) \cup {None}, refresh : Nat \cup {None},
     retried : BOOLEAN, password : Nat, letter : Nat \cup {None}]

Calling == {"auth", "sweep", "denied", "refresh", "sweepOld", "rotate", "renewed", "edit", "erase"}

Acting == {"edit", "erase", "tombstone", "issue", "mail", "setPassword", "setVerified",
           "spend", "revoke"}

Browsing == Calling \cup {"tombstone", "logout", "clear", "issue", "signedIn"}

\* What a label says of the locals of its handler.
LocalOK(label, l) ==
    /\ label \in AccountLabels => l \in AccountLocals
    /\ label \in Calling => l.op \in {"edit", "erase"}
    /\ label \in Acting => l.user \in Users
    /\ label \in Browsing => l.browser \in Browsers
    /\ label = "mail" => l.op \in {"verify", "reset"}
    /\ label = "setPassword" => l.op = "reset"
    /\ label \in {"refresh", "sweepOld", "rotate", "renewed", "signedIn"} => l.refresh \in Nat
    /\ label \in {"renewed", "signedIn"} => l.access \in Nat \X Nat

FlightOK == LocOK /\ PcOK /\ \A r \in Requests : LocalOK(pc[r], loc[r])

SessionRow == [user : Users, access : Nat \X Nat, expired : BOOLEAN, old : BOOLEAN,
               password : Nat]

TablesOK ==
    /\ users \in [Users -> UserRow]
    /\ tokens = [s \in DOMAIN tokens |-> tokens[s]]
    /\ \A s \in DOMAIN tokens : s \in Nat /\ tokens[s] \in SessionRow
    /\ letters = [l \in DOMAIN letters |-> letters[l]]
    /\ \A l \in DOMAIN letters : l \in Nat /\ letters[l] \in LetterRow
    /\ jar \in [Browsers -> [access : (Nat \X Nat) \cup {None}, refresh : Nat \cup {None}]]
    /\ last \in [session : Nat, access : Nat, letter : Nat, password : Nat]

\* A request moves within the types when its new label and locals agree.
LEMMA MoveOK ==
    ASSUME FlightOK, NEW r \in Requests, NEW to \in Foreign \cup AccountLabels, NEW x,
           Moves(r, to, x), LocalOK(to, x)
    PROVE  FlightOK'
<1>1. LocOK'
  BY DEF FlightOK, LocOK, Moves
<1>2. PcOK'
  BY DEF FlightOK, PcOK, Moves
<1>3. ASSUME NEW q \in Requests PROVE LocalOK(pc'[q], loc'[q])
  <2>1. CASE q = r
    BY <2>1 DEF FlightOK, LocOK, PcOK, Moves
  <2>2. CASE q # r
    <3>1. pc'[q] = pc[q] /\ loc'[q] = loc[q]
      BY <2>2 DEF FlightOK, LocOK, PcOK, Moves
    <3>. QED BY <3>1 DEF FlightOK
  <2>. QED BY <2>1, <2>2
<1>. QED BY <1>1, <1>2, <1>3 DEF FlightOK

LEMMA GoesTo ==
    ASSUME FlightOK, NEW r \in Requests, NEW to, NEW x, Goto(r, to, x)
    PROVE  pc'[r] = to /\ loc'[r] = x
BY DEF FlightOK, LocOK, PcOK, Goto

LEMMA LabelsApart == Foreign \cap AccountLabels = {}
BY DEF Foreign, AccountLabels, MembershipLabels, LogoLabels, Uploading, Removing, RatingLabels,
   SocialLabels

LEMMA ForeignOK ==
    ASSUME FlightOK, NEW r \in Requests, ForeignMove(r)
    PROVE  FlightOK'
<1>1. PICK to \in Foreign : \E x : Moves(r, to, x)
  BY DEF ForeignMove
<1>2. PICK x : Moves(r, to, x)
  BY <1>1
<1>3. LocalOK(to, x)
  BY LabelsApart DEF LocalOK, Calling, Acting, Browsing, AccountLabels
<1>. QED BY <1>2, <1>3, MoveOK

\* Values a request begins with.
LEMMA NoLocalsOK == NoLocals \in AccountLocals
BY DEF NoLocals, AccountLocals, Unusable

LEMMA InitFlightOK == Init => FlightOK
BY DEF Init, FlightInit, FlightOK, LocOK, PcOK, Foreign, LocalOK, Calling, Acting, Browsing, AccountLabels

LEMMA InitTablesOK == Init => TablesOK
<1>. SUFFICES ASSUME Init PROVE TablesOK
  OBVIOUS
<1>. USE AccountsAssumption DEF Init, AccountsInit
<1>0. Browsers \subseteq Nat /\ Cardinality(Browsers) \in Nat /\ FirstSessions \subseteq Browsers
  BY DEF FirstSessions
<1>1. users \in [Users -> UserRow]
  BY DEF UserRow, Unusable, FirstPassword
<1>2. tokens = [s \in DOMAIN tokens |-> tokens[s]]
  OBVIOUS
<1>3. \A s \in DOMAIN tokens : s \in Nat /\ tokens[s] \in SessionRow
  BY <1>0 DEF SessionRow, FirstPassword
<1>4. /\ letters = [l \in DOMAIN letters |-> letters[l]]
      /\ \A l \in DOMAIN letters : l \in Nat /\ letters[l] \in LetterRow
  OBVIOUS
<1>5. jar \in [Browsers -> [access : (Nat \X Nat) \cup {None}, refresh : Nat \cup {None}]]
  BY <1>0 DEF NoCookies
<1>6. last \in [session : Nat, access : Nat, letter : Nat, password : Nat]
  BY <1>0 DEF FirstPassword
<1>. QED BY <1>1, <1>2, <1>3, <1>4, <1>5, <1>6 DEF TablesOK

-----------------------------------------------------------------------------
\* The locals stay well-typed: one lemma for each way a handler goes on.

LEMMA GotoOK ==
    ASSUME FlightOK, NEW r \in Requests, NEW to \in Foreign \cup AccountLabels, NEW x,
           Goto(r, to, x), LocalOK(to, x)
    PROVE  FlightOK'
<1>1. Moves(r, to, x)
  BY DEF Goto, Moves
<1>. QED BY <1>1, MoveOK

LEMMA DoneOK ==
    ASSUME FlightOK, NEW r \in Requests, Done(r)
    PROVE  FlightOK'
<1>1. "idle" \in Foreign /\ LocalOK("idle", None)
  BY DEF Foreign, LocalOK, Calling, Acting, Browsing, AccountLabels
<1>2. Goto(r, "idle", None)
  BY DEF Done
<1>. QED BY <1>1, <1>2, GotoOK

LEMMA ProceedOK ==
    ASSUME FlightOK, NEW r \in Requests, NEW to \in Foreign \cup AccountLabels,
           Proceed(r, to), LocalOK(to, loc[r])
    PROVE  FlightOK'
<1>1. Goto(r, to, loc[r])
  BY DEF Proceed
<1>. QED BY <1>1, GotoOK

LEMMA DropOK ==
    ASSUME FlightOK, NEW r \in Requests, Drop(r)
    PROVE  FlightOK'
<1>1. "idle" \in Foreign /\ LocalOK("idle", None)
  BY DEF Foreign, LocalOK, Calling, Acting, Browsing, AccountLabels
<1>2. Moves(r, "idle", None)
  BY DEF Drop, Moves
<1>. QED BY <1>1, <1>2, MoveOK


-----------------------------------------------------------------------------
\* Every statement of auth.rs keeps the locals well-typed.

LEMMA AccountStepFlight ==
    ASSUME FlightOK, TablesOK, NEW r \in Requests, AccountStep(r)
    PROVE  FlightOK'
<1>. DEFINE l == loc[r]
<1>0. LocalOK(pc[r], l)
  BY DEF FlightOK
<1>a. AccountLabels \subseteq Foreign \cup AccountLabels
  OBVIOUS
<1>1. CASE Authenticate(r)
  <2>1. l \in AccountLocals /\ l.op \in {"edit", "erase"} /\ l.browser \in Browsers
    BY <1>0, <1>1 DEF Authenticate, LocalOK, AccountLabels, Calling, Browsing
  <2>2. CASE Proceed(r, "denied") \/ Proceed(r, "sweep")
    <3>1. LocalOK("denied", l) /\ LocalOK("sweep", l)
      BY <2>1 DEF LocalOK, AccountLabels, Calling, Acting, Browsing
    <3>. QED BY <2>2, <3>1, ProceedOK DEF AccountLabels
  <2>3. CASE \E s \in SessionsWith(l.access) :
                Goto(r, l.op, [l EXCEPT !.user = tokens[s].user])
    <3>1. PICK s \in SessionsWith(l.access) : Goto(r, l.op, [l EXCEPT !.user = tokens[s].user])
      BY <2>3
    <3>2. tokens[s].user \in Users
      BY DEF SessionsWith, TablesOK, SessionRow
    <3>. DEFINE x == [l EXCEPT !.user = tokens[s].user]
    <3>3. x \in AccountLocals /\ x.user \in Users /\ x.op = l.op /\ x.browser = l.browser
      BY <2>1, <3>2 DEF AccountLocals
    <3>. HIDE DEF x
    <3>4. LocalOK(l.op, x)
      BY <2>1, <3>3 DEF LocalOK, AccountLabels, Calling, Acting, Browsing
    <3>. QED BY <2>1, <3>1, <3>4, GotoOK DEF AccountLabels, x
  <2>. QED BY <1>1, <2>2, <2>3 DEF Authenticate
<1>2. CASE Sweep(r)
  <2>1. LocalOK("denied", l)
    BY <1>0, <1>2 DEF Sweep, LocalOK, AccountLabels, Calling, Acting, Browsing
  <2>. QED BY <1>2, <2>1, ProceedOK DEF Sweep, AccountLabels
<1>3. CASE \/ GiveUp(r) \/ SweepOld(r) \/ EditProfile(r) \/ SignIn(r) \/ ClearCookies(r)
           \/ Mail(r) \/ DiscardLetter(r) \/ RevokeSessions(r)
  BY <1>3, DoneOK DEF GiveUp, SweepOld, EditProfile, SignIn, ClearCookies, Mail, DiscardLetter,
     RevokeSessions
<1>4. CASE AskRefresh(r)
  <2>. DEFINE s == jar[l.browser].refresh
              x == [l EXCEPT !.refresh = s, !.retried = TRUE]
  <2>1. /\ l \in AccountLocals /\ l.op \in {"edit", "erase"} /\ l.browser \in Browsers
        /\ s # None /\ Goto(r, "refresh", x)
    BY <1>0, <1>4 DEF AskRefresh, LocalOK, AccountLabels, Calling, Browsing
  <2>2. s \in Nat
    BY <2>1 DEF TablesOK
  <2>3. x \in AccountLocals /\ x.refresh \in Nat /\ x.op = l.op /\ x.browser = l.browser
    BY <2>1, <2>2 DEF AccountLocals
  <2>. HIDE DEF x
  <2>4. LocalOK("refresh", x)
    BY <2>1, <2>3 DEF LocalOK, AccountLabels, Calling, Acting, Browsing
  <2>. QED BY <2>1, <2>4, <1>a, GotoOK DEF AccountLabels
<1>5. CASE FindSession(r)
  <2>1. CASE Done(r)
    BY <2>1, DoneOK
  <2>2. CASE Proceed(r, "sweepOld") \/ Proceed(r, "rotate")
    <3>1. LocalOK("sweepOld", l) /\ LocalOK("rotate", l)
      BY <1>0, <1>5 DEF FindSession, LocalOK, AccountLabels, Calling, Acting, Browsing
    <3>. QED BY <2>2, <3>1, ProceedOK DEF AccountLabels
  <2>. QED BY <1>5, <2>1, <2>2 DEF FindSession
<1>6. CASE Rotate(r)
  <2>. DEFINE a == <<l.refresh, last.access + 1>>
              x == [l EXCEPT !.access = a]
  <2>1. l \in AccountLocals /\ l.op \in {"edit", "erase"} /\ l.refresh \in Nat
        /\ l.browser \in Browsers /\ Goto(r, "renewed", x)
    BY <1>0, <1>6 DEF Rotate, LocalOK, AccountLabels, Calling, Browsing
  <2>2. a \in Nat \X Nat
    BY <2>1 DEF TablesOK
  <2>3. x \in AccountLocals /\ x.access = a /\ x.refresh = l.refresh /\ x.op = l.op
        /\ x.browser = l.browser
    BY <2>1, <2>2 DEF AccountLocals
  <2>. HIDE DEF x, a
  <2>4. LocalOK("renewed", x)
    BY <2>1, <2>2, <2>3 DEF LocalOK, AccountLabels, Calling, Acting, Browsing
  <2>. QED BY <2>1, <2>4, <1>a, GotoOK DEF AccountLabels
<1>7. CASE Resend(r)
  <2>1. LocalOK("auth", l)
    BY <1>0, <1>7 DEF Resend, LocalOK, AccountLabels, Calling, Acting, Browsing
  <2>. QED BY <1>7, <2>1, ProceedOK DEF Resend, AccountLabels
<1>8. CASE CheckPassword(r)
  <2>1. LocalOK("tombstone", l) /\ LocalOK("denied", l)
    BY <1>0, <1>8 DEF CheckPassword, LocalOK, AccountLabels, Calling, Acting, Browsing
  <2>. QED BY <1>8, <2>1, ProceedOK DEF CheckPassword, AccountLabels
<1>9. CASE IssueSession(r)
  <2>. DEFINE s == last.session + 1
              a == <<s, last.access + 1>>
              x == [l EXCEPT !.access = a, !.refresh = s]
  <2>1. l \in AccountLocals /\ l.browser \in Browsers /\ Goto(r, "signedIn", x)
    BY <1>0, <1>9 DEF IssueSession, LocalOK, AccountLabels, Browsing
  <2>2. s \in Nat /\ a \in Nat \X Nat
    BY DEF TablesOK
  <2>3. x \in AccountLocals /\ x.access = a /\ x.refresh = s /\ x.browser = l.browser
    BY <2>1, <2>2 DEF AccountLocals
  <2>. HIDE DEF x, a, s
  <2>4. LocalOK("signedIn", x)
    BY <2>1, <2>2, <2>3 DEF LocalOK, AccountLabels, Calling, Acting, Browsing
  <2>. QED BY <2>1, <2>4, <1>a, GotoOK DEF AccountLabels
<1>10. CASE Logout(r)
  <2>1. LocalOK("clear", l)
    BY <1>0, <1>10 DEF Logout, LocalOK, AccountLabels, Calling, Acting, Browsing
  <2>. QED BY <1>10, <2>1, ProceedOK DEF Logout, AccountLabels
<1>11. CASE SetPassword(r) \/ SetVerified(r)
  <2>1. LocalOK("spend", l)
    BY <1>0, <1>11 DEF SetPassword, SetVerified, LocalOK, AccountLabels, Calling, Acting, Browsing
  <2>. QED BY <1>11, <2>1, ProceedOK DEF SetPassword, SetVerified, AccountLabels
<1>12. CASE SpendLetter(r)
  <2>1. LocalOK("revoke", l)
    BY <1>0, <1>12 DEF SpendLetter, LocalOK, AccountLabels, Calling, Acting, Browsing
  <2>2. Proceed(r, "revoke") \/ Done(r)
    BY <1>12 DEF SpendLetter
  <2>. QED BY <2>1, <2>2, ProceedOK, DoneOK DEF AccountLabels
<1>. QED
  BY <1>1, <1>2, <1>3, <1>4, <1>5, <1>6, <1>7, <1>8, <1>9, <1>10, <1>11, <1>12 DEF AccountStep

\* So does a call that begins, and one that stops.
LEMMA AccountBeginFlight ==
    ASSUME FlightOK, TablesOK, NEW r \in Requests, BeginAccountCall(r)
    PROVE  FlightOK'
<1>0. ASSUME NEW to \in AccountLabels, NEW x, Start(r, to, x), LocalOK(to, x)
      PROVE  FlightOK'
  BY <1>0, GotoOK DEF Start
<1>1. ASSUME NEW b \in Browsers, NEW op \in {"edit", "erase"}, Send(r, b, op)
      PROVE  FlightOK'
  <2>. DEFINE x == [NoLocals EXCEPT !.browser = b, !.op = op, !.access = jar[b].access]
  <2>1. jar[b].access \in (Nat \X Nat) \cup {None}
    BY DEF TablesOK
  <2>2. x \in AccountLocals /\ x.op = op /\ x.browser = b
    BY <2>1 DEF NoLocals, AccountLocals, Unusable
  <2>3. Start(r, "auth", x)
    BY <1>1 DEF Send
  <2>. HIDE DEF x
  <2>4. LocalOK("auth", x)
    BY <2>2 DEF LocalOK, AccountLabels, Calling, Acting, Browsing
  <2>. QED BY <2>3, <2>4, <1>0 DEF AccountLabels
<1>2. ASSUME NEW b \in Browsers, NEW u \in Users, BeginLogin(r, b, u)
      PROVE  FlightOK'
  <2>. DEFINE x == [NoLocals EXCEPT !.browser = b, !.user = u, !.password = users[u].password]
  <2>1. users[u].password \in Nat
    BY DEF TablesOK, UserRow
  <2>2. x \in AccountLocals /\ x.user = u /\ x.browser = b
    BY <2>1 DEF NoLocals, AccountLocals, Unusable
  <2>3. Start(r, "issue", x)
    BY <1>2 DEF BeginLogin
  <2>. HIDE DEF x
  <2>4. LocalOK("issue", x)
    BY <2>2 DEF LocalOK, AccountLabels, Calling, Acting, Browsing
  <2>. QED BY <2>3, <2>4, <1>0 DEF AccountLabels
<1>3. ASSUME NEW b \in Browsers, BeginLogout(r, b)
      PROVE  FlightOK'
  <2>. DEFINE x == [NoLocals EXCEPT !.browser = b, !.access = jar[b].access]
  <2>1. jar[b].access \in (Nat \X Nat) \cup {None}
    BY DEF TablesOK
  <2>2. x \in AccountLocals /\ x.browser = b
    BY <2>1 DEF NoLocals, AccountLocals, Unusable
  <2>3. Start(r, "logout", x)
    BY <1>3 DEF BeginLogout
  <2>. HIDE DEF x
  <2>4. LocalOK("logout", x)
    BY <2>2 DEF LocalOK, AccountLabels, Calling, Acting, Browsing
  <2>. QED BY <2>3, <2>4, <1>0 DEF AccountLabels
<1>4. ASSUME NEW u \in Users, NEW kind \in {"verify", "reset"},
             \/ \E state \in {"active", "minor"} : Register(r, u, state) /\ kind = "verify"
             \/ RequestLetter(r, u, kind)
      PROVE  FlightOK'
  <2>. DEFINE x == [NoLocals EXCEPT !.user = u, !.op = kind]
  <2>1. x \in AccountLocals /\ x.user = u /\ x.op = kind
    BY DEF NoLocals, AccountLocals, Unusable
  <2>2. Start(r, "mail", x)
    BY <1>4 DEF Register, RequestLetter
  <2>. HIDE DEF x
  <2>3. LocalOK("mail", x)
    BY <2>1 DEF LocalOK, AccountLabels, Calling, Acting, Browsing
  <2>. QED BY <2>2, <2>3, <1>0 DEF AccountLabels
<1>5. ASSUME NEW i \in DOMAIN letters, UseLetter(r, i)
      PROVE  FlightOK'
  <2>. DEFINE letter == letters[i]
              x == [NoLocals EXCEPT !.user = letter.user, !.op = letter.kind, !.letter = i]
              to == IF letter.stale THEN "discard"
                    ELSE IF letter.kind = "reset" THEN "setPassword" ELSE "setVerified"
  <2>1. i \in Nat /\ letter.user \in Users /\ letter.kind \in {"verify", "reset"}
    BY DEF TablesOK, LetterRow
  <2>2. x \in AccountLocals /\ x.user = letter.user /\ x.op = letter.kind
    BY <2>1 DEF NoLocals, AccountLocals, Unusable
  <2>3. Start(r, to, x)
    BY <1>5 DEF UseLetter
  <2>. HIDE DEF x
  <2>4. to \in {"discard", "setPassword", "setVerified"} /\ LocalOK(to, x)
    BY <2>1, <2>2 DEF LocalOK, AccountLabels, Calling, Acting, Browsing
  <2>. QED BY <2>3, <2>4, <1>0 DEF AccountLabels
<1>. QED BY <1>1, <1>2, <1>3, <1>4, <1>5 DEF BeginAccountCall

LEMMA FlightStep ==
    ASSUME FlightOK, TablesOK, [Next]_vars
    PROVE  FlightOK'
<1>1. ASSUME UNCHANGED flight PROVE FlightOK'
  BY <1>1 DEF flight, FlightOK, LocOK, PcOK
<1>2. CASE UNCHANGED vars
  BY <1>1, <1>2 DEF vars
<1>3. CASE AtOnce
  <2>1. UNCHANGED flight
    BY <1>3 DEF AtOnce, TimePasses, AccessExpires, RefreshExpires, LetterExpires, DropAccess,
       DropRefresh, MembershipAtOnce, DeleteClub, CancelRequest, RatingAtOnce, DeleteGame,
       MatchAtOnce, CreateSbmm
  <2>. QED BY <1>1, <2>1
<1>4. ASSUME NEW r \in Requests, Begin(r) PROVE FlightOK'
  BY <1>4, AccountBeginFlight, MembershipBegins, LogoMoves, RatingMoves, MatchMoves, ForeignOK
  DEF Begin
<1>5. ASSUME NEW r \in Requests, Step(r) PROVE FlightOK'
  <2>1. CASE Erase(r)
    <3>1. Proceed(r, "clear") /\ LocalOK("clear", loc[r])
      BY <2>1 DEF Erase, Tombstone, FlightOK, LocalOK, AccountLabels, Calling, Acting, Browsing
    <3>. QED BY <3>1, ProceedOK DEF AccountLabels
  <2>. QED BY <1>5, <2>1, AccountStepFlight, MembershipMoves, LogoMoves, RatingMoves, MatchMoves,
              ForeignOK
           DEF Step
<1>6. ASSUME NEW r \in Requests, Stop(r) PROVE FlightOK'
  BY <1>6, DropOK, MembershipStops, LogoMoves, RatingMoves, MatchMoves, ForeignOK
  DEF Stop, StopAccountCall
<1>. QED BY <1>2, <1>3, <1>4, <1>5, <1>6 DEF Next

-----------------------------------------------------------------------------
\* What the steps of the server can be, for an account.

Others == UNCHANGED accountVars /\ (UNCHANGED flight \/ \E r \in Requests : ForeignMove(r))

LEMMA AccountNext ==
    ASSUME [Next]_vars
    PROVE  \/ Others
           \/ TimePasses
           \/ \E r \in Requests : \/ BeginAccountCall(r) \/ AccountStep(r)
                                  \/ Tombstone(r) \/ StopAccountCall(r)
<1>1. CASE UNCHANGED vars
  BY <1>1 DEF vars, Others
<1>2. CASE AtOnce
  <2>1. MembershipAtOnce \/ RatingAtOnce \/ MatchAtOnce => UNCHANGED flight
    BY DEF MembershipAtOnce, DeleteClub, CancelRequest, RatingAtOnce, DeleteGame, MatchAtOnce,
       CreateSbmm
  <2>. QED BY <1>2, <2>1 DEF AtOnce, Others
<1>3. ASSUME NEW r \in Requests, Begin(r)
      PROVE  Others \/ BeginAccountCall(r)
  BY <1>3, MembershipBegins, LogoMoves, RatingMoves, MatchMoves DEF Begin, Others
<1>4. ASSUME NEW r \in Requests, Step(r)
      PROVE  Others \/ AccountStep(r) \/ Tombstone(r)
  BY <1>4, MembershipMoves, LogoMoves, RatingMoves, MatchMoves DEF Step, Erase, Others
<1>5. ASSUME NEW r \in Requests, Stop(r)
      PROVE  Others \/ StopAccountCall(r)
  BY <1>5, MembershipStops, LogoMoves, RatingMoves, MatchMoves DEF Stop, Others
<1>. QED BY <1>1, <1>2, <1>3, <1>4, <1>5 DEF Next

\* The statements that write each table; every other step leaves it alone.
LEMMA UsersChange ==
    ASSUME [Next]_vars
    PROVE  \/ users' = users
           \/ \E r \in Requests : \/ EditProfile(r) \/ SetPassword(r) \/ SetVerified(r)
                                  \/ Tombstone(r)
                                  \/ \E u \in Users, state \in {"active", "minor"} :
                                        Register(r, u, state)
BY AccountNext, ZenonT(60) DEF Others, TimePasses, AccessExpires, RefreshExpires, LetterExpires, DropAccess,
   DropRefresh, BeginAccountCall, Send, BeginLogin, BeginLogout, RequestLetter, UseLetter,
   StopAccountCall, AccountStep, Authenticate, Sweep, GiveUp, AskRefresh, FindSession, SweepOld,
   Rotate, Resend, CheckPassword, IssueSession, SignIn, Logout, ClearCookies, Mail,
   DiscardLetter, SpendLetter, RevokeSessions, accountVars, database, accountHistory

LEMMA TokensChange ==
    ASSUME [Next]_vars
    PROVE  \/ tokens' = tokens
           \/ \E r \in Requests : \/ Sweep(r) \/ SweepOld(r) \/ Rotate(r) \/ IssueSession(r)
                                  \/ Logout(r) \/ RevokeSessions(r) \/ Tombstone(r)
           \/ \E s \in DOMAIN tokens : AccessExpires(s) \/ RefreshExpires(s)
BY AccountNext, ZenonT(60) DEF Others, TimePasses, LetterExpires, DropAccess,
   DropRefresh, BeginAccountCall, Send, BeginLogin, BeginLogout, Register, RequestLetter,
   UseLetter, StopAccountCall, AccountStep, Authenticate, GiveUp, AskRefresh, FindSession,
   Resend, EditProfile, CheckPassword, SignIn, ClearCookies, Mail, DiscardLetter, SetPassword,
   SetVerified, SpendLetter, accountVars, database, accountHistory

LEMMA LettersChange ==
    ASSUME [Next]_vars
    PROVE  \/ letters' = letters
           \/ \E r \in Requests : Mail(r) \/ DiscardLetter(r) \/ SpendLetter(r) \/ Tombstone(r)
           \/ \E i \in DOMAIN letters : LetterExpires(i)
BY AccountNext, ZenonT(60) DEF Others, TimePasses, AccessExpires, RefreshExpires, DropAccess,
   DropRefresh, BeginAccountCall, Send, BeginLogin, BeginLogout, Register, RequestLetter,
   UseLetter, StopAccountCall, AccountStep, Authenticate, Sweep, GiveUp, AskRefresh, FindSession,
   SweepOld, Rotate, Resend, EditProfile, CheckPassword, IssueSession, SignIn, Logout,
   ClearCookies, SetPassword, SetVerified, RevokeSessions, accountVars, database, accountHistory

LEMMA JarChange ==
    ASSUME [Next]_vars
    PROVE  \/ jar' = jar
           \/ \E r \in Requests : Resend(r) \/ SignIn(r) \/ ClearCookies(r)
           \/ \E b \in Browsers : DropAccess(b) \/ DropRefresh(b)
BY AccountNext, ZenonT(60) DEF Others, TimePasses, AccessExpires, RefreshExpires, LetterExpires,
   BeginAccountCall, Send, BeginLogin, BeginLogout, Register, RequestLetter, UseLetter,
   StopAccountCall, AccountStep, Authenticate, Sweep, GiveUp, AskRefresh, FindSession, SweepOld,
   Rotate, EditProfile, CheckPassword, IssueSession, Logout, Mail, DiscardLetter, SetPassword,
   SetVerified, SpendLetter, RevokeSessions, Tombstone, accountVars, database, accountHistory

LEMMA LastChange ==
    ASSUME [Next]_vars
    PROVE  \/ last' = last
           \/ \E r \in Requests : Rotate(r) \/ IssueSession(r) \/ Mail(r) \/ SetPassword(r)
BY AccountNext, ZenonT(60) DEF Others, TimePasses, AccessExpires, RefreshExpires, LetterExpires, DropAccess,
   DropRefresh, BeginAccountCall, Send, BeginLogin, BeginLogout, Register, RequestLetter,
   UseLetter, StopAccountCall, AccountStep, Authenticate, Sweep, GiveUp, AskRefresh, FindSession,
   SweepOld, Resend, EditProfile, CheckPassword, SignIn, Logout, ClearCookies,
   DiscardLetter, SetVerified, SpendLetter, RevokeSessions, Tombstone, accountVars, database,
   accountHistory

-----------------------------------------------------------------------------
\* The tables stay well-typed.

LEMMA TablesStep ==
    ASSUME FlightOK, TablesOK, [Next]_vars
    PROVE  TablesOK'
<1>. USE DEF TablesOK
<1>0. ASSUME NEW r \in Requests PROVE LocalOK(pc[r], loc[r])
  BY DEF FlightOK
<1>1. (users \in [Users -> UserRow])'
  <2>1. CASE users' = users
    BY <2>1
  <2>2. ASSUME NEW r \in Requests, EditProfile(r) \/ SetVerified(r) \/ SetPassword(r)
        PROVE  (users \in [Users -> UserRow])'
    <3>. DEFINE u == loc[r].user
    <3>1. PICK x \in UserRow : users' = [users EXCEPT ![u] = x]
      <4>1. u \in Users
        BY <1>0, <2>2 DEF EditProfile, SetVerified, SetPassword, LocalOK, Acting
      <4>2. users[u] \in UserRow /\ last.password + 1 \in Nat
        BY <4>1
      <4>3. /\ [users[u] EXCEPT !.personal = TRUE] \in UserRow
            /\ [users[u] EXCEPT !.verified = TRUE] \in UserRow
            /\ [users[u] EXCEPT !.password = last.password + 1] \in UserRow
        BY <4>2 DEF UserRow
      <4>. QED BY <2>2, <4>3 DEF EditProfile, SetVerified, SetPassword
    <3>. QED BY <3>1
  <2>3. ASSUME NEW r \in Requests, Tombstone(r)
        PROVE  (users \in [Users -> UserRow])'
    <3>. DEFINE u == loc[r].user
    <3>1. u \in Users
      BY <1>0, <2>3 DEF Tombstone, LocalOK, Acting
    <3>2. Erased(users[u]) \in UserRow
      <4>1. users[u] \in UserRow
        BY <3>1
      <4>. QED BY <4>1 DEF Erased, UserRow, Unusable
    <3>. QED BY <2>3, <3>2 DEF Tombstone
  <2>4. ASSUME NEW r \in Requests, NEW u \in Users, NEW state \in {"active", "minor"},
               Register(r, u, state)
        PROVE  (users \in [Users -> UserRow])'
    BY <2>4 DEF Register, UserRow, FirstPassword
  <2>. QED BY <2>1, <2>2, <2>3, <2>4, UsersChange
<1>2. (/\ tokens = [s \in DOMAIN tokens |-> tokens[s]]
       /\ \A s \in DOMAIN tokens : s \in Nat /\ tokens[s] \in SessionRow)'
  <2>1. CASE tokens' = tokens
    BY <2>1
  <2>2. ASSUME NEW ids, tokens' = Without(tokens, ids)
        PROVE  (/\ tokens = [s \in DOMAIN tokens |-> tokens[s]]
                /\ \A s \in DOMAIN tokens : s \in Nat /\ tokens[s] \in SessionRow)'
    BY <2>2 DEF Without
  <2>3. ASSUME NEW r \in Requests, Rotate(r)
        PROVE  (/\ tokens = [s \in DOMAIN tokens |-> tokens[s]]
                /\ \A s \in DOMAIN tokens : s \in Nat /\ tokens[s] \in SessionRow)'
    <3>1. loc[r].refresh \in Nat /\ last.access + 1 \in Nat
      BY <1>0, <2>3 DEF Rotate, LocalOK
    <3>. DEFINE s == loc[r].refresh
                a == <<s, last.access + 1>>
    <3>2. a \in Nat \X Nat
      BY <3>1
    <3>3. CASE s \in DOMAIN tokens
      <4>1. PICK x \in SessionRow : tokens' = [tokens EXCEPT ![s] = x]
        <5>1. [tokens[s] EXCEPT !.access = a, !.expired = FALSE] \in SessionRow
          BY <3>2, <3>3, ZenonT(60) DEF SessionRow
        <5>2. tokens' = [tokens EXCEPT ![s] = [tokens[s] EXCEPT !.access = a, !.expired = FALSE]]
          BY <2>3, <3>3 DEF Rotate
        <5>. QED BY <5>1, <5>2
      <4>. QED BY <4>1
    <3>. QED BY <2>3, <3>3 DEF Rotate
  <2>4. ASSUME NEW r \in Requests, IssueSession(r)
        PROVE  (/\ tokens = [s \in DOMAIN tokens |-> tokens[s]]
                /\ \A s \in DOMAIN tokens : s \in Nat /\ tokens[s] \in SessionRow)'
    <3>1. loc[r].user \in Users /\ loc[r].password \in Nat
      BY <1>0, <2>4 DEF IssueSession, LocalOK, Acting, AccountLabels, AccountLocals
    <3>2. last.session + 1 \in Nat /\ <<last.session + 1, last.access + 1>> \in Nat \X Nat
      OBVIOUS
    <3>. QED BY <2>4, <3>1, <3>2 DEF IssueSession, With, SessionRow
  <2>5. ASSUME NEW s \in DOMAIN tokens, AccessExpires(s) \/ RefreshExpires(s)
        PROVE  (/\ tokens = [i \in DOMAIN tokens |-> tokens[i]]
                /\ \A i \in DOMAIN tokens : i \in Nat /\ tokens[i] \in SessionRow)'
    <3>1. PICK x \in SessionRow : tokens' = [tokens EXCEPT ![s] = x]
      <4>1. /\ [tokens[s] EXCEPT !.expired = TRUE] \in SessionRow
            /\ [tokens[s] EXCEPT !.old = TRUE] \in SessionRow
        BY ZenonT(60) DEF SessionRow
      <4>. QED BY <2>5, <4>1 DEF AccessExpires, RefreshExpires
    <3>. QED BY <3>1
  <2>. QED BY <2>1, <2>2, <2>3, <2>4, <2>5, TokensChange
       DEF Sweep, SweepOld, Logout, RevokeSessions, Tombstone
<1>3. (/\ letters = [i \in DOMAIN letters |-> letters[i]]
       /\ \A i \in DOMAIN letters : i \in Nat /\ letters[i] \in LetterRow)'
  <2>1. CASE letters' = letters
    BY <2>1
  <2>2. ASSUME NEW ids, letters' = Without(letters, ids)
        PROVE  (/\ letters = [i \in DOMAIN letters |-> letters[i]]
                /\ \A i \in DOMAIN letters : i \in Nat /\ letters[i] \in LetterRow)'
    BY <2>2 DEF Without
  <2>3. ASSUME NEW r \in Requests, Mail(r)
        PROVE  (/\ letters = [i \in DOMAIN letters |-> letters[i]]
                /\ \A i \in DOMAIN letters : i \in Nat /\ letters[i] \in LetterRow)'
    <3>1. loc[r].user \in Users /\ loc[r].op \in {"verify", "reset"}
      BY <1>0, <2>3 DEF Mail, LocalOK, Acting
    <3>. QED BY <2>3, <3>1 DEF Mail, With, LetterRow
  <2>4. ASSUME NEW i \in DOMAIN letters, LetterExpires(i)
        PROVE  (/\ letters = [l \in DOMAIN letters |-> letters[l]]
                /\ \A l \in DOMAIN letters : l \in Nat /\ letters[l] \in LetterRow)'
    BY <2>4, ZenonT(60) DEF LetterExpires, LetterRow
  <2>. QED BY <2>1, <2>2, <2>3, <2>4, LettersChange DEF DiscardLetter, SpendLetter, Tombstone
<1>4. (jar \in [Browsers -> [access : (Nat \X Nat) \cup {None}, refresh : Nat \cup {None}]])'
  <2>1. CASE jar' = jar
    BY <2>1
  <2>2. ASSUME NEW r \in Requests, Resend(r) \/ SignIn(r) \/ ClearCookies(r)
        PROVE  (jar \in [Browsers -> [access : (Nat \X Nat) \cup {None},
                                      refresh : Nat \cup {None}]])'
    <3>1. Resend(r) => loc[r].access \in Nat \X Nat
      BY <1>0 DEF Resend, LocalOK
    <3>2. SignIn(r) => loc[r].access \in Nat \X Nat /\ loc[r].refresh \in Nat
      BY <1>0 DEF SignIn, LocalOK
    <3>. QED BY <2>2, <3>1, <3>2 DEF Resend, SignIn, ClearCookies, NoCookies
  <2>3. ASSUME NEW b \in Browsers, DropAccess(b) \/ DropRefresh(b)
        PROVE  (jar \in [Browsers -> [access : (Nat \X Nat) \cup {None},
                                      refresh : Nat \cup {None}]])'
    BY <2>3 DEF DropAccess, DropRefresh
  <2>. QED BY <2>1, <2>2, <2>3, JarChange
<1>5. (last \in [session : Nat, access : Nat, letter : Nat, password : Nat])'
  <2>. DEFINE Given == [session : Nat, access : Nat, letter : Nat, password : Nat]
  <2>0. /\ last \in Given /\ last.session + 1 \in Nat /\ last.access + 1 \in Nat
        /\ last.letter + 1 \in Nat /\ last.password + 1 \in Nat
    OBVIOUS
  <2>1. /\ \A s, a \in Nat : [last EXCEPT !.session = s, !.access = a] \in Given
        /\ \A a \in Nat : [last EXCEPT !.access = a] \in Given
        /\ \A n \in Nat : [last EXCEPT !.letter = n] \in Given
        /\ \A n \in Nat : [last EXCEPT !.password = n] \in Given
    BY <2>0
  <2>2. CASE last' = last
    BY <2>2
  <2>3. ASSUME NEW r \in Requests,
               Rotate(r) \/ IssueSession(r) \/ Mail(r) \/ SetPassword(r)
        PROVE  (last \in [session : Nat, access : Nat, letter : Nat, password : Nat])'
    BY <2>0, <2>1, <2>3, ZenonT(60) DEF Rotate, IssueSession, Mail, SetPassword
  <2>. QED BY <2>2, <2>3, LastChange
<1>. QED BY <1>1, <1>2, <1>3, <1>4, <1>5

LEMMA TypesHold == Spec => [](FlightOK /\ TablesOK)
<1>1. Init => FlightOK /\ TablesOK
  BY InitFlightOK, InitTablesOK
<1>2. FlightOK /\ TablesOK /\ [Next]_vars => (FlightOK /\ TablesOK)'
  BY FlightStep, TablesStep
<1>. QED BY <1>1, <1>2, PTL DEF Spec

-----------------------------------------------------------------------------
\* How a request comes to a statement.

Stays(q) == pc'[q] = pc[q] /\ loc'[q] = loc[q]

\* Every statement of an account is a move of its own request.
LEMMA AccountMoves ==
    ASSUME NEW r \in Requests,
           \/ BeginAccountCall(r) \/ AccountStep(r) \/ Tombstone(r) \/ StopAccountCall(r)
    PROVE  \E to, x : Moves(r, to, x)
<1>0. ASSUME NEW to, NEW x, Goto(r, to, x) PROVE \E t, y : Moves(r, t, y)
  BY <1>0 DEF Goto, Moves
<1>1. CASE BeginAccountCall(r)
  BY <1>0, <1>1 DEF BeginAccountCall, Send, BeginLogin, BeginLogout, Register, RequestLetter,
     UseLetter, Start
<1>2. CASE AccountStep(r)
  BY <1>0, <1>2 DEF AccountStep, Proceed, Done, Authenticate, Sweep, GiveUp, AskRefresh,
     FindSession, SweepOld, Rotate, Resend, EditProfile, CheckPassword, IssueSession, SignIn,
     Logout, ClearCookies, Mail, DiscardLetter, SetPassword, SetVerified, SpendLetter,
     RevokeSessions
<1>3. CASE Tombstone(r)
  BY <1>0, <1>3 DEF Tombstone, Proceed
<1>4. CASE StopAccountCall(r)
  BY <1>4 DEF StopAccountCall, Drop, Moves
<1>. QED BY <1>1, <1>2, <1>3, <1>4

LEMMA OwnMove ==
    ASSUME FlightOK, [Next]_vars, NEW q \in Requests
    PROVE  \/ Stays(q)
           \/ ForeignMove(q)
           \/ BeginAccountCall(q) \/ AccountStep(q) \/ Tombstone(q) \/ StopAccountCall(q)
<1>0. ASSUME NEW r \in Requests, NEW to, NEW x, Moves(r, to, x), r # q PROVE Stays(q)
  BY <1>0 DEF FlightOK, LocOK, PcOK, Moves, Stays
<1>1. CASE UNCHANGED flight
  BY <1>1 DEF flight, Stays
<1>2. ASSUME NEW r \in Requests, ForeignMove(r) PROVE Stays(q) \/ ForeignMove(q)
  BY <1>0, <1>2 DEF ForeignMove
<1>3. CASE TimePasses
  BY <1>1, <1>3 DEF TimePasses, AccessExpires, RefreshExpires, LetterExpires, DropAccess,
     DropRefresh
<1>4. ASSUME NEW r \in Requests,
             \/ BeginAccountCall(r) \/ AccountStep(r) \/ Tombstone(r) \/ StopAccountCall(r)
      PROVE  \/ Stays(q)
             \/ BeginAccountCall(q) \/ AccountStep(q) \/ Tombstone(q) \/ StopAccountCall(q)
  BY <1>0, <1>4, AccountMoves
<1>. QED BY <1>1, <1>2, <1>3, <1>4, AccountNext DEF Others

\* The statements before each of those that the invariants speak of.
LEMMA Arrives ==
    ASSUME FlightOK, [Next]_vars, NEW q \in Requests, ~Stays(q)
    PROVE  /\ pc'[q] = "sweep" => Authenticate(q)
           /\ pc'[q] = "refresh" => AskRefresh(q)
           /\ pc'[q] \in {"sweepOld", "rotate"} => FindSession(q)
           /\ pc'[q] = "renewed" => Rotate(q)
           /\ pc'[q] = "signedIn" => IssueSession(q)
           /\ pc'[q] = "issue" => \E b \in Browsers, u \in Users : BeginLogin(q, b, u)
           /\ pc'[q] = "setPassword" => \E i \in DOMAIN letters : UseLetter(q, i)
           /\ pc'[q] = "spend" => SetPassword(q) \/ SetVerified(q)
           /\ pc'[q] = "revoke" => SpendLetter(q)
<1>0. ASSUME NEW to, NEW x, Goto(q, to, x) PROVE pc'[q] = to
  BY <1>0 DEF Goto, FlightOK, PcOK
<1>. DEFINE Named == {"sweep", "refresh", "sweepOld", "rotate", "renewed", "signedIn", "issue",
                      "setPassword", "spend", "revoke"}
<1>1. CASE ForeignMove(q) \/ StopAccountCall(q)
  <2>1. pc'[q] \in Foreign
    BY <1>1 DEF ForeignMove, Moves, StopAccountCall, Drop, Foreign, FlightOK, PcOK
  <2>. QED BY <2>1 DEF Foreign, MembershipLabels, LogoLabels, Uploading, Removing,
                        RatingLabels, SocialLabels
<1>2. CASE BeginAccountCall(q)
  <2>1. \/ pc'[q] \notin Named
        \/ pc'[q] = "issue" /\ \E b \in Browsers, u \in Users : BeginLogin(q, b, u)
        \/ pc'[q] = "setPassword" /\ \E i \in DOMAIN letters : UseLetter(q, i)
    BY <1>0, <1>2 DEF BeginAccountCall, Send, BeginLogin, BeginLogout, Register, RequestLetter,
       UseLetter, Start
  <2>. QED BY <2>1
<1>3. CASE AccountStep(q)
  <2>1. CASE Authenticate(q)
    <3>1. pc'[q] \in {"denied", "sweep", "edit", "erase"}
      BY <1>0, <2>1 DEF Authenticate, Proceed, FlightOK, LocalOK, Calling, AccountLabels
    <3>. QED BY <2>1, <3>1
  <2>2. CASE \/ Sweep(q) \/ GiveUp(q) \/ Resend(q) \/ EditProfile(q) \/ SweepOld(q) \/ SignIn(q)
             \/ CheckPassword(q) \/ Logout(q) \/ ClearCookies(q) \/ Mail(q) \/ DiscardLetter(q)
             \/ RevokeSessions(q)
    <3>1. pc'[q] \in {"denied", "idle", "auth", "tombstone", "clear"}
      BY <1>0, <2>2 DEF Sweep, GiveUp, Resend, EditProfile, SweepOld, SignIn, CheckPassword,
         Logout, ClearCookies, Mail, DiscardLetter, RevokeSessions, Proceed, Done
    <3>. QED BY <3>1
  <2>3. CASE FindSession(q)
    <3>1. pc'[q] \in {"idle", "sweepOld", "rotate"}
      BY <1>0, <2>3 DEF FindSession, Proceed, Done
    <3>. QED BY <2>3, <3>1
  <2>4. CASE SpendLetter(q)
    <3>1. pc'[q] \in {"idle", "revoke"}
      BY <1>0, <2>4 DEF SpendLetter, Proceed, Done
    <3>. QED BY <2>4, <3>1
  <2>5. CASE AskRefresh(q)
    <3>1. pc'[q] = "refresh"
      BY <1>0, <2>5 DEF AskRefresh
    <3>. QED BY <2>5, <3>1
  <2>6. CASE Rotate(q)
    <3>1. pc'[q] = "renewed"
      BY <1>0, <2>6 DEF Rotate
    <3>. QED BY <2>6, <3>1
  <2>7. CASE IssueSession(q)
    <3>1. pc'[q] = "signedIn"
      BY <1>0, <2>7 DEF IssueSession
    <3>. QED BY <2>7, <3>1
  <2>8. CASE SetPassword(q) \/ SetVerified(q)
    <3>1. pc'[q] = "spend"
      BY <1>0, <2>8 DEF SetPassword, SetVerified, Proceed
    <3>. QED BY <2>8, <3>1
  <2>. QED BY <1>3, <2>1, <2>2, <2>3, <2>4, <2>5, <2>6, <2>7, <2>8 DEF AccountStep
<1>4. CASE Tombstone(q)
  <2>1. pc'[q] = "clear"
    BY <1>0, <1>4 DEF Tombstone, Proceed
  <2>. QED BY <2>1
<1>. QED BY <1>1, <1>2, <1>3, <1>4, OwnMove

\* What is on record of the past stays on record.
LEMMA HistoryGrows ==
    ASSUME [Next]_vars
    PROVE  late \subseteq late' /\ cut \subseteq cut' /\ crossed \subseteq crossed'
<1>. DEFINE Grows == late \subseteq late' /\ cut \subseteq cut' /\ crossed \subseteq crossed'
<1>1. ASSUME NEW r \in Requests, AccountStep(r) PROVE Grows
  BY <1>1 DEF AccountStep, Authenticate, Sweep, GiveUp, AskRefresh, FindSession, SweepOld,
     Rotate, Resend, EditProfile, CheckPassword, IssueSession, SignIn, Logout, ClearCookies,
     Mail, DiscardLetter, SetPassword, SetVerified, SpendLetter, RevokeSessions,
     accountVars, accountHistory
<1>2. ASSUME NEW r \in Requests, BeginAccountCall(r) \/ Tombstone(r) \/ StopAccountCall(r)
      PROVE  Grows
  BY <1>2 DEF BeginAccountCall, Send, BeginLogin, BeginLogout, Register, RequestLetter,
     UseLetter, Tombstone, StopAccountCall, accountVars, accountHistory
<1>3. CASE TimePasses
  BY <1>3 DEF TimePasses, AccessExpires, RefreshExpires, LetterExpires, DropAccess, DropRefresh,
     accountHistory
<1>. QED BY <1>1, <1>2, <1>3, AccountNext DEF Others, accountVars, accountHistory

-----------------------------------------------------------------------------
\* The cookies of a browser.

\* What a refresh in flight knows of the cookies that are there when it began.
Refreshing == {"refresh", "rotate", "renewed"}

JarInv ==
    /\ JarIsOneSession
    /\ \A q \in Requests :
          pc[q] \in {"renewed", "signedIn"} => loc[q].access[1] = loc[q].refresh
    /\ \A q \in Requests :
          pc[q] \in Refreshing /\ loc[q].browser \notin crossed =>
              jar[loc[q].browser].refresh \in {None, loc[q].refresh}

LEMMA JarInvInit == Init => JarInv
<1>. SUFFICES ASSUME Init PROVE JarInv
  OBVIOUS
<1>1. JarIsOneSession
  BY DEF Init, AccountsInit, JarIsOneSession, NoCookies
<1>2. \A q \in Requests : pc[q] = "idle"
  BY DEF Init, FlightInit
<1>. QED BY <1>1, <1>2 DEF JarInv, Refreshing

LEMMA JarInvStep ==
    ASSUME FlightOK, TablesOK, JarInv, [Next]_vars
    PROVE  JarInv'
<1>0. ASSUME NEW r \in Requests PROVE LocalOK(pc[r], loc[r])
  BY DEF FlightOK
<1>j. jar \in [Browsers -> [access : (Nat \X Nat) \cup {None}, refresh : Nat \cup {None}]]
  BY DEF TablesOK
<1>. USE HistoryGrows
<1>1. JarIsOneSession'
  <2>1. CASE jar' = jar
    BY <2>1 DEF JarInv, JarIsOneSession
  <2>2. ASSUME NEW b \in Browsers, DropAccess(b) \/ DropRefresh(b)
        PROVE  JarIsOneSession'
    BY <1>j, <2>2 DEF JarInv, JarIsOneSession, DropAccess, DropRefresh
  <2>3. ASSUME NEW r \in Requests, Resend(r)
        PROVE  JarIsOneSession'
    <3>. DEFINE b == loc[r].browser
    <3>1. /\ b \in Browsers /\ loc[r].access[1] = loc[r].refresh
          /\ b \notin crossed => jar[b].refresh \in {None, loc[r].refresh}
      BY <1>0, <2>3 DEF Resend, LocalOK, Browsing, Calling, JarInv, Refreshing
    <3>2. jar' = [jar EXCEPT ![b].access = loc[r].access]
      BY <2>3 DEF Resend
    <3>3. SUFFICES ASSUME NEW c \in Browsers \ crossed,
                          jar'[c].access # None, jar'[c].refresh # None
                   PROVE  jar'[c].access[1] = jar'[c].refresh
      BY <3>3 DEF JarIsOneSession
    <3>4. CASE c = b
      <4>1. jar'[c].access = loc[r].access /\ jar'[c].refresh = jar[c].refresh
        BY <1>j, <3>1, <3>2, <3>4
      <4>. QED BY <3>1, <3>3, <3>4, <4>1
    <3>5. CASE c # b
      <4>1. jar'[c] = jar[c]
        BY <1>j, <3>2, <3>5
      <4>. QED BY <3>3, <4>1 DEF JarInv, JarIsOneSession
    <3>. QED BY <3>4, <3>5
  <2>4. ASSUME NEW r \in Requests, SignIn(r) \/ ClearCookies(r)
        PROVE  JarIsOneSession'
    <3>1. SignIn(r) => loc[r].access[1] = loc[r].refresh
      BY DEF SignIn, JarInv
    <3>. QED BY <1>j, <2>4, <3>1 DEF SignIn, ClearCookies, NoCookies, JarInv, JarIsOneSession
  <2>. QED BY <2>1, <2>2, <2>3, <2>4, JarChange
<1>2. ASSUME NEW q \in Requests, pc'[q] \in {"renewed", "signedIn"}
      PROVE  loc'[q].access[1] = loc'[q].refresh
  <2>1. CASE Stays(q)
    BY <1>2, <2>1 DEF Stays, JarInv
  <2>2. CASE Rotate(q)
    <3>. DEFINE s == loc[q].refresh
                a == <<s, last.access + 1>>
    <3>1. loc[q] \in AccountLocals
      BY <1>0, <2>2 DEF Rotate, LocalOK, AccountLabels
    <3>2. loc'[q] = [loc[q] EXCEPT !.access = a]
      BY <2>2 DEF Rotate, Goto, FlightOK, LocOK
    <3>3. loc'[q].access = a /\ loc'[q].refresh = s
      BY <3>1, <3>2 DEF AccountLocals
    <3>. QED BY <3>3
  <2>3. CASE IssueSession(q)
    <3>. DEFINE s == last.session + 1
                a == <<s, last.access + 1>>
    <3>1. loc[q] \in AccountLocals
      BY <1>0, <2>3 DEF IssueSession, LocalOK, AccountLabels
    <3>2. loc'[q] = [loc[q] EXCEPT !.access = a, !.refresh = s]
      BY <2>3 DEF IssueSession, Goto, FlightOK, LocOK
    <3>3. loc'[q].access = a /\ loc'[q].refresh = s
      BY <3>1, <3>2 DEF AccountLocals
    <3>. QED BY <3>3
  <2>. QED BY <1>2, <2>1, <2>2, <2>3, Arrives
<1>3. ASSUME NEW q \in Requests, pc'[q] \in Refreshing, loc'[q].browser \notin crossed'
      PROVE  jar'[loc'[q].browser].refresh \in {None, loc'[q].refresh}
  <2>. DEFINE b == loc'[q].browser
  \* The cookie is what the refresh under way will find, before this step.
  <2>1. /\ b \in Browsers
        /\ jar[b].refresh \in {None, loc'[q].refresh}
        /\ Stays(q) \/ jar' = jar
    <3>1. CASE Stays(q)
      BY <1>0, <1>3, <3>1 DEF Stays, LocalOK, Browsing, Calling, Refreshing, JarInv
    <3>2. CASE AskRefresh(q)
      <4>1. loc[q] \in AccountLocals /\ loc[q].browser \in Browsers
        BY <1>0, <3>2 DEF AskRefresh, LocalOK, AccountLabels, Browsing, Calling
      <4>. DEFINE s == jar[loc[q].browser].refresh
      <4>2. loc'[q] = [loc[q] EXCEPT !.refresh = s, !.retried = TRUE] /\ jar' = jar
        BY <3>2 DEF AskRefresh, Goto, FlightOK, LocOK, accountVars
      <4>3. loc'[q].browser = loc[q].browser /\ loc'[q].refresh = s
        BY <4>1, <4>2 DEF AccountLocals
      <4>. QED BY <4>1, <4>2, <4>3
    <3>3. CASE FindSession(q)
      <4>1. Proceed(q, "sweepOld") \/ Proceed(q, "rotate") \/ Done(q)
        BY <3>3 DEF FindSession
      <4>2. loc'[q] = loc[q] /\ jar' = jar /\ pc[q] = "refresh"
        BY <1>3, <3>3, <4>1 DEF FindSession, Proceed, Done, Goto, FlightOK, LocOK, PcOK,
           accountVars, Refreshing
      <4>. QED BY <1>0, <1>3, <4>2 DEF LocalOK, Browsing, Calling, Refreshing, JarInv
    <3>4. CASE Rotate(q)
      <4>1. /\ loc[q] \in AccountLocals /\ loc[q].browser \in Browsers /\ pc[q] = "rotate"
            /\ jar' = jar
        BY <1>0, <3>4 DEF Rotate, LocalOK, AccountLabels, Browsing, Calling
      <4>. DEFINE a == <<loc[q].refresh, last.access + 1>>
      <4>2. loc'[q] = [loc[q] EXCEPT !.access = a]
        BY <3>4 DEF Rotate, Goto, FlightOK, LocOK
      <4>3. loc'[q].browser = loc[q].browser /\ loc'[q].refresh = loc[q].refresh
        BY <4>1, <4>2 DEF AccountLocals
      <4>. QED BY <1>3, <4>1, <4>3 DEF Refreshing, JarInv
    <3>. QED BY <1>3, <3>1, <3>2, <3>3, <3>4, Arrives DEF Refreshing
  <2>2. CASE jar' = jar
    BY <2>1, <2>2
  <2>3. ASSUME NEW c \in Browsers, DropAccess(c) \/ DropRefresh(c)
        PROVE  jar'[b].refresh \in {None, loc'[q].refresh}
    BY <1>j, <2>1, <2>3 DEF DropAccess, DropRefresh
  <2>4. ASSUME NEW r \in Requests, Resend(r) \/ ClearCookies(r)
        PROVE  jar'[b].refresh \in {None, loc'[q].refresh}
    BY <1>j, <2>1, <2>4 DEF Resend, ClearCookies, NoCookies
  <2>5. ASSUME NEW r \in Requests, SignIn(r)
        PROVE  jar'[b].refresh \in {None, loc'[q].refresh}
    <3>1. CASE Stays(q)
      \* A login answered during this refresh would have marked the browser.
      <4>1. b # loc[r].browser
        BY <1>3, <2>5, <3>1 DEF SignIn, Stays, InFlightAt, Refreshing
      <4>. QED BY <1>j, <2>1, <2>5, <4>1 DEF SignIn
    <3>. QED BY <2>1, <2>2, <3>1
  <2>. QED BY <2>2, <2>3, <2>4, <2>5, JarChange
<1>. QED BY <1>1, <1>2, <1>3 DEF JarInv

\* The two cookies of a browser are of one session, whatever the tabs do at the
\* same time, unless a login was answered during a refresh (login, refresh;
\* http.ts).
THEOREM CookiesOfOneSession == Spec => []JarIsOneSession
<1>1. Init => JarInv
  BY JarInvInit
<1>2. (FlightOK /\ TablesOK) /\ JarInv /\ [Next]_vars => JarInv'
  BY JarInvStep
<1>3. JarInv => JarIsOneSession
  BY DEF JarInv
<1>. QED BY <1>1, <1>2, <1>3, TypesHold, PTL DEF Spec

-----------------------------------------------------------------------------
\* How a row of tokens goes on.

LEMMA LastGrows ==
    ASSUME TablesOK, [Next]_vars
    PROVE  /\ last.session \in Nat /\ last.access \in Nat
           /\ last'.session \in Nat /\ last'.session >= last.session
           /\ last'.access \in Nat /\ last'.access >= last.access
<1>. DEFINE Given == [session : Nat, access : Nat, letter : Nat, password : Nat]
<1>0. last \in Given
  BY DEF TablesOK
<1>1. CASE last' = last
  BY <1>0, <1>1
<1>2. ASSUME NEW r \in Requests, Rotate(r) \/ IssueSession(r) \/ Mail(r) \/ SetPassword(r)
      PROVE  /\ last'.session \in {last.session, last.session + 1}
             /\ last'.access \in {last.access, last.access + 1}
  BY <1>0, <1>2 DEF Rotate, IssueSession, Mail, SetPassword
<1>. QED BY <1>0, <1>1, <1>2, LastChange

\* The old row s keeps its user and its password, stays old and stays expired;
\* or its access token becomes the newest one.
Kept(s) ==
    /\ s \in DOMAIN tokens
    /\ tokens'[s].user = tokens[s].user /\ tokens'[s].password = tokens[s].password
    /\ tokens[s].old => tokens'[s].old
    /\ \/ /\ tokens'[s].access = tokens[s].access
          /\ tokens[s].expired => tokens'[s].expired
       \/ /\ tokens'[s].access = <<s, last.access + 1>>
          /\ last'.access = last.access + 1

LEMMA RowKept ==
    ASSUME FlightOK, TablesOK, [Next]_vars, NEW s \in DOMAIN tokens'
    PROVE  Kept(s) \/ \E r \in Requests : IssueSession(r) /\ s = last.session + 1
<1>0. TablesOK
  OBVIOUS
<1>1. ASSUME tokens' = tokens PROVE Kept(s)
  BY <1>1 DEF Kept
<1>2. ASSUME NEW ids, tokens' = Without(tokens, ids) PROVE Kept(s)
  BY <1>2 DEF Without, Kept
<1>3. ASSUME NEW r \in Requests, Rotate(r) PROVE Kept(s)
  <2>. DEFINE t == loc[r].refresh
              a == <<t, last.access + 1>>
              x == [tokens[t] EXCEPT !.access = a, !.expired = FALSE]
  <2>1. CASE t \in DOMAIN tokens
    <3>1. tokens' = [tokens EXCEPT ![t] = x]
      BY <1>3, <2>1 DEF Rotate
    <3>2. /\ x.user = tokens[t].user /\ x.password = tokens[t].password
          /\ x.old = tokens[t].old /\ x.access = a
      BY <2>1 DEF TablesOK, SessionRow
    <3>3. last'.access = last.access + 1
      BY <1>3 DEF Rotate, TablesOK
    <3>. HIDE DEF x, a
    <3>4. CASE s = t
      BY <2>1, <3>1, <3>2, <3>3, <3>4 DEF Kept, a
    <3>5. CASE s # t
      BY <2>1, <3>1, <3>5 DEF Kept
    <3>. QED BY <3>4, <3>5
  <2>. QED BY <1>3, <1>1, <2>1 DEF Rotate
<1>4. ASSUME NEW r \in Requests, IssueSession(r) PROVE Kept(s) \/ s = last.session + 1
  BY <1>4 DEF IssueSession, With, Kept
<1>5. ASSUME NEW t \in DOMAIN tokens, AccessExpires(t) \/ RefreshExpires(t) PROVE Kept(s)
  <2>1. ASSUME NEW x \in {[tokens[t] EXCEPT !.expired = TRUE], [tokens[t] EXCEPT !.old = TRUE]}
        PROVE  /\ x.user = tokens[t].user /\ x.password = tokens[t].password
               /\ x.access = tokens[t].access
               /\ tokens[t].old => x.old
               /\ tokens[t].expired => x.expired
    BY DEF TablesOK, SessionRow
  <2>2. PICK x \in {[tokens[t] EXCEPT !.expired = TRUE], [tokens[t] EXCEPT !.old = TRUE]} :
           tokens' = [tokens EXCEPT ![t] = x]
    BY <1>5 DEF AccessExpires, RefreshExpires
  <2>. QED BY <2>1, <2>2 DEF Kept
<1>. QED BY <1>1, <1>2, <1>3, <1>4, <1>5, TokensChange
     DEF Sweep, SweepOld, Logout, RevokeSessions, Tombstone

-----------------------------------------------------------------------------
\* Sessions and passwords.

\* A session or a login is of an account that is registered.
PasswordInv ==
    /\ NoSessionOfOldPassword
    /\ \A s \in DOMAIN tokens : users[tokens[s].user].state # "free"
    /\ \A q \in Requests : pc[q] = "issue" => users[loc[q].user].state # "free"

\* A reset under way goes on, revokes the sessions, or is on record as cut.
LEMMA ResetGoesOn ==
    ASSUME FlightOK, [Next]_vars, NEW q \in Requests, InReset(q)
    PROVE  \/ InReset(q)' /\ loc'[q].user = loc[q].user
           \/ RevokeSessions(q)
           \/ loc[q].user \in cut'
<1>1. CASE Stays(q)
  BY <1>1 DEF Stays, InReset
<1>2. pc[q] \notin Foreign
  BY DEF InReset, Foreign, MembershipLabels, LogoLabels, Uploading, Removing, RatingLabels,
     SocialLabels
<1>3. ~BeginAccountCall(q)
  BY <1>2 DEF BeginAccountCall, Send, BeginLogin, BeginLogout, Register, RequestLetter,
     UseLetter, Start, Foreign
<1>4. CASE SpendLetter(q)
  BY <1>4 DEF SpendLetter, Proceed, Goto, InReset, FlightOK, LocOK, PcOK
<1>5. ~Tombstone(q)
  BY DEF Tombstone, InReset
<1>6. CASE StopAccountCall(q)
  BY <1>6 DEF StopAccountCall
<1>7. AccountStep(q) => SpendLetter(q) \/ RevokeSessions(q)
  BY DEF InReset, AccountStep, Authenticate, Sweep, GiveUp, AskRefresh, FindSession, SweepOld,
     Rotate, Resend, EditProfile, CheckPassword, IssueSession, SignIn, Logout, ClearCookies,
     Mail, DiscardLetter, SetPassword, SetVerified
<1>. QED BY <1>1, <1>2, <1>3, <1>4, <1>5, <1>6, <1>7, OwnMove DEF ForeignMove

LEMMA PasswordInvInit == Init => PasswordInv
<1>. SUFFICES ASSUME Init PROVE PasswordInv
  OBVIOUS
<1>1. \A q \in Requests : pc[q] # "issue"
  BY DEF Init, FlightInit
<1>2. ASSUME NEW s \in DOMAIN tokens
      PROVE  /\ tokens[s].user \in Users
             /\ users[tokens[s].user].state # "free"
             /\ tokens[s].password = users[tokens[s].user].password
  BY AccountsAssumption DEF Init, AccountsInit, FirstSessions
<1>. QED BY <1>1, <1>2 DEF PasswordInv, NoSessionOfOldPassword

\* No step makes an account free again.
LEMMA NeverFreed ==
    ASSUME FlightOK, TablesOK, [Next]_vars, NEW u \in Users, users[u].state # "free"
    PROVE  users'[u].state # "free"
<1>1. CASE users' = users
  BY <1>1
<1>2. ASSUME NEW r \in Requests, EditProfile(r) \/ SetPassword(r) \/ SetVerified(r)
      PROVE  users'[u].state # "free"
  <2>1. users[u] \in UserRow /\ users \in [Users -> UserRow]
    BY DEF TablesOK
  <2>2. ASSUME NEW n \in Nat
        PROVE  /\ [users[u] EXCEPT !.personal = TRUE].state # "free"
               /\ [users[u] EXCEPT !.verified = TRUE].state # "free"
               /\ [users[u] EXCEPT !.password = n].state # "free"
    BY <2>1 DEF UserRow
  <2>3. last.password + 1 \in Nat
    BY DEF TablesOK
  <2>. QED BY <1>2, <2>1, <2>2, <2>3 DEF EditProfile, SetPassword, SetVerified
<1>3. ASSUME NEW r \in Requests, Tombstone(r)
      PROVE  users'[u].state # "free"
  <2>1. users[u] \in UserRow /\ users \in [Users -> UserRow]
    BY DEF TablesOK
  <2>2. Erased(users[u]).state = "erased"
    BY <2>1 DEF Erased, UserRow
  <2>. QED BY <1>3, <2>1, <2>2 DEF Tombstone
<1>4. ASSUME NEW r \in Requests, NEW v \in Users, NEW state \in {"active", "minor"},
             Register(r, v, state)
      PROVE  users'[u].state # "free"
  BY <1>4 DEF Register, TablesOK
<1>. QED BY <1>1, <1>2, <1>3, <1>4, UsersChange

LEMMA PasswordInvStep ==
    ASSUME FlightOK, TablesOK, PasswordInv, [Next]_vars
    PROVE  PasswordInv'
<1>0. ASSUME NEW r \in Requests PROVE LocalOK(pc[r], loc[r])
  BY DEF FlightOK
<1>r. ASSUME NEW s \in DOMAIN tokens PROVE tokens[s].user \in Users
  BY DEF TablesOK, SessionRow
<1>n. ASSUME NEW r \in Requests, IssueSession(r)
      PROVE  LET s == last.session + 1
             IN  /\ tokens'[s].user = loc[r].user /\ tokens'[s].password = loc[r].password
                 /\ loc[r].user \in Users /\ pc[r] = "issue"
                 /\ users' = users
                 /\ loc[r].password = users[loc[r].user].password \/ s \in late'
  BY <1>0, <1>n DEF IssueSession, With, LocalOK, Acting
<1>1. ASSUME NEW s \in DOMAIN tokens'
      PROVE  LET new == tokens'[s]
             IN  \/ new.password = users'[new.user].password
                 \/ s \in late'
                 \/ new.user \in cut'
                 \/ \E r \in Requests : InReset(r)' /\ loc'[r].user = new.user
  <2>1. CASE \E r \in Requests : IssueSession(r) /\ s = last.session + 1
    BY <1>n, <2>1
  <2>2. CASE s \in DOMAIN tokens /\ tokens'[s].user = tokens[s].user
             /\ tokens'[s].password = tokens[s].password
    <3>. DEFINE u == tokens[s].user
                p == tokens[s].password
                Goal == \/ p = users'[u].password \/ s \in late' \/ u \in cut'
                        \/ \E r \in Requests : InReset(r)' /\ loc'[r].user = u
    <3>0. u \in Users /\ users[u].state # "free"
      BY <2>2, <1>r DEF PasswordInv
    <3>1. ASSUME s \in late \/ u \in cut PROVE Goal
      <4>1. s \in late' \/ u \in cut'
        BY <3>1, HistoryGrows
      <4>. QED BY <4>1
    <3>2. ASSUME NEW q \in Requests, InReset(q), loc[q].user = u PROVE Goal
      <4>1. ~RevokeSessions(q)
        BY <1>1, <2>2, <3>2 DEF RevokeSessions, Without, RowsOf
      <4>. QED BY <3>2, <4>1, ResetGoesOn
    <3>3. ASSUME p = users[u].password PROVE Goal
      <4>1. CASE users' = users
        <5>1. p = users'[u].password
          BY <3>3, <4>1
        <5>. QED BY <5>1
      <4>2. ASSUME NEW r \in Requests, EditProfile(r) \/ SetVerified(r) PROVE Goal
        <5>1. users[u] \in UserRow /\ users \in [Users -> UserRow]
          BY <3>0 DEF TablesOK
        <5>2. /\ [users[u] EXCEPT !.personal = TRUE].password = p
              /\ [users[u] EXCEPT !.verified = TRUE].password = p
          BY <3>3, <5>1 DEF UserRow
        <5>3. users'[u] \in {users[u], [users[u] EXCEPT !.personal = TRUE],
                             [users[u] EXCEPT !.verified = TRUE]}
          BY <3>0, <4>2, <5>1 DEF EditProfile, SetVerified
        <5>4. p = users'[u].password
          BY <3>3, <5>2, <5>3
        <5>. QED BY <5>4
      <4>3. ASSUME NEW r \in Requests, SetPassword(r) PROVE Goal
        <5>1. CASE loc[r].user = u
          <6>1. InReset(r)' /\ loc'[r] = loc[r]
            BY <1>0, <4>3 DEF SetPassword, Proceed, Goto, InReset, FlightOK, LocOK, PcOK, LocalOK
          <6>. QED BY <5>1, <6>1
        <5>2. CASE loc[r].user # u
          <6>1. users'[u] = users[u]
            BY <3>0, <4>3, <5>2 DEF SetPassword, TablesOK
          <6>. QED BY <3>3, <6>1
        <5>. QED BY <5>1, <5>2
      <4>4. ASSUME NEW r \in Requests, Tombstone(r) PROVE Goal
        <5>1. loc[r].user # u
          BY <1>1, <2>2, <4>4 DEF Tombstone, Without, RowsOf
        <5>2. users'[u] = users[u]
          BY <3>0, <4>4, <5>1 DEF Tombstone, TablesOK
        <5>. QED BY <3>3, <5>2
      <4>5. ASSUME NEW r \in Requests, NEW v \in Users, NEW state \in {"active", "minor"},
                   Register(r, v, state)
            PROVE  Goal
        <5>1. users'[u] = users[u]
          BY <3>0, <4>5 DEF Register, TablesOK
        <5>. QED BY <3>3, <5>1
      <4>. HIDE DEF Goal
      <4>. QED BY <4>1, <4>2, <4>3, <4>4, <4>5, UsersChange
    <3>4. Goal
      BY <2>2, <3>1, <3>2, <3>3 DEF PasswordInv, NoSessionOfOldPassword
    <3>. QED BY <2>2, <3>4
  <2>. QED BY <2>1, <2>2, RowKept DEF Kept
<1>2. ASSUME NEW s \in DOMAIN tokens'
      PROVE  users'[tokens'[s].user].state # "free"
  <2>1. CASE \E r \in Requests : IssueSession(r) /\ s = last.session + 1
    BY <1>n, <2>1 DEF PasswordInv
  <2>2. CASE s \in DOMAIN tokens /\ tokens'[s].user = tokens[s].user
    BY <1>r, <2>2, NeverFreed DEF PasswordInv
  <2>. QED BY <2>1, <2>2, RowKept DEF Kept
<1>3. ASSUME NEW q \in Requests, pc'[q] = "issue"
      PROVE  users'[loc'[q].user].state # "free"
  <2>1. CASE Stays(q)
    BY <1>0, <1>3, <2>1, NeverFreed DEF Stays, PasswordInv, LocalOK, Acting
  <2>2. ASSUME NEW b \in Browsers, NEW u \in Users, BeginLogin(q, b, u)
        PROVE  users'[loc'[q].user].state # "free"
    <3>. DEFINE x == [NoLocals EXCEPT !.browser = b, !.user = u, !.password = users[u].password]
    <3>1. loc'[q] = x /\ users' = users /\ users[u].state = "active"
      BY <2>2 DEF BeginLogin, Start, Goto, FlightOK, LocOK, accountVars, database
    <3>2. x.user = u
      BY DEF NoLocals
    <3>. QED BY <3>1, <3>2
  <2>. QED BY <1>3, <2>1, <2>2, Arrives
<1>. QED BY <1>1, <1>2, <1>3 DEF PasswordInv, NoSessionOfOldPassword

\* A session opened with a password ends with it: no session is of another
\* password than the user's present one, unless the login that opened it or the
\* reset is still under way, or the reset stopped (reset_password, login,
\* account_delete).
THEOREM SessionsFollowThePassword == Spec => []NoSessionOfOldPassword
<1>1. Init => PasswordInv
  BY PasswordInvInit
<1>2. (FlightOK /\ TablesOK) /\ PasswordInv /\ [Next]_vars => PasswordInv'
  BY PasswordInvStep
<1>3. PasswordInv => NoSessionOfOldPassword
  BY DEF PasswordInv
<1>. QED BY <1>1, <1>2, <1>3, TypesHold, PTL DEF Spec

-----------------------------------------------------------------------------
\* How sessions end.

\* No two rows have an access token in common, none has one still to be given
\* out, and what a request is about to sweep has expired.
SpentInv ==
    /\ \A s \in DOMAIN tokens : /\ s <= last.session
                                /\ tokens[s].access[1] = s
                                /\ tokens[s].access[2] <= last.access
    /\ \A q \in Requests : pc[q] = "sweep" =>
          /\ loc[q].access \in Nat \X Nat /\ loc[q].access[2] <= last.access
          /\ \A s \in SessionsWith(loc[q].access) : tokens[s].expired
    /\ \A q \in Requests : pc[q] = "sweepOld" =>
          /\ loc[q].refresh <= last.session
          /\ loc[q].refresh \in DOMAIN tokens => tokens[loc[q].refresh].old

LEMMA SpentInvInit == Init => SpentInv
<1>. SUFFICES ASSUME Init PROVE SpentInv
  OBVIOUS
<1>1. \A q \in Requests : pc[q] = "idle"
  BY DEF Init, FlightInit
<1>2. \A s \in DOMAIN tokens : /\ s <= last.session
                               /\ tokens[s].access[1] = s
                               /\ tokens[s].access[2] <= last.access
  BY AccountsAssumption DEF Init, AccountsInit, FirstSessions
<1>. QED BY <1>1, <1>2 DEF SpentInv

LEMMA SpentInvStep ==
    ASSUME FlightOK, TablesOK, SpentInv, [Next]_vars
    PROVE  SpentInv'
<1>0. ASSUME NEW r \in Requests PROVE LocalOK(pc[r], loc[r])
  BY DEF FlightOK
<1>l. /\ last.session \in Nat /\ last.access \in Nat
      /\ last'.session \in Nat /\ last'.session >= last.session
      /\ last'.access \in Nat /\ last'.access >= last.access
  BY LastGrows
<1>t. ASSUME NEW s \in DOMAIN tokens
      PROVE  /\ s \in Nat /\ s <= last.session /\ tokens[s].access \in Nat \X Nat
             /\ tokens[s].access[1] = s /\ tokens[s].access[2] <= last.access
  BY DEF TablesOK, SessionRow, SpentInv
<1>n. ASSUME NEW r \in Requests, IssueSession(r)
      PROVE  LET s == last.session + 1
             IN  /\ tokens'[s].access = <<s, last.access + 1>>
                 /\ last'.session = s /\ last'.access = last.access + 1
  BY <1>n DEF IssueSession, With, TablesOK
<1>1. ASSUME NEW s \in DOMAIN tokens'
      PROVE  /\ s <= last'.session
             /\ tokens'[s].access[1] = s
             /\ tokens'[s].access[2] <= last'.access
  <2>1. CASE Kept(s)
    BY <1>l, <1>t, <2>1 DEF Kept
  <2>2. CASE \E r \in Requests : IssueSession(r) /\ s = last.session + 1
    BY <1>l, <1>n, <2>2
  <2>. QED BY <2>1, <2>2, RowKept
<1>2. ASSUME NEW q \in Requests, pc'[q] = "sweep"
      PROVE  /\ loc'[q].access \in Nat \X Nat /\ loc'[q].access[2] <= last'.access
             /\ \A s \in SessionsWith(loc[q].access)' : tokens'[s].expired
  <2>. DEFINE a == loc[q].access
  <2>1. /\ a \in Nat \X Nat /\ a[2] <= last.access /\ loc'[q].access = a
        /\ \A s \in DOMAIN tokens : tokens[s].access = a => tokens[s].expired
    <3>1. CASE Stays(q)
      BY <1>2, <3>1 DEF Stays, SpentInv, SessionsWith
    <3>2. CASE Authenticate(q)
      <4>1. Proceed(q, "sweep")
        BY <1>0, <1>2, <3>2 DEF Authenticate, Proceed, Goto, FlightOK, LocOK, PcOK, LocalOK,
           Calling
      <4>2. loc'[q] = loc[q]
        BY <4>1 DEF Proceed, Goto, FlightOK, LocOK
      <4>3. PICK s \in SessionsWith(a) : tokens[s].expired
        <5>1. \/ SessionsWith(a) # {} /\ ~(\E s \in SessionsWith(a) : ~tokens[s].expired)
              \/ \E s \in SessionsWith(a) : tokens[s].expired
          BY <1>0, <1>2, <3>2 DEF Authenticate, Proceed, Goto, FlightOK, LocOK, PcOK, LocalOK,
             Calling
        <5>. QED BY <5>1
      <4>4. s \in DOMAIN tokens /\ tokens[s].access = a
        BY DEF SessionsWith
      <4>5. \A t \in DOMAIN tokens : tokens[t].access = a => t = s
        BY <1>t, <4>4
      <4>. QED BY <1>t, <4>2, <4>3, <4>4, <4>5
    <3>. QED BY <1>2, <3>1, <3>2, Arrives
  <2>2. ASSUME NEW s \in DOMAIN tokens', tokens'[s].access = a
        PROVE  tokens'[s].expired
    <3>0. a # <<s, last.access + 1>>
      BY <1>l, <2>1
    <3>1. CASE Kept(s)
      BY <2>1, <2>2, <3>0, <3>1 DEF Kept
    <3>2. ~(\E r \in Requests : IssueSession(r) /\ s = last.session + 1)
      BY <1>n, <2>2, <3>0
    <3>. QED BY <3>1, <3>2, RowKept
  <2>. QED BY <1>l, <2>1, <2>2 DEF SessionsWith
<1>3. ASSUME NEW q \in Requests, pc'[q] = "sweepOld"
      PROVE  /\ loc'[q].refresh <= last'.session
             /\ loc'[q].refresh \in DOMAIN tokens' => tokens'[loc'[q].refresh].old
  <2>. DEFINE s == loc[q].refresh
  <2>1. /\ s \in Nat /\ s <= last.session /\ loc'[q].refresh = s
        /\ s \in DOMAIN tokens => tokens[s].old
    <3>1. CASE Stays(q)
      BY <1>0, <1>3, <3>1 DEF Stays, SpentInv, LocalOK
    <3>2. CASE FindSession(q)
      <4>1. /\ Proceed(q, IF tokens[s].old THEN "sweepOld" ELSE "rotate")
            /\ s \in DOMAIN tokens
        BY <1>3, <3>2 DEF FindSession, Done, Goto, FlightOK, PcOK
      <4>2. tokens[s].old /\ loc'[q] = loc[q]
        BY <1>3, <4>1 DEF Proceed, Goto, FlightOK, LocOK, PcOK
      <4>. QED BY <1>t, <4>1, <4>2
    <3>. QED BY <1>3, <3>1, <3>2, Arrives
  <2>2. ASSUME s \in DOMAIN tokens' PROVE tokens'[s].old
    <3>1. s # last.session + 1
      BY <1>l, <2>1
    <3>2. Kept(s)
      BY <2>2, <3>1, RowKept
    <3>. QED BY <2>1, <3>2 DEF Kept
  <2>. QED BY <1>l, <2>1, <2>2
<1>. QED BY <1>1, <1>2, <1>3 DEF SpentInv, SessionsWith

LEMMA SpentEnds ==
    ASSUME FlightOK, TablesOK, SpentInv, [Next]_vars
    PROVE  [\A s \in DOMAIN tokens \ DOMAIN tokens' : Spent(s)]_tokens
<1>. SUFFICES ASSUME NEW s \in DOMAIN tokens \ DOMAIN tokens' PROVE Spent(s)
  OBVIOUS
<1>1. CASE tokens' = tokens
  BY <1>1
<1>2. ASSUME NEW r \in Requests, Sweep(r) PROVE Spent(s)
  BY <1>2 DEF Sweep, Without, SpentInv, SessionsWith, Spent
<1>3. ASSUME NEW r \in Requests, SweepOld(r) PROVE Spent(s)
  BY <1>3 DEF SweepOld, Without, SpentInv, Spent
<1>4. ASSUME NEW r \in Requests, Logout(r) PROVE Spent(s)
  BY <1>4 DEF Logout, Without, SessionsWith, Spent
<1>5. ASSUME NEW r \in Requests, RevokeSessions(r) \/ Tombstone(r) PROVE Spent(s)
  BY <1>5 DEF RevokeSessions, Tombstone, Without, RowsOf, Spent
<1>6. ASSUME NEW r \in Requests, Rotate(r) \/ IssueSession(r) PROVE FALSE
  BY <1>6 DEF Rotate, IssueSession, With
<1>7. ASSUME NEW t \in DOMAIN tokens, AccessExpires(t) \/ RefreshExpires(t) PROVE FALSE
  BY <1>7 DEF AccessExpires, RefreshExpires
<1>. QED BY <1>1, <1>2, <1>3, <1>4, <1>5, <1>6, <1>7, TokensChange

\* A session ends only when its own access token is handed in at a logout or
\* presented after it expired, when its refresh token has expired, or when its
\* user resets the password or is erased (auth.rs, AuthUser; logout; refresh;
\* reset_password; account_delete).
THEOREM SessionsEndSpent == Spec => OnlyTheSpentEnd
<1>1. Init => SpentInv
  BY SpentInvInit
<1>2. (FlightOK /\ TablesOK) /\ SpentInv /\ [Next]_vars => SpentInv'
  BY SpentInvStep
<1>3. (FlightOK /\ TablesOK) /\ SpentInv /\ [Next]_vars
        => [\A s \in DOMAIN tokens \ DOMAIN tokens' : Spent(s)]_tokens
  BY SpentEnds
<1>. QED BY <1>1, <1>2, <1>3, TypesHold, PTL DEF Spec, OnlyTheSpentEnd
-----------------------------------------------------------------------------
(***************************************************************************)
(* Nothing comes back to an account that was erased while no request of    *)
(* its user and no invitation of them was in flight, whatever the handlers *)
(* of all modules do afterwards.  Such an account is dead (it has no       *)
(* session, no mailed token, and a state nobody can log in from), and a    *)
(* request comes to act for somebody, or to invite them, only through one  *)
(* of these (NobodyActsForTheDead, NobodyInvitesTheDead).                  *)
(***************************************************************************)

\* What the locals of the other modules say of who is acting: somebody where a
\* membership or a logo is changed, nobody where a game is rated or a match is made.
OtherLocals(label, l) ==
    /\ label \in Foreign \ {"idle"} => "user" \in DOMAIN l
    /\ label \in MembershipLabels \cup LogoLabels => "club" \in DOMAIN l /\ l.user \in Users
    /\ label \in RatingLabels \cup SocialLabels => l.user = None
    /\ label = "apply" => l.who = l.user

OthersOK == \A r \in Requests : OtherLocals(pc[r], loc[r])

\* The ways in: without one of these nobody can act for u.
Alive(u) ==
    \/ users[u].state \in {"free", "minor", "active"}
    \/ RowsOf(tokens, u) # {}
    \/ RowsOf(letters, u) # {}

Busy(r, u) == pc[r] \notin {"idle", "clear"} /\ loc[r].user = u

Invited(r, u) == pc[r] = "invite" /\ loc[r].who = u

-----------------------------------------------------------------------------
\* Who is acting, in the modules that do not know accounts.

\* Somebody acts on the membership of a club, before and after a statement.
Same(l, m) ==
    {"user", "club"} \subseteq DOMAIN m /\ m.user = l.user /\ m.club = l.club

LEMMA MembershipUsers ==
    ASSUME FlightOK, OthersOK, NEW r \in Requests, MembershipStep(r)
    PROVE  \/ pc'[r] = "idle"
           \/ /\ pc'[r] \in MembershipLabels \ {"apply", "invite"} /\ pc[r] \in MembershipLabels
              /\ Same(loc[r], loc'[r])
<1>. DEFINE Goal == \/ pc'[r] = "idle"
                    \/ /\ pc'[r] \in MembershipLabels \ {"apply", "invite"} /\ pc[r] \in MembershipLabels
                       /\ Same(loc[r], loc'[r])
<1>0. OtherLocals(pc[r], loc[r])
  BY DEF OthersOK
<1>1. ASSUME Done(r) PROVE Goal
  BY <1>1, GoesTo DEF Done
<1>2. ASSUME NEW to \in MembershipLabels \ {"apply", "invite"}, Proceed(r, to), pc[r] \in MembershipLabels
      PROVE  Goal
  BY <1>0, <1>2, GoesTo DEF Same, Proceed, OtherLocals, Foreign, MembershipLabels
<1>3. CASE \/ FoundMember(r) \/ Apply(r) \/ ClearRequest(r) \/ Unseat(r) \/ DropUser(r)
           \/ AddBot(r) \/ MakeAdmin(r) \/ UnmakeAdmin(r)
  BY <1>1, <1>3 DEF FoundMember, Apply, ClearRequest, Unseat, DropUser, AddBot, MakeAdmin,
     UnmakeAdmin, WriteAdmin
<1>4. CASE FindMember(r)
  <2>1. CASE Proceed(r, "admit")
    BY <1>2, <1>4, <2>1 DEF FindMember, MembershipLabels
  <2>2. ASSUME NEW m, Goto(r, "admit", [loc[r] EXCEPT !.row = m]) PROVE Goal
    <3>1. Same(loc[r], [loc[r] EXCEPT !.row = m])
      BY <1>0, <1>4 DEF Same, FindMember, OtherLocals, Foreign, MembershipLabels
    <3>. QED BY <1>4, <2>2, <3>1, GoesTo DEF FindMember, MembershipLabels
  <2>. QED BY <1>4, <2>1, <2>2 DEF FindMember
<1>5. CASE Admit(r)
  BY <1>1, <1>2, <1>5 DEF Admit, MembershipLabels
<1>6. CASE ReadMember(r)
  BY <1>1, <1>2, <1>6 DEF ReadMember, MembershipLabels
<1>7. CASE DropDummy(r)
  BY <1>2, <1>7 DEF DropDummy, MembershipLabels
<1>8. CASE InsertDummy(r)
  <2>1. CASE Done(r)
    BY <1>1, <2>1
  <2>2. ASSUME NEW d, Goto(r, "placeholder", [loc[r] EXCEPT !.who = d]) PROVE Goal
    <3>1. Same(loc[r], [loc[r] EXCEPT !.who = d])
      BY <1>0, <1>8 DEF Same, InsertDummy, OtherLocals, Foreign, MembershipLabels
    <3>. QED BY <1>8, <2>2, <3>1, GoesTo DEF InsertDummy, MembershipLabels
  <2>. QED BY <1>8, <2>1, <2>2 DEF InsertDummy
<1>9. CASE InsertPlaceholder(r)
  BY <1>2, <1>9 DEF InsertPlaceholder, MembershipLabels
<1>10. CASE SeatDummy(r)
  BY <1>1, <1>2, <1>10 DEF SeatDummy, MembershipLabels
<1>11. CASE RecordInvitation(r)
  BY <1>1, <1>2, <1>11 DEF RecordInvitation, MembershipLabels
<1>12. CASE FindInvited(r)
  BY <1>1, <1>2, <1>12 DEF FindInvited, MembershipLabels
<1>13. CASE SeatInvited(r)
  BY <1>1, <1>13 DEF SeatInvited
<1>. QED
  BY <1>3, <1>4, <1>5, <1>6, <1>7, <1>8, <1>9, <1>10, <1>11, <1>12, <1>13 DEF MembershipStep

\* A membership is changed by people who are signed in.
LEMMA MembershipBegun ==
    ASSUME FlightOK, NEW r \in Requests, BeginMembershipCall(r)
    PROVE  /\ pc'[r] \in MembershipLabels /\ {"user", "club"} \subseteq DOMAIN loc'[r]
           /\ loc'[r].user \in Users /\ SignedIn(loc'[r].user)
           /\ pc'[r] = "apply" => loc'[r].who = loc'[r].user
           /\ pc'[r] = "invite" => users[loc'[r].who].state = "active"
<1>. DEFINE Goal == /\ pc'[r] \in MembershipLabels /\ {"user", "club"} \subseteq DOMAIN loc'[r]
                    /\ loc'[r].user \in Users /\ SignedIn(loc'[r].user)
                    /\ pc'[r] = "apply" => loc'[r].who = loc'[r].user
                    /\ pc'[r] = "invite" => users[loc'[r].who].state = "active"
<1>0. ASSUME NEW u \in Users, NEW label \in MembershipLabels, NEW x,
             SignedIn(u), Start(r, label, x),
             {"user", "club"} \subseteq DOMAIN x, x.user = u, label = "apply" => x.who = u,
             label = "invite" => users[x.who].state = "active"
      PROVE  Goal
  BY <1>0, GoesTo DEF Start
<1>1. ASSUME NEW u \in Users, NEW c \in Clubs, CreateClub(r, u, c) PROVE Goal
  <2>. DEFINE x == [MembershipLocals EXCEPT !.user = u, !.club = c, !.who = u]
  <2>1. {"user", "club"} \subseteq DOMAIN x /\ x.user = u
    BY DEF MembershipLocals
  <2>2. SignedIn(u) /\ Start(r, "found", x)
    BY <1>1 DEF CreateClub
  <2>. HIDE DEF x
  <2>. QED BY <1>0, <2>1, <2>2 DEF MembershipLabels
<1>2. ASSUME NEW u \in Users, NEW c \in Clubs, RequestToJoin(r, u, c) PROVE Goal
  <2>. DEFINE x == [MembershipLocals EXCEPT !.user = u, !.club = c, !.who = u]
  <2>1. {"user", "club"} \subseteq DOMAIN x /\ x.user = u /\ x.who = u
    BY DEF MembershipLocals
  <2>2. BeginFor(r, "apply", x)
    BY <1>2 DEF RequestToJoin
  <2>. HIDE DEF x
  <2>3. SignedIn(u) /\ Start(r, "apply", x)
    BY <2>1, <2>2 DEF BeginFor
  <2>. QED BY <1>0, <2>1, <2>3 DEF MembershipLabels
<1>3. ASSUME NEW u \in Users, NEW c \in Clubs, CreateDummy(r, u, c) PROVE Goal
  <2>. DEFINE x == [MembershipLocals EXCEPT !.user = u, !.club = c]
  <2>1. {"user", "club"} \subseteq DOMAIN x /\ x.user = u
    BY DEF MembershipLocals
  <2>2. SignedIn(u) /\ Start(r, "dummy", x)
    BY <1>3 DEF CreateDummy
  <2>. HIDE DEF x
  <2>. QED BY <1>0, <2>1, <2>2 DEF MembershipLabels
<1>4. ASSUME NEW u \in Users, NEW q, AcceptRequest(r, u, q) \/ RejectRequest(r, u, q) PROVE Goal
  <2>. DEFINE x == [MembershipLocals EXCEPT !.user = u, !.club = memberRequests[q].club,
                                            !.who = memberRequests[q].who, !.request = q]
  <2>1. {"user", "club"} \subseteq DOMAIN x /\ x.user = u
    BY DEF MembershipLocals
  <2>2. BeginFor(r, "findMember", x) \/ BeginFor(r, "clearRequest", x)
    BY <1>4 DEF AcceptRequest, RejectRequest, BeginAnswer
  <2>. HIDE DEF x
  <2>3. SignedIn(u) /\ (Start(r, "findMember", x) \/ Start(r, "clearRequest", x))
    BY <2>1, <2>2 DEF BeginFor
  <2>. QED BY <1>0, <2>1, <2>3 DEF MembershipLabels
<1>5. ASSUME NEW u \in Users, NEW m,
             \/ DeleteMember(r, u, m) \/ LeaveClub(r, u, m)
             \/ PromoteMember(r, u, m) \/ DemoteMember(r, u, m)
      PROVE  Goal
  <2>. DEFINE x == [MembershipLocals EXCEPT !.user = u, !.club = members[m].club,
                                            !.who = members[m].who, !.row = m]
  <2>1. {"user", "club"} \subseteq DOMAIN x /\ x.user = u
    BY DEF MembershipLocals
  <2>2. PICK label \in {"readMember", "makeAdmin", "unmakeAdmin"} : BeginFor(r, label, x)
    BY <1>5 DEF DeleteMember, LeaveClub, PromoteMember, DemoteMember, BeginMemberCall
  <2>. HIDE DEF x
  <2>3. SignedIn(u) /\ Start(r, label, x)
    BY <2>1, <2>2 DEF BeginFor
  <2>. QED BY <1>0, <2>1, <2>3 DEF MembershipLabels
<1>6. ASSUME NEW u \in Users, NEW c \in Clubs, NEW who \in Users, Invite(r, u, c, who) PROVE Goal
  <2>. DEFINE x == [MembershipLocals EXCEPT !.user = u, !.club = c, !.who = who]
  <2>1. {"user", "club"} \subseteq DOMAIN x /\ x.user = u /\ x.who = who
    BY DEF MembershipLocals
  <2>2. BeginFor(r, "invite", x) /\ users[who].state = "active"
    BY <1>6 DEF Invite
  <2>. HIDE DEF x
  <2>3. SignedIn(u) /\ Start(r, "invite", x)
    BY <2>1, <2>2 DEF BeginFor
  <2>. QED BY <1>0, <2>1, <2>2, <2>3 DEF MembershipLabels
<1>. QED BY <1>1, <1>2, <1>3, <1>4, <1>5, <1>6 DEF BeginMembershipCall

\* The same of a logo.
LEMMA LogoUsers ==
    ASSUME FlightOK, OthersOK, NEW r \in Requests, LogoStep(r)
    PROVE  \/ pc'[r] = "idle"
           \/ pc'[r] \in LogoLabels /\ pc[r] \in LogoLabels /\ Same(loc[r], loc'[r])
<1>. DEFINE Goal == \/ pc'[r] = "idle"
                    \/ pc'[r] \in LogoLabels /\ pc[r] \in LogoLabels /\ Same(loc[r], loc'[r])
<1>. USE DEF LogoLabels, Uploading, Removing
<1>0. OtherLocals(pc[r], loc[r])
  BY DEF OthersOK
<1>1. ASSUME pc[r] \in LogoLabels PROVE {"user", "club"} \subseteq DOMAIN loc[r]
  BY <1>0, <1>1 DEF OtherLocals, Foreign
<1>2. ASSUME NEW to \in LogoLabels, NEW k, pc[r] \in LogoLabels,
             Proceed(r, to) \/ Goto(r, to, [loc[r] EXCEPT !.key = k])
      PROVE  Goal
  <2>1. pc'[r] = to /\ (loc'[r] = loc[r] \/ loc'[r] = [loc[r] EXCEPT !.key = k])
    BY <1>2, GoesTo DEF Proceed
  <2>. QED BY <1>1, <1>2, <2>1 DEF Same
<1>3. CASE SetLogo(r) \/ ClearLogo(r)
  BY <1>3, GoesTo DEF SetLogo, ClearLogo, Done
<1>4. CASE PutLogo(r) \/ ReadLogo(r) \/ DropLogo(r)
  BY <1>2, <1>4 DEF PutLogo, ReadLogo, DropLogo
<1>. QED BY <1>3, <1>4 DEF LogoStep

LEMMA LogoBegun ==
    ASSUME FlightOK, NEW r \in Requests, BeginLogoCall(r)
    PROVE  /\ pc'[r] \in LogoLabels /\ {"user", "club"} \subseteq DOMAIN loc'[r]
           /\ loc'[r].user \in Users /\ SignedIn(loc'[r].user)
<1>1. PICK u \in Users, c \in Clubs : RemoveLogo(r, u, c) \/ \E type : UploadLogo(r, u, c, type)
  BY DEF BeginLogoCall
<1>2. PICK label, key :
         /\ label \in LogoLabels /\ SignedIn(u)
         /\ Start(r, label, [LogoLocals EXCEPT !.user = u, !.club = c, !.key = key])
  BY <1>1 DEF RemoveLogo, UploadLogo, BeginLogo, LogoLabels, Uploading, Removing
<1>3. pc'[r] = label /\ loc'[r] = [LogoLocals EXCEPT !.user = u, !.club = c, !.key = key]
  BY <1>2, GoesTo DEF Start
<1>. QED BY <1>2, <1>3 DEF LogoLocals

\* Nobody acts where games are rated and matches are made.
LEMMA RatingUsers ==
    ASSUME FlightOK, OthersOK, NEW r \in Requests, RatingStep(r) \/ BeginRatingCall(r)
    PROVE  \/ pc'[r] = "idle"
           \/ pc'[r] \in RatingLabels /\ "user" \in DOMAIN loc'[r] /\ loc'[r].user = None
<1>. DEFINE Goal == \/ pc'[r] = "idle"
                    \/ pc'[r] \in RatingLabels /\ "user" \in DOMAIN loc'[r] /\ loc'[r].user = None
            Nobodys(l) == "user" \in DOMAIN l /\ l.user = None
<1>0. OtherLocals(pc[r], loc[r])
  BY DEF OthersOK
<1>1. ASSUME NEW to \in RatingLabels, NEW x, Goto(r, to, x), Nobodys(x) PROVE Goal
  BY <1>1, GoesTo
<1>2. ASSUME Done(r) PROVE Goal
  BY <1>2, GoesTo DEF Done
<1>3. ASSUME pc[r] \in RatingLabels PROVE Nobodys(loc[r])
  BY <1>0, <1>3 DEF OtherLocals, Foreign, RatingLabels
<1>4. ASSUME NEW e, NEW elo, pc[r] \in RatingLabels, Fetched(r, e, elo) PROVE Goal
  <2>. DEFINE x == [loc[r] EXCEPT !.todo = Tail(@), !.fresh = None,
                       !.rows = Append(@, [player |-> Head(loc[r].todo), elo |-> e,
                                           games |-> elo.games, streak |-> elo.streak,
                                           best |-> elo.best])]
  <2>1. Nobodys(x)
    BY <1>3, <1>4
  <2>2. Goto(r, "fetch", x) \/ Goto(r, "save", x) \/ Done(r)
    BY <1>4 DEF Fetched
  <2>. HIDE DEF x
  <2>. QED BY <1>1, <1>2, <2>1, <2>2 DEF RatingLabels
<1>5. CASE Fetch(r)
  <2>1. pc[r] \in RatingLabels
    BY <1>5 DEF Fetch, RatingLabels
  <2>. QED BY <1>1, <1>3, <1>4, <1>5, <2>1 DEF Fetch, Proceed, RatingLabels
<1>6. CASE InsertElo(r)
  <2>. DEFINE x == [loc[r] EXCEPT !.fresh = lastElo + 1]
  <2>1. Nobodys(x)
    BY <1>3, <1>6 DEF InsertElo, RatingLabels
  <2>2. Goto(r, "linkElo", x)
    BY <1>6 DEF InsertElo
  <2>. HIDE DEF x
  <2>. QED BY <1>1, <2>1, <2>2 DEF RatingLabels
<1>7. CASE LinkElo(r)
  BY <1>4, <1>7 DEF LinkElo, RatingLabels
<1>8. CASE Save(r)
  <2>1. Goto(r, "mark", loc[r]) /\ pc[r] = "save"
    BY <1>8 DEF Save, Proceed
  <2>. QED BY <1>1, <1>3, <2>1 DEF RatingLabels
<1>9. CASE Mark(r)
  <2>. DEFINE x == [loc[r] EXCEPT !.at = @ + 1]
  <2>1. Nobodys(x)
    BY <1>3, <1>9 DEF Mark, RatingLabels
  <2>2. Goto(r, "save", x) \/ Done(r)
    BY <1>9 DEF Mark
  <2>. HIDE DEF x
  <2>. QED BY <1>1, <1>2, <2>1, <2>2 DEF RatingLabels
<1>10. CASE BeginRatingCall(r)
  <2>1. ASSUME NEW g \in Games, CompleteGame(r, g) PROVE Goal
    <3>. DEFINE x == [RatingLocals EXCEPT !.game = g, !.scope = GameOf[g].scope,
                                     !.todo = GameOf[g].winners \o GameOf[g].losers]
    <3>1. Nobodys(x)
      BY DEF RatingLocals
    <3>2. Goto(r, "fetch", x)
      BY <2>1 DEF CompleteGame, BeginRating, Start
    <3>. HIDE DEF x
    <3>. QED BY <1>1, <3>1, <3>2 DEF RatingLabels
  <2>2. ASSUME NEW p \in Players, SeatPlayer(r, p) PROVE Goal
    <3>. DEFINE x == [RatingLocals EXCEPT !.scope = "internal", !.todo = <<p>>]
    <3>1. Nobodys(x)
      BY DEF RatingLocals
    <3>2. Goto(r, "fetch", x)
      BY <2>2 DEF SeatPlayer, BeginRating, Start
    <3>. HIDE DEF x
    <3>. QED BY <1>1, <3>1, <3>2 DEF RatingLabels
  <2>. QED BY <1>10, <2>1, <2>2 DEF BeginRatingCall
<1>. QED BY <1>5, <1>6, <1>7, <1>8, <1>9, <1>10 DEF RatingStep

LEMMA MatchUsers ==
    ASSUME FlightOK, OthersOK, NEW r \in Requests, MatchStep(r) \/ BeginMatchCall(r)
    PROVE  \/ pc'[r] = "idle"
           \/ pc'[r] \in SocialLabels /\ "user" \in DOMAIN loc'[r] /\ loc'[r].user = None
<1>. DEFINE Nobodys(l) == "user" \in DOMAIN l /\ l.user = None
<1>1. CASE Swap(r)
  <2>1. Nobodys(loc[r])
    BY <1>1 DEF Swap, OthersOK, OtherLocals, Foreign, SocialLabels
  <2>2. PICK n, c : Goto(r, "swap", [loc[r] EXCEPT !.round = n, !.chosen = c])
    BY <1>1 DEF Swap
  <2>3. Nobodys([loc[r] EXCEPT !.round = n, !.chosen = c])
    BY <2>1
  <2>. QED BY <2>2, <2>3, GoesTo DEF SocialLabels
<1>2. CASE Split(r)
  BY <1>2, GoesTo DEF Split, Done
<1>3. ASSUME NEW size \in Sizes, CreateSocial(r, size)
      PROVE  pc'[r] \in SocialLabels /\ Nobodys(loc'[r])
  <2>1. PICK first, chosen :
           Goto(r, "swap", [user |-> None, size |-> size, first |-> first, chosen |-> chosen,
                            round |-> 1])
    BY <1>3 DEF CreateSocial, Start
  <2>. QED BY <2>1, GoesTo DEF SocialLabels
<1>. QED BY <1>1, <1>2, <1>3 DEF MatchStep, BeginMatchCall

-----------------------------------------------------------------------------
\* What a request comes to, with who is acting.

\* A membership is changed on, by the person who acted.
MembershipGoesOn(q) ==
    /\ pc'[q] \in MembershipLabels \ {"apply", "invite"} /\ pc[q] \in MembershipLabels
    /\ Same(loc[q], loc'[q])
LogoGoesOn(q) ==
    pc'[q] \in LogoLabels /\ pc[q] \in LogoLabels /\ Same(loc[q], loc'[q])
NobodyActs(q) ==
    /\ pc'[q] \in RatingLabels \cup SocialLabels
    /\ "user" \in DOMAIN loc'[q] /\ loc'[q].user = None

LEMMA Acts ==
    ASSUME FlightOK, OthersOK, [Next]_vars, NEW q \in Requests
    PROVE  \/ Stays(q) \/ pc'[q] = "idle"
           \/ BeginAccountCall(q) \/ AccountStep(q) \/ Tombstone(q)
           \/ BeginMembershipCall(q) \/ (MembershipStep(q) /\ MembershipGoesOn(q))
           \/ BeginLogoCall(q) \/ LogoGoesOn(q) \/ NobodyActs(q)
<1>. DEFINE Goal == \/ Stays(q) \/ pc'[q] = "idle"
                    \/ BeginAccountCall(q) \/ AccountStep(q) \/ Tombstone(q)
                    \/ BeginMembershipCall(q) \/ (MembershipStep(q) /\ MembershipGoesOn(q))
                    \/ BeginLogoCall(q) \/ LogoGoesOn(q) \/ NobodyActs(q)
<1>0. ASSUME NEW r \in Requests, NEW to, NEW x, Moves(r, to, x), r # q PROVE Stays(q)
  BY <1>0 DEF FlightOK, LocOK, PcOK, Moves, Stays
<1>1. ASSUME UNCHANGED flight PROVE Goal
  BY <1>1 DEF flight, Stays
<1>2. CASE UNCHANGED vars
  BY <1>1, <1>2 DEF vars
<1>3. CASE AtOnce
  <2>1. UNCHANGED flight
    BY <1>3 DEF AtOnce, TimePasses, AccessExpires, RefreshExpires, LetterExpires, DropAccess,
       DropRefresh, MembershipAtOnce, DeleteClub, CancelRequest, RatingAtOnce, DeleteGame,
       MatchAtOnce, CreateSbmm
  <2>. QED BY <1>1, <2>1
<1>4. ASSUME NEW r \in Requests, r # q, Begin(r) \/ Step(r) \/ Stop(r) PROVE Stays(q)
  <2>1. (\E to, x : Moves(r, to, x)) \/ ForeignMove(r)
    BY <1>4, AccountMoves, MembershipBegins, MembershipMoves, MembershipStops, LogoMoves,
       RatingMoves, MatchMoves DEF Begin, Step, Stop, Erase
  <2>. QED BY <1>0, <1>4, <2>1 DEF ForeignMove
<1>5. CASE Begin(q)
  BY <1>5, RatingUsers, MatchUsers DEF Begin, NobodyActs
<1>6. CASE Step(q)
  BY <1>6, MembershipUsers, LogoUsers, RatingUsers, MatchUsers
  DEF Step, Erase, MembershipGoesOn, LogoGoesOn, NobodyActs
<1>7. CASE Stop(q)
  BY <1>7 DEF Stop, StopAccountCall, StopMembershipCall, StopLogo, StopRating, StopSocial,
     Drop, FlightOK, PcOK
<1>. QED BY <1>2, <1>3, <1>4, <1>5, <1>6, <1>7 DEF Next

\* A request of an account stays one until it is done.
LEMMA AccountTargets ==
    ASSUME FlightOK, NEW q \in Requests, BeginAccountCall(q) \/ AccountStep(q) \/ Tombstone(q)
    PROVE  pc'[q] \in AccountLabels \cup {"idle"}
<1>0. ASSUME NEW to \in AccountLabels \cup {"idle"}, NEW x, Goto(q, to, x)
      PROVE  pc'[q] \in AccountLabels \cup {"idle"}
  BY <1>0, GoesTo
<1>. USE DEF AccountLabels
<1>1. CASE BeginAccountCall(q)
  BY <1>0, <1>1 DEF BeginAccountCall, Send, BeginLogin, BeginLogout, Register, RequestLetter,
     UseLetter, Start
<1>2. CASE Authenticate(q)
  <2>1. loc[q].op \in {"edit", "erase"}
    BY <1>2 DEF Authenticate, FlightOK, LocalOK, Calling
  <2>. QED BY <1>0, <1>2, <2>1 DEF Authenticate, Proceed
<1>3. CASE AccountStep(q) /\ ~Authenticate(q)
  BY <1>0, <1>3 DEF AccountStep, Proceed, Done, Sweep, GiveUp, AskRefresh, FindSession,
     SweepOld, Rotate, Resend, EditProfile, CheckPassword, IssueSession, SignIn, Logout,
     ClearCookies, Mail, DiscardLetter, SetPassword, SetVerified, SpendLetter, RevokeSessions
<1>4. CASE Tombstone(q)
  BY <1>0, <1>4 DEF Tombstone, Proceed
<1>. QED BY <1>1, <1>2, <1>3, <1>4

LEMMA OthersInit == Init => OthersOK
BY DEF Init, FlightInit, OthersOK, OtherLocals, Foreign, MembershipLabels, LogoLabels, Uploading,
   Removing, RatingLabels, SocialLabels

LEMMA OthersStep ==
    ASSUME FlightOK, OthersOK, [Next]_vars
    PROVE  OthersOK'
<1>. SUFFICES ASSUME NEW q \in Requests PROVE OtherLocals(pc'[q], loc'[q])
  BY DEF OthersOK
<1>0. OtherLocals(pc[q], loc[q])
  BY DEF OthersOK
<1>. USE DEF MembershipLabels, LogoLabels, Uploading, Removing, RatingLabels, SocialLabels
<1>1. CASE Stays(q)
  BY <1>0, <1>1 DEF Stays
<1>2. CASE pc'[q] \in AccountLabels \cup {"idle"}
  <2>1. pc'[q] \notin Foreign \ {"idle"}
    BY <1>2, LabelsApart
  <2>. QED BY <2>1 DEF OtherLocals, Foreign
<1>3. CASE MembershipGoesOn(q) \/ LogoGoesOn(q)
  BY <1>0, <1>3 DEF MembershipGoesOn, LogoGoesOn, Same, OtherLocals
<1>4. CASE BeginMembershipCall(q) \/ BeginLogoCall(q)
  BY <1>4, MembershipBegun, LogoBegun DEF OtherLocals
<1>5. CASE NobodyActs(q)
  BY <1>5 DEF NobodyActs, OtherLocals
<1>6. CASE BeginAccountCall(q) \/ AccountStep(q) \/ Tombstone(q)
  <2>1. pc'[q] \in AccountLabels \cup {"idle"}
    BY <1>6, AccountTargets
  <2>. QED BY <1>2, <2>1
<1>. QED BY <1>1, <1>2, <1>3, <1>4, <1>5, <1>6, Acts

-----------------------------------------------------------------------------
\* Nobody comes to act for the dead.

LEMMA NobodyActsForTheDead ==
    ASSUME FlightOK, TablesOK, OthersOK, [Next]_vars, NEW q \in Requests, NEW u \in Users,
           ~Alive(u), ~Busy(q, u)
    PROVE  ~(pc'[q] \notin {"idle", "clear"} /\ loc'[q].user = u)
<1>. DEFINE Spared == ~(pc'[q] \notin {"idle", "clear"} /\ loc'[q].user = u)
<1>0. LocalOK(pc[q], loc[q]) /\ None \notin Users
  BY AccountsAssumption DEF FlightOK
<1>1. CASE Stays(q)
  BY <1>1 DEF Stays, Busy
<1>2. CASE MembershipGoesOn(q) \/ LogoGoesOn(q)
  BY <1>2 DEF MembershipGoesOn, LogoGoesOn, Same, Busy, MembershipLabels, LogoLabels, Uploading,
     Removing
<1>3. CASE BeginMembershipCall(q) \/ BeginLogoCall(q)
  BY <1>3, MembershipBegun, LogoBegun DEF SignedIn, Alive
<1>4. CASE NobodyActs(q)
  BY <1>0, <1>4 DEF NobodyActs
<1>5. CASE BeginAccountCall(q)
  <2>0. ASSUME NEW to, NEW x, Start(q, to, x), x.user # u PROVE Spared
    BY <2>0, GoesTo DEF Start
  <2>1. ASSUME NEW b \in Browsers, NEW op \in {"edit", "erase"}, Send(q, b, op) PROVE Spared
    <3>. DEFINE x == [NoLocals EXCEPT !.browser = b, !.op = op, !.access = jar[b].access]
    <3>1. x.user = None /\ Start(q, "auth", x)
      BY <2>1 DEF Send, NoLocals
    <3>. HIDE DEF x
    <3>. QED BY <1>0, <2>0, <3>1
  <2>2. ASSUME NEW b \in Browsers, BeginLogout(q, b) PROVE Spared
    <3>. DEFINE x == [NoLocals EXCEPT !.browser = b, !.access = jar[b].access]
    <3>1. x.user = None /\ Start(q, "logout", x)
      BY <2>2 DEF BeginLogout, NoLocals
    <3>. HIDE DEF x
    <3>. QED BY <1>0, <2>0, <3>1
  <2>3. ASSUME NEW b \in Browsers, NEW v \in Users, BeginLogin(q, b, v) PROVE Spared
    <3>. DEFINE x == [NoLocals EXCEPT !.browser = b, !.user = v, !.password = users[v].password]
    <3>1. x.user = v /\ Start(q, "issue", x)
      BY <2>3 DEF BeginLogin, NoLocals
    <3>2. v # u
      BY <2>3 DEF BeginLogin, Alive
    <3>. HIDE DEF x
    <3>. QED BY <2>0, <3>1, <3>2
  <2>4. ASSUME NEW v \in Users, NEW kind \in {"verify", "reset"},
               \/ \E state \in {"active", "minor"} : Register(q, v, state) /\ kind = "verify"
               \/ RequestLetter(q, v, kind)
        PROVE  Spared
    <3>. DEFINE x == [NoLocals EXCEPT !.user = v, !.op = kind]
    <3>1. x.user = v /\ Start(q, "mail", x)
      BY <2>4 DEF Register, RequestLetter, NoLocals
    <3>2. v # u
      BY <2>4 DEF Register, RequestLetter, Alive
    <3>. HIDE DEF x
    <3>. QED BY <2>0, <3>1, <3>2
  <2>5. ASSUME NEW i \in DOMAIN letters, UseLetter(q, i) PROVE Spared
    <3>. DEFINE x == [NoLocals EXCEPT !.user = letters[i].user, !.op = letters[i].kind,
                                      !.letter = i]
    <3>1. PICK to : x.user = letters[i].user /\ Start(q, to, x)
      BY <2>5 DEF UseLetter, NoLocals
    <3>2. letters[i].user # u
      BY <2>5 DEF Alive, RowsOf
    <3>. HIDE DEF x
    <3>. QED BY <2>0, <3>1, <3>2
  <2>. QED BY <1>5, <2>1, <2>2, <2>3, <2>4, <2>5 DEF BeginAccountCall
<1>6. CASE AccountStep(q)
  <2>0. ASSUME NEW to, NEW x, Goto(q, to, x), x.user = loc[q].user,
               pc[q] \notin {"idle", "clear"}
        PROVE  Spared
    BY <2>0, GoesTo DEF Busy
  <2>a. ASSUME pc[q] \in AccountLabels PROVE loc[q] \in AccountLocals
    BY <1>0, <2>a DEF LocalOK
  <2>1. CASE Authenticate(q)
    <3>1. CASE Proceed(q, "denied") \/ Proceed(q, "sweep")
      BY <2>0, <2>1, <3>1 DEF Authenticate, Proceed
    <3>2. ASSUME NEW s \in SessionsWith(loc[q].access),
                 Goto(q, loc[q].op, [loc[q] EXCEPT !.user = tokens[s].user])
          PROVE  Spared
      <4>1. tokens[s].user # u
        BY DEF SessionsWith, Alive, RowsOf
      <4>2. [loc[q] EXCEPT !.user = tokens[s].user].user = tokens[s].user
        BY <2>a, <2>1 DEF Authenticate, AccountLabels, AccountLocals
      <4>. QED BY <3>2, <4>1, <4>2, GoesTo
    <3>. QED BY <2>1, <3>1, <3>2 DEF Authenticate
  <2>2. CASE AskRefresh(q)
    <3>. DEFINE x == [loc[q] EXCEPT !.refresh = jar[loc[q].browser].refresh, !.retried = TRUE]
    <3>1. x.user = loc[q].user /\ Goto(q, "refresh", x) /\ pc[q] = "denied"
      BY <2>a, <2>2 DEF AskRefresh, AccountLabels, AccountLocals
    <3>. HIDE DEF x
    <3>. QED BY <2>0, <3>1
  <2>3. CASE Rotate(q)
    <3>. DEFINE x == [loc[q] EXCEPT !.access = <<loc[q].refresh, last.access + 1>>]
    <3>1. x.user = loc[q].user /\ Goto(q, "renewed", x) /\ pc[q] = "rotate"
      BY <2>a, <2>3 DEF Rotate, AccountLabels, AccountLocals
    <3>. HIDE DEF x
    <3>. QED BY <2>0, <3>1
  <2>4. CASE IssueSession(q)
    <3>. DEFINE s == last.session + 1
                x == [loc[q] EXCEPT !.access = <<s, last.access + 1>>, !.refresh = s]
    <3>1. x.user = loc[q].user /\ Goto(q, "signedIn", x) /\ pc[q] = "issue"
      BY <2>a, <2>4 DEF IssueSession, AccountLabels, AccountLocals
    <3>. HIDE DEF x
    <3>. QED BY <2>0, <3>1
  <2>5. CASE \/ Sweep(q) \/ FindSession(q) \/ Resend(q) \/ CheckPassword(q)
             \/ Logout(q) \/ SetPassword(q) \/ SetVerified(q) \/ SpendLetter(q)
    <3>1. \/ Done(q)
          \/ pc[q] \notin {"idle", "clear"} /\ \E to : Goto(q, to, loc[q])
      BY <2>5 DEF Sweep, FindSession, Resend, CheckPassword, Logout, SetPassword,
         SetVerified, SpendLetter, Proceed
    <3>. QED BY <2>0, <3>1, GoesTo DEF Done
  <2>6. CASE \/ GiveUp(q) \/ SweepOld(q) \/ EditProfile(q) \/ SignIn(q) \/ ClearCookies(q)
             \/ Mail(q) \/ DiscardLetter(q) \/ RevokeSessions(q)
    <3>1. Done(q)
      BY <2>6 DEF GiveUp, SweepOld, EditProfile, SignIn, ClearCookies, Mail, DiscardLetter,
         RevokeSessions
    <3>. QED BY <3>1, GoesTo DEF Done
  <2>. QED BY <1>6, <2>1, <2>2, <2>3, <2>4, <2>5, <2>6 DEF AccountStep
<1>7. CASE Tombstone(q)
  BY <1>7, GoesTo DEF Tombstone, Proceed
<1>. QED BY <1>1, <1>2, <1>3, <1>4, <1>5, <1>6, <1>7, Acts

-----------------------------------------------------------------------------
\* The tables of the dead.

Dead(u) ==
    /\ users[u].state = "erased" /\ users[u].password = Unusable /\ ~users[u].personal
    /\ RowsOf(tokens, u) = {} /\ RowsOf(letters, u) = {}
    /\ \A q \in DOMAIN memberRequests : memberRequests[q].who # u

ErasureInv ==
    \A u \in final :
        /\ u \in Users /\ Dead(u)
        /\ \A q \in Requests : ~Busy(q, u) /\ ~Invited(q, u)

LEMMA NobodyInvitesTheDead ==
    ASSUME FlightOK, OthersOK, [Next]_vars, NEW q \in Requests, NEW u \in Users,
           ~Alive(u), ~Invited(q, u)
    PROVE  ~(pc'[q] = "invite" /\ loc'[q].who = u)
<1>. SUFFICES ASSUME pc'[q] = "invite", loc'[q].who = u, ~Stays(q) PROVE FALSE
  BY DEF Stays, Invited
<1>0. pc'[q] \notin AccountLabels \cup LogoLabels \cup RatingLabels \cup SocialLabels \cup {"idle"}
  BY DEF AccountLabels, LogoLabels, Uploading, Removing, RatingLabels, SocialLabels
<1>1. ~BeginLogoCall(q) /\ ~BeginAccountCall(q) /\ ~AccountStep(q) /\ ~Tombstone(q)
  BY <1>0, LogoBegun, AccountTargets
<1>2. BeginMembershipCall(q)
  BY <1>0, <1>1, Acts DEF MembershipGoesOn, LogoGoesOn, NobodyActs
<1>. QED BY <1>2, MembershipBegun DEF Alive

LEMMA FinalGrows ==
    ASSUME [Next]_vars
    PROVE  final' = final \/ \E r \in Requests : Erase(r)
<1>1. ASSUME NEW r \in Requests, AccountStep(r) \/ BeginAccountCall(r) \/ StopAccountCall(r)
      PROVE  final' = final
  BY <1>1 DEF AccountStep, Authenticate, Sweep, GiveUp, AskRefresh, FindSession, SweepOld,
     Rotate, Resend, EditProfile, CheckPassword, IssueSession, SignIn, Logout, ClearCookies,
     Mail, DiscardLetter, SetPassword, SetVerified, SpendLetter, RevokeSessions,
     BeginAccountCall, Send, BeginLogin, BeginLogout, Register, RequestLetter, UseLetter,
     StopAccountCall, accountVars, accountHistory
<1>2. CASE TimePasses
  BY <1>2 DEF TimePasses, AccessExpires, RefreshExpires, LetterExpires, DropAccess, DropRefresh,
     accountHistory
<1>3. CASE UNCHANGED vars
  BY <1>3 DEF vars, accountVars, accountHistory
<1>. QED BY <1>1, <1>2, <1>3 DEF Next, AtOnce, Begin, Step, Stop, accountVars, accountHistory

LEMMA RequestsChange ==
    ASSUME [Next]_vars
    PROVE  \/ memberRequests' = memberRequests
           \/ \E ids : memberRequests' = Without(memberRequests, ids)
           \/ \E r \in Requests : Apply(r) \/ RecordInvitation(r)
<1>. DEFINE Goal == \/ memberRequests' = memberRequests
                    \/ \E ids : memberRequests' = Without(memberRequests, ids)
                    \/ \E r \in Requests : Apply(r) \/ RecordInvitation(r)
<1>1. ASSUME UNCHANGED membershipVars PROVE Goal
  BY <1>1 DEF membershipVars, membershipTables
<1>2. CASE UNCHANGED vars
  BY <1>1, <1>2 DEF vars
<1>3. ASSUME NEW r \in Requests, MembershipStep(r) PROVE Goal
  BY <1>3 DEF MembershipStep, FoundMember, FindMember, Admit, ClearRequest, ReadMember, Unseat,
     DropDummy, DropUser, InsertDummy, InsertPlaceholder, SeatDummy, AddBot, MakeAdmin,
     UnmakeAdmin, WriteAdmin, FindInvited, SeatInvited, membershipVars, membershipTables
<1>4. ASSUME NEW r \in Requests, BeginMembershipCall(r) \/ StopMembershipCall(r) PROVE Goal
  <2>1. ASSUME NEW label, NEW x, BeginFor(r, label, x) PROVE memberRequests' = memberRequests
    BY <2>1 DEF BeginFor, membershipTables
  <2>2. ASSUME NEW u \in Users, NEW c \in Clubs,
               CreateClub(r, u, c) \/ RequestToJoin(r, u, c) \/ CreateDummy(r, u, c)
        PROVE  memberRequests' = memberRequests
    BY <2>1, <2>2 DEF CreateClub, RequestToJoin, CreateDummy, membershipVars, membershipTables
  <2>3. ASSUME NEW u \in Users, NEW i, AcceptRequest(r, u, i) \/ RejectRequest(r, u, i)
        PROVE  memberRequests' = memberRequests
    BY <2>1, <2>3 DEF AcceptRequest, RejectRequest, BeginAnswer
  <2>4. ASSUME NEW u \in Users, NEW m,
               \/ DeleteMember(r, u, m) \/ LeaveClub(r, u, m)
               \/ PromoteMember(r, u, m) \/ DemoteMember(r, u, m)
        PROVE  memberRequests' = memberRequests
    BY <2>1, <2>4 DEF DeleteMember, LeaveClub, PromoteMember, DemoteMember, BeginMemberCall
  <2>5. CASE StopMembershipCall(r)
    BY <2>5 DEF StopMembershipCall, membershipTables
  <2>6. ASSUME NEW u \in Users, NEW c \in Clubs, NEW who \in Users, Invite(r, u, c, who)
        PROVE  memberRequests' = memberRequests
    BY <2>1, <2>6 DEF Invite
  <2>. QED BY <1>4, <2>2, <2>3, <2>4, <2>5, <2>6 DEF BeginMembershipCall
<1>5. CASE MembershipAtOnce
  BY <1>5 DEF MembershipAtOnce, DeleteClub, CancelRequest
<1>6. ASSUME NEW r \in Requests, Erase(r) PROVE Goal
  BY <1>6 DEF Erase, ForgetRequests
<1>7. CASE AtOnce
  BY <1>1, <1>5, <1>7 DEF AtOnce
<1>8. ASSUME NEW r \in Requests, Begin(r) \/ Step(r) \/ Stop(r) PROVE Goal
  BY <1>1, <1>3, <1>4, <1>6, <1>8 DEF Begin, Step, Stop
<1>. QED BY <1>2, <1>7, <1>8 DEF Next

\* An account that nobody acts for stays dead.
LEMMA StaysDead ==
    ASSUME FlightOK, TablesOK, OthersOK, [Next]_vars, NEW u \in Users, Dead(u),
           \A q \in Requests : ~Busy(q, u) /\ ~Invited(q, u)
    PROVE  Dead(u)'
<1>0. ASSUME NEW r \in Requests, pc[r] \notin {"idle", "clear"} PROVE loc[r].user # u
  BY <1>0 DEF Busy
<1>1. users'[u] = users[u]
  <2>1. users \in [Users -> UserRow]
    BY DEF TablesOK
  <2>2. ASSUME NEW r \in Requests,
               EditProfile(r) \/ SetPassword(r) \/ SetVerified(r) \/ Tombstone(r)
        PROVE  users'[u] = users[u]
    <3>1. loc[r].user # u
      BY <1>0, <2>2 DEF EditProfile, SetPassword, SetVerified, Tombstone
    <3>. QED BY <2>1, <2>2, <3>1 DEF EditProfile, SetPassword, SetVerified, Tombstone
  <2>3. ASSUME NEW r \in Requests, NEW v \in Users, NEW state \in {"active", "minor"},
               Register(r, v, state)
        PROVE  users'[u] = users[u]
    BY <2>1, <2>3 DEF Register, Dead
  <2>. QED BY <2>2, <2>3, UsersChange
<1>2. ASSUME NEW s \in DOMAIN tokens' PROVE tokens'[s].user # u
  <2>1. CASE Kept(s)
    BY <2>1 DEF Kept, Dead, RowsOf
  <2>2. ASSUME NEW r \in Requests, IssueSession(r), s = last.session + 1
        PROVE  tokens'[s].user # u
    <3>1. loc[r].user # u
      BY <1>0, <2>2 DEF IssueSession
    <3>. QED BY <2>2, <3>1 DEF IssueSession, With
  <2>. QED BY <2>1, <2>2, RowKept
<1>3. ASSUME NEW i \in DOMAIN letters' PROVE letters'[i].user # u
  <2>0. \A j \in DOMAIN letters : letters[j].user # u
    BY DEF Dead, RowsOf
  <2>1. ASSUME NEW ids, letters' = Without(letters, ids) PROVE letters'[i].user # u
    BY <2>0, <2>1 DEF Without
  <2>2. ASSUME NEW r \in Requests, Mail(r) PROVE letters'[i].user # u
    <3>1. loc[r].user # u
      BY <1>0, <2>2 DEF Mail
    <3>. QED BY <2>0, <2>2, <3>1 DEF Mail, With
  <2>3. ASSUME NEW j \in DOMAIN letters, LetterExpires(j) PROVE letters'[i].user # u
    <3>1. [letters[j] EXCEPT !.stale = TRUE].user = letters[j].user
      BY DEF TablesOK, LetterRow
    <3>. QED BY <2>0, <2>3, <3>1 DEF LetterExpires
  <2>. QED BY <2>0, <2>1, <2>2, <2>3, LettersChange DEF DiscardLetter, SpendLetter, Tombstone
<1>4. ASSUME NEW q \in DOMAIN memberRequests' PROVE memberRequests'[q].who # u
  <2>0. \A i \in DOMAIN memberRequests : memberRequests[i].who # u
    BY DEF Dead
  <2>1. ASSUME NEW ids, memberRequests' = Without(memberRequests, ids)
        PROVE  memberRequests'[q].who # u
    BY <2>0, <2>1 DEF Without
  <2>2. ASSUME NEW r \in Requests, Apply(r) \/ RecordInvitation(r)
        PROVE  memberRequests'[q].who # u
    <3>1. loc[r].who # u
      BY <1>0, <2>2 DEF Apply, RecordInvitation, Invited, OthersOK, OtherLocals
    <3>. QED BY <2>0, <2>2, <3>1 DEF Apply, RecordInvitation, Record, With
  <2>. QED BY <2>0, <2>1, <2>2, RequestsChange
<1>. QED BY <1>1, <1>2, <1>3, <1>4 DEF Dead, RowsOf

LEMMA ErasureStep ==
    ASSUME FlightOK, TablesOK, OthersOK, ErasureInv, [Next]_vars
    PROVE  ErasureInv'
<1>. SUFFICES ASSUME NEW u \in final'
              PROVE  /\ u \in Users /\ Dead(u)'
                     /\ \A q \in Requests :
                           /\ ~(pc'[q] \notin {"idle", "clear"} /\ loc'[q].user = u)
                           /\ ~(pc'[q] = "invite" /\ loc'[q].who = u)
  BY DEF ErasureInv, Busy, Invited
<1>1. CASE u \in final
  <2>1. u \in Users /\ Dead(u) /\ \A q \in Requests : ~Busy(q, u) /\ ~Invited(q, u)
    BY <1>1 DEF ErasureInv
  <2>2. ~Alive(u)
    BY <2>1 DEF Dead, Alive
  <2>. QED BY <2>1, <2>2, StaysDead, NobodyActsForTheDead, NobodyInvitesTheDead
<1>2. ASSUME u \notin final, NEW r \in Requests, Erase(r)
      PROVE  /\ u \in Users /\ Dead(u)'
             /\ \A q \in Requests :
                   /\ ~(pc'[q] \notin {"idle", "clear"} /\ loc'[q].user = u)
                   /\ ~(pc'[q] = "invite" /\ loc'[q].who = u)
  <2>1. /\ u = loc[r].user /\ u \in Users
        /\ \A q \in Requests \ {r} : ~InFlightFor(q, u)
    BY <1>2 DEF Erase, Tombstone, FlightOK, LocalOK, Acting
  <2>2. users' = [users EXCEPT ![u] = Erased(users[u])]
    BY <1>2, <2>1 DEF Erase, Tombstone
  <2>3. users'[u] = Erased(users[u]) /\ users[u] \in UserRow
    BY <2>1, <2>2 DEF TablesOK
  <2>4. Erased(users[u]).state = "erased" /\ Erased(users[u]).password = Unusable
        /\ ~Erased(users[u]).personal
    BY <2>3 DEF Erased, UserRow
  <2>5. RowsOf(tokens, u)' = {} /\ RowsOf(letters, u)' = {}
    BY <1>2, <2>1 DEF Erase, Tombstone, Without, RowsOf
  <2>6. \A q \in DOMAIN memberRequests' : memberRequests'[q].who # u
    BY <1>2, <2>1 DEF Erase, ForgetRequests, Without
  <2>7. Dead(u)'
    BY <2>3, <2>4, <2>5, <2>6 DEF Dead
  <2>8. Goto(r, "clear", loc[r])
    BY <1>2 DEF Erase, Tombstone, Proceed
  <2>9. ASSUME NEW q \in Requests
        PROVE  /\ ~(pc'[q] \notin {"idle", "clear"} /\ loc'[q].user = u)
               /\ ~(pc'[q] = "invite" /\ loc'[q].who = u)
    <3>1. CASE q = r
      BY <2>8, <3>1, GoesTo
    <3>2. CASE q # r
      <4>1. pc'[q] = pc[q] /\ loc'[q] = loc[q]
        BY <2>8, <3>2 DEF Goto, FlightOK, LocOK, PcOK
      <4>. QED BY <2>1, <3>2, <4>1 DEF InFlightFor
    <3>. QED BY <3>1, <3>2
  <2>. QED BY <2>1, <2>7, <2>9
<1>. QED BY <1>1, <1>2, FinalGrows

\* Nothing comes back to an account that was erased while no request of its user
\* and no invitation of them was in flight: no session, no detail, no mailed
\* token and no request to join a club, whatever is asked later (account_delete,
\* login, request_reset, reset_password, create_request, invite_member).
THEOREM ErasureIsFinal == Spec => []CleanErasureIsFinal
<1>1. Init => OthersOK /\ ErasureInv
  BY OthersInit DEF Init, AccountsInit, ErasureInv
<1>2. (FlightOK /\ TablesOK) /\ (OthersOK /\ ErasureInv) /\ [Next]_vars => (OthersOK /\ ErasureInv)'
  BY OthersStep, ErasureStep
<1>3. ErasureInv => CleanErasureIsFinal
  BY DEF ErasureInv, Dead, CleanErasureIsFinal
<1>. QED BY <1>1, <1>2, <1>3, TypesHold, PTL DEF Spec
=============================================================================
