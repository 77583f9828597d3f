-------------------------- MODULE MemberRowsProofs --------------------------
(***************************************************************************)
(* Proofs about the rows of members, for the whole server.                 *)
(*                                                                         *)
(* Only presidents unmake the admins of a club.  A removal looks for the   *)
(* right of the club's own president with the row, and the row is written  *)
(* later (remove_member); a demotion asks for a president of any club      *)
(* (demote_member).  Meanwhile the row stays the same person's in the same *)
(* club (AimInv); what could give the right of an admin in between is a    *)
(* request about the same person, and then the membership is disturbed     *)
(* (OverlapInv).  The removal of a placeholder deletes by its person: it   *)
(* has that one row (SeatInv).                                             *)
(*                                                                         *)
(* A person has one row of a club, and a member no pending request but     *)
(* that of an invitation: each handler looks first and writes later.  Of a *)
(* membership that is not disturbed one request at most is in flight, so   *)
(* what it saw still holds when it writes (PairsInv); nothing that anybody *)
(* else does adds a row, a membership or a request to it (Shrinks).        *)
(***************************************************************************)
EXTENDS MembershipProofs

\* The statements of requests about a row of members, and of those that are
\* about to seat a placeholder.
Changing == {"readMember", "unseat", "dropDummy", "dropUser", "makeAdmin", "unmakeAdmin"}
Seating == {"placeholder", "seatDummy"}
Guests == {"found", "apply", "findMember", "admit", "clearRequest", "invite", "findInvited",
           "seatInvited"}

KeysOK == \A q \in Requests :
    pc[q] \in MembershipLabels => {"user", "club", "who", "row", "request"} \subseteq DOMAIN loc[q]

AimOK(l) ==
    /\ l.row \in Nat /\ l.row <= row.member
    /\ l.row \in DOMAIN members => members[l.row].who = l.who /\ members[l.row].club = l.club

AimInv == \A q \in Requests : pc[q] \in Changing => AimOK(loc[q])

OverlapInv ==
    \A q, p \in Requests :
        /\ q # p /\ pc[q] \in Changing /\ pc[p] \in Changing
        /\ loc[q].club = loc[p].club /\ loc[q].who = loc[p].who
        => <<loc[q].club, loc[q].who>> \in disturbed

\* The right to demote: somebody presides over a club, whichever it is.
Presides(u) == \E d \in Clubs : clubs[d].state # "free" /\ u = President(d)

MayUnmake(l) == l.user = President(l.club) \/ <<l.club, l.who>> \in disturbed

RightInv ==
    \A q \in Requests :
        /\ pc[q] = "unmakeAdmin" => Presides(loc[q].user)
        /\ pc[q] \in {"unseat", "dropDummy", "dropUser"} =>
              (loc[q].row \in DOMAIN members /\ members[loc[q].row].admin => MayUnmake(loc[q]))

GuestInv ==
    /\ \A i \in DOMAIN memberRequests : memberRequests[i].who \in Users
    /\ \A q \in Requests : pc[q] \in Guests => loc[q].who \in Users

SeatInv ==
    /\ \A m \in DOMAIN members : members[m].who \in Dummy =>
          /\ members[m].who <= row.dummy
          /\ \A n \in DOMAIN members : members[n].who = members[m].who => n = m
    /\ \A q \in Requests : pc[q] \in Seating =>
          /\ loc[q].who \in Nat /\ loc[q].who <= row.dummy
          /\ loc[q].who \in Dummy =>
                /\ \A m \in DOMAIN members : members[m].who # loc[q].who
                /\ \A p \in Requests \ {q} :
                      pc[p] \in Seating \cup Changing => loc[p].who # loc[q].who
    /\ \A q \in Requests : pc[q] \in Changing /\ loc[q].who \in Dummy =>
          /\ loc[q].who <= row.dummy
          /\ \A m \in DOMAIN members : members[m].who = loc[q].who => m = loc[q].row

-----------------------------------------------------------------------------
\* How a request of the clubs comes to a statement.

LEMMA OthersStay ==
    ASSUME FlightOK, NEW r \in Requests, BeginMembershipCall(r) \/ MembershipStep(r)
    PROVE  \A q \in Requests \ {r} : Stays(q)
<1>1. ForeignMove(r)
  BY MembershipBegins, MembershipMoves
<1>. QED BY <1>1 DEF ForeignMove, FlightOK, LocOK, PcOK, Moves, Stays

LEMMA ClubActs ==
    ASSUME FlightOK, OthersOK, [Next]_vars, NEW q \in Requests, pc'[q] \in MembershipLabels
    PROVE  Stays(q) \/ BeginMembershipCall(q) \/ (MembershipStep(q) /\ pc'[q] # "idle")
<1>1. pc'[q] \notin AccountLabels \cup {"idle"} \cup LogoLabels \cup RatingLabels \cup SocialLabels
  BY DEF MembershipLabels, AccountLabels, LogoLabels, Uploading, Removing, RatingLabels,
     SocialLabels
<1>2. ~(BeginAccountCall(q) \/ AccountStep(q) \/ Tombstone(q) \/ BeginLogoCall(q))
  BY <1>1, AccountTargets, LogoBegun
<1>. QED BY <1>1, <1>2, Acts DEF NobodyActs, LogoGoesOn

\* The request begins about a row of members that is there.
Aims(q) ==
    \E m \in DOMAIN members :
        /\ pc'[q] \in {"readMember", "makeAdmin", "unmakeAdmin"}
        /\ loc'[q].row = m
        /\ loc'[q].who = members[m].who /\ loc'[q].club = members[m].club
        /\ pc'[q] = "unmakeAdmin" => Presides(loc'[q].user)
        /\ disturbed' = disturbed \cup ({<<members[m].club, members[m].who>>} \cap InHand(q))
        /\ UNCHANGED membershipTables

LEMMA BegunLocals ==
    ASSUME FlightOK, GuestInv, NEW q \in Requests, BeginMembershipCall(q)
    PROVE  /\ {"user", "club", "who", "row", "request"} \subseteq DOMAIN loc'[q]
           /\ \/ pc'[q] \in Guests /\ loc'[q].who \in Users
              \/ pc'[q] = "dummy"
              \/ Aims(q)
<1>. DEFINE Keys == {"user", "club", "who", "row", "request"} \subseteq DOMAIN loc'[q]
            Goal == Keys /\ (\/ pc'[q] \in Guests /\ loc'[q].who \in Users
                             \/ pc'[q] = "dummy"
                             \/ Aims(q))
<1>0. ASSUME NEW label, NEW x, Start(q, label, x) \/ BeginFor(q, label, x)
      PROVE  pc'[q] = label /\ loc'[q] = x
  BY <1>0, GoesTo DEF Start, BeginFor
<1>1. ASSUME NEW u \in Users, NEW c \in Clubs, NEW who \in Users,
             \/ CreateClub(q, u, c) \/ RequestToJoin(q, u, c) \/ Invite(q, u, c, who)
      PROVE  Goal
  <2>1. PICK w \in Users : loc'[q] = [MembershipLocals EXCEPT !.user = u, !.club = c, !.who = w]
    BY <1>0, <1>1 DEF CreateClub, RequestToJoin, Invite
  <2>2. pc'[q] \in Guests
    BY <1>0, <1>1 DEF CreateClub, RequestToJoin, Invite, Guests
  <2>3. Keys /\ loc'[q].who = w
    BY <2>1 DEF MembershipLocals
  <2>. QED BY <2>2, <2>3
<1>2. ASSUME NEW u \in Users, NEW c \in Clubs, CreateDummy(q, u, c) PROVE Goal
  <2>1. pc'[q] = "dummy" /\ loc'[q] = [MembershipLocals EXCEPT !.user = u, !.club = c]
    BY <1>0, <1>2 DEF CreateDummy
  <2>. QED BY <2>1 DEF MembershipLocals
<1>3. ASSUME NEW u \in Users, NEW i \in DOMAIN memberRequests,
             AcceptRequest(q, u, i) \/ RejectRequest(q, u, i)
      PROVE  Goal
  <2>1. loc'[q] = [MembershipLocals EXCEPT !.user = u, !.club = memberRequests[i].club,
                                           !.who = memberRequests[i].who, !.request = i]
    BY <1>0, <1>3 DEF AcceptRequest, RejectRequest, BeginAnswer
  <2>2. pc'[q] \in Guests
    BY <1>0, <1>3 DEF AcceptRequest, RejectRequest, BeginAnswer, Guests
  <2>3. Keys /\ loc'[q].who = memberRequests[i].who
    BY <2>1 DEF MembershipLocals
  <2>. QED BY <2>2, <2>3 DEF GuestInv
<1>4. ASSUME NEW u \in Users, NEW m \in DOMAIN members,
             \/ DeleteMember(q, u, m) \/ LeaveClub(q, u, m)
             \/ PromoteMember(q, u, m) \/ DemoteMember(q, u, m)
      PROVE  Goal
  <2>1. PICK label \in {"readMember", "makeAdmin", "unmakeAdmin"} :
          /\ BeginMemberCall(q, u, m, label)
          /\ label = "unmakeAdmin" => Presides(u)
    <3>1. ASSUME NEW c \in Clubs, IsPresident(c, u) PROVE Presides(u)
      BY <3>1 DEF IsPresident, Live, Presides, President
    <3>. QED BY <1>4, <3>1 DEF DeleteMember, LeaveClub, PromoteMember, DemoteMember
  <2>. DEFINE x == [MembershipLocals EXCEPT !.user = u, !.club = members[m].club,
                                            !.who = members[m].who, !.row = m]
  <2>2. /\ pc'[q] = label /\ loc'[q] = x
        /\ disturbed' = disturbed \cup ({<<x.club, x.who>>} \cap InHand(q))
        /\ UNCHANGED membershipTables
    BY <1>0, <2>1 DEF BeginMemberCall, BeginFor
  <2>3. /\ {"user", "club", "who", "row", "request"} \subseteq DOMAIN x
        /\ x.user = u /\ x.club = members[m].club /\ x.who = members[m].who /\ x.row = m
    BY DEF MembershipLocals
  <2>. HIDE DEF x
  <2>4. Aims(q)
    BY <2>1, <2>2, <2>3 DEF Aims
  <2>. QED BY <2>2, <2>3, <2>4
<1>. HIDE DEF Goal
<1>5. Goal
  BY <1>1, <1>2, <1>3, <1>4 DEF BeginMembershipCall
<1>. QED BY <1>5 DEF Goal

\* From one statement to the next.
Follows == {<<"admit", "clearRequest">>, <<"readMember", "unseat">>,
            <<"readMember", "dropDummy">>, <<"dropDummy", "dropUser">>,
            <<"findMember", "admit">>, <<"placeholder", "seatDummy">>, <<"seatDummy", "bot">>,
            <<"invite", "findInvited">>, <<"findInvited", "seatInvited">>}

LEMMA StepLocals ==
    ASSUME FlightOK, KeysOK, NEW q \in Requests, MembershipStep(q), pc'[q] # "idle"
    PROVE  /\ {"user", "club", "who", "row", "request"} \subseteq DOMAIN loc'[q]
           /\ \/ InsertDummy(q) /\ pc'[q] = "placeholder" /\ loc'[q].who = row.dummy + 1
              \/ FindMember(q) /\ pc'[q] = "admit" /\ loc'[q].who = loc[q].who
              \/ loc'[q] = loc[q] /\ <<pc[q], pc'[q]>> \in Follows
<1>. DEFINE Keys(l) == {"user", "club", "who", "row", "request"} \subseteq DOMAIN l
            Goal == Keys(loc'[q]) /\
                     (\/ InsertDummy(q) /\ pc'[q] = "placeholder" /\ loc'[q].who = row.dummy + 1
                      \/ FindMember(q) /\ pc'[q] = "admit" /\ loc'[q].who = loc[q].who
                      \/ loc'[q] = loc[q] /\ <<pc[q], pc'[q]>> \in Follows)
<1>0. pc[q] \in MembershipLabels => Keys(loc[q])
  BY DEF KeysOK
<1>1. ~Done(q)
  BY GoesTo DEF Done
<1>2. ASSUME NEW label, Proceed(q, label), <<pc[q], label>> \in Follows PROVE Goal
  <2>1. pc'[q] = label /\ loc'[q] = loc[q] /\ pc[q] \in MembershipLabels
    BY <1>2, GoesTo DEF Proceed, Follows, MembershipLabels
  <2>. QED BY <1>0, <1>2, <2>1
<1>3. CASE InsertDummy(q)
  <2>. DEFINE d == row.dummy + 1
  <2>1. Goto(q, "placeholder", [loc[q] EXCEPT !.who = d]) /\ pc[q] \in MembershipLabels
    BY <1>1, <1>3 DEF InsertDummy, MembershipLabels
  <2>. HIDE DEF d
  <2>2. pc'[q] = "placeholder" /\ loc'[q] = [loc[q] EXCEPT !.who = d]
    BY <2>1, GoesTo
  <2>3. Keys(loc'[q]) /\ loc'[q].who = d
    BY <1>0, <2>1, <2>2
  <2>. QED BY <1>3, <2>2, <2>3 DEF d
<1>4. CASE FindMember(q)
  <2>1. ASSUME NEW m, Goto(q, "admit", [loc[q] EXCEPT !.row = m]) PROVE Goal
    <3>1. pc'[q] = "admit" /\ loc'[q] = [loc[q] EXCEPT !.row = m] /\ pc[q] \in MembershipLabels
      BY <1>4, <2>1, GoesTo DEF FindMember, MembershipLabels
    <3>. QED BY <1>0, <1>4, <3>1
  <2>2. ASSUME Proceed(q, "admit") PROVE Goal
    BY <1>2, <1>4, <2>2 DEF FindMember, Follows
  <2>. QED BY <1>4, <2>1, <2>2 DEF FindMember
<1>5. CASE Admit(q)
  <2>1. Proceed(q, "clearRequest") /\ pc[q] = "admit"
    BY <1>1, <1>5 DEF Admit
  <2>. QED BY <1>2, <2>1 DEF Follows
<1>6. CASE ReadMember(q)
  <2>1. PICK label \in {"dropDummy", "unseat"} : Proceed(q, label) /\ pc[q] = "readMember"
    BY <1>1, <1>6 DEF ReadMember
  <2>. QED BY <1>2, <2>1 DEF Follows
<1>7. CASE DropDummy(q)
  BY <1>2, <1>7 DEF DropDummy, Follows
<1>8. CASE InsertPlaceholder(q)
  BY <1>2, <1>8 DEF InsertPlaceholder, Follows
<1>9. CASE SeatDummy(q)
  <2>1. Proceed(q, "bot") /\ pc[q] = "seatDummy"
    BY <1>1, <1>9 DEF SeatDummy
  <2>. QED BY <1>2, <2>1 DEF Follows
<1>10. CASE RecordInvitation(q)
  <2>1. Proceed(q, "findInvited") /\ pc[q] = "invite"
    BY <1>1, <1>10 DEF RecordInvitation
  <2>. QED BY <1>2, <2>1 DEF Follows
<1>11. CASE FindInvited(q)
  <2>1. Proceed(q, "seatInvited") /\ pc[q] = "findInvited"
    BY <1>1, <1>11 DEF FindInvited
  <2>. QED BY <1>2, <2>1 DEF Follows
<1>12. ~(\/ FoundMember(q) \/ Apply(q) \/ ClearRequest(q) \/ Unseat(q) \/ DropUser(q)
         \/ AddBot(q) \/ MakeAdmin(q) \/ UnmakeAdmin(q) \/ SeatInvited(q))
  BY <1>1 DEF FoundMember, Apply, ClearRequest, Unseat, DropUser, AddBot, MakeAdmin, UnmakeAdmin,
     WriteAdmin, SeatInvited
<1>. QED BY <1>3, <1>4, <1>5, <1>6, <1>7, <1>8, <1>9, <1>10, <1>11, <1>12 DEF MembershipStep

LEMMA KeysStep ==
    ASSUME FlightOK, OthersOK, KeysOK, GuestInv, [Next]_vars
    PROVE  KeysOK'
<1>. SUFFICES ASSUME NEW q \in Requests, pc'[q] \in MembershipLabels
              PROVE  {"user", "club", "who", "row", "request"} \subseteq DOMAIN loc'[q]
  BY DEF KeysOK
<1>. QED BY ClubActs, BegunLocals, StepLocals DEF Stays, KeysOK

LEMMA GuestStep ==
    ASSUME FlightOK, OthersOK, KeysOK, GuestInv, [Next]_vars
    PROVE  GuestInv'
<1>1. ASSUME NEW i \in DOMAIN memberRequests' PROVE memberRequests'[i].who \in Users
  <2>1. ASSUME NEW ids, memberRequests' = Without(memberRequests, ids)
        PROVE  memberRequests'[i].who \in Users
    BY <2>1 DEF Without, GuestInv
  <2>2. ASSUME NEW r \in Requests, Apply(r) \/ RecordInvitation(r)
        PROVE  memberRequests'[i].who \in Users
    <3>1. loc[r].who \in Users
      BY <2>2 DEF Apply, RecordInvitation, GuestInv, Guests
    <3>. QED BY <2>2, <3>1 DEF Apply, RecordInvitation, Record, With, GuestInv
  <2>. QED BY <2>1, <2>2, RequestsChange DEF GuestInv
<1>2. ASSUME NEW q \in Requests, pc'[q] \in Guests PROVE loc'[q].who \in Users
  <2>1. pc'[q] \in MembershipLabels
    BY <1>2 DEF Guests, MembershipLabels
  <2>2. CASE Stays(q)
    BY <1>2, <2>2 DEF Stays, GuestInv
  <2>3. CASE BeginMembershipCall(q)
    BY <1>2, <2>3, BegunLocals DEF Aims, Guests
  <2>4. CASE MembershipStep(q) /\ pc'[q] # "idle"
    <3>1. pc[q] \in Guests /\ loc'[q].who = loc[q].who
      BY <1>2, <2>4, StepLocals DEF Follows, Guests, FindMember
    <3>. QED BY <3>1 DEF GuestInv
  <2>. QED BY <2>1, <2>2, <2>3, <2>4, ClubActs
<1>. QED BY <1>1, <1>2 DEF GuestInv

\* A request about a row of members begins with a row that is there, or goes on.
LEMMA Changes ==
    ASSUME FlightOK, OthersOK, KeysOK, GuestInv, [Next]_vars, NEW q \in Requests,
           pc'[q] \in Changing
    PROVE  \/ pc[q] \in Changing /\ loc'[q] = loc[q]
           \/ Aims(q) /\ BeginMembershipCall(q)
<1>1. pc'[q] \in MembershipLabels
  BY DEF Changing, MembershipLabels
<1>. QED BY <1>1, ClubActs, BegunLocals, StepLocals DEF Stays, Changing, Guests, Follows

-----------------------------------------------------------------------------
\* The row a request is about stays the same person's.

LEMMA AimStep ==
    ASSUME FlightOK, OthersOK, ClubsOK, KeysOK, GuestInv, AimInv, [Next]_vars
    PROVE  AimInv'
<1>0. row.member \in Nat /\ row'.member \in Nat /\ row'.member >= row.member
  BY IdsGrow
<1>. SUFFICES ASSUME NEW q \in Requests, pc'[q] \in Changing
              PROVE  AimOK(loc[q])'
  BY DEF AimInv
<1>1. CASE pc[q] \in Changing /\ loc'[q] = loc[q]
  <2>. DEFINE m == loc[q].row
  <2>1. AimOK(loc[q])
    BY <1>1 DEF AimInv
  <2>2. ~MemberNew(m)
    BY <1>0, <2>1 DEF AimOK, MemberNew
  <2>3. m \in DOMAIN members' => MemberKept(m)
    BY <2>2, MemberGoesOn
  <2>. QED BY <1>0, <1>1, <2>1, <2>3 DEF AimOK, MemberKept
<1>2. CASE Aims(q)
  <2>1. PICK m \in DOMAIN members : /\ loc'[q].row = m /\ loc'[q].who = members[m].who
                                   /\ loc'[q].club = members[m].club
                                   /\ UNCHANGED membershipTables
    BY <1>2 DEF Aims
  <2>. QED BY <2>1 DEF AimOK, ClubsOK, membershipTables
<1>. QED BY <1>1, <1>2, Changes

\* Two requests about one person are noticed by the one that begins later.
LEMMA OverlapStep ==
    ASSUME FlightOK, OthersOK, KeysOK, GuestInv, OverlapInv, [Next]_vars
    PROVE  OverlapInv'
<1>. SUFFICES ASSUME NEW q \in Requests, NEW p \in Requests, q # p,
                     pc'[q] \in Changing, pc'[p] \in Changing,
                     loc'[q].club = loc'[p].club, loc'[q].who = loc'[p].who
              PROVE  <<loc'[q].club, loc'[q].who>> \in disturbed'
  BY DEF OverlapInv
<1>1. disturbed \subseteq disturbed'
  BY DisturbedGrows
<1>2. ASSUME NEW a \in Requests, NEW b \in Requests, a # b, BeginMembershipCall(a), Aims(a),
             pc'[b] \in Changing, loc'[a].club = loc'[b].club, loc'[a].who = loc'[b].who
      PROVE  <<loc'[a].club, loc'[a].who>> \in disturbed'
  <2>1. Stays(b)
    BY <1>2, OthersStay
  <2>2. /\ pc[b] \in MembershipLabels
        /\ loc[b].club = loc'[a].club /\ loc[b].who = loc'[a].who
    BY <1>2, <2>1 DEF Stays, Changing, MembershipLabels
  <2>3. <<loc'[a].club, loc'[a].who>> \in InHand(a)
    BY <1>2, <2>2 DEF InHand
  <2>. QED BY <1>2, <2>3 DEF Aims
<1>3. CASE Aims(q) /\ BeginMembershipCall(q)
  BY <1>2, <1>3
<1>4. CASE Aims(p) /\ BeginMembershipCall(p)
  BY <1>2, <1>4
<1>5. CASE pc[q] \in Changing /\ loc'[q] = loc[q] /\ pc[p] \in Changing /\ loc'[p] = loc[p]
  BY <1>1, <1>5 DEF OverlapInv
<1>. QED BY <1>3, <1>4, <1>5, Changes

-----------------------------------------------------------------------------
\* A placeholder has one row of members.

LEMMA DummyIds ==
    ASSUME ClubsOK, [Next]_vars
    PROVE  /\ row.dummy \in Nat /\ row'.dummy \in Nat /\ row'.dummy >= row.dummy
           /\ \A r \in Requests : InsertDummy(r) /\ pc'[r] # "idle" /\ FlightOK =>
                 row'.dummy = row.dummy + 1 /\ members' = members
<1>0. row \in [member : Nat, request : Nat, dummy : Nat]
  BY DEF ClubsOK
<1>1. /\ \A n \in Nat : /\ [row EXCEPT !.member = n].dummy = row.dummy
                         /\ [row EXCEPT !.request = n].dummy = row.dummy
                         /\ [row EXCEPT !.dummy = n].dummy = n
      /\ row.member + 1 \in Nat /\ row.request + 1 \in Nat
      /\ row.dummy \in Nat /\ row.dummy + 1 \in Nat /\ row.dummy + 1 >= row.dummy
  BY <1>0
<1>2. ASSUME NEW r \in Requests, FoundMember(r) \/ Admit(r) \/ SeatDummy(r) \/ SeatInvited(r)
      PROVE  row' = row \/ row' = [row EXCEPT !.member = row.member + 1]
  BY <1>2 DEF FoundMember, Admit, SeatDummy, SeatInvited, Insert
<1>3. ASSUME NEW r \in Requests, Apply(r) \/ RecordInvitation(r) \/ InsertDummy(r)
      PROVE  \/ row' = row \/ row' = [row EXCEPT !.request = row.request + 1]
             \/ row' = [row EXCEPT !.dummy = row.dummy + 1]
  BY <1>3 DEF Apply, RecordInvitation, Record, InsertDummy
<1>4. \/ row' = row \/ row' = [row EXCEPT !.member = row.member + 1]
      \/ row' = [row EXCEPT !.request = row.request + 1]
      \/ row' = [row EXCEPT !.dummy = row.dummy + 1]
  BY <1>2, <1>3, RowChange
<1>5. ASSUME NEW r \in Requests, InsertDummy(r), pc'[r] # "idle", FlightOK
      PROVE  row'.dummy = row.dummy + 1 /\ members' = members
  <2>1. ~Done(r)
    BY <1>5, GoesTo DEF Done
  <2>2. row' = [row EXCEPT !.dummy = row.dummy + 1] /\ members' = members
    BY <1>5, <2>1 DEF InsertDummy
  <2>. QED BY <1>1, <2>2
<1>6. row.dummy \in Nat /\ row'.dummy \in Nat /\ row'.dummy >= row.dummy
  <2>1. row'.dummy = row.dummy \/ row'.dummy = row.dummy + 1
    BY <1>1, <1>4
  <2>. QED BY <1>1, <2>1
<1>. QED BY <1>5, <1>6

\* A new row of a placeholder is the one that is seated.
LEMMA NewSeat ==
    ASSUME FlightOK, ClubsOK, GuestInv, [Next]_vars, NEW m \in DOMAIN members', MemberNew(m),
           members'[m].who \in Dummy
    PROVE  \E r \in Requests : /\ SeatDummy(r) /\ loc[r].who = members'[m].who
                               /\ pc'[r] \notin Seating \cup Changing
<1>. DEFINE Goal == \E r \in Requests : /\ SeatDummy(r) /\ loc[r].who = members'[m].who
                                        /\ pc'[r] \notin Seating \cup Changing
<1>1. m = row.member + 1 /\ m \notin DOMAIN members /\ Users \cap Dummy = {}
  BY MembershipAssumption DEF MemberNew, ClubsOK, Dummy
<1>2. ASSUME NEW r \in Requests, NEW x, Insert(x) PROVE members'[m] = x
  <2>1. members' = With(members, row.member + 1, x)
    BY <1>2 DEF Insert
  <2>. QED BY <1>1, <2>1 DEF With
<1>3. ASSUME NEW r \in Requests, FoundMember(r) PROVE Goal
  <2>. DEFINE x == [club |-> loc[r].club, who |-> loc[r].who, member |-> TRUE, admin |-> TRUE]
  <2>1. loc[r].who \in Users /\ x.who = loc[r].who
    BY <1>3 DEF FoundMember, GuestInv, Guests
  <2>2. Insert(x) \/ members' = members
    BY <1>3 DEF FoundMember
  <2>. HIDE DEF x
  <2>. QED BY <1>1, <1>2, <2>1, <2>2
<1>4. ASSUME NEW r \in Requests, Admit(r) PROVE Goal
  <2>. DEFINE x == [club |-> loc[r].club, who |-> loc[r].who, member |-> TRUE, admin |-> FALSE]
  <2>1. loc[r].who \in Users /\ x.who = loc[r].who
    BY <1>4 DEF Admit, GuestInv, Guests
  <2>2. Insert(x) \/ DOMAIN members' = DOMAIN members
    BY <1>4 DEF Admit
  <2>. HIDE DEF x
  <2>. QED BY <1>1, <1>2, <2>1, <2>2
<1>5. ASSUME NEW r \in Requests, SeatInvited(r) PROVE Goal
  <2>. DEFINE x == [club |-> loc[r].club, who |-> loc[r].who, member |-> FALSE, admin |-> FALSE]
  <2>1. loc[r].who \in Users /\ x.who = loc[r].who
    BY <1>5 DEF SeatInvited, GuestInv, Guests
  <2>2. Insert(x) \/ members' = members
    BY <1>5 DEF SeatInvited
  <2>. HIDE DEF x
  <2>. QED BY <1>1, <1>2, <2>1, <2>2
<1>6. ASSUME NEW r \in Requests, SeatDummy(r) PROVE Goal
  <2>. DEFINE x == [club |-> loc[r].club, who |-> loc[r].who, member |-> TRUE, admin |-> FALSE]
  <2>1. x.who = loc[r].who
    OBVIOUS
  <2>2. Insert(x) \/ members' = members
    BY <1>6 DEF SeatDummy
  <2>3. pc'[r] \in {"idle", "bot"}
    BY <1>6, GoesTo DEF SeatDummy, Proceed, Done
  <2>. HIDE DEF x
  <2>. QED BY <1>1, <1>2, <1>6, <2>1, <2>2, <2>3 DEF Seating, Changing
<1>7. ASSUME NEW r \in Requests, Unseat(r) \/ DropUser(r) \/ MakeAdmin(r) \/ UnmakeAdmin(r)
      PROVE  DOMAIN members' \subseteq DOMAIN members
  BY <1>7 DEF Unseat, DropUser, MakeAdmin, UnmakeAdmin, WriteAdmin, Without
<1>8. ASSUME NEW u \in Users, NEW c \in Clubs, DeleteClub(u, c)
      PROVE  DOMAIN members' \subseteq DOMAIN members
  BY <1>8 DEF DeleteClub, Without
<1>. HIDE DEF Goal
<1>9. Goal
  BY <1>1, <1>3, <1>4, <1>5, <1>6, <1>7, <1>8, MembersChange
<1>. QED BY <1>9 DEF Goal

\* A placeholder is numbered when its request has it to seat, and never after.
LEMMA Seats ==
    ASSUME FlightOK, OthersOK, KeysOK, GuestInv, [Next]_vars, NEW q \in Requests,
           pc'[q] \in Seating
    PROVE  \/ pc[q] \in Seating /\ loc'[q] = loc[q]
           \/ InsertDummy(q) /\ pc'[q] # "idle" /\ loc'[q].who = row.dummy + 1
<1>1. pc'[q] \in MembershipLabels
  BY DEF Seating, MembershipLabels
<1>2. ~BeginMembershipCall(q)
  BY BegunLocals DEF Aims, Seating, Guests
<1>. QED BY <1>1, <1>2, ClubActs, StepLocals DEF Stays, Seating, Follows

LEMMA SeatStep ==
    ASSUME FlightOK, OthersOK, ClubsOK, KeysOK, GuestInv, SeatInv, [Next]_vars
    PROVE  SeatInv'
<1>0. /\ row.dummy \in Nat /\ row'.dummy \in Nat /\ row'.dummy >= row.dummy
      /\ Dummy \subseteq Nat
  BY DummyIds, MembershipAssumption DEF Dummy
\* A row was there, or is of the placeholder being seated.
<1>1. ASSUME NEW m \in DOMAIN members', members'[m].who \in Dummy
      PROVE  \/ m \in DOMAIN members /\ members[m].who = members'[m].who
             \/ /\ m = row.member + 1
                /\ \E r \in Requests : /\ pc[r] \in Seating /\ loc[r].who = members'[m].who
                                       /\ pc'[r] \notin Seating \cup Changing
  <2>1. CASE MemberKept(m)
    BY <2>1 DEF MemberKept
  <2>2. CASE MemberNew(m)
    <3>1. PICK r \in Requests : /\ SeatDummy(r) /\ loc[r].who = members'[m].who
                                /\ pc'[r] \notin Seating \cup Changing
      BY <1>1, <2>2, NewSeat
    <3>. QED BY <2>2, <3>1 DEF MemberNew, SeatDummy, Seating
  <2>. QED BY <2>1, <2>2, MemberGoesOn
<1>2. ASSUME NEW m \in DOMAIN members', members'[m].who \in Dummy
      PROVE  /\ members'[m].who <= row'.dummy
             /\ \A n \in DOMAIN members' : members'[n].who = members'[m].who => n = m
  <2>1. members'[m].who <= row.dummy
    BY <1>1, <1>2 DEF SeatInv
  <2>2. ASSUME NEW n \in DOMAIN members', members'[n].who = members'[m].who PROVE n = m
    BY <1>1, <1>2, <2>2 DEF SeatInv
  <2>3. ASSUME NEW d \in Dummy, d <= row.dummy PROVE d <= row'.dummy
    BY <1>0, <2>3
  <2>. QED BY <1>2, <2>1, <2>2, <2>3
<1>3. ASSUME NEW q \in Requests, pc'[q] \in Seating
      PROVE  /\ loc'[q].who \in Nat /\ loc'[q].who <= row'.dummy
             /\ loc'[q].who \in Dummy =>
                   /\ \A m \in DOMAIN members' : members'[m].who # loc'[q].who
                   /\ \A p \in Requests \ {q} :
                         pc'[p] \in Seating \cup Changing => loc'[p].who # loc'[q].who
  <2>1. CASE pc[q] \in Seating /\ loc'[q] = loc[q]
    <3>. DEFINE d == loc[q].who
    <3>1. /\ d \in Nat /\ d <= row.dummy
          /\ d \in Dummy => /\ \A m \in DOMAIN members : members[m].who # d
                            /\ \A p \in Requests \ {q} :
                                  pc[p] \in Seating \cup Changing => loc[p].who # d
      BY <2>1 DEF SeatInv
    <3>2. ASSUME d \in Dummy, NEW m \in DOMAIN members' PROVE members'[m].who # d
      BY <1>1, <1>3, <3>1, <3>2
    <3>3. ASSUME d \in Dummy, NEW p \in Requests \ {q}, pc'[p] \in Seating
          PROVE  loc'[p].who # d
      <4>1. CASE pc[p] \in Seating /\ loc'[p] = loc[p]
        BY <3>1, <3>3, <4>1
      <4>2. CASE loc'[p].who = row.dummy + 1
        BY <1>0, <3>1, <4>2
      <4>. QED BY <3>3, <4>1, <4>2, Seats
    <3>4. ASSUME d \in Dummy, NEW p \in Requests \ {q}, pc'[p] \in Changing
          PROVE  loc'[p].who # d
      <4>1. CASE pc[p] \in Changing /\ loc'[p] = loc[p]
        BY <3>1, <3>4, <4>1
      <4>2. CASE Aims(p)
        BY <3>1, <3>4, <4>2 DEF Aims
      <4>. QED BY <3>4, <4>1, <4>2, Changes
    <3>5. d <= row'.dummy
      BY <1>0, <3>1
    <3>. QED BY <2>1, <3>1, <3>2, <3>3, <3>4, <3>5
  <2>2. CASE InsertDummy(q) /\ pc'[q] # "idle" /\ loc'[q].who = row.dummy + 1
    <3>1. row'.dummy = row.dummy + 1 /\ members' = members
      BY <2>2, DummyIds
    <3>2. ASSUME NEW d, d \in Dummy => d <= row.dummy, row.dummy + 1 \in Dummy
          PROVE  d # row.dummy + 1
      BY <1>0, <3>2
    <3>3. ASSUME NEW m \in DOMAIN members, row.dummy + 1 \in Dummy
          PROVE  members[m].who # row.dummy + 1
      <4>1. members[m].who \in Dummy => members[m].who <= row.dummy
        BY DEF SeatInv
      <4>. QED BY <3>2, <3>3, <4>1
    <3>4. ASSUME NEW p \in Requests \ {q}, pc'[p] \in Seating \cup Changing,
                 row.dummy + 1 \in Dummy
          PROVE  loc'[p].who # row.dummy + 1
      <4>1. Stays(p)
        BY <2>2, OthersStay DEF MembershipStep
      <4>2. loc[p].who \in Dummy => loc[p].who <= row.dummy
        BY <3>4, <4>1 DEF Stays, SeatInv
      <4>3. loc[p].who # row.dummy + 1
        BY <3>2, <3>4, <4>2
      <4>. QED BY <4>1, <4>3 DEF Stays
    <3>5. row.dummy + 1 \in Nat /\ row.dummy + 1 <= row'.dummy
      BY <1>0, <3>1
    <3>. QED BY <2>2, <3>1, <3>3, <3>4, <3>5
  <2>. QED BY <1>3, <2>1, <2>2, Seats
<1>4. ASSUME NEW q \in Requests, pc'[q] \in Changing, loc'[q].who \in Dummy
      PROVE  /\ loc'[q].who <= row'.dummy
             /\ \A m \in DOMAIN members' : members'[m].who = loc'[q].who => m = loc'[q].row
  <2>1. CASE pc[q] \in Changing /\ loc'[q] = loc[q]
    <3>. DEFINE d == loc[q].who
    <3>1. /\ d <= row.dummy
          /\ \A m \in DOMAIN members : members[m].who = d => m = loc[q].row
          /\ \A r \in Requests : pc[r] \in Seating => loc[r].who # d
      <4>1. pc[q] \notin Seating
        BY <2>1 DEF Seating, Changing
      <4>. QED BY <1>4, <2>1, <4>1 DEF SeatInv
    <3>2. ASSUME NEW m \in DOMAIN members', members'[m].who = d PROVE m = loc[q].row
      BY <1>1, <1>4, <2>1, <3>1, <3>2
    <3>3. d <= row'.dummy
      BY <1>0, <1>4, <2>1, <3>1
    <3>. QED BY <2>1, <3>2, <3>3
  <2>2. CASE Aims(q)
    <3>1. PICK m \in DOMAIN members : /\ loc'[q].row = m /\ loc'[q].who = members[m].who
                                     /\ members' = members /\ row' = row
      BY <2>2 DEF Aims, membershipTables
    <3>. QED BY <1>4, <3>1 DEF SeatInv
  <2>. QED BY <1>4, <2>1, <2>2, Changes
<1>. QED BY <1>2, <1>3, <1>4 DEF SeatInv

-----------------------------------------------------------------------------
\* What becomes of an admin, and of the right to unmake one.

AdminKept(m) == m \in DOMAIN members' /\ members'[m].admin = members[m].admin

LEMMA AdminChange ==
    ASSUME ClubsOK, [Next]_vars, NEW m \in DOMAIN members
    PROVE  \/ AdminKept(m)
           \/ \E r \in Requests :
                 \/ /\ loc[r].row = m /\ m \in DOMAIN members'
                    /\ \/ MakeAdmin(r) /\ members'[m].admin = TRUE
                       \/ (Unseat(r) \/ UnmakeAdmin(r)) /\ members'[m].admin = FALSE
                 \/ DropUser(r) /\ members[m].who = loc[r].who
           \/ \E u \in Users : DeleteClub(u, members[m].club)
<1>. DEFINE Changed == \E r \in Requests :
                 \/ /\ loc[r].row = m /\ m \in DOMAIN members'
                    /\ \/ MakeAdmin(r) /\ members'[m].admin = TRUE
                       \/ (Unseat(r) \/ UnmakeAdmin(r)) /\ members'[m].admin = FALSE
                 \/ DropUser(r) /\ members[m].who = loc[r].who
            Goal == AdminKept(m) \/ Changed
                    \/ \E u \in Users : DeleteClub(u, members[m].club)
<1>0. m # row.member + 1 /\ {"club", "who", "member", "admin"} \subseteq DOMAIN members[m]
  BY DEF ClubsOK
<1>1. ASSUME NEW x, Insert(x) PROVE AdminKept(m)
  BY <1>0, <1>1 DEF Insert, With, AdminKept
<1>2. ASSUME NEW r \in Requests, FoundMember(r) \/ SeatDummy(r) \/ SeatInvited(r)
      PROVE  AdminKept(m)
  <2>1. members' = members \/ \E x : Insert(x)
    BY <1>2 DEF FoundMember, SeatDummy, SeatInvited
  <2>. QED BY <1>1, <2>1 DEF AdminKept
<1>3. ASSUME NEW r \in Requests, Admit(r) PROVE AdminKept(m)
  <2>1. \/ \E x : Insert(x)
        \/ members' = [i \in DOMAIN members |->
               IF i = loc[r].row THEN [members[i] EXCEPT !.member = TRUE] ELSE members[i]]
    BY <1>3 DEF Admit
  <2>2. [members[m] EXCEPT !.member = TRUE].admin = members[m].admin
    BY <1>0
  <2>. QED BY <1>1, <2>1, <2>2 DEF AdminKept
<1>4. ASSUME NEW r \in Requests, Unseat(r) PROVE AdminKept(m) \/ Changed
  <2>1. members' = [i \in DOMAIN members |->
          IF i = loc[r].row THEN [members[i] EXCEPT !.member = FALSE, !.admin = FALSE]
          ELSE members[i]]
    BY <1>4 DEF Unseat
  <2>2. [members[m] EXCEPT !.member = FALSE, !.admin = FALSE].admin = FALSE
    BY <1>0
  <2>3. AdminKept(m) \/ (loc[r].row = m /\ m \in DOMAIN members' /\ members'[m].admin = FALSE)
    BY <2>1, <2>2 DEF AdminKept
  <2>. QED BY <1>4, <2>3
<1>5. ASSUME NEW r \in Requests, NEW b \in BOOLEAN, members' = [i \in DOMAIN members |->
             IF i = loc[r].row THEN [members[i] EXCEPT !.admin = b] ELSE members[i]]
      PROVE  AdminKept(m) \/ (loc[r].row = m /\ m \in DOMAIN members' /\ members'[m].admin = b)
  <2>1. [members[m] EXCEPT !.admin = b].admin = b
    BY <1>0
  <2>. QED BY <1>5, <2>1 DEF AdminKept
<1>6. ASSUME NEW r \in Requests, MakeAdmin(r) PROVE AdminKept(m) \/ Changed
  <2>1. AdminKept(m) \/ (loc[r].row = m /\ m \in DOMAIN members' /\ members'[m].admin = TRUE)
    BY <1>5, <1>6 DEF MakeAdmin, WriteAdmin
  <2>. QED BY <1>6, <2>1
<1>7. ASSUME NEW r \in Requests, UnmakeAdmin(r) PROVE AdminKept(m) \/ Changed
  <2>1. AdminKept(m) \/ (loc[r].row = m /\ m \in DOMAIN members' /\ members'[m].admin = FALSE)
    BY <1>5, <1>7 DEF UnmakeAdmin, WriteAdmin
  <2>. QED BY <1>7, <2>1
<1>8. ASSUME NEW r \in Requests, DropUser(r) PROVE AdminKept(m) \/ Changed
  <2>1. CASE members[m].who = loc[r].who
    BY <1>8, <2>1
  <2>2. CASE members[m].who # loc[r].who
    BY <1>8, <2>2 DEF DropUser, Without, AdminKept
  <2>. QED BY <2>1, <2>2
<1>9. ASSUME NEW u \in Users, NEW c \in Clubs, DeleteClub(u, c)
      PROVE  AdminKept(m) \/ c = members[m].club
  BY <1>9 DEF DeleteClub, Without, InClub, AdminKept
<1>10. members' = members => AdminKept(m)
  BY DEF AdminKept
<1>. HIDE DEF Changed
<1>11. Goal
  BY <1>2, <1>3, <1>4, <1>6, <1>7, <1>8, <1>9, <1>10, MembersChange
<1>. QED BY <1>11 DEF Changed

\* The president of the club that a request speaks of does not change.
LEMMA PresidentKept ==
    ASSUME ClubsOK, FoundedInv, [Next]_vars, NEW q \in Requests, pc[q] \in Changing
    PROVE  clubs'[loc[q].club].president = President(loc[q].club)
<1>1. pc[q] \in MembershipLabels
  BY DEF Changing, MembershipLabels
<1>2. loc[q].club \in Clubs /\ clubs[loc[q].club].state # "free"
  BY <1>1 DEF ClubsOK, FoundedInv
<1>. QED BY <1>2, ClubKept DEF President

\* Who presides over a club goes on presiding over it.
LEMMA PresidesOn ==
    ASSUME ClubsOK, [Next]_vars, NEW u, Presides(u)
    PROVE  \E d \in Clubs : clubs'[d].state # "free" /\ u = clubs'[d].president
BY ClubKept DEF Presides, President

LEMMA RightStep ==
    ASSUME FlightOK, OthersOK, ClubsOK, KeysOK, GuestInv, FoundedInv,
           AimInv, OverlapInv, RightInv, [Next]_vars
    PROVE  RightInv'
<1>1. ASSUME NEW q \in Requests, pc'[q] = "unmakeAdmin"
      PROVE  \E d \in Clubs : clubs'[d].state # "free" /\ loc'[q].user = clubs'[d].president
  <2>1. CASE Stays(q)
    <3>1. Presides(loc[q].user) /\ loc'[q] = loc[q]
      BY <1>1, <2>1 DEF Stays, RightInv
    <3>. QED BY <3>1, PresidesOn
  <2>2. CASE Aims(q)
    <3>1. Presides(loc'[q].user)
      BY <1>1, <2>2 DEF Aims
    <3>. QED BY <3>1, PresidesOn
  <2>3. pc'[q] \in MembershipLabels /\ pc'[q] \notin Guests /\ pc'[q] # "dummy"
    BY <1>1 DEF MembershipLabels, Guests
  <2>4. ~(MembershipStep(q) /\ pc'[q] # "idle")
    BY <1>1, StepLocals DEF Follows
  <2>. QED BY <2>1, <2>2, <2>3, <2>4, ClubActs, BegunLocals
<1>2. ASSUME NEW q \in Requests, pc'[q] \in {"unseat", "dropDummy", "dropUser"},
             loc'[q].row \in DOMAIN members', members'[loc'[q].row].admin
      PROVE  \/ loc'[q].user = clubs'[loc'[q].club].president
             \/ <<loc'[q].club, loc'[q].who>> \in disturbed'
  <2>. DEFINE l == loc[q]
  <2>1. CASE pc[q] \in {"unseat", "dropDummy", "dropUser"} /\ loc'[q] = l
    <3>1. pc[q] \in Changing /\ AimOK(l)
      BY <2>1 DEF Changing, AimInv
    <3>2. l.row \in DOMAIN members
      <4>1. ~MemberNew(l.row)
        BY <3>1 DEF AimOK, MemberNew, ClubsOK
      <4>2. MemberKept(l.row)
        BY <1>2, <2>1, <4>1, MemberGoesOn
      <4>. QED BY <4>2 DEF MemberKept
    <3>3. CASE members[l.row].admin
      <4>1. MayUnmake(l)
        BY <2>1, <3>2, <3>3 DEF RightInv
      <4>. QED BY <2>1, <3>1, <4>1, PresidentKept, DisturbedGrows DEF MayUnmake
    <3>4. CASE ~members[l.row].admin
      <4>1. l.row \in DOMAIN members'
        BY <1>2, <2>1
      <4>2. PICK r \in Requests : loc[r].row = l.row /\ MakeAdmin(r)
        <5>1. ~AdminKept(l.row)
          BY <1>2, <2>1, <3>4 DEF AdminKept
        <5>2. members'[l.row].admin # FALSE
          BY <1>2, <2>1
        <5>3. ASSUME NEW r \in Requests, DropUser(r), members[l.row].who = loc[r].who PROVE FALSE
          BY <4>1, <5>3 DEF DropUser, Without
        <5>4. ASSUME NEW u \in Users, DeleteClub(u, members[l.row].club) PROVE FALSE
          BY <4>1, <5>4 DEF DeleteClub, Without, InClub
        <5>. QED BY <3>2, <5>1, <5>2, <5>3, <5>4, AdminChange
      <4>3. pc[r] = "makeAdmin" /\ r # q /\ pc[r] \in Changing
        BY <2>1, <4>2 DEF MakeAdmin, WriteAdmin, Changing
      <4>4. loc[r].who = l.who /\ loc[r].club = l.club
        BY <3>1, <3>2, <4>2, <4>3 DEF AimInv, AimOK
      <4>5. <<l.club, l.who>> \in disturbed
        BY <3>1, <4>3, <4>4 DEF OverlapInv
      <4>. QED BY <2>1, <4>5, DisturbedGrows
    <3>. QED BY <3>3, <3>4
  <2>2. CASE ReadMember(q) /\ loc'[q] = l
    <3>1. pc[q] = "readMember" /\ pc[q] \in Changing /\ members' = members /\ ~Done(q)
      BY <1>2, <2>2, GoesTo DEF ReadMember, Changing, membershipVars, membershipTables, Done
    <3>2. clubs[members[l.row].club].president = l.user
      BY <1>2, <2>2, <3>1 DEF ReadMember
    <3>3. members[l.row].club = l.club
      BY <1>2, <2>2, <3>1 DEF AimInv, AimOK
    <3>. QED BY <2>2, <3>1, <3>2, <3>3, PresidentKept DEF President
  <2>3. CASE Stays(q)
    BY <1>2, <2>1, <2>3 DEF Stays
  <2>4. CASE DropDummy(q) /\ loc'[q] = l
    BY <2>1, <2>4 DEF DropDummy
  <2>. QED BY <1>2, <2>2, <2>3, <2>4, MembershipArrives
<1>. QED BY <1>1, <1>2 DEF RightInv, MayUnmake, Presides, President

-----------------------------------------------------------------------------
\* The right is a president's when the admin is unmade.

AdminsInv == KeysOK /\ GuestInv /\ AimInv /\ OverlapInv /\ RightInv /\ SeatInv

LEMMA AdminsInit == Init => AdminsInv
<1>. SUFFICES ASSUME Init PROVE AdminsInv
  OBVIOUS
<1>1. PICK first \in FirstMembers, home \in Clubs :
        /\ members = [m \in first |->
              [club |-> home, who |-> IF m = 1 THEN Founder ELSE Helper,
               member |-> TRUE, admin |-> TRUE]]
        /\ memberRequests = [q \in {} |-> None]
  BY DEF Init, MembershipInit
<1>2. \A q \in Requests : pc[q] = "idle"
  BY DEF Init, FlightInit
<1>3. KeysOK /\ AimInv /\ OverlapInv /\ RightInv
  BY <1>2 DEF KeysOK, AimInv, OverlapInv, RightInv, MembershipLabels, Changing
<1>4. GuestInv
  BY <1>1, <1>2 DEF GuestInv, Guests
<1>5. SeatInv
  <2>1. \A m \in DOMAIN members : members[m].who \in Users
    BY <1>1, MembershipAssumption
  <2>2. Users \cap Dummy = {}
    BY MembershipAssumption DEF Dummy
  <2>. QED BY <1>2, <2>1, <2>2 DEF SeatInv, Seating, Changing
<1>. QED BY <1>3, <1>4, <1>5 DEF AdminsInv

LEMMA AdminsStep ==
    ASSUME FlightOK, OthersOK, ClubsOK, PresidentInv, FoundedInv, AdminsInv, [Next]_vars
    PROVE  AdminsInv'
BY KeysStep, GuestStep, AimStep, OverlapStep, RightStep, SeatStep DEF AdminsInv

\* The last statement of a removal asked for by the club's president, and of a
\* demotion asked for by the president of d.
ByOwnPresident(r, c) ==
    /\ pc[r] \in {"unseat", "dropUser"} /\ pc'[r] = "idle"
    /\ loc[r].user = clubs[c].president
ByPresident(r, d) ==
    /\ pc[r] = "unmakeAdmin" /\ pc'[r] = "idle"
    /\ clubs[d].state # "free" /\ loc[r].user = clubs[d].president

\* One step takes an admin's place only by the right of a president.
LEMMA UnmakingStep ==
    ASSUME FlightOK, ClubsOK, PresidentInv, AdminsInv, [Next]_vars,
           NEW m \in DOMAIN members, members[m].admin,
           ~(m \in DOMAIN members' /\ members'[m].admin)
    PROVE  \/ clubs'[members[m].club].state = "deleted"
           \/ <<members[m].club, members[m].who>> \in disturbed
           \/ \E r \in Requests : ByOwnPresident(r, members[m].club)
           \/ \E r \in Requests, d \in Clubs : ByPresident(r, d)
<1>. DEFINE Goal == \/ clubs'[members[m].club].state = "deleted"
                    \/ <<members[m].club, members[m].who>> \in disturbed
                    \/ \E r \in Requests : ByOwnPresident(r, members[m].club)
                    \/ \E r \in Requests, d \in Clubs : ByPresident(r, d)
<1>1. ASSUME NEW r \in Requests, loc[r].row = m, Unseat(r) \/ DropUser(r) PROVE Goal
  <2>1. pc[r] \in {"unseat", "dropUser"} /\ pc'[r] = "idle"
    BY <1>1, GoesTo DEF Unseat, DropUser, Done
  <2>2. pc[r] \in Changing
    BY <2>1 DEF Changing
  <2>3. loc[r].club = members[m].club /\ loc[r].who = members[m].who
    BY <1>1, <2>2 DEF AdminsInv, AimInv, AimOK
  <2>4. MayUnmake(loc[r])
    BY <1>1, <2>1 DEF AdminsInv, RightInv, MayUnmake
  <2>. QED BY <2>1, <2>3, <2>4 DEF MayUnmake, President, ByOwnPresident
<1>u. ASSUME NEW r \in Requests, UnmakeAdmin(r) PROVE Goal
  <2>1. pc[r] = "unmakeAdmin" /\ pc'[r] = "idle"
    BY <1>u, GoesTo DEF UnmakeAdmin, WriteAdmin, Done
  <2>2. PICK d \in Clubs : clubs[d].state # "free" /\ loc[r].user = clubs[d].president
    BY <2>1 DEF AdminsInv, RightInv, Presides, President
  <2>. QED BY <2>1, <2>2 DEF ByPresident
<1>2. ASSUME NEW r \in Requests, DropUser(r), members[m].who = loc[r].who
      PROVE  loc[r].row = m
  <2>1. pc[r] = "dropUser" /\ pc[r] \in Changing /\ loc[r].who \in Dummy
    BY <1>2 DEF DropUser, Changing, PresidentInv
  <2>. QED BY <1>2, <2>1 DEF AdminsInv, SeatInv
<1>3. ASSUME NEW u \in Users, DeleteClub(u, members[m].club) PROVE Goal
  <2>. DEFINE c == members[m].club
  <2>1. /\ clubs' = [clubs EXCEPT ![c] = [clubs[c] EXCEPT !.state = "deleted"]]
        /\ c \in Clubs /\ clubs \in [Clubs -> ClubRow]
    BY <1>3 DEF DeleteClub, ClubsOK
  <2>2. [clubs[c] EXCEPT !.state = "deleted"].state = "deleted"
    BY <2>1 DEF ClubRow
  <2>. QED BY <2>1, <2>2
<1>4. ~AdminKept(m)
  BY DEF AdminKept
<1>5. ~(m \in DOMAIN members' /\ members'[m].admin = TRUE)
  OBVIOUS
<1>. HIDE DEF Goal
<1>6. Goal
  BY <1>1, <1>u, <1>2, <1>3, <1>4, <1>5, AdminChange
<1>. QED BY <1>6 DEF Goal

\* What ends somebody's being an admin of a club that goes on is a removal asked
\* for by its president, or a demotion asked for by a president, whichever club
\* is theirs: never a plain admin, unless the request overlapped another about
\* the same person (remove_member, demote_member, leave_club).
THEOREM AdminsStay == Spec => OnlyPresidentsUnmakeAdmins
<1>. DEFINE Inv == OthersOK /\ ClubsOK /\ PresidentInv /\ FoundedInv /\ AdminsInv
            Move == \A m \in DOMAIN members :
          LET c == members[m].club
          IN  members[m].admin /\ ~(m \in DOMAIN members' /\ members'[m].admin) =>
                 \/ clubs'[c].state = "deleted"
                 \/ <<c, members[m].who>> \in disturbed
                 \/ \E r \in Requests :
                       /\ pc[r] \in {"unseat", "dropUser"} /\ pc'[r] = "idle"
                       /\ loc[r].user = clubs[c].president
                 \/ \E r \in Requests, d \in Clubs :
                       /\ pc[r] = "unmakeAdmin" /\ pc'[r] = "idle"
                       /\ clubs[d].state # "free" /\ loc[r].user = clubs[d].president
<1>1. Init => Inv
  BY OthersInit, ClubsInit, AdminsInit
<1>2. (FlightOK /\ TablesOK) /\ Inv /\ [Next]_vars => Inv'
  <2>. SUFFICES ASSUME FlightOK, TablesOK, Inv, [Next]_vars PROVE Inv'
    OBVIOUS
  <2>. QED BY OthersStep, ClubsStep, PresidentStep, FoundedStep, AdminsStep
<1>3. FlightOK /\ Inv /\ [Next]_vars => [Move]_membershipVars
  <2>. SUFFICES ASSUME FlightOK, Inv, [Next]_vars PROVE Move
    OBVIOUS
  <2>. QED BY UnmakingStep DEF ByOwnPresident, ByPresident
<1>. QED BY <1>1, <1>2, <1>3, TypesHold, PTL DEF Spec, OnlyPresidentsUnmakeAdmins

-----------------------------------------------------------------------------
\* One row each: what holds of a membership that is not disturbed.

Named == MembershipLabels \ {"dummy"}

\* A membership is of a user or of a placeholder that was numbered.
Known(w) == w \in Users \/ (w \in Nat /\ w <= row.dummy)

KnownInv ==
    /\ \A m \in DOMAIN members : Known(members[m].who)
    /\ \A q \in Requests : pc[q] \in Named => Known(loc[q].who)

\* The ids of requests to join are not reused.
ClaimedInv == \A i \in DOMAIN memberRequests : i \in Nat /\ i <= row.request

\* The row that an acceptance found is still that person's.
FoundRowInv ==
    \A q \in Requests :
        /\ pc[q] = "findMember" => loc[q].row = None
        /\ pc[q] = "admit" /\ loc[q].row # None => AimOK(loc[q])

About(q, c, p) == pc[q] \in Named /\ loc[q].club = c /\ loc[q].who = p

Clash(c, p) == IsMember(c, p) /\ ~(RequestsOf(c, p) \subseteq invited)

\* What the statements that are left of a request rely on.
CallOK(q, c, p) ==
    /\ \/ pc[q] \in {"found", "seatInvited", "placeholder", "seatDummy"}
       \/ pc[q] = "admit" /\ loc[q].row = None
       => MembersOf(c, p) = {}
    /\ pc[q] \in {"apply", "seatInvited"} => ~IsMember(c, p)
    /\ pc[q] \in {"found", "placeholder", "seatDummy", "bot"} => RequestsOf(c, p) = {}
    /\ pc[q] \in {"findMember", "admit", "clearRequest"} =>
          RequestsOf(c, p) \subseteq {loc[q].request}
    /\ pc[q] \in Changing \cup {"invite", "findInvited"} => ~Clash(c, p)

PairOK(c, p) ==
    /\ \A m, n \in MembersOf(c, p) : m = n
    /\ \A i, j \in RequestsOf(c, p) : i = j
    /\ \A q, r \in Requests : About(q, c, p) /\ About(r, c, p) => q = r
    /\ \A q \in Requests : About(q, c, p) => CallOK(q, c, p)
    /\ Clash(c, p) => \E q \in Requests : About(q, c, p)

PairsInv == \A c \in Clubs, p \in People : <<c, p>> \in disturbed \/ PairOK(c, p)

-----------------------------------------------------------------------------
\* How a request about a membership begins, in full.

Asked(q, c, w) ==
    /\ disturbed' = disturbed \cup ({<<c, w>>} \cap InHand(q))
    /\ loc'[q].club = c /\ loc'[q].who = w
    /\ \/ pc'[q] = "apply" /\ MayBeOutside(c, w) /\ Live(c)
       \/ pc'[q] = "invite"
       \/ /\ pc'[q] \in {"findMember", "clearRequest"}
          /\ loc'[q].row = None /\ loc'[q].request \in RequestsOf(c, w)

LEMMA BegunInFull ==
    ASSUME FlightOK, GuestInv, NEW q \in Requests, BeginMembershipCall(q)
    PROVE  /\ members' = members /\ memberRequests' = memberRequests /\ invited' = invited
           /\ \/ /\ pc'[q] = "found"
                 /\ \E u \in Users, c \in Clubs :
                       CreateClub(q, u, c) /\ loc'[q].club = c /\ loc'[q].who = u
              \/ pc'[q] = "dummy" /\ \E u \in Users, c \in Clubs : CreateDummy(q, u, c)
              \/ \E w \in Users : Asked(q, loc'[q].club, w)
              \/ \E i \in DOMAIN memberRequests :
                    Asked(q, memberRequests[i].club, memberRequests[i].who)
              \/ Aims(q)
<1>. DEFINE Ways == \/ /\ pc'[q] = "found"
                       /\ \E u \in Users, c \in Clubs :
                             CreateClub(q, u, c) /\ loc'[q].club = c /\ loc'[q].who = u
                    \/ pc'[q] = "dummy" /\ \E u \in Users, c \in Clubs : CreateDummy(q, u, c)
                    \/ \E w \in Users : Asked(q, loc'[q].club, w)
                    \/ \E i \in DOMAIN memberRequests :
                          Asked(q, memberRequests[i].club, memberRequests[i].who)
                    \/ Aims(q)
            Tables == members' = members /\ memberRequests' = memberRequests
<1>0. ASSUME NEW label, NEW x, Start(q, label, x) PROVE pc'[q] = label /\ loc'[q] = x
  BY <1>0, GoesTo DEF Start
<1>b. ASSUME NEW label, NEW x, BeginFor(q, label, x)
      PROVE  /\ pc'[q] = label /\ loc'[q] = x /\ Tables
             /\ disturbed' = disturbed \cup ({<<x.club, x.who>>} \cap InHand(q))
  BY <1>0, <1>b DEF BeginFor, membershipTables
<1>1. ASSUME NEW u \in Users, NEW c \in Clubs, CreateClub(q, u, c) PROVE Tables /\ Ways
  <2>. DEFINE x == [MembershipLocals EXCEPT !.user = u, !.club = c, !.who = u]
  <2>1. Start(q, "found", x) /\ Tables
    BY <1>1 DEF CreateClub
  <2>2. x.club = c /\ x.who = u
    BY DEF MembershipLocals
  <2>. HIDE DEF x
  <2>3. pc'[q] = "found" /\ loc'[q].club = c /\ loc'[q].who = u
    BY <1>0, <2>1, <2>2
  <2>. QED BY <1>1, <2>1, <2>3
<1>2. ASSUME NEW u \in Users, NEW c \in Clubs, RequestToJoin(q, u, c) PROVE Tables /\ Ways
  <2>. DEFINE x == [MembershipLocals EXCEPT !.user = u, !.club = c, !.who = u]
  <2>1. BeginFor(q, "apply", x) /\ MayBeOutside(c, u) /\ Live(c)
    BY <1>2 DEF RequestToJoin
  <2>2. x.club = c /\ x.who = u
    BY DEF MembershipLocals
  <2>. HIDE DEF x
  <2>3. Asked(q, c, u) /\ Tables /\ loc'[q].club = c
    BY <1>b, <2>1, <2>2 DEF Asked
  <2>. QED BY <2>3
<1>3. ASSUME NEW u \in Users, NEW c \in Clubs, CreateDummy(q, u, c) PROVE Tables /\ Ways
  BY <1>0, <1>3 DEF CreateDummy, membershipVars, membershipTables
<1>4. ASSUME NEW u \in Users, NEW c \in Clubs, NEW who \in Users, Invite(q, u, c, who)
      PROVE  Tables /\ Ways
  <2>. DEFINE x == [MembershipLocals EXCEPT !.user = u, !.club = c, !.who = who]
  <2>1. BeginFor(q, "invite", x)
    BY <1>4 DEF Invite
  <2>2. x.club = c /\ x.who = who
    BY DEF MembershipLocals
  <2>. HIDE DEF x
  <2>3. Asked(q, c, who) /\ Tables /\ loc'[q].club = c
    BY <1>b, <2>1, <2>2 DEF Asked
  <2>. QED BY <2>3
<1>5. ASSUME NEW u \in Users, NEW i \in DOMAIN memberRequests,
             AcceptRequest(q, u, i) \/ RejectRequest(q, u, i)
      PROVE  Tables /\ Ways
  <2>. DEFINE c == memberRequests[i].club
              w == memberRequests[i].who
              x == [MembershipLocals EXCEPT !.user = u, !.club = c, !.who = w, !.request = i]
  <2>1. BeginFor(q, "findMember", x) \/ BeginFor(q, "clearRequest", x)
    BY <1>5 DEF AcceptRequest, RejectRequest, BeginAnswer
  <2>2. x.club = c /\ x.who = w /\ x.row = None /\ x.request = i
    BY DEF MembershipLocals
  <2>3. i \in RequestsOf(c, w)
    BY DEF RequestsOf
  <2>. HIDE DEF x, c, w
  <2>4. Asked(q, c, w) /\ Tables
    BY <1>b, <2>1, <2>2, <2>3 DEF Asked
  <2>. QED BY <2>4 DEF c, w
<1>6. ASSUME NEW u \in Users, NEW m \in DOMAIN members,
             \/ DeleteMember(q, u, m) \/ LeaveClub(q, u, m)
             \/ PromoteMember(q, u, m) \/ DemoteMember(q, u, m)
      PROVE  Tables /\ Ways
  <2>1. PICK label \in {"readMember", "makeAdmin", "unmakeAdmin"} :
          BeginMemberCall(q, u, m, label)
    BY <1>6 DEF DeleteMember, LeaveClub, PromoteMember, DemoteMember
  <2>2. pc'[q] = label /\ Tables
    BY <1>b, <2>1 DEF BeginMemberCall
  <2>3. Aims(q)
    BY <2>1, <2>2, BegunLocals DEF Guests
  <2>. QED BY <2>2, <2>3
<1>. HIDE DEF Ways, Tables
<1>7. Tables /\ Ways
  BY <1>1, <1>2, <1>3, <1>4, <1>5, <1>6 DEF BeginMembershipCall
<1>. QED BY <1>7, BeginTables DEF Ways, Tables

\* Each label has its statement.
LEMMA OneStatement ==
    ASSUME NEW q \in Requests, MembershipStep(q)
    PROVE  /\ pc[q] = "found" => FoundMember(q)
           /\ pc[q] = "apply" => Apply(q)
           /\ pc[q] = "findMember" => FindMember(q)
           /\ pc[q] = "admit" => Admit(q)
           /\ pc[q] = "clearRequest" => ClearRequest(q)
           /\ pc[q] = "seatDummy" => SeatDummy(q)
           /\ pc[q] = "seatInvited" => SeatInvited(q)
           /\ pc[q] = "invite" => RecordInvitation(q)
           /\ pc[q] = "findInvited" => FindInvited(q)
           /\ pc[q] = "dummy" => InsertDummy(q)
           /\ pc[q] = "placeholder" => InsertPlaceholder(q)
           /\ pc[q] = "bot" => AddBot(q)
           /\ pc[q] \in Changing =>
                 \/ ReadMember(q) \/ Unseat(q) \/ DropDummy(q) \/ DropUser(q)
                 \/ MakeAdmin(q) \/ UnmakeAdmin(q)
BY DEF MembershipStep, FoundMember, Apply, FindMember, Admit, ClearRequest, ReadMember, Unseat,
   DropDummy, DropUser, InsertDummy, InsertPlaceholder, SeatDummy, AddBot, MakeAdmin, UnmakeAdmin,
   WriteAdmin, RecordInvitation, FindInvited, SeatInvited, Changing

\* A new row of members is of the request that inserts it.
LEMMA NewRow ==
    ASSUME FlightOK, ClubsOK, [Next]_vars, NEW m \in DOMAIN members', m \notin DOMAIN members
    PROVE  \E r \in Requests :
              /\ FoundMember(r) \/ Admit(r) \/ SeatDummy(r) \/ SeatInvited(r)
              /\ members'[m].club = loc[r].club /\ members'[m].who = loc[r].who
<1>. DEFINE Goal == \E r \in Requests :
              /\ FoundMember(r) \/ Admit(r) \/ SeatDummy(r) \/ SeatInvited(r)
              /\ members'[m].club = loc[r].club /\ members'[m].who = loc[r].who
<1>1. ASSUME NEW r \in Requests, FoundMember(r) \/ Admit(r) \/ SeatDummy(r) \/ SeatInvited(r)
      PROVE  Goal
  <2>1. ASSUME NEW x, Insert(x), x.club = loc[r].club, x.who = loc[r].who PROVE Goal
    <3>1. members' = With(members, row.member + 1, x)
      BY <2>1 DEF Insert
    <3>2. members'[m] = x
      BY <3>1 DEF With
    <3>. QED BY <1>1, <2>1, <3>2
  <2>2. PICK a, b : \/ Insert([club |-> loc[r].club, who |-> loc[r].who, member |-> a, admin |-> b])
                    \/ DOMAIN members' = DOMAIN members
    BY <1>1 DEF FoundMember, Admit, SeatDummy, SeatInvited
  <2>. DEFINE x == [club |-> loc[r].club, who |-> loc[r].who, member |-> a, admin |-> b]
  <2>3. x.club = loc[r].club /\ x.who = loc[r].who
    OBVIOUS
  <2>. HIDE DEF x, Goal
  <2>4. Insert(x)
    BY <2>2 DEF x
  <2>. QED BY <2>1, <2>3, <2>4
<1>2. ASSUME NEW r \in Requests, Unseat(r) \/ DropUser(r) \/ MakeAdmin(r) \/ UnmakeAdmin(r)
      PROVE  FALSE
  BY <1>2 DEF Unseat, DropUser, MakeAdmin, UnmakeAdmin, WriteAdmin, Without
<1>3. ASSUME NEW u \in Users, NEW c \in Clubs, DeleteClub(u, c) PROVE FALSE
  BY <1>3 DEF DeleteClub, Without
<1>. HIDE DEF Goal
<1>4. Goal
  BY <1>1, <1>2, <1>3, MembersChange
<1>. QED BY <1>4 DEF Goal

LEMMA KnownStep ==
    ASSUME FlightOK, OthersOK, ClubsOK, KeysOK, GuestInv, KnownInv, [Next]_vars
    PROVE  KnownInv'
<1>0. row.dummy \in Nat /\ row'.dummy \in Nat /\ row'.dummy >= row.dummy
  BY DummyIds
<1>1. ASSUME NEW w, Known(w) PROVE w \in Users \/ (w \in Nat /\ w <= row'.dummy)
  BY <1>0, <1>1 DEF Known
<1>2. ASSUME NEW m \in DOMAIN members'
      PROVE  members'[m].who \in Users \/ (members'[m].who \in Nat /\ members'[m].who <= row'.dummy)
  <2>1. CASE m \in DOMAIN members
    <3>1. MemberKept(m)
      BY <2>1, MemberGoesOn DEF MemberNew, ClubsOK
    <3>2. Known(members[m].who) /\ members'[m].who = members[m].who
      BY <2>1, <3>1 DEF MemberKept, KnownInv
    <3>. QED BY <1>1, <3>2
  <2>2. CASE m \notin DOMAIN members
    <3>1. PICK r \in Requests :
              /\ FoundMember(r) \/ Admit(r) \/ SeatDummy(r) \/ SeatInvited(r)
              /\ members'[m].who = loc[r].who
      BY <2>2, NewRow
    <3>2. pc[r] \in Named
      BY <3>1 DEF FoundMember, Admit, SeatDummy, SeatInvited, Named, MembershipLabels
    <3>3. Known(loc[r].who)
      BY <3>2 DEF KnownInv
    <3>. QED BY <1>1, <3>1, <3>3
  <2>. QED BY <2>1, <2>2
<1>3. ASSUME NEW q \in Requests, pc'[q] \in Named
      PROVE  loc'[q].who \in Users \/ (loc'[q].who \in Nat /\ loc'[q].who <= row'.dummy)
  <2>1. CASE pc[q] \in Named /\ loc'[q].who = loc[q].who
    BY <1>1, <2>1 DEF KnownInv
  <2>2. CASE BeginMembershipCall(q)
    <3>1. loc'[q].who \in Users \/ Aims(q)
      BY <1>3, <2>2, BegunLocals DEF Named
    <3>2. Aims(q) => Known(loc'[q].who)
      BY DEF Aims, KnownInv
    <3>. QED BY <1>1, <3>1, <3>2
  <2>3. CASE InsertDummy(q) /\ loc'[q].who = row.dummy + 1
    <3>1. row'.dummy = row.dummy + 1
      BY <1>3, <2>3, DummyIds DEF Named, MembershipLabels
    <3>. QED BY <1>0, <2>3, <3>1
  <2>4. CASE MembershipStep(q) /\ pc'[q] # "idle"
    BY <2>1, <2>3, <2>4, StepLocals DEF FindMember, Named, MembershipLabels, Follows
  <2>5. pc'[q] \in MembershipLabels
    BY <1>3 DEF Named
  <2>. QED BY <1>3, <2>1, <2>2, <2>4, <2>5, ClubActs DEF Stays
<1>. QED BY <1>1, <1>2, <1>3 DEF KnownInv, Known

LEMMA RequestIds ==
    ASSUME ClubsOK, [Next]_vars
    PROVE  row.request \in Nat /\ row'.request \in Nat /\ row'.request >= row.request
<1>0. row \in [member : Nat, request : Nat, dummy : Nat]
  BY DEF ClubsOK
<1>1. /\ \A n \in Nat : /\ [row EXCEPT !.member = n].request = row.request
                         /\ [row EXCEPT !.request = n].request = n
                         /\ [row EXCEPT !.dummy = n].request = row.request
      /\ row.member + 1 \in Nat /\ row.request + 1 \in Nat /\ row.dummy + 1 \in Nat
      /\ row.request \in Nat
  BY <1>0
<1>2. ASSUME NEW r \in Requests, FoundMember(r) \/ Admit(r) \/ SeatDummy(r) \/ SeatInvited(r)
      PROVE  row' = row \/ row' = [row EXCEPT !.member = row.member + 1]
  BY <1>2 DEF FoundMember, Admit, SeatDummy, SeatInvited, Insert
<1>3. ASSUME NEW r \in Requests, Apply(r) \/ RecordInvitation(r) \/ InsertDummy(r)
      PROVE  \/ row' = row \/ row' = [row EXCEPT !.request = row.request + 1]
             \/ row' = [row EXCEPT !.dummy = row.dummy + 1]
  BY <1>3 DEF Apply, RecordInvitation, Record, InsertDummy
<1>4. row'.request = row.request \/ row'.request = row.request + 1
  BY <1>1, <1>2, <1>3, RowChange
<1>. QED BY <1>1, <1>4

\* A request to join was there, or is the one being recorded.
RequestNew(i) ==
    /\ i = row.request + 1 /\ row'.request = i /\ clubs' = clubs
    /\ \E r \in Requests :
          /\ Apply(r) \/ RecordInvitation(r)
          /\ Live(loc[r].club) /\ RequestsOf(loc[r].club, loc[r].who) = {}
          /\ memberRequests'[i].club = loc[r].club /\ memberRequests'[i].who = loc[r].who

LEMMA RequestGoesOn ==
    ASSUME ClubsOK, [Next]_vars, NEW i \in DOMAIN memberRequests'
    PROVE  \/ i \in DOMAIN memberRequests /\ memberRequests'[i] = memberRequests[i]
           \/ RequestNew(i)
<1>. DEFINE Old == i \in DOMAIN memberRequests /\ memberRequests'[i] = memberRequests[i]
<1>1. ASSUME NEW ids, memberRequests' = Without(memberRequests, ids) PROVE Old
  BY <1>1 DEF Without
<1>2. ASSUME NEW r \in Requests, Apply(r) \/ RecordInvitation(r) PROVE Old \/ RequestNew(i)
  <2>. DEFINE x == [club |-> loc[r].club, who |-> loc[r].who]
  <2>0. clubs' = clubs /\ Record(loc[r].club, loc[r].who)
    BY <1>2 DEF Apply, RecordInvitation
  <2>1. \/ memberRequests' = memberRequests
        \/ /\ memberRequests' = With(memberRequests, row.request + 1, x)
           /\ row' = [row EXCEPT !.request = row.request + 1]
           /\ Live(loc[r].club) /\ RequestsOf(loc[r].club, loc[r].who) = {}
    BY <2>0 DEF Record
  <2>2. x.club = loc[r].club /\ x.who = loc[r].who
    OBVIOUS
  <2>3. [row EXCEPT !.request = row.request + 1].request = row.request + 1
    BY DEF ClubsOK
  <2>. HIDE DEF x
  <2>. QED BY <1>2, <2>0, <2>1, <2>2, <2>3 DEF With, RequestNew
<1>. QED BY <1>1, <1>2, RequestsChange

LEMMA ClaimedStep ==
    ASSUME ClubsOK, ClaimedInv, [Next]_vars
    PROVE  ClaimedInv'
<1>. SUFFICES ASSUME NEW i \in DOMAIN memberRequests' PROVE i \in Nat /\ i <= row'.request
  BY DEF ClaimedInv
<1>0. row.request \in Nat /\ row'.request \in Nat /\ row'.request >= row.request
  BY RequestIds
<1>1. CASE i \in DOMAIN memberRequests
  <2>1. i \in Nat /\ i <= row.request
    BY <1>1 DEF ClaimedInv
  <2>. QED BY <1>0, <2>1
<1>2. CASE RequestNew(i)
  BY <1>0, <1>2 DEF RequestNew
<1>. QED BY <1>1, <1>2, RequestGoesOn

\* An invitation that was not needed is remembered.
LEMMA InvitedGrows ==
    ASSUME [Next]_vars
    PROVE  invited \subseteq invited'
<1>1. ASSUME NEW r \in Requests, MembershipStep(r) PROVE invited \subseteq invited'
  BY <1>1 DEF MembershipStep, FoundMember, Apply, FindMember, Admit, ClearRequest, ReadMember,
     Unseat, DropDummy, DropUser, InsertDummy, InsertPlaceholder, SeatDummy, AddBot, MakeAdmin,
     UnmakeAdmin, WriteAdmin, RecordInvitation, FindInvited, SeatInvited, membershipVars,
     membershipHistory
<1>2. ASSUME NEW r \in Requests, StopMembershipCall(r) \/ Erase(r) PROVE invited' = invited
  BY <1>2 DEF StopMembershipCall, Erase, ForgetRequests, membershipHistory
<1>3. MembershipAtOnce => invited' = invited
  BY DEF MembershipAtOnce, DeleteClub, CancelRequest, membershipHistory
<1>4. UNCHANGED membershipVars => invited' = invited
  BY DEF membershipVars, membershipHistory
<1>. QED BY <1>1, <1>2, <1>3, <1>4, BeginTables, MembershipNext

LEMMA AimKept ==
    ASSUME FlightOK, ClubsOK, [Next]_vars, NEW l, AimOK(l)
    PROVE  AimOK(l)'
<1>0. row.member \in Nat /\ row'.member \in Nat /\ row'.member >= row.member
  BY IdsGrow
<1>1. ~MemberNew(l.row)
  BY <1>0 DEF AimOK, MemberNew
<1>2. l.row \in DOMAIN members' => MemberKept(l.row)
  BY <1>1, MemberGoesOn
<1>. QED BY <1>0, <1>2 DEF AimOK, MemberKept

LEMMA FoundRowStep ==
    ASSUME FlightOK, OthersOK, ClubsOK, KeysOK, GuestInv, FoundRowInv, [Next]_vars
    PROVE  FoundRowInv'
<1>1. ASSUME NEW q \in Requests, pc'[q] = "findMember" PROVE loc'[q].row = None
  <2>1. CASE Stays(q)
    BY <1>1, <2>1 DEF Stays, FoundRowInv
  <2>2. CASE BeginMembershipCall(q)
    BY <1>1, <2>2, BegunInFull DEF Aims, Asked
  <2>3. ~(MembershipStep(q) /\ pc'[q] # "idle")
    BY <1>1, StepLocals DEF Follows
  <2>. QED BY <1>1, <2>1, <2>2, <2>3, ClubActs DEF MembershipLabels
<1>2. ASSUME NEW q \in Requests, pc'[q] = "admit", loc'[q].row # None PROVE AimOK(loc[q])'
  <2>1. CASE Stays(q)
    <3>1. AimOK(loc[q]) /\ loc'[q] = loc[q]
      BY <1>2, <2>1 DEF Stays, FoundRowInv
    <3>2. \A l : AimOK(l) => AimOK(l)'
      BY AimKept
    <3>. QED BY <3>1, <3>2 DEF AimOK
  <2>2. ~BeginMembershipCall(q)
    BY <1>2, BegunInFull DEF Aims, Asked
  <2>3. CASE MembershipStep(q) /\ pc'[q] # "idle"
    <3>1. FindMember(q)
      <4>1. FindMember(q) \/ pc[q] = "findMember"
        BY <1>2, <2>3, StepLocals DEF Follows
      <4>. QED BY <2>3, <4>1, OneStatement
    <3>2. {"user", "club", "who", "row", "request"} \subseteq DOMAIN loc[q] /\ loc[q].row = None
      BY <3>1 DEF FindMember, KeysOK, MembershipLabels, FoundRowInv
    <3>3. members' = members /\ row' = row
      BY <3>1 DEF FindMember, membershipVars, membershipTables
    <3>4. PICK m \in MembersOf(loc[q].club, loc[q].who) :
            Goto(q, "admit", [loc[q] EXCEPT !.row = m])
      <4>1. ~Proceed(q, "admit")
        BY <1>2, <3>2, GoesTo DEF Proceed
      <4>. QED BY <3>1, <4>1 DEF FindMember
    <3>. DEFINE x == [loc[q] EXCEPT !.row = m]
    <3>5. loc'[q] = x
      BY <3>4, GoesTo
    <3>6. x.row = m /\ x.club = loc[q].club /\ x.who = loc[q].who
      BY <3>2
    <3>. HIDE DEF x
    <3>. QED BY <3>3, <3>4, <3>5, <3>6 DEF AimOK, MembersOf, ClubsOK
  <2>. QED BY <1>2, <2>1, <2>2, <2>3, ClubActs DEF MembershipLabels
<1>. QED BY <1>1, <1>2 DEF FoundRowInv

-----------------------------------------------------------------------------
\* What a step does to one membership.

\* Only an admission makes a member of somebody who has a row.
LEMMA MemberGain ==
    ASSUME ClubsOK, [Next]_vars, NEW m \in DOMAIN members, m \in DOMAIN members',
           members'[m].member
    PROVE  members[m].member \/ \E r \in Requests : Admit(r) /\ loc[r].row = m
<1>. DEFINE Goal == members[m].member \/ \E r \in Requests : Admit(r) /\ loc[r].row = m
<1>0. m # row.member + 1 /\ {"club", "who", "member", "admin"} \subseteq DOMAIN members[m]
  BY DEF ClubsOK
<1>1. ASSUME NEW x, Insert(x) PROVE members[m].member
  BY <1>0, <1>1 DEF Insert, With
<1>2. ASSUME NEW r \in Requests, FoundMember(r) \/ SeatDummy(r) \/ SeatInvited(r)
      PROVE  Goal
  <2>1. members' = members \/ \E x : Insert(x)
    BY <1>2 DEF FoundMember, SeatDummy, SeatInvited
  <2>. QED BY <1>1, <2>1
<1>3. ASSUME NEW r \in Requests, Admit(r) PROVE Goal
  <2>1. \/ \E x : Insert(x)
        \/ members' = [i \in DOMAIN members |->
               IF i = loc[r].row THEN [members[i] EXCEPT !.member = TRUE] ELSE members[i]]
    BY <1>3 DEF Admit
  <2>. QED BY <1>1, <1>3, <2>1
<1>4. ASSUME NEW r \in Requests, Unseat(r) PROVE Goal
  <2>1. members' = [i \in DOMAIN members |->
          IF i = loc[r].row THEN [members[i] EXCEPT !.member = FALSE, !.admin = FALSE]
          ELSE members[i]]
    BY <1>4 DEF Unseat
  <2>2. [members[m] EXCEPT !.member = FALSE, !.admin = FALSE].member = FALSE
    BY <1>0
  <2>. QED BY <2>1, <2>2
<1>5. ASSUME NEW r \in Requests, NEW b, members' = [i \in DOMAIN members |->
             IF i = loc[r].row THEN [members[i] EXCEPT !.admin = b] ELSE members[i]]
      PROVE  Goal
  <2>1. [members[m] EXCEPT !.admin = b].member = members[m].member
    BY <1>0
  <2>. QED BY <1>5, <2>1
<1>6. ASSUME NEW r \in Requests, MakeAdmin(r) \/ UnmakeAdmin(r) PROVE Goal
  BY <1>5, <1>6 DEF MakeAdmin, UnmakeAdmin, WriteAdmin
<1>7. ASSUME NEW ids, members' = Without(members, ids) PROVE members[m].member
  BY <1>7 DEF Without
<1>8. ASSUME NEW r \in Requests, DropUser(r) PROVE Goal
  BY <1>7, <1>8 DEF DropUser
<1>9. ASSUME NEW u \in Users, NEW c \in Clubs, DeleteClub(u, c) PROVE Goal
  BY <1>7, <1>9 DEF DeleteClub
<1>. HIDE DEF Goal
<1>10. Goal
  BY <1>2, <1>3, <1>4, <1>6, <1>8, <1>9, MembersChange DEF Goal
<1>. QED BY <1>10 DEF Goal

\* The statements that give a person a row, a membership or a request to join.
Adds(r) == FoundMember(r) \/ Apply(r) \/ Admit(r) \/ SeatDummy(r) \/ RecordInvitation(r)
           \/ SeatInvited(r)

\* A person has no more of a club than before.
RowsShrink(c, p) ==
    \A m \in DOMAIN members' : members'[m].club = c /\ members'[m].who = p =>
        m \in MembersOf(c, p) /\ (members'[m].member => members[m].member)
RequestsShrink(c, p) ==
    \A i \in DOMAIN memberRequests' :
        memberRequests'[i].club = c /\ memberRequests'[i].who = p => i \in RequestsOf(c, p)
Shrink(c, p) == RowsShrink(c, p) /\ RequestsShrink(c, p)

LEMMA Shrinks ==
    ASSUME FlightOK, ClubsOK, FoundRowInv, [Next]_vars, NEW c, NEW p,
           \A r \in Requests : Adds(r) => ~About(r, c, p)
    PROVE  Shrink(c, p)
<1>1. ASSUME NEW m \in DOMAIN members', members'[m].club = c, members'[m].who = p
      PROVE  m \in MembersOf(c, p) /\ (members'[m].member => members[m].member)
  <2>1. m \in DOMAIN members
    <3>. SUFFICES ASSUME m \notin DOMAIN members PROVE FALSE
      OBVIOUS
    <3>1. PICK r \in Requests :
              /\ FoundMember(r) \/ Admit(r) \/ SeatDummy(r) \/ SeatInvited(r)
              /\ loc[r].club = c /\ loc[r].who = p
      BY <1>1, NewRow
    <3>2. pc[r] \in Named
      BY <3>1 DEF FoundMember, Admit, SeatDummy, SeatInvited, Named, MembershipLabels
    <3>. QED BY <3>1, <3>2 DEF Adds, About
  <2>2. m \in Nat /\ m # row.member + 1
    BY <2>1 DEF ClubsOK
  <2>3. members[m].club = c /\ members[m].who = p
    BY <1>1, <2>1, <2>2, MemberGoesOn DEF MemberKept, MemberNew
  <2>4. ASSUME NEW r \in Requests, Admit(r), loc[r].row = m PROVE FALSE
    <3>1. pc[r] = "admit" /\ loc[r].row # None
      BY <2>2, <2>4, AccountsAssumption DEF Admit
    <3>2. loc[r].club = c /\ loc[r].who = p
      BY <2>1, <2>3, <2>4, <3>1 DEF FoundRowInv, AimOK
    <3>. QED BY <2>4, <3>1, <3>2 DEF Adds, About, Named, MembershipLabels
  <2>. QED BY <1>1, <2>1, <2>3, <2>4, MemberGain DEF MembersOf
<1>2. ASSUME NEW i \in DOMAIN memberRequests', memberRequests'[i].club = c,
             memberRequests'[i].who = p
      PROVE  i \in RequestsOf(c, p)
  <2>1. ASSUME RequestNew(i) PROVE FALSE
    <3>1. PICK r \in Requests : /\ Apply(r) \/ RecordInvitation(r)
                                /\ loc[r].club = c /\ loc[r].who = p
      BY <1>2, <2>1 DEF RequestNew
    <3>. QED BY <3>1 DEF Adds, About, Apply, RecordInvitation, Named, MembershipLabels
  <2>. QED BY <1>2, <2>1, RequestGoesOn DEF RequestsOf
<1>. QED BY <1>1, <1>2 DEF Shrink, RowsShrink, RequestsShrink

\* What shrinks stays in order.
LEMMA ShrunkStaysOK ==
    ASSUME NEW c, NEW p, Shrink(c, p), invited \subseteq invited'
    PROVE  /\ MembersOf(c, p)' \subseteq MembersOf(c, p)
           /\ RequestsOf(c, p)' \subseteq RequestsOf(c, p)
           /\ IsMember(c, p)' => IsMember(c, p)
           /\ Clash(c, p)' => Clash(c, p)
<1>1. MembersOf(c, p)' \subseteq MembersOf(c, p)
  BY DEF Shrink, RowsShrink, MembersOf
<1>2. RequestsOf(c, p)' \subseteq RequestsOf(c, p)
  BY DEF Shrink, RequestsShrink, RequestsOf
<1>3. IsMember(c, p)' => IsMember(c, p)
  BY DEF Shrink, RowsShrink, MembersOf, IsMember
<1>. QED BY <1>1, <1>2, <1>3 DEF Clash

\* A request that begins about an undisturbed membership is alone with it.
LEMMA BegunAlone ==
    ASSUME FlightOK, GuestInv, FoundedInv, NEW c, NEW p, NEW q \in Requests,
           BeginMembershipCall(q), pc'[q] \in Named, loc'[q].club = c, loc'[q].who = p,
           <<c, p>> \notin disturbed', NEW r \in Requests \ {q}
    PROVE  ~About(r, c, p)
<1>. SUFFICES ASSUME About(r, c, p) PROVE FALSE
  OBVIOUS
<1>1. <<c, p>> \in InHand(q) /\ pc[r] \in MembershipLabels /\ loc[r].club = c
  BY DEF About, Named, InHand
<1>2. ASSUME NEW d, NEW w, Asked(q, d, w) PROVE FALSE
  BY <1>1, <1>2 DEF Asked
<1>3. ~Aims(q)
  BY <1>1 DEF Aims
<1>4. ASSUME NEW u \in Users, NEW d \in Clubs, CreateClub(q, u, d), loc'[q].club = d PROVE FALSE
  BY <1>1, <1>4 DEF CreateClub, FoundedInv
<1>. QED BY <1>2, <1>3, <1>4, BegunInFull DEF Named

LEMMA SamePair ==
    ASSUME NEW c, NEW p, members' = members, memberRequests' = memberRequests, invited' = invited
    PROVE  /\ MembersOf(c, p)' = MembersOf(c, p) /\ RequestsOf(c, p)' = RequestsOf(c, p)
           /\ IsMember(c, p)' <=> IsMember(c, p)
           /\ Clash(c, p)' <=> Clash(c, p)
BY DEF MembersOf, RequestsOf, IsMember, Clash

LEMMA BegunOK ==
    ASSUME FlightOK, PresidentInv, GuestInv, FoundedInv, NEW c, NEW p, NEW q \in Requests,
           BeginMembershipCall(q), pc'[q] \in Named, loc'[q].club = c, loc'[q].who = p,
           <<c, p>> \notin disturbed', PairOK(c, p)
    PROVE  CallOK(q, c, p)'
<1>1. ~Clash(c, p)
  <2>1. ~About(q, c, p)
    BY BeginsIdle DEF About, Named, MembershipLabels
  <2>. QED BY <2>1, BegunAlone DEF PairOK
<1>2. /\ MembersOf(c, p)' = MembersOf(c, p) /\ RequestsOf(c, p)' = RequestsOf(c, p)
      /\ IsMember(c, p)' <=> IsMember(c, p)
      /\ Clash(c, p)' <=> Clash(c, p)
  BY BegunInFull, SamePair
<1>3. ASSUME NEW u \in Users, NEW d \in Clubs, CreateClub(q, u, d), loc'[q].club = d,
             pc'[q] = "found"
      PROVE  CallOK(q, c, p)'
  <2>1. clubs[c].state = "free"
    BY <1>3 DEF CreateClub
  <2>2. MembersOf(c, p) = {} /\ RequestsOf(c, p) = {}
    BY <2>1 DEF MembersOf, RequestsOf, PresidentInv, FoundedInv
  <2>. QED BY <1>2, <1>3, <2>2 DEF CallOK, Changing
<1>4. ASSUME NEW d, NEW w, Asked(q, d, w) PROVE CallOK(q, c, p)'
  <2>1. d = c /\ w = p
    BY <1>4 DEF Asked
  <2>2. CASE pc'[q] = "apply" /\ MayBeOutside(c, p)
    <3>1. ~IsMember(c, p)
      BY <2>2 DEF MayBeOutside, IsMember, PairOK
    <3>. QED BY <1>2, <2>2, <3>1 DEF CallOK, Changing
  <2>3. CASE pc'[q] = "invite"
    BY <1>1, <1>2, <2>3 DEF CallOK, Changing
  <2>4. CASE pc'[q] \in {"findMember", "clearRequest"} /\ loc'[q].request \in RequestsOf(c, p)
    <3>1. RequestsOf(c, p) \subseteq {loc'[q].request}
      BY <2>4 DEF PairOK
    <3>. QED BY <1>2, <2>4, <3>1 DEF CallOK, Changing
  <2>. QED BY <1>4, <2>1, <2>2, <2>3, <2>4 DEF Asked
<1>5. CASE Aims(q)
  <2>1. pc'[q] \in {"readMember", "makeAdmin", "unmakeAdmin"}
    BY <1>5 DEF Aims
  <2>. QED BY <1>1, <1>2, <2>1 DEF CallOK, Changing
<1>. QED BY <1>3, <1>4, <1>5, BegunInFull DEF Named

\* Where a request about the membership leaves it.
Settled(r, c, p) == (About(r, c, p) /\ CallOK(r, c, p)) \/ (pc[r] = "idle" /\ ~Clash(c, p))

LEMMA ActOK ==
    ASSUME FlightOK, KeysOK, ClubsOK, FoundRowInv, NEW c, NEW p, NEW r \in Requests,
           MembershipStep(r), ~Adds(r), About(r, c, p), PairOK(c, p), Shrink(c, p),
           invited \subseteq invited'
    PROVE  Settled(r, c, p)'
<1>0. /\ MembersOf(c, p)' \subseteq MembersOf(c, p) /\ RequestsOf(c, p)' \subseteq RequestsOf(c, p)
      /\ IsMember(c, p)' => IsMember(c, p)
      /\ Clash(c, p)' => Clash(c, p)
  BY ShrunkStaysOK
<1>1. /\ CallOK(r, c, p) /\ loc[r].club = c /\ loc[r].who = p
      /\ pc[r] \in MembershipLabels \ {"dummy"}
      /\ {"user", "club", "who", "row", "request"} \subseteq DOMAIN loc[r]
  BY DEF PairOK, About, Named, KeysOK
<1>2. ASSUME Done(r) PROVE pc'[r] = "idle"
  BY <1>2, GoesTo DEF Done
<1>3. ASSUME NEW label, Proceed(r, label) PROVE pc'[r] = label /\ loc'[r] = loc[r]
  BY <1>3, GoesTo DEF Proceed
<1>4. CASE FindMember(r)
  <2>0. /\ pc[r] = "findMember" /\ RequestsOf(c, p) \subseteq {loc[r].request} /\ loc[r].row = None
    BY <1>1, <1>4 DEF FindMember, CallOK, FoundRowInv
  <2>1. CASE MembersOf(c, p) = {} /\ Proceed(r, "admit")
    <3>1. pc'[r] = "admit" /\ loc'[r] = loc[r]
      BY <1>3, <2>1
    <3>2. About(r, c, p)'
      BY <1>1, <3>1 DEF About, Named, MembershipLabels
    <3>3. CallOK(r, c, p)'
      BY <1>0, <2>0, <2>1, <3>1 DEF CallOK, Changing
    <3>. QED BY <3>2, <3>3 DEF Settled
  <2>2. ASSUME NEW m \in MembersOf(c, p), Goto(r, "admit", [loc[r] EXCEPT !.row = m])
        PROVE  Settled(r, c, p)'
    <3>. DEFINE x == [loc[r] EXCEPT !.row = m]
    <3>1. x.row = m /\ x.club = c /\ x.who = p /\ x.request = loc[r].request
      BY <1>1
    <3>2. pc'[r] = "admit" /\ loc'[r] = x
      BY <2>2, GoesTo
    <3>3. m # None
      BY AccountsAssumption DEF MembersOf, ClubsOK
    <3>. HIDE DEF x
    <3>4. About(r, c, p)'
      BY <3>1, <3>2 DEF About, Named, MembershipLabels
    <3>5. CallOK(r, c, p)'
      BY <1>0, <2>0, <3>1, <3>2, <3>3 DEF CallOK, Changing
    <3>. QED BY <3>4, <3>5 DEF Settled
  <2>. QED BY <1>1, <1>4, <2>1, <2>2 DEF FindMember
<1>5. CASE ClearRequest(r)
  <2>1. RequestsOf(c, p) \subseteq {loc[r].request} /\ pc'[r] = "idle"
    BY <1>1, <1>2, <1>5 DEF ClearRequest, CallOK
  <2>2. memberRequests' = Without(memberRequests, {loc[r].request})
    BY <1>5 DEF ClearRequest
  <2>3. loc[r].request \notin RequestsOf(c, p)'
    BY <2>2 DEF Without, RequestsOf
  <2>4. RequestsOf(c, p)' = {}
    BY <1>0, <2>1, <2>3
  <2>. QED BY <2>1, <2>4 DEF Settled, Clash
<1>6. CASE FindInvited(r)
  <2>0. ~Clash(c, p) /\ ~Clash(c, p)' /\ members' = members
    BY <1>0, <1>1, <1>6 DEF FindInvited, CallOK, membershipVars, membershipTables
  <2>1. CASE MembersOf(c, p) = {} /\ Proceed(r, "seatInvited")
    <3>1. pc'[r] = "seatInvited" /\ loc'[r] = loc[r]
      BY <1>3, <2>1
    <3>2. About(r, c, p)'
      BY <1>1, <3>1 DEF About, Named, MembershipLabels
    <3>3. MembersOf(c, p)' = {} /\ ~IsMember(c, p)'
      BY <2>0, <2>1 DEF MembersOf, IsMember
    <3>4. CallOK(r, c, p)'
      BY <3>1, <3>3 DEF CallOK, Changing
    <3>. QED BY <3>2, <3>4 DEF Settled
  <2>2. CASE Done(r)
    BY <1>2, <2>0, <2>2 DEF Settled
  <2>. QED BY <1>1, <1>6, <2>1, <2>2 DEF FindInvited
<1>7. CASE InsertPlaceholder(r)
  <2>1. pc'[r] = "seatDummy" /\ loc'[r] = loc[r] /\ MembersOf(c, p) = {} /\ RequestsOf(c, p) = {}
    BY <1>1, <1>3, <1>7 DEF InsertPlaceholder, CallOK
  <2>2. About(r, c, p)'
    BY <1>1, <2>1 DEF About, Named, MembershipLabels
  <2>3. CallOK(r, c, p)'
    BY <1>0, <2>1 DEF CallOK, Changing
  <2>. QED BY <2>2, <2>3 DEF Settled
<1>8. CASE AddBot(r)
  <2>1. pc'[r] = "idle" /\ RequestsOf(c, p) = {}
    BY <1>1, <1>2, <1>8 DEF AddBot, CallOK
  <2>. QED BY <1>0, <2>1 DEF Settled, Clash
<1>9. CASE pc[r] \in Changing
  <2>1. ~Clash(c, p)'
    BY <1>0, <1>1, <1>9 DEF CallOK
  <2>2. CASE pc'[r] # "idle"
    <3>1. loc'[r] = loc[r] /\ pc'[r] \in Changing
      <4>1. ~InsertDummy(r) /\ ~FindMember(r)
        BY <1>9 DEF InsertDummy, FindMember, Changing
      <4>. QED BY <1>9, <2>2, <4>1, StepLocals DEF Follows, Changing
    <3>2. About(r, c, p)'
      BY <1>1, <3>1 DEF About, Named, MembershipLabels, Changing
    <3>3. CallOK(r, c, p)'
      BY <2>1, <3>1 DEF CallOK, Changing
    <3>. QED BY <3>2, <3>3 DEF Settled
  <2>. QED BY <2>1, <2>2 DEF Settled
<1>10. \/ FindMember(r) \/ ClearRequest(r) \/ FindInvited(r) \/ InsertPlaceholder(r) \/ AddBot(r)
       \/ pc[r] \in Changing
  BY <1>1, OneStatement DEF Adds, MembershipLabels, Changing
<1>. QED BY <1>4, <1>5, <1>6, <1>7, <1>8, <1>9, <1>10

LEMMA InsertOne ==
    ASSUME NEW c, NEW p, NEW x, Insert(x), x.club = c, x.who = p, MembersOf(c, p) = {}
    PROVE  MembersOf(c, p)' = {row.member + 1} /\ (IsMember(c, p)' <=> x.member)
<1>1. members' = With(members, row.member + 1, x)
  BY DEF Insert
<1>2. MembersOf(c, p)' = {row.member + 1}
  BY <1>1 DEF With, MembersOf
<1>3. members'[row.member + 1] = x
  BY <1>1 DEF With
<1>. QED BY <1>2, <1>3 DEF IsMember

LEMMA RecordOne ==
    ASSUME ClubsOK, ClaimedInv, NEW c, NEW p, Record(c, p), \A i, j \in RequestsOf(c, p) : i = j
    PROVE  /\ \A i, j \in RequestsOf(c, p)' : i = j
           /\ RequestsOf(c, p)' \subseteq
                 RequestsOf(c, p) \cup (DOMAIN memberRequests' \ DOMAIN memberRequests)
<1>. DEFINE x == [club |-> c, who |-> p]
<1>1. CASE RequestsOf(c, p) = {} /\ memberRequests' = With(memberRequests, row.request + 1, x)
  <2>1. RequestsOf(c, p)' \subseteq {row.request + 1}
    BY <1>1 DEF With, RequestsOf
  <2>2. row.request + 1 \notin DOMAIN memberRequests
    BY DEF ClubsOK, ClaimedInv
  <2>3. RequestsOf(c, p)' \subseteq DOMAIN memberRequests'
    BY DEF RequestsOf
  <2>. QED BY <2>1, <2>2, <2>3
<1>2. CASE memberRequests' = memberRequests
  BY <1>2 DEF RequestsOf
<1>. QED BY <1>1, <1>2 DEF Record

\* What a statement that adds leaves of the tables.
OneEach(c, p) ==
    /\ \A m, n \in MembersOf(c, p) : m = n
    /\ \A i, j \in RequestsOf(c, p) : i = j

LEMMA AddOK ==
    ASSUME FlightOK, ClubsOK, ClaimedInv, NEW c, NEW p, NEW r \in Requests,
           Adds(r), About(r, c, p), PairOK(c, p)
    PROVE  OneEach(c, p)' /\ Settled(r, c, p)'
<1>1. /\ CallOK(r, c, p) /\ OneEach(c, p) /\ loc[r].club = c /\ loc[r].who = p
  BY DEF PairOK, About, OneEach
<1>2. ASSUME Done(r) PROVE pc'[r] = "idle"
  BY <1>2, GoesTo DEF Done
<1>3. ASSUME NEW label \in Named, Proceed(r, label), CallOK(r, c, p)'
      PROVE  Settled(r, c, p)'
  BY <1>1, <1>3, GoesTo DEF Proceed, Settled, About
<1>4. ASSUME NEW label, Proceed(r, label) PROVE pc'[r] = label /\ loc'[r] = loc[r]
  BY <1>4, GoesTo DEF Proceed
<1>5. ASSUME memberRequests' = memberRequests PROVE RequestsOf(c, p)' = RequestsOf(c, p)
  BY <1>5 DEF RequestsOf
<1>6. ASSUME members' = members
      PROVE  MembersOf(c, p)' = MembersOf(c, p) /\ (IsMember(c, p)' <=> IsMember(c, p))
  BY <1>6 DEF MembersOf, IsMember
<1>7. ASSUME NEW x, Insert(x), x.club = c, x.who = p, MembersOf(c, p) = {}
      PROVE  MembersOf(c, p)' = {row.member + 1} /\ (IsMember(c, p)' <=> x.member)
  BY <1>7, InsertOne
<1>8. CASE FoundMember(r)
  <2>. DEFINE x == [club |-> loc[r].club, who |-> loc[r].who, member |-> TRUE, admin |-> TRUE]
  <2>0. x.club = c /\ x.who = p
    BY <1>1
  <2>. HIDE DEF x
  <2>1. /\ MembersOf(c, p) = {} /\ RequestsOf(c, p) = {} /\ RequestsOf(c, p)' = {}
        /\ pc'[r] = "idle"
    BY <1>1, <1>2, <1>5, <1>8 DEF FoundMember, CallOK
  <2>2. Insert(x) \/ members' = members
    BY <1>8 DEF FoundMember, x
  <2>3. MembersOf(c, p)' \subseteq {row.member + 1}
    BY <1>6, <1>7, <2>0, <2>1, <2>2
  <2>. QED BY <2>1, <2>3 DEF OneEach, Settled, Clash
<1>9. CASE Apply(r)
  <2>1. ~IsMember(c, p) /\ pc'[r] = "idle" /\ Record(c, p) /\ members' = members
    BY <1>1, <1>2, <1>9 DEF Apply, CallOK
  <2>2. \A i, j \in RequestsOf(c, p)' : i = j
    BY <1>1, <2>1, RecordOne DEF OneEach
  <2>. QED BY <1>1, <1>6, <2>1, <2>2 DEF OneEach, Settled, Clash
<1>10. CASE Admit(r)
  <2>0. /\ pc[r] = "admit" /\ memberRequests' = memberRequests
        /\ RequestsOf(c, p)' \subseteq {loc[r].request}
    BY <1>1, <1>5, <1>10 DEF Admit, CallOK
  <2>1. \A i, j \in RequestsOf(c, p)' : i = j
    BY <2>0
  <2>2. ASSUME Proceed(r, "clearRequest") PROVE Settled(r, c, p)'
    <3>1. pc'[r] = "clearRequest" /\ loc'[r] = loc[r]
      BY <1>4, <2>2
    <3>2. CallOK(r, c, p)'
      BY <2>0, <3>1 DEF CallOK, Changing
    <3>. QED BY <1>3, <2>2, <3>2 DEF Named, MembershipLabels
  <2>3. CASE loc[r].row = None /\ Live(c)
    <3>. DEFINE x == [club |-> loc[r].club, who |-> loc[r].who, member |-> TRUE, admin |-> FALSE]
    <3>1. x.club = c /\ x.who = p
      BY <1>1
    <3>. HIDE DEF x
    <3>2. Insert(x) /\ Proceed(r, "clearRequest")
      BY <1>1, <1>10, <2>3 DEF Admit, x
    <3>3. MembersOf(c, p) = {}
      BY <1>1, <2>0, <2>3 DEF CallOK
    <3>4. MembersOf(c, p)' = {row.member + 1}
      BY <1>7, <3>1, <3>2, <3>3
    <3>. QED BY <2>1, <2>2, <3>2, <3>4 DEF OneEach
  <2>4. CASE ~(loc[r].row = None /\ Live(c))
    <3>1. /\ members' = [m \in DOMAIN members |->
               IF m = loc[r].row THEN [members[m] EXCEPT !.member = TRUE] ELSE members[m]]
      BY <1>1, <1>10, <2>4 DEF Admit
    <3>2. ASSUME NEW m \in DOMAIN members
          PROVE  /\ [members[m] EXCEPT !.member = TRUE].club = members[m].club
                 /\ [members[m] EXCEPT !.member = TRUE].who = members[m].who
      BY DEF ClubsOK
    <3>3. MembersOf(c, p)' = MembersOf(c, p)
      BY <3>1, <3>2 DEF MembersOf
    <3>4. CASE loc[r].row = None
      <4>1. Done(r)
        BY <1>1, <1>10, <2>4, <3>4 DEF Admit
      <4>2. MembersOf(c, p) = {}
        BY <1>1, <2>0, <3>4 DEF CallOK
      <4>3. ~IsMember(c, p)'
        BY <3>3, <4>2 DEF IsMember
      <4>. QED BY <1>2, <2>1, <3>3, <4>1, <4>2, <4>3 DEF OneEach, Settled, Clash
    <3>5. CASE loc[r].row # None
      <4>1. Proceed(r, "clearRequest")
        BY <1>10, <3>5 DEF Admit
      <4>. QED BY <1>1, <2>1, <2>2, <3>3, <4>1 DEF OneEach
    <3>. QED BY <3>4, <3>5
  <2>. QED BY <2>3, <2>4
<1>11. CASE SeatDummy(r)
  <2>. DEFINE x == [club |-> loc[r].club, who |-> loc[r].who, member |-> TRUE, admin |-> FALSE]
  <2>0. x.club = c /\ x.who = p
    BY <1>1
  <2>. HIDE DEF x
  <2>1. MembersOf(c, p) = {} /\ RequestsOf(c, p) = {} /\ RequestsOf(c, p)' = {}
    BY <1>1, <1>5, <1>11 DEF SeatDummy, CallOK
  <2>2. (Insert(x) /\ Proceed(r, "bot")) \/ (members' = members /\ Done(r))
    BY <1>11 DEF SeatDummy, x
  <2>3. MembersOf(c, p)' \subseteq {row.member + 1}
    BY <1>6, <1>7, <2>0, <2>1, <2>2
  <2>4. CASE Proceed(r, "bot")
    <3>1. pc'[r] = "bot" /\ loc'[r] = loc[r]
      BY <1>4, <2>4
    <3>2. CallOK(r, c, p)'
      BY <2>1, <3>1 DEF CallOK, Changing
    <3>3. Settled(r, c, p)'
      BY <1>3, <2>4, <3>2 DEF Named, MembershipLabels
    <3>. QED BY <2>1, <2>3, <3>3 DEF OneEach
  <2>5. CASE Done(r)
    BY <1>2, <2>1, <2>3, <2>5 DEF OneEach, Settled, Clash
  <2>. QED BY <2>2, <2>4, <2>5
<1>12. CASE RecordInvitation(r)
  <2>. DEFINE fresh == DOMAIN memberRequests' \ DOMAIN memberRequests
  <2>1. /\ ~Clash(c, p) /\ Record(c, p) /\ members' = members
        /\ invited' = IF IsMember(c, p) THEN invited \cup fresh ELSE invited
    BY <1>1, <1>12 DEF RecordInvitation, CallOK
  <2>2. /\ \A i, j \in RequestsOf(c, p)' : i = j
        /\ RequestsOf(c, p)' \subseteq RequestsOf(c, p) \cup fresh
        /\ MembersOf(c, p)' = MembersOf(c, p) /\ (IsMember(c, p)' <=> IsMember(c, p))
    BY <1>1, <1>6, <2>1, RecordOne DEF OneEach
  <2>. HIDE DEF fresh
  <2>c. ~Clash(c, p)'
    BY <2>1, <2>2 DEF Clash
  <2>3. CASE Proceed(r, "findInvited")
    <3>1. pc'[r] = "findInvited" /\ loc'[r] = loc[r]
      BY <1>4, <2>3
    <3>2. CallOK(r, c, p)'
      BY <2>c, <3>1 DEF CallOK, Changing
    <3>3. Settled(r, c, p)'
      BY <1>3, <2>3, <3>2 DEF Named, MembershipLabels
    <3>. QED BY <1>1, <2>2, <3>3 DEF OneEach
  <2>4. CASE Done(r)
    BY <1>1, <1>2, <2>2, <2>4, <2>c DEF OneEach, Settled
  <2>. QED BY <1>12, <2>3, <2>4 DEF RecordInvitation
<1>13. CASE SeatInvited(r)
  <2>. DEFINE x == [club |-> loc[r].club, who |-> loc[r].who, member |-> FALSE, admin |-> FALSE]
  <2>0. x.club = c /\ x.who = p /\ ~x.member
    BY <1>1
  <2>. HIDE DEF x
  <2>1. /\ MembersOf(c, p) = {} /\ ~IsMember(c, p) /\ RequestsOf(c, p)' = RequestsOf(c, p)
        /\ pc'[r] = "idle"
    BY <1>1, <1>2, <1>5, <1>13 DEF SeatInvited, CallOK
  <2>2. Insert(x) \/ members' = members
    BY <1>13 DEF SeatInvited, x
  <2>3. MembersOf(c, p)' \subseteq {row.member + 1} /\ ~IsMember(c, p)'
    BY <1>6, <1>7, <2>0, <2>1, <2>2
  <2>. QED BY <1>1, <2>1, <2>3 DEF OneEach, Settled, Clash
<1>. QED BY <1>8, <1>9, <1>10, <1>11, <1>12, <1>13 DEF Adds

-----------------------------------------------------------------------------
\* Every step leaves an undisturbed membership in order.

\* The request comes to be about the membership.
BecomesAbout(q, p) ==
    BeginMembershipCall(q) \/ (InsertDummy(q) /\ pc'[q] = "placeholder" /\ p = row.dummy + 1)

LEMMA AboutThen ==
    ASSUME FlightOK, OthersOK, ClubsOK, KeysOK, GuestInv, [Next]_vars,
           NEW c, NEW p, NEW q \in Requests, About(q, c, p)'
    PROVE  (About(q, c, p) /\ (Stays(q) \/ MembershipStep(q))) \/ BecomesAbout(q, p)
<1>1. pc'[q] \in MembershipLabels /\ loc'[q].club = c /\ loc'[q].who = p
  BY DEF About, Named
<1>2. CASE Stays(q)
  BY <1>2 DEF Stays, About
<1>3. CASE MembershipStep(q) /\ pc'[q] # "idle"
  <2>1. loc'[q].club = loc[q].club
    BY <1>3, MembershipUsers DEF Same
  <2>2. CASE InsertDummy(q) /\ pc'[q] = "placeholder" /\ loc'[q].who = row.dummy + 1
    BY <1>1, <2>2 DEF BecomesAbout
  <2>3. CASE FindMember(q) /\ loc'[q].who = loc[q].who
    BY <1>1, <1>3, <2>1, <2>3 DEF FindMember, About, Named, MembershipLabels
  <2>4. CASE loc'[q] = loc[q] /\ <<pc[q], pc'[q]>> \in Follows
    BY <1>1, <1>3, <2>4 DEF Follows, About, Named, MembershipLabels
  <2>. QED BY <1>3, <2>2, <2>3, <2>4, StepLocals
<1>. QED BY <1>1, <1>2, <1>3, ClubActs DEF BecomesAbout

LEMMA ArrivesAlone ==
    ASSUME FlightOK, ClubsOK, PresidentInv, FoundedInv, GuestInv, KnownInv,
           NEW c, NEW p, NEW q \in Requests, BecomesAbout(q, p), About(q, c, p)',
           <<c, p>> \notin disturbed', PairOK(c, p)
    PROVE  CallOK(q, c, p)' /\ \A r \in Requests \ {q} : ~About(r, c, p)
<1>1. CASE BeginMembershipCall(q)
  BY <1>1, BegunAlone, BegunOK DEF About
<1>2. CASE InsertDummy(q) /\ pc'[q] = "placeholder" /\ p = row.dummy + 1
  <2>1. p \notin Users /\ ~Known(p)
    <3>1. row.dummy \in Nat
      BY DEF ClubsOK
    <3>. QED BY <1>2, <3>1, MembershipAssumption DEF Known
  <2>2. MembersOf(c, p) = {} /\ RequestsOf(c, p) = {}
    BY <2>1 DEF MembersOf, RequestsOf, KnownInv, GuestInv
  <2>3. members' = members /\ memberRequests' = memberRequests /\ invited' = invited
    BY <1>2 DEF InsertDummy, membershipHistory
  <2>4. MembersOf(c, p)' = {} /\ RequestsOf(c, p)' = {}
    BY <2>2, <2>3, SamePair
  <2>5. CallOK(q, c, p)'
    BY <1>2, <2>4 DEF CallOK, Changing
  <2>6. \A r \in Requests : ~About(r, c, p)
    BY <2>1 DEF About, KnownInv
  <2>. QED BY <2>5, <2>6
<1>. QED BY <1>1, <1>2 DEF BecomesAbout

LEMMA PairStep ==
    ASSUME FlightOK, OthersOK, ClubsOK, PresidentInv, FoundedInv, KeysOK, GuestInv, KnownInv,
           ClaimedInv, FoundRowInv, [Next]_vars,
           NEW c, NEW p, <<c, p>> \notin disturbed', PairOK(c, p)
    PROVE  PairOK(c, p)'
\* Two requests that are about it before are one; one that arrives finds nobody.
<1>1. ASSUME NEW q \in Requests, NEW r \in Requests, About(q, c, p)', About(r, c, p)'
      PROVE  q = r
  <2>1. ASSUME NEW a \in Requests, NEW b \in Requests \ {a}, BecomesAbout(a, p),
               About(a, c, p)', About(b, c, p)'
        PROVE  FALSE
    <3>1. Stays(b)
      BY <2>1, OthersStay DEF BecomesAbout, MembershipStep
    <3>2. About(b, c, p)
      BY <2>1, <3>1 DEF Stays, About
    <3>. QED BY <2>1, <3>2, ArrivesAlone
  <2>2. CASE About(q, c, p) /\ About(r, c, p)
    BY <2>2 DEF PairOK
  <2>. QED BY <1>1, <2>1, <2>2, AboutThen
<1>2. CASE \E r \in Requests : Adds(r) /\ About(r, c, p)
  <2>1. PICK r \in Requests : Adds(r) /\ About(r, c, p)
    BY <1>2
  <2>2. OneEach(c, p)' /\ Settled(r, c, p)'
    BY <2>1, AddOK
  <2>3. ASSUME NEW q \in Requests, About(q, c, p)' PROVE q = r
    <3>1. ASSUME q # r PROVE FALSE
      <4>1. Stays(q)
        BY <2>1, <3>1, OthersStay DEF Adds, MembershipStep
      <4>2. About(q, c, p)
        BY <2>3, <4>1 DEF Stays, About
      <4>. QED BY <2>1, <3>1, <4>2 DEF PairOK
    <3>. QED BY <3>1
  <2>4. About(r, c, p)' => CallOK(r, c, p)'
    BY <2>2 DEF Settled, About, Named, MembershipLabels
  <2>5. Clash(c, p)' => About(r, c, p)'
    BY <2>2 DEF Settled
  <2>6. \A q \in Requests : About(q, c, p)' => CallOK(q, c, p)'
    BY <2>3, <2>4
  <2>. QED BY <1>1, <2>2, <2>5, <2>6 DEF OneEach, PairOK
<1>3. CASE \A r \in Requests : Adds(r) => ~About(r, c, p)
  <2>1. Shrink(c, p)
    BY <1>3, Shrinks
  <2>2. /\ MembersOf(c, p)' \subseteq MembersOf(c, p)
        /\ RequestsOf(c, p)' \subseteq RequestsOf(c, p)
        /\ IsMember(c, p)' => IsMember(c, p)
        /\ Clash(c, p)' => Clash(c, p)
    BY <2>1, ShrunkStaysOK, InvitedGrows
  <2>3. ASSUME NEW q \in Requests, About(q, c, p), MembershipStep(q)
        PROVE  Settled(q, c, p)'
    BY <1>3, <2>1, <2>3, ActOK, InvitedGrows
  <2>4. ASSUME NEW q \in Requests, About(q, c, p)' PROVE CallOK(q, c, p)'
    <3>1. CASE About(q, c, p) /\ Stays(q)
      <4>1. CallOK(q, c, p) /\ pc'[q] = pc[q] /\ loc'[q] = loc[q]
        BY <3>1 DEF PairOK, Stays
      <4>. QED BY <2>2, <4>1 DEF CallOK
    <3>2. CASE About(q, c, p) /\ MembershipStep(q)
      BY <2>3, <2>4, <3>2 DEF Settled, About, Named, MembershipLabels
    <3>3. CASE BecomesAbout(q, p)
      BY <2>4, <3>3, ArrivesAlone
    <3>. QED BY <2>4, <3>1, <3>2, <3>3, AboutThen
  <2>5. ASSUME Clash(c, p)' PROVE \E q \in Requests : About(q, c, p)'
    <3>1. PICK r \in Requests : About(r, c, p)
      BY <2>2, <2>5 DEF PairOK
    <3>2. pc[r] \in Named /\ pc[r] \in MembershipLabels /\ loc[r].club = c /\ loc[r].who = p
      BY <3>1 DEF About, Named
    <3>3. CASE Stays(r)
      BY <3>1, <3>3 DEF Stays, About
    <3>4. CASE MembershipStep(r)
      BY <2>3, <2>5, <3>1, <3>4 DEF Settled
    <3>5. ~StopMembershipCall(r)
      <4>1. p # None
        BY <3>2, AccountsAssumption DEF KnownInv, Known
      <4>. QED BY <3>2, <4>1 DEF StopMembershipCall
    <3>. QED BY <3>2, <3>3, <3>4, <3>5, CallGoesOn
  <2>6. OneEach(c, p)'
    BY <2>2 DEF OneEach, PairOK
  <2>. QED BY <1>1, <2>4, <2>5, <2>6 DEF OneEach, PairOK
<1>. QED BY <1>2, <1>3

RowsInv == KnownInv /\ ClaimedInv /\ FoundRowInv /\ PairsInv

LEMMA RowsInit == Init => RowsInv
<1>. SUFFICES ASSUME Init PROVE RowsInv
  OBVIOUS
<1>1. PICK first \in FirstMembers, home \in Clubs :
        /\ members = [m \in first |->
              [club |-> home, who |-> IF m = 1 THEN Founder ELSE Helper,
               member |-> TRUE, admin |-> TRUE]]
        /\ memberRequests = [q \in {} |-> None]
  BY DEF Init, MembershipInit
<1>2. first \in {{}, {1}, {1, 2}}
  BY DEF FirstMembers
<1>3. \A q \in Requests : pc[q] = "idle"
  BY DEF Init, FlightInit
<1>4. KnownInv
  BY <1>1, <1>3, MembershipAssumption DEF KnownInv, Known, Named, MembershipLabels
<1>5. ClaimedInv /\ FoundRowInv
  BY <1>1, <1>3 DEF ClaimedInv, FoundRowInv, MembershipLabels
<1>6. ASSUME NEW c, NEW p PROVE PairOK(c, p)
  <2>1. \A m, n \in MembersOf(c, p) : m = n
    BY <1>1, <1>2, MembershipAssumption DEF MembersOf
  <2>2. RequestsOf(c, p) = {}
    BY <1>1 DEF RequestsOf
  <2>3. \A q \in Requests : ~About(q, c, p)
    BY <1>3 DEF About, Named, MembershipLabels
  <2>. QED BY <2>1, <2>2, <2>3 DEF PairOK, Clash
<1>. QED BY <1>4, <1>5, <1>6 DEF RowsInv, PairsInv

\* A person has one members row of a club, through any number of removals and
\* readmissions, and somebody who is a member has a pending request only if it
\* was recorded by an invitation they did not need, unless two requests about
\* the membership overlapped or one stopped (accept_request, create_request,
\* remove_member, invite_member; nothing in the schema says so).
THEOREM OneRowEach == Spec => []OneMembershipEach
<1>. DEFINE Inv == OthersOK /\ ClubsOK /\ PresidentInv /\ FoundedInv /\ AdminsInv /\ RowsInv
<1>1. Init => Inv
  BY OthersInit, ClubsInit, AdminsInit, RowsInit
<1>2. (FlightOK /\ TablesOK) /\ Inv /\ [Next]_vars => Inv'
  <2>. SUFFICES ASSUME FlightOK, TablesOK, Inv, [Next]_vars PROVE Inv'
    OBVIOUS
  <2>1. OthersOK' /\ ClubsOK' /\ PresidentInv' /\ FoundedInv' /\ AdminsInv'
    BY OthersStep, ClubsStep, PresidentStep, FoundedStep, AdminsStep
  <2>2. KeysOK /\ GuestInv /\ KnownInv /\ ClaimedInv /\ FoundRowInv
    BY DEF AdminsInv, RowsInv
  <2>3. KnownInv' /\ ClaimedInv' /\ FoundRowInv'
    BY <2>2, KnownStep, ClaimedStep, FoundRowStep
  <2>4. ASSUME NEW c \in Clubs, NEW p \in People, <<c, p>> \notin disturbed'
        PROVE  PairOK(c, p)'
    <3>1. PairOK(c, p)
      BY <2>4, DisturbedGrows DEF RowsInv, PairsInv
    <3>. QED BY <2>2, <2>4, <3>1, PairStep
  <2>. QED BY <2>1, <2>3, <2>4 DEF RowsInv, PairsInv
<1>3. Inv => OneMembershipEach
  <2>. SUFFICES ASSUME PairsInv, NEW c \in Clubs, NEW p \in People, <<c, p>> \notin disturbed
                PROVE  /\ Cardinality(MembersOf(c, p)) <= 1
                       /\ (IsMember(c, p) /\ ~(RequestsOf(c, p) \subseteq invited)) =>
                             \E r \in InFlightAt(MembershipLabels) :
                                loc[r].club = c /\ loc[r].who = p
    BY DEF OneMembershipEach, RowsInv
  <2>1. PairOK(c, p)
    BY DEF PairsInv
  <2>2. Cardinality(MembersOf(c, p)) <= 1
    <3>1. MembersOf(c, p) = {} \/ \E m : MembersOf(c, p) = {m}
      BY <2>1 DEF PairOK
    <3>. QED BY <3>1, FS_EmptySet, FS_Singleton
  <2>. QED BY <2>1, <2>2 DEF PairOK, Clash, About, Named, InFlightAt
<1>. QED BY <1>1, <1>2, <1>3, TypesHold, PTL DEF Spec
-----------------------------------------------------------------------------
(***************************************************************************)
(* The placeholder members of a club, for every number of requests and of  *)
(* placeholders.  create_dummy_user makes one with four INSERTs and        *)
(* remove_member removes it with two DELETEs; others see it in between.    *)
(* Each is whole, gone, left over by a deleted club, or exactly as far as  *)
(* the request that is making or removing it has come.  Numbers are given  *)
(* out once, so what is gone stays gone.                                   *)
(***************************************************************************)

\* Request r is making placeholder d: what each statement finds of it.
Building(r, d) ==
    /\ loc[r].who = d /\ d \in DOMAIN dummies /\ dummies[d] = loc[r].club
    /\ \/ pc[r] = "placeholder"
       \/ pc[r] = "seatDummy" /\ d \in placeholders
       \/ pc[r] = "bot" /\ d \in placeholders /\ IsMember(dummies[d], d)

\* Request r has its users row left to delete.
Razing(r, d) == pc[r] = "dropUser" /\ loc[r].who = d

\* What is left of a placeholder when its club is deleted.
Orphan(d) == d \notin DOMAIN dummies /\ \E c \in Clubs : clubs[c].state = "deleted"

Whole(d) ==
    /\ d \in DOMAIN dummies /\ d \in placeholders
    /\ <<dummies[d], d>> \in bots
    /\ IsMember(dummies[d], d)

Gone(d) ==
    /\ d \notin DOMAIN dummies \cup placeholders
    /\ \A c \in Clubs : <<c, d>> \notin bots /\ MembersOf(c, d) = {}

\* A placeholder no request stopped at; only its maker seats it.
Fine(d) ==
    \/ Orphan(d)
    \/ /\ \A r \in Requests : pc[r] \in Seating /\ loc[r].who = d => Building(r, d)
       /\ Whole(d) \/ Gone(d) \/ \E r \in Requests : Building(r, d) \/ Razing(r, d)

WholeInv == \A d \in (1..row.dummy) \ stopped : Fine(d)

\* Dummies are of clubs that go on.
DummiesOK ==
    \A d \in DOMAIN dummies :
        d \in Nat /\ d <= row.dummy /\ dummies[d] \in Clubs /\ Live(dummies[d])

\* A placeholder is not unseated like a person, and is dropped before its users row.
RemovalInv ==
    \A q \in Requests :
        /\ pc[q] = "unseat" => loc[q].who \notin Dummy
        /\ pc[q] = "dropUser" => loc[q].who \notin DOMAIN dummies

\* There is a number for every placeholder being made.
CountInv == row.dummy + Cardinality(InFlightAt({"dummy"})) <= MaxDummies

-----------------------------------------------------------------------------
\* The statements that write each table.

LEMMA PlaceTables ==
    ASSUME [Next]_vars
    PROVE  /\ stopped \subseteq stopped'
           /\ \/ dummies' = dummies
              \/ \E r \in Requests : InsertDummy(r) \/ DropDummy(r)
              \/ \E u \in Users, c \in Clubs : DeleteClub(u, c)
           /\ \/ placeholders' = placeholders
              \/ \E r \in Requests : InsertPlaceholder(r) \/ DropUser(r)
           /\ \/ bots' = bots
              \/ \E r \in Requests : AddBot(r) \/ DropUser(r)
              \/ \E u \in Users, c \in Clubs : DeleteClub(u, c)
<1>. DEFINE Frame == dummies' = dummies /\ placeholders' = placeholders /\ bots' = bots
                     /\ stopped' = stopped
            Goal == /\ stopped \subseteq stopped'
                    /\ \/ dummies' = dummies
                       \/ \E r \in Requests : InsertDummy(r) \/ DropDummy(r)
                       \/ \E u \in Users, c \in Clubs : DeleteClub(u, c)
                    /\ \/ placeholders' = placeholders
                       \/ \E r \in Requests : InsertPlaceholder(r) \/ DropUser(r)
                    /\ \/ bots' = bots
                       \/ \E r \in Requests : AddBot(r) \/ DropUser(r)
                       \/ \E u \in Users, c \in Clubs : DeleteClub(u, c)
<1>1. ASSUME NEW r \in Requests, BeginMembershipCall(r) PROVE Frame
  <2>1. ASSUME NEW label, NEW x, BeginFor(r, label, x) PROVE Frame
    BY <2>1 DEF BeginFor, membershipTables
  <2>2. ASSUME NEW u, NEW c, CreateClub(r, u, c) \/ RequestToJoin(r, u, c) \/ CreateDummy(r, u, c)
        PROVE  Frame
    BY <2>1, <2>2 DEF CreateClub, RequestToJoin, CreateDummy, membershipVars, membershipTables,
       membershipHistory
  <2>3. ASSUME NEW u, NEW c, NEW who, Invite(r, u, c, who) PROVE Frame
    BY <2>1, <2>3 DEF Invite
  <2>4. ASSUME NEW u, NEW i, AcceptRequest(r, u, i) \/ RejectRequest(r, u, i) PROVE Frame
    BY <2>1, <2>4 DEF AcceptRequest, RejectRequest, BeginAnswer
  <2>5. ASSUME NEW u, NEW m, \/ DeleteMember(r, u, m) \/ LeaveClub(r, u, m)
                             \/ PromoteMember(r, u, m) \/ DemoteMember(r, u, m)
        PROVE  Frame
    BY <2>1, <2>5 DEF DeleteMember, LeaveClub, PromoteMember, DemoteMember, BeginMemberCall
  <2>. HIDE DEF Frame
  <2>. QED BY <1>1, <2>2, <2>3, <2>4, <2>5 DEF BeginMembershipCall
<1>2. ASSUME NEW r \in Requests, MembershipStep(r) PROVE Goal
  <2>1. ASSUME \/ FoundMember(r) \/ Apply(r) \/ FindMember(r) \/ Admit(r) \/ ClearRequest(r)
               \/ ReadMember(r) \/ Unseat(r) \/ SeatDummy(r) \/ MakeAdmin(r) \/ UnmakeAdmin(r)
               \/ RecordInvitation(r) \/ FindInvited(r) \/ SeatInvited(r)
        PROVE  Frame
    BY <2>1 DEF FoundMember, Apply, FindMember, Admit, ClearRequest, ReadMember, Unseat,
       SeatDummy, MakeAdmin, UnmakeAdmin, WriteAdmin, RecordInvitation, FindInvited, SeatInvited,
       membershipVars, membershipTables, membershipHistory
  <2>2. CASE InsertDummy(r)
    BY <2>2 DEF InsertDummy, membershipHistory
  <2>3. CASE InsertPlaceholder(r)
    BY <2>3 DEF InsertPlaceholder, membershipHistory
  <2>4. CASE AddBot(r)
    BY <2>4 DEF AddBot, membershipHistory
  <2>5. CASE DropDummy(r)
    BY <2>5 DEF DropDummy, membershipHistory
  <2>6. CASE DropUser(r)
    BY <2>6 DEF DropUser, membershipHistory
  <2>7. Frame => Goal
    OBVIOUS
  <2>. HIDE DEF Frame, Goal
  <2>. QED BY <1>2, <2>1, <2>2, <2>3, <2>4, <2>5, <2>6, <2>7 DEF MembershipStep
<1>3. ASSUME NEW r \in Requests, StopMembershipCall(r) \/ Erase(r) PROVE Goal
  BY <1>3 DEF StopMembershipCall, membershipTables, Erase, ForgetRequests, membershipHistory
<1>4. MembershipAtOnce => Goal
  <2>1. ASSUME NEW i, CancelRequest(i) PROVE Frame
    BY <2>1 DEF CancelRequest, membershipHistory
  <2>2. ASSUME NEW u \in Users, NEW c \in Clubs, DeleteClub(u, c) PROVE Goal
    BY <2>2 DEF DeleteClub, membershipHistory
  <2>. QED BY <2>1, <2>2 DEF MembershipAtOnce
<1>5. UNCHANGED membershipVars => Frame
  BY DEF membershipVars, membershipTables, membershipHistory
<1>6. Frame => Goal
  OBVIOUS
<1>. HIDE DEF Goal, Frame
<1>7. Goal
  BY <1>1, <1>2, <1>3, <1>4, <1>5, <1>6, MembershipNext
<1>. QED BY <1>7 DEF Goal

\* A club that goes on does, unless it is deleted, and then it stays deleted.
LEMMA ClubStates ==
    ASSUME ClubsOK, [Next]_vars, NEW c \in Clubs
    PROVE  /\ Live(c) => clubs'[c].state = "live" \/ \E u \in Users : DeleteClub(u, c)
           /\ clubs[c].state = "deleted" => clubs'[c].state = "deleted"
<1>0. clubs \in [Clubs -> ClubRow] /\ clubs[c] \in ClubRow
  BY DEF ClubsOK
<1>1. ASSUME NEW r \in Requests, NEW u \in Users, NEW d \in Clubs, CreateClub(r, u, d),
             clubs[c].state # "free"
      PROVE  clubs'[c] = clubs[c]
  BY <1>0, <1>1 DEF CreateClub
<1>2. ASSUME NEW u \in Users, NEW d \in Clubs, DeleteClub(u, d), d # c
      PROVE  clubs'[c] = clubs[c]
  BY <1>0, <1>2 DEF DeleteClub
<1>3. ASSUME NEW u \in Users, DeleteClub(u, c) PROVE clubs[c].state # "deleted"
  BY <1>3 DEF DeleteClub, Live
<1>. QED BY <1>1, <1>2, <1>3, ClubsChange DEF Live

\* A dummy was there, or is the one being inserted.
DummyNew(d) ==
    /\ d = row.dummy + 1 /\ row'.dummy = d
    /\ \E r \in Requests :
          /\ InsertDummy(r) /\ pc'[r] = "placeholder" /\ loc'[r].who = d
          /\ dummies'[d] = loc'[r].club /\ loc'[r].club = loc[r].club
          /\ Live(loc[r].club) /\ clubs' = clubs

LEMMA DummyGoesOn ==
    ASSUME FlightOK, ClubsOK, KeysOK, [Next]_vars, NEW d \in DOMAIN dummies'
    PROVE  (d \in DOMAIN dummies /\ dummies'[d] = dummies[d]) \/ DummyNew(d)
<1>. DEFINE Old == d \in DOMAIN dummies /\ dummies'[d] = dummies[d]
<1>1. ASSUME NEW ids, dummies' = Without(dummies, ids) PROVE Old
  BY <1>1 DEF Without
<1>2. ASSUME NEW r \in Requests, DropDummy(r) PROVE Old
  BY <1>1, <1>2 DEF DropDummy
<1>3. ASSUME NEW u \in Users, NEW c \in Clubs, DeleteClub(u, c) PROVE Old
  BY <1>1, <1>3 DEF DeleteClub
<1>4. ASSUME NEW r \in Requests, InsertDummy(r), ~Old PROVE DummyNew(d)
  <2>. DEFINE n == row.dummy + 1
              x == [loc[r] EXCEPT !.who = n]
  <2>1. /\ dummies' = With(dummies, n, loc[r].club) /\ Goto(r, "placeholder", x)
        /\ row' = [row EXCEPT !.dummy = n] /\ Live(loc[r].club) /\ clubs' = clubs
    BY <1>4 DEF InsertDummy
  <2>2. x.who = n /\ x.club = loc[r].club
    BY <1>4 DEF InsertDummy, KeysOK, MembershipLabels
  <2>3. [row EXCEPT !.dummy = n].dummy = n
    BY DEF ClubsOK
  <2>4. d = n /\ dummies'[n] = loc[r].club
    BY <1>4, <2>1 DEF With
  <2>. HIDE DEF x, n
  <2>5. pc'[r] = "placeholder" /\ loc'[r] = x
    BY <2>1, GoesTo
  <2>. QED BY <1>4, <2>1, <2>2, <2>3, <2>4, <2>5 DEF DummyNew, n
<1>5. dummies' = dummies => Old
  OBVIOUS
<1>. HIDE DEF Old
<1>6. Old \/ DummyNew(d)
  BY <1>2, <1>3, <1>4, <1>5, PlaceTables
<1>. QED BY <1>6 DEF Old

LEMMA DummyRow ==
    ASSUME ClubsOK, [Next]_vars
    PROVE  \/ row'.dummy = row.dummy
           \/ row'.dummy = row.dummy + 1 /\ \E r \in Requests : InsertDummy(r)
<1>0. row \in [member : Nat, request : Nat, dummy : Nat]
  BY DEF ClubsOK
<1>1. /\ \A n \in Nat : /\ [row EXCEPT !.member = n].dummy = row.dummy
                         /\ [row EXCEPT !.request = n].dummy = row.dummy
                         /\ [row EXCEPT !.dummy = n].dummy = n
      /\ row.member + 1 \in Nat /\ row.request + 1 \in Nat /\ row.dummy + 1 \in Nat
  BY <1>0
<1>2. ASSUME NEW r \in Requests, FoundMember(r) \/ Admit(r) \/ SeatDummy(r) \/ SeatInvited(r)
      PROVE  row' = row \/ row' = [row EXCEPT !.member = row.member + 1]
  BY <1>2 DEF FoundMember, Admit, SeatDummy, SeatInvited, Insert
<1>3. ASSUME NEW r \in Requests, Apply(r) \/ RecordInvitation(r)
      PROVE  row' = row \/ row' = [row EXCEPT !.request = row.request + 1]
  BY <1>3 DEF Apply, RecordInvitation, Record
<1>4. ASSUME NEW r \in Requests, InsertDummy(r)
      PROVE  row' = row \/ row' = [row EXCEPT !.dummy = row.dummy + 1]
  BY <1>4 DEF InsertDummy
<1>. QED BY <1>1, <1>2, <1>3, <1>4, RowChange

LEMMA CountStep ==
    ASSUME FlightOK, OthersOK, ClubsOK, KeysOK, GuestInv, CountInv, [Next]_vars
    PROVE  CountInv'
<1>. DEFINE S == InFlightAt({"dummy"})
            T == {q \in Requests : pc'[q] = "dummy"}
<1>0. /\ S = {q \in Requests : pc[q] = "dummy"} /\ InFlightAt({"dummy"})' = T
      /\ IsFiniteSet(S) /\ IsFiniteSet(T)
      /\ Cardinality(S) \in Nat /\ Cardinality(T) \in Nat
  <2>1. IsFiniteSet(Requests) /\ S \subseteq Requests /\ T \subseteq Requests
    BY InFlightAssumption DEF InFlightAt
  <2>2. IsFiniteSet(S) /\ IsFiniteSet(T)
    BY <2>1, FS_Subset
  <2>. QED BY <2>2, FS_CardinalityType DEF InFlightAt
<1>1. row.dummy \in Nat /\ row'.dummy \in Nat /\ MaxDummies \in Nat
      /\ row.dummy + Cardinality(S) <= MaxDummies
  BY DummyIds, MembershipAssumption DEF CountInv
<1>. HIDE DEF S, T
<1>2. ASSUME NEW q \in Requests, pc'[q] = "dummy"
      PROVE  Stays(q) \/ \E u \in Users, c \in Clubs : CreateDummy(q, u, c)
  <2>1. pc'[q] \in MembershipLabels
    BY <1>2 DEF MembershipLabels
  <2>2. ~(MembershipStep(q) /\ pc'[q] # "idle")
    BY <1>2, StepLocals DEF Follows
  <2>3. BeginMembershipCall(q) => \E u \in Users, c \in Clubs : CreateDummy(q, u, c)
    BY <1>2, BegunInFull DEF Aims, Asked
  <2>. QED BY <2>1, <2>2, <2>3, ClubActs
<1>3. ASSUME NEW r \in Requests, InsertDummy(r) PROVE row'.dummy + Cardinality(T) <= MaxDummies
  <2>1. pc[r] = "dummy" /\ pc'[r] # "dummy"
    <3>1. \A x : Goto(r, "placeholder", x) => pc'[r] = "placeholder"
      BY GoesTo
    <3>2. Done(r) => pc'[r] = "idle"
      BY GoesTo DEF Done
    <3>. QED BY <1>3, <3>1, <3>2 DEF InsertDummy
  <2>2. \A q \in Requests \ {r} : Stays(q)
    BY <1>3, OthersStay DEF MembershipStep
  <2>3. T = S \ {r} /\ r \in S
    BY <1>0, <2>1, <2>2 DEF Stays, T
  <2>4. Cardinality(T) = Cardinality(S) - 1
    BY <1>0, <2>3, FS_RemoveElement
  <2>5. row'.dummy <= row.dummy + 1
    BY <1>1, DummyRow
  <2>. QED BY <1>0, <1>1, <2>4, <2>5
<1>4. ASSUME NEW r \in Requests, NEW u \in Users, NEW c \in Clubs, CreateDummy(r, u, c)
      PROVE  row'.dummy + Cardinality(T) <= MaxDummies
  <2>1. /\ row.dummy + Cardinality(S) < MaxDummies
        /\ row' = row /\ BeginMembershipCall(r)
    <3>1. BeginMembershipCall(r)
      BY <1>4 DEF BeginMembershipCall
    <3>. QED BY <1>4, <3>1 DEF CreateDummy, membershipVars, membershipTables, S
  <2>2. \A q \in Requests \ {r} : Stays(q)
    BY <2>1, OthersStay
  <2>3. T \subseteq S \cup {r}
    BY <1>0, <2>2 DEF Stays, T
  <2>4. IsFiniteSet(S \cup {r}) /\ Cardinality(S \cup {r}) <= Cardinality(S) + 1
        /\ Cardinality(S \cup {r}) \in Nat
    <3>1. /\ IsFiniteSet(S \cup {r})
          /\ Cardinality(S \cup {r}) = Cardinality(S) \/ Cardinality(S \cup {r}) = Cardinality(S) + 1
      BY <1>0, FS_AddElement
    <3>. QED BY <1>0, <3>1
  <2>5. Cardinality(T) <= Cardinality(S \cup {r})
    BY <2>3, <2>4, FS_Subset
  <2>. QED BY <1>0, <1>1, <2>1, <2>4, <2>5
<1>5. ASSUME ~\E r \in Requests : InsertDummy(r),
             ~\E r \in Requests, u \in Users, c \in Clubs : CreateDummy(r, u, c)
      PROVE  row'.dummy + Cardinality(T) <= MaxDummies
  <2>1. T \subseteq S
    BY <1>0, <1>2, <1>5 DEF Stays, T
  <2>2. Cardinality(T) <= Cardinality(S)
    BY <1>0, <2>1, FS_Subset
  <2>3. row'.dummy = row.dummy
    BY <1>5, DummyRow
  <2>. QED BY <1>0, <1>1, <2>2, <2>3
<1>. QED BY <1>0, <1>3, <1>4, <1>5 DEF CountInv

LEMMA DummiesStep ==
    ASSUME FlightOK, ClubsOK, KeysOK, DummiesOK, [Next]_vars
    PROVE  DummiesOK'
<1>. SUFFICES ASSUME NEW d \in DOMAIN dummies'
              PROVE  /\ d \in Nat /\ d <= row'.dummy /\ dummies'[d] \in Clubs
                     /\ clubs'[dummies'[d]].state = "live"
  BY DEF DummiesOK, Live
<1>0. row.dummy \in Nat /\ row'.dummy \in Nat /\ row'.dummy >= row.dummy
  BY DummyIds
<1>1. CASE DummyNew(d)
  BY <1>0, <1>1 DEF DummyNew, Live, ClubsOK, InsertDummy, MembershipLabels
<1>2. CASE d \in DOMAIN dummies /\ dummies'[d] = dummies[d]
  <2>1. d \in Nat /\ d <= row.dummy /\ dummies[d] \in Clubs /\ Live(dummies[d])
    BY <1>2 DEF DummiesOK
  <2>2. ~\E u \in Users : DeleteClub(u, dummies[d])
    BY <1>2 DEF DeleteClub, Without
  <2>. QED BY <1>0, <1>2, <2>1, <2>2, ClubStates
<1>. QED BY <1>1, <1>2, DummyGoesOn

LEMMA RemovalStep ==
    ASSUME FlightOK, OthersOK, ClubsOK, PresidentInv, AdminsInv, RemovalInv, [Next]_vars
    PROVE  RemovalInv'
<1>1. ASSUME NEW q \in Requests, pc'[q] = "unseat" PROVE loc'[q].who \notin Dummy
  <2>1. CASE Stays(q)
    BY <1>1, <2>1 DEF Stays, RemovalInv
  <2>2. CASE ReadMember(q) /\ loc'[q] = loc[q]
    <3>. DEFINE m == loc[q].row
    <3>1. m \in DOMAIN members /\ Proceed(q, IF members[m].who \in Dummy THEN "dropDummy" ELSE "unseat")
      <4>1. ~Done(q)
        BY <1>1, GoesTo DEF Done
      <4>. QED BY <2>2, <4>1 DEF ReadMember
    <3>2. members[m].who \notin Dummy
      BY <1>1, <3>1, GoesTo DEF Proceed
    <3>3. pc[q] \in Changing
      BY <2>2 DEF ReadMember, Changing
    <3>4. members[m].who = loc[q].who
      BY <3>1, <3>3 DEF AdminsInv, AimInv, AimOK
    <3>. QED BY <2>2, <3>2, <3>4
  <2>. QED BY <1>1, <2>1, <2>2, MembershipArrives
<1>2. ASSUME NEW q \in Requests, pc'[q] = "dropUser" PROVE loc'[q].who \notin DOMAIN dummies'
  <2>1. CASE Stays(q)
    <3>1. pc[q] = "dropUser" /\ pc[q] \in Changing /\ loc'[q] = loc[q]
      BY <1>2, <2>1 DEF Stays, Changing
    <3>2. loc[q].who \in Dummy /\ loc[q].who \notin DOMAIN dummies
      BY <3>1 DEF PresidentInv, RemovalInv
    <3>3. loc[q].who <= row.dummy
      BY <3>1, <3>2 DEF AdminsInv, SeatInv
    <3>4. loc[q].who # row.dummy + 1
      BY <3>2, <3>3, MembershipAssumption DEF Dummy, ClubsOK
    <3>. QED BY <3>1, <3>2, <3>4, DummyGoesOn DEF DummyNew, AdminsInv
  <2>2. CASE DropDummy(q) /\ loc'[q] = loc[q]
    BY <2>2 DEF DropDummy, Without
  <2>. QED BY <1>2, <2>1, <2>2, MembershipArrives
<1>. QED BY <1>1, <1>2 DEF RemovalInv

-----------------------------------------------------------------------------
\* How a placeholder goes on.

PlacesInv == DummiesOK /\ RemovalInv /\ CountInv

\* While its dummy is there nothing of it is removed.
LEMMA PlaceKept ==
    ASSUME FlightOK, ClubsOK, PresidentInv, AdminsInv, PlacesInv, [Next]_vars,
           NEW d \in DOMAIN dummies, d \in Dummy, d \in DOMAIN dummies',
           NEW c, c = dummies[d]
    PROVE  /\ dummies'[d] = c
           /\ d \in placeholders => d \in placeholders'
           /\ <<c, d>> \in bots => <<c, d>> \in bots'
           /\ IsMember(c, d) => IsMember(c, d)'
<1>1. dummies'[d] = c
  <2>1. d # row.dummy + 1
    BY DEF PlacesInv, DummiesOK, ClubsOK
  <2>. QED BY <2>1, DummyGoesOn DEF DummyNew, AdminsInv
<1>2. ASSUME NEW r \in Requests, DropUser(r) PROVE loc[r].who # d
  BY <1>2 DEF DropUser, PlacesInv, RemovalInv
<1>3. ASSUME NEW u \in Users, NEW k \in Clubs, DeleteClub(u, k) PROVE k # c
  BY <1>3 DEF DeleteClub, Without
<1>4. ASSUME d \in placeholders PROVE d \in placeholders'
  BY <1>2, <1>4, PlaceTables DEF InsertPlaceholder, DropUser
<1>5. ASSUME <<c, d>> \in bots PROVE <<c, d>> \in bots'
  <2>1. ASSUME NEW r \in Requests, AddBot(r) PROVE <<c, d>> \in bots'
    BY <1>5, <2>1 DEF AddBot
  <2>2. ASSUME NEW r \in Requests, DropUser(r) PROVE <<c, d>> \in bots'
    BY <1>2, <1>5, <2>2 DEF DropUser
  <2>3. ASSUME NEW u \in Users, NEW k \in Clubs, DeleteClub(u, k) PROVE <<c, d>> \in bots'
    BY <1>3, <1>5, <2>3 DEF DeleteClub
  <2>. QED BY <1>5, <2>1, <2>2, <2>3, PlaceTables
<1>6. ASSUME NEW m \in MembersOf(c, d), members[m].member
      PROVE  m \in MembersOf(c, d)' /\ members'[m].member
  <2>0. /\ m \in DOMAIN members /\ members[m].club = c /\ members[m].who = d
        /\ m # row.member + 1 /\ members[m].club \in Clubs
    BY DEF MembersOf, ClubsOK
  <2>1. m \in DOMAIN members'
    BY <1>2, <1>3, <2>0, AdminChange DEF AdminKept
  <2>2. MemberKept(m)
    BY <2>0, <2>1, MemberGoesOn DEF MemberNew
  <2>3. ASSUME NEW r \in Requests, Unseat(r), m = loc[r].row PROVE FALSE
    <3>1. pc[r] = "unseat" /\ pc[r] \in Changing
      BY <2>3 DEF Unseat, Changing
    <3>2. loc[r].who = d
      BY <2>0, <2>3, <3>1 DEF AdminsInv, AimInv, AimOK
    <3>. QED BY <3>1, <3>2 DEF PlacesInv, RemovalInv
  <2>. QED BY <1>6, <2>0, <2>1, <2>2, <2>3 DEF MemberKept, MembersOf
<1>7. IsMember(c, d) => IsMember(c, d)'
  <2>1. ASSUME NEW m \in MembersOf(c, d), members[m].member PROVE IsMember(c, d)'
    <3>1. m \in MembersOf(c, d)' /\ members'[m].member
      BY <1>6, <2>1
    <3>. QED BY <3>1 DEF IsMember
  <2>. QED BY <2>1 DEF IsMember
<1>. QED BY <1>1, <1>4, <1>5, <1>7

LEMMA BuildingGoesOn ==
    ASSUME FlightOK, ClubsOK, PresidentInv, AdminsInv, PlacesInv, [Next]_vars,
           NEW d \in Dummy, NEW r \in Requests, Building(r, d),
           d \in DOMAIN dummies', d \notin stopped'
    PROVE  Building(r, d)' \/ (pc'[r] = "idle" /\ Whole(d)')
<1>c. PICK c : c = dummies[d]
  OBVIOUS
<1>0. /\ loc[r].who = d /\ loc[r].club = c /\ d \in DOMAIN dummies /\ Live(c)
      /\ pc[r] \in {"placeholder", "seatDummy", "bot"} /\ pc[r] \in MembershipLabels
  BY <1>c DEF Building, PlacesInv, DummiesOK, MembershipLabels
<1>1. /\ dummies'[d] = c
      /\ d \in placeholders => d \in placeholders'
      /\ <<c, d>> \in bots => <<c, d>> \in bots'
      /\ IsMember(c, d) => IsMember(c, d)'
  BY <1>0, <1>c, PlaceKept
<1>2. /\ pc[r] \in {"seatDummy", "bot"} => d \in placeholders'
      /\ pc[r] = "bot" => IsMember(c, d)'
  BY <1>1, <1>c DEF Building
<1>3. ASSUME NEW label \in {"placeholder", "seatDummy", "bot"}, pc'[r] = label, loc'[r] = loc[r],
             label # "placeholder" => d \in placeholders',
             label = "bot" => IsMember(c, d)'
      PROVE  Building(r, d)'
  <2>1. label = "bot" => \E m \in DOMAIN members' :
            members'[m].club = dummies'[d] /\ members'[m].who = d /\ members'[m].member
    BY <1>1, <1>3 DEF IsMember, MembersOf
  <2>. QED BY <1>0, <1>1, <1>3, <2>1 DEF Building, IsMember, MembersOf
<1>4. CASE Stays(r)
  BY <1>0, <1>2, <1>3, <1>4 DEF Stays
<1>5. CASE InsertPlaceholder(r)
  <2>1. pc'[r] = "seatDummy" /\ loc'[r] = loc[r] /\ d \in placeholders'
    BY <1>0, <1>5, GoesTo DEF InsertPlaceholder, Proceed
  <2>. QED BY <1>3, <2>1
<1>6. CASE SeatDummy(r)
  <2>. DEFINE x == [club |-> loc[r].club, who |-> loc[r].who, member |-> TRUE, admin |-> FALSE]
  <2>0. x.club = c /\ x.who = d /\ x.member
    BY <1>0
  <2>. HIDE DEF x
  <2>1. Insert(x) /\ Proceed(r, "bot")
    BY <1>0, <1>6 DEF SeatDummy, x
  <2>2. pc'[r] = "bot" /\ loc'[r] = loc[r] /\ pc[r] = "seatDummy"
    BY <1>6, <2>1, GoesTo DEF Proceed, SeatDummy
  <2>3. row.member + 1 \in DOMAIN members' /\ members'[row.member + 1] = x
    BY <2>1 DEF Insert, With
  <2>4. IsMember(c, d)'
    BY <2>0, <2>3 DEF IsMember, MembersOf
  <2>. QED BY <1>2, <1>3, <2>2, <2>4
<1>7. CASE AddBot(r)
  <2>0. pc[r] = "bot" /\ pc'[r] = "idle" /\ dummies' = dummies
    BY <1>7, GoesTo DEF AddBot, Done
  <2>1. d \in placeholders
    BY <2>0 DEF Building
  <2>2. <<c, d>> \in bots'
    BY <1>0, <1>7, <2>1 DEF AddBot
  <2>3. \E m \in DOMAIN members' :
            members'[m].club = dummies'[d] /\ members'[m].who = d /\ members'[m].member
    BY <1>1, <1>2, <2>0 DEF IsMember, MembersOf
  <2>4. Whole(d)'
    BY <1>1, <1>2, <2>0, <2>2, <2>3 DEF Whole, IsMember, MembersOf
  <2>. QED BY <2>0, <2>4
<1>8. ~StopMembershipCall(r)
  BY <1>0 DEF StopMembershipCall
<1>9. MembershipStep(r) => InsertPlaceholder(r) \/ SeatDummy(r) \/ AddBot(r)
  BY <1>0, OneStatement
<1>. QED BY <1>0, <1>4, <1>5, <1>6, <1>7, <1>8, <1>9, CallGoesOn

\* What is gone is not made again: its number is not given out twice.
LEMMA GoneStays ==
    ASSUME FlightOK, OthersOK, ClubsOK, AdminsInv, [Next]_vars,
           NEW d \in Dummy, d <= row.dummy, Gone(d),
           \A r \in Requests : pc[r] \in Seating => loc[r].who # d
    PROVE  Gone(d)'
<1>0. d \in Nat /\ d # row.dummy + 1 /\ d \notin Users
  BY MembershipAssumption DEF Dummy, ClubsOK
<1>1. d \notin DOMAIN dummies'
  BY <1>0, DummyGoesOn DEF Gone, DummyNew, AdminsInv
<1>2. d \notin placeholders'
  BY PlaceTables DEF Gone, InsertPlaceholder, DropUser, Seating
<1>3. ASSUME NEW c \in Clubs PROVE <<c, d>> \notin bots'
  <2>1. ASSUME NEW r \in Requests, AddBot(r) PROVE <<c, d>> \notin bots'
    <3>1. loc[r].who \in placeholders => <<loc[r].club, loc[r].who>> # <<c, d>>
      BY DEF Gone
    <3>. QED BY <2>1, <3>1 DEF AddBot, Gone
  <2>. QED BY <2>1, PlaceTables DEF Gone, DropUser, DeleteClub
<1>4. ASSUME NEW c \in Clubs PROVE MembersOf(c, d)' = {}
  <2>1. ASSUME NEW m \in DOMAIN members', members'[m].club = c, members'[m].who = d PROVE FALSE
    <3>1. CASE m \in DOMAIN members
      <4>1. MemberKept(m)
        BY <3>1, MemberGoesOn DEF MemberNew, ClubsOK
      <4>2. m \in MembersOf(c, d)
        BY <2>1, <4>1 DEF MemberKept, MembersOf
      <4>. QED BY <4>2 DEF Gone
    <3>2. CASE m \notin DOMAIN members
      <4>1. PICK r \in Requests : /\ FoundMember(r) \/ Admit(r) \/ SeatDummy(r) \/ SeatInvited(r)
                                  /\ loc[r].who = d
        BY <2>1, <3>2, NewRow
      <4>2. ~SeatDummy(r)
        BY <4>1 DEF SeatDummy, Seating
      <4>3. pc[r] \in Guests
        BY <4>1, <4>2 DEF FoundMember, Admit, SeatInvited, Guests
      <4>. QED BY <1>0, <4>1, <4>3 DEF AdminsInv, GuestInv
    <3>. QED BY <3>1, <3>2
  <2>. QED BY <2>1 DEF MembersOf
<1>. QED BY <1>1, <1>2, <1>3, <1>4 DEF Gone

LEMMA RazingGoesOn ==
    ASSUME FlightOK, ClubsOK, AdminsInv, PlacesInv, [Next]_vars,
           NEW d \in Dummy, NEW r \in Requests, Razing(r, d), d \notin stopped'
    PROVE  Razing(r, d)' \/ Gone(d)'
<1>0. /\ pc[r] = "dropUser" /\ loc[r].who = d /\ pc[r] \in MembershipLabels /\ pc[r] \in Changing
      /\ d \notin DOMAIN dummies
  BY DEF Razing, MembershipLabels, Changing, PlacesInv, RemovalInv
<1>1. CASE Stays(r)
  BY <1>0, <1>1 DEF Stays, Razing
<1>2. CASE DropUser(r)
  <2>1. /\ placeholders' = placeholders \ {d} /\ dummies' = dummies
        /\ members' = Without(members, {m \in DOMAIN members : members[m].who = d})
        /\ bots' = {b \in bots : b[2] # d}
    BY <1>0, <1>2 DEF DropUser
  <2>2. \A c : MembersOf(c, d)' = {}
    BY <2>1 DEF MembersOf, Without
  <2>. QED BY <1>0, <2>1, <2>2 DEF Gone
<1>3. ~StopMembershipCall(r)
  BY <1>0 DEF StopMembershipCall
<1>4. MembershipStep(r) => DropUser(r)
  BY <1>0 DEF MembershipStep, FoundMember, Apply, FindMember, Admit, ClearRequest, ReadMember,
     Unseat, DropDummy, InsertDummy, InsertPlaceholder, SeatDummy, AddBot, MakeAdmin, UnmakeAdmin,
     WriteAdmin, RecordInvitation, FindInvited, SeatInvited
<1>. QED BY <1>0, <1>1, <1>2, <1>3, <1>4, CallGoesOn

LEMMA DummyBound ==
    ASSUME ClubsOK, CountInv, NEW d \in 1..row.dummy
    PROVE  d \in Dummy
<1>1. InFlightAt({"dummy"}) \subseteq Requests /\ IsFiniteSet(Requests)
  BY InFlightAssumption DEF InFlightAt
<1>2. Cardinality(InFlightAt({"dummy"})) \in Nat
  BY <1>1, FS_Subset, FS_CardinalityType
<1>3. row.dummy \in Nat /\ MaxDummies \in Nat
  BY MembershipAssumption DEF ClubsOK
<1>4. row.dummy <= MaxDummies
  BY <1>2, <1>3 DEF CountInv
<1>. QED BY <1>3, <1>4 DEF Dummy

LEMMA NewIsFine ==
    ASSUME FlightOK, OthersOK, ClubsOK, AdminsInv, PlacesInv, [Next]_vars,
           NEW d \in 1..row'.dummy, d \notin 1..row.dummy
    PROVE  Fine(d)'
<1>0. row.dummy \in Nat /\ row'.dummy \in Nat
  BY DummyIds
<1>1. PICK r \in Requests : InsertDummy(r) /\ row'.dummy = row.dummy + 1 /\ d = row.dummy + 1
  BY <1>0, DummyRow
<1>2. d \in DOMAIN dummies' /\ d \notin DOMAIN dummies
  <2>1. dummies' = With(dummies, row.dummy + 1, loc[r].club)
    BY <1>0, <1>1 DEF InsertDummy
  <2>. QED BY <1>0, <1>1, <2>1 DEF With, PlacesInv, DummiesOK
<1>3. DummyNew(d)
  BY <1>2, DummyGoesOn DEF AdminsInv
<1>4. PICK q \in Requests :
          /\ InsertDummy(q) /\ pc'[q] = "placeholder" /\ loc'[q].who = d
          /\ dummies'[d] = loc'[q].club
  BY <1>3 DEF DummyNew
<1>5. Building(q, d)'
  BY <1>2, <1>4 DEF Building
<1>6. ASSUME NEW p \in Requests, pc'[p] \in Seating, loc'[p].who = d PROVE p = q
  <2>1. ASSUME p # q PROVE FALSE
    <3>1. Stays(p)
      BY <1>4, <2>1, OthersStay DEF MembershipStep
    <3>2. loc[p].who <= row.dummy
      BY <1>6, <3>1 DEF Stays, AdminsInv, SeatInv
    <3>. QED BY <1>0, <1>1, <1>6, <3>1, <3>2 DEF Stays
  <2>. QED BY <2>1
<1>. QED BY <1>5, <1>6 DEF Fine

LEMMA FineGoesOn ==
    ASSUME FlightOK, OthersOK, ClubsOK, PresidentInv, AdminsInv, PlacesInv, [Next]_vars,
           NEW d \in 1..row.dummy, d \notin stopped', Fine(d)
    PROVE  Fine(d)'
<1>0. d \in Dummy /\ row.dummy \in Nat /\ d # row.dummy + 1 /\ d <= row.dummy
  BY DummyBound DEF PlacesInv, ClubsOK
<1>1. d \in DOMAIN dummies' => d \in DOMAIN dummies
  BY <1>0, DummyGoesOn DEF DummyNew, AdminsInv
\* A request with the placeholder to seat had it before.
<1>2. ASSUME NEW q \in Requests, pc'[q] \in Seating, loc'[q].who = d
      PROVE  pc[q] \in Seating /\ loc[q].who = d
  BY <1>0, <1>2, Seats DEF AdminsInv
<1>3. CASE Orphan(d)
  <2>1. PICK c \in Clubs : clubs[c].state = "deleted"
    BY <1>3 DEF Orphan
  <2>2. clubs'[c].state = "deleted"
    BY <2>1, ClubStates
  <2>. QED BY <1>1, <1>3, <2>2 DEF Fine, Orphan
<1>4. CASE ~Orphan(d) /\ d \in DOMAIN dummies /\ d \notin DOMAIN dummies'
  <2>1. ASSUME NEW u \in Users, NEW c \in Clubs, DeleteClub(u, c) PROVE Fine(d)'
    <3>1. clubs' = [clubs EXCEPT ![c] = [clubs[c] EXCEPT !.state = "deleted"]]
      BY <2>1 DEF DeleteClub
    <3>2. [clubs[c] EXCEPT !.state = "deleted"].state = "deleted" /\ clubs \in [Clubs -> ClubRow]
      BY DEF ClubsOK, ClubRow
    <3>3. clubs'[c].state = "deleted"
      BY <3>1, <3>2
    <3>. QED BY <1>4, <3>3 DEF Fine, Orphan
  <2>2. ASSUME NEW r \in Requests, DropDummy(r) PROVE Fine(d)'
    <3>1. /\ pc[r] = "dropDummy" /\ pc'[r] = "dropUser" /\ loc'[r] = loc[r]
          /\ dummies' = Without(dummies, {loc[r].who})
      BY <2>2, GoesTo DEF DropDummy, Proceed
    <3>2. loc[r].who = d
      BY <1>4, <3>1 DEF Without
    <3>3. Razing(r, d)'
      BY <3>1, <3>2 DEF Razing
    <3>4. ASSUME NEW q \in Requests, pc'[q] \in Seating, loc'[q].who = d PROVE FALSE
      <4>1. pc[q] \in Seating /\ loc[q].who = d /\ q # r
        BY <1>2, <3>1, <3>4 DEF Seating
      <4>2. pc[r] \in Changing
        BY <3>1 DEF Changing
      <4>. QED BY <1>0, <3>2, <4>1, <4>2 DEF AdminsInv, SeatInv
    <3>. QED BY <3>3, <3>4 DEF Fine
  <2>3. ASSUME NEW r \in Requests, InsertDummy(r) PROVE FALSE
    BY <1>4, <2>3 DEF InsertDummy, With
  <2>. QED BY <1>4, <2>1, <2>2, <2>3, PlaceTables
<1>5. CASE ~Orphan(d) /\ (d \in DOMAIN dummies => d \in DOMAIN dummies')
  <2>0. /\ \A r \in Requests : pc[r] \in Seating /\ loc[r].who = d => Building(r, d)
        /\ Whole(d) \/ Gone(d) \/ \E r \in Requests : Building(r, d) \/ Razing(r, d)
    BY <1>5 DEF Fine
  <2>1. ASSUME NEW r \in Requests, Building(r, d)
        PROVE  Building(r, d)' \/ (pc'[r] = "idle" /\ Whole(d)')
    <3>1. d \in DOMAIN dummies'
      BY <1>5, <2>1 DEF Building
    <3>. QED BY <1>0, <2>1, <3>1, BuildingGoesOn
  <2>2. ASSUME NEW q \in Requests, pc'[q] \in Seating, loc'[q].who = d PROVE Building(q, d)'
    BY <1>2, <2>0, <2>1, <2>2 DEF Seating
  <2>3. CASE Whole(d)
    <3>1. PICK c : c = dummies[d] /\ d \in DOMAIN dummies /\ d \in DOMAIN dummies'
      BY <1>5, <2>3 DEF Whole
    <3>2. dummies'[d] = c /\ d \in placeholders' /\ <<c, d>> \in bots' /\ IsMember(c, d)'
      BY <1>0, <2>3, <3>1, PlaceKept DEF Whole
    <3>3. Whole(d)'
      BY <3>1, <3>2 DEF Whole, IsMember, MembersOf
    <3>. QED BY <2>2, <3>3 DEF Fine
  <2>4. CASE Gone(d)
    <3>1. \A r \in Requests : pc[r] \in Seating => loc[r].who # d
      BY <2>0, <2>4 DEF Gone, Building
    <3>2. Gone(d)'
      BY <1>0, <2>4, <3>1, GoneStays
    <3>. QED BY <2>2, <3>2 DEF Fine
  <2>5. ASSUME NEW r \in Requests, Building(r, d) PROVE Fine(d)'
    BY <2>1, <2>2, <2>5 DEF Fine
  <2>6. ASSUME NEW r \in Requests, Razing(r, d) PROVE Fine(d)'
    <3>1. Razing(r, d)' \/ Gone(d)'
      BY <1>0, <2>6, RazingGoesOn
    <3>. QED BY <2>2, <3>1 DEF Fine
  <2>. QED BY <2>0, <2>3, <2>4, <2>5, <2>6
<1>. QED BY <1>3, <1>4, <1>5

LEMMA PlacesInit == Init => PlacesInv
<1>. SUFFICES ASSUME Init PROVE PlacesInv
  OBVIOUS
<1>1. /\ dummies = [d \in {} |-> None] /\ row.dummy = 0
      /\ \A q \in Requests : pc[q] = "idle"
  BY DEF Init, FlightInit, MembershipInit
<1>2. DummiesOK /\ RemovalInv
  BY <1>1 DEF DummiesOK, RemovalInv
<1>3. CountInv
  <2>1. InFlightAt({"dummy"}) = {}
    BY <1>1 DEF InFlightAt
  <2>2. Cardinality({}) = 0 /\ MaxDummies \in Nat
    BY FS_EmptySet, MembershipAssumption
  <2>3. Cardinality(InFlightAt({"dummy"})) = 0
    BY <2>1, <2>2
  <2>4. row.dummy + Cardinality(InFlightAt({"dummy"})) = 0
    BY <1>1, <2>3
  <2>. QED BY <2>2, <2>4 DEF CountInv
<1>. QED BY <1>2, <1>3 DEF PlacesInv

\* A placeholder member is whole or gone: dummy, users row, membership and bot
\* are all there or none is, unless a request is making or removing it, or one
\* stopped, or its club was deleted (create_dummy_user, remove_member), for any
\* number of requests.
THEOREM WholeOrGone == Spec => []PlaceholdersAreWhole
<1>. DEFINE Inv == /\ OthersOK /\ ClubsOK /\ PresidentInv /\ FoundedInv /\ AdminsInv
                   /\ PlacesInv /\ WholeInv
<1>1. Init => Inv
  <2>1. Init => WholeInv
    BY DEF Init, MembershipInit, WholeInv
  <2>. QED BY <2>1, OthersInit, ClubsInit, AdminsInit, PlacesInit
<1>2. (FlightOK /\ TablesOK) /\ Inv /\ [Next]_vars => Inv'
  <2>. SUFFICES ASSUME FlightOK, TablesOK, Inv, [Next]_vars PROVE Inv'
    OBVIOUS
  <2>1. OthersOK' /\ ClubsOK' /\ PresidentInv' /\ FoundedInv' /\ AdminsInv'
    BY OthersStep, ClubsStep, PresidentStep, FoundedStep, AdminsStep
  <2>2. PlacesInv'
    BY CountStep, DummiesStep, RemovalStep DEF PlacesInv, AdminsInv
  <2>3. ASSUME NEW d \in 1..row'.dummy, d \notin stopped' PROVE Fine(d)'
    <3>1. CASE d \in 1..row.dummy
      <4>1. Fine(d)
        BY <2>3, <3>1, PlaceTables DEF WholeInv
      <4>. QED BY <2>3, <3>1, <4>1, FineGoesOn
    <3>2. CASE d \notin 1..row.dummy
      BY <2>3, <3>2, NewIsFine
    <3>. QED BY <3>1, <3>2
  <2>4. WholeInv'
    BY <2>3 DEF WholeInv
  <2>. QED BY <2>1, <2>2, <2>4
<1>3. Inv => PlaceholdersAreWhole
  <2>. SUFFICES ASSUME WholeInv, NEW d \in (1..row.dummy) \ stopped
                PROVE  \/ \E r \in InFlightAt(MembershipLabels) : loc[r].who = d
                       \/ Orphan(d) \/ Whole(d) \/ Gone(d)
    BY DEF PlaceholdersAreWhole, Orphan, Whole, Gone
  <2>1. Fine(d)
    BY DEF WholeInv
  <2>. QED BY <2>1 DEF Fine, Building, Razing, InFlightAt, MembershipLabels
<1>. QED BY <1>1, <1>2, <1>3, TypesHold, PTL DEF Spec
=============================================================================
