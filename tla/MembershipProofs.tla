-------------------------- MODULE MembershipProofs --------------------------
(***************************************************************************)
(* Proofs that a club keeps its president among its members, and that the  *)
(* logo it shows is in store, for the whole server.  Removing a member     *)
(* reads the row, decides, and writes later; nothing reads the row or the  *)
(* club again.  What makes that safe is that a row never changes its club  *)
(* or its person, that ids are not given out twice, and that a club never  *)
(* changes its president: so what was decided of a row stays true of it    *)
(* (PresidentInv).  Whatever a request asks, and whichever club its other  *)
(* ids are of, the club it is about was founded before (FoundedInv).       *)
(*                                                                         *)
(* The requests about the logo of one club are of one kind while any is in *)
(* flight, unless two have crossed: then nobody deletes the file that an   *)
(* upload is about to show (LogoInv).                                      *)
(***************************************************************************)
EXTENDS AccountsProofs, FiniteSetTheorems

\* Types, as far as the proof needs them.
ClubsOK ==
    /\ clubs \in [Clubs -> ClubRow]
    /\ row \in [member : Nat, request : Nat, dummy : Nat]
    /\ \A m \in DOMAIN members :
          /\ m \in Nat /\ m <= row.member
          /\ {"club", "who", "member", "admin"} \subseteq DOMAIN members[m]
          /\ members[m].club \in Clubs
    /\ \A i \in DOMAIN memberRequests : memberRequests[i].club \in Clubs
    /\ \A q \in Requests : pc[q] \in MembershipLabels => loc[q].club \in Clubs

\* The row that a removal is about is not reused for another membership.
SameRow(l) ==
    /\ l.row \in Nat /\ l.row <= row.member
    /\ l.row \in DOMAIN members => members[l.row].who = l.who

President(c) == clubs[c].president

PresidentInv ==
    /\ \A m \in DOMAIN members : clubs[members[m].club].state # "free"
    /\ \A c \in Clubs : Live(c) =>
          \/ IsMember(c, President(c))
          \/ c \in unfounded
          \/ \E r \in Requests : pc[r] = "found" /\ loc[r].club = c
    /\ \A q \in Requests : pc[q] = "found" =>
          clubs[loc[q].club].state # "free" /\ loc[q].who = President(loc[q].club)
    /\ \A q \in Requests : pc[q] \in {"readMember", "unseat"} => SameRow(loc[q])
    /\ \A q \in Requests : pc[q] = "unseat" =>
          (loc[q].row \in DOMAIN members => loc[q].who # President(members[loc[q].row].club))
    /\ \A q \in Requests : pc[q] \in {"dropDummy", "dropUser"} => loc[q].who \in Dummy

FoundedInv ==
    /\ \A i \in DOMAIN memberRequests : clubs[memberRequests[i].club].state # "free"
    /\ \A q \in Requests : pc[q] \in MembershipLabels => clubs[loc[q].club].state # "free"

-----------------------------------------------------------------------------
\* The statements that write each table.

LEMMA MembershipNext ==
    ASSUME [Next]_vars
    PROVE  \/ UNCHANGED membershipVars
           \/ MembershipAtOnce
           \/ \E r \in Requests : \/ BeginMembershipCall(r) \/ MembershipStep(r)
                                  \/ StopMembershipCall(r) \/ Erase(r)
BY DEF Next, AtOnce, Begin, Step, Stop, vars

LEMMA BeginTables ==
    ASSUME NEW r \in Requests, BeginMembershipCall(r)
    PROVE  /\ members' = members /\ row' = row /\ memberRequests' = memberRequests
           /\ disturbed \subseteq disturbed' /\ unfounded' = unfounded /\ invited' = invited
           /\ \/ clubs' = clubs
              \/ \E u \in Users, c \in Clubs : CreateClub(r, u, c)
<1>. DEFINE Goal == /\ members' = members /\ row' = row /\ memberRequests' = memberRequests
                    /\ disturbed \subseteq disturbed' /\ unfounded' = unfounded
                    /\ invited' = invited
            Frame == Goal /\ clubs' = clubs
<1>1. ASSUME NEW label, NEW x, BeginFor(r, label, x) PROVE Frame
  BY <1>1 DEF BeginFor, membershipTables
<1>2. ASSUME NEW u \in Users, NEW c \in Clubs, CreateClub(r, u, c) PROVE Goal
  BY <1>2 DEF CreateClub, membershipHistory
<1>3. ASSUME NEW u \in Users, NEW c \in Clubs, RequestToJoin(r, u, c) \/ CreateDummy(r, u, c)
      PROVE  Frame
  BY <1>1, <1>3 DEF RequestToJoin, CreateDummy, membershipVars, membershipTables,
     membershipHistory
<1>4. ASSUME NEW u \in Users, NEW i, AcceptRequest(r, u, i) \/ RejectRequest(r, u, i)
      PROVE  Frame
  BY <1>1, <1>4 DEF AcceptRequest, RejectRequest, BeginAnswer
<1>5. ASSUME NEW u \in Users, NEW m,
             \/ DeleteMember(r, u, m) \/ LeaveClub(r, u, m)
             \/ PromoteMember(r, u, m) \/ DemoteMember(r, u, m)
      PROVE  Frame
  BY <1>1, <1>5 DEF DeleteMember, LeaveClub, PromoteMember, DemoteMember, BeginMemberCall
<1>6. ASSUME NEW u \in Users, NEW c \in Clubs, NEW who \in Users, Invite(r, u, c, who) PROVE Frame
  BY <1>1, <1>6 DEF Invite
<1>. HIDE DEF Goal
<1>. QED BY <1>2, <1>3, <1>4, <1>5, <1>6 DEF BeginMembershipCall, Goal

LEMMA ClubsChange ==
    ASSUME [Next]_vars
    PROVE  \/ clubs' = clubs
           \/ \E r \in Requests, u \in Users, c \in Clubs : CreateClub(r, u, c)
           \/ \E u \in Users, c \in Clubs : DeleteClub(u, c)
<1>1. ASSUME NEW r \in Requests, MembershipStep(r) PROVE clubs' = clubs
  BY <1>1 DEF MembershipStep, FoundMember, Apply, FindMember, Admit, ClearRequest, ReadMember,
     Unseat, DropDummy, DropUser, InsertDummy, InsertPlaceholder, SeatDummy, AddBot, MakeAdmin,
     UnmakeAdmin, WriteAdmin, RecordInvitation, FindInvited, SeatInvited, membershipVars,
     membershipTables
<1>2. ASSUME NEW r \in Requests, StopMembershipCall(r) \/ Erase(r) PROVE clubs' = clubs
  BY <1>2 DEF StopMembershipCall, membershipTables, Erase, ForgetRequests
<1>3. MembershipAtOnce => clubs' = clubs \/ \E u \in Users, c \in Clubs : DeleteClub(u, c)
  BY DEF MembershipAtOnce, CancelRequest
<1>4. UNCHANGED membershipVars => clubs' = clubs
  BY DEF membershipVars, membershipTables
<1>. QED BY <1>1, <1>2, <1>3, <1>4, BeginTables, MembershipNext

LEMMA MembersChange ==
    ASSUME [Next]_vars
    PROVE  \/ members' = members
           \/ \E r \in Requests : \/ FoundMember(r) \/ Admit(r) \/ SeatDummy(r) \/ Unseat(r)
                                  \/ DropUser(r) \/ MakeAdmin(r) \/ UnmakeAdmin(r)
                                  \/ SeatInvited(r)
           \/ \E u \in Users, c \in Clubs : DeleteClub(u, c)
<1>1. ASSUME NEW r \in Requests, MembershipStep(r)
      PROVE  \/ members' = members
             \/ FoundMember(r) \/ Admit(r) \/ SeatDummy(r) \/ Unseat(r)
             \/ DropUser(r) \/ MakeAdmin(r) \/ UnmakeAdmin(r) \/ SeatInvited(r)
  BY <1>1 DEF MembershipStep, Apply, FindMember, ClearRequest, ReadMember, DropDummy,
     InsertDummy, InsertPlaceholder, AddBot, RecordInvitation, FindInvited, membershipVars,
     membershipTables
<1>2. ASSUME NEW r \in Requests, StopMembershipCall(r) \/ Erase(r) PROVE members' = members
  BY <1>2 DEF StopMembershipCall, membershipTables, Erase, ForgetRequests
<1>3. MembershipAtOnce => members' = members \/ \E u \in Users, c \in Clubs : DeleteClub(u, c)
  BY DEF MembershipAtOnce, CancelRequest
<1>4. UNCHANGED membershipVars => members' = members
  BY DEF membershipVars, membershipTables
<1>. QED BY <1>1, <1>2, <1>3, <1>4, BeginTables, MembershipNext

LEMMA RowChange ==
    ASSUME [Next]_vars
    PROVE  \/ row' = row
           \/ \E r \in Requests : \/ FoundMember(r) \/ Admit(r) \/ SeatDummy(r) \/ SeatInvited(r)
                                  \/ Apply(r) \/ RecordInvitation(r) \/ InsertDummy(r)
<1>1. ASSUME NEW r \in Requests, MembershipStep(r)
      PROVE  \/ row' = row
             \/ FoundMember(r) \/ Admit(r) \/ SeatDummy(r) \/ SeatInvited(r)
             \/ Apply(r) \/ RecordInvitation(r) \/ InsertDummy(r)
  BY <1>1 DEF MembershipStep, FindMember, ClearRequest, ReadMember, Unseat, DropDummy, DropUser,
     InsertPlaceholder, AddBot, MakeAdmin, UnmakeAdmin, WriteAdmin, FindInvited, membershipVars,
     membershipTables
<1>2. ASSUME NEW r \in Requests, StopMembershipCall(r) \/ Erase(r) PROVE row' = row
  BY <1>2 DEF StopMembershipCall, membershipTables, Erase, ForgetRequests
<1>3. MembershipAtOnce => row' = row
  BY DEF MembershipAtOnce, DeleteClub, CancelRequest
<1>4. UNCHANGED membershipVars => row' = row
  BY DEF membershipVars, membershipTables
<1>. QED BY <1>1, <1>2, <1>3, <1>4, BeginTables, MembershipNext

LEMMA DisturbedGrows ==
    ASSUME [Next]_vars
    PROVE  disturbed \subseteq disturbed' /\ unfounded \subseteq unfounded'
<1>1. ASSUME NEW r \in Requests, MembershipStep(r)
      PROVE  disturbed' = disturbed /\ unfounded' = unfounded
  BY <1>1 DEF MembershipStep, FoundMember, Apply, FindMember, Admit, ClearRequest, ReadMember,
     Unseat, DropDummy, DropUser, InsertDummy, InsertPlaceholder, SeatDummy, AddBot, MakeAdmin,
     UnmakeAdmin, WriteAdmin, RecordInvitation, FindInvited, SeatInvited, membershipVars,
     membershipHistory
<1>2. ASSUME NEW r \in Requests, StopMembershipCall(r) \/ Erase(r)
      PROVE  disturbed \subseteq disturbed' /\ unfounded \subseteq unfounded'
  BY <1>2 DEF StopMembershipCall, Erase, ForgetRequests, membershipHistory
<1>3. MembershipAtOnce => disturbed' = disturbed /\ unfounded' = unfounded
  BY DEF MembershipAtOnce, DeleteClub, CancelRequest, membershipHistory
<1>4. UNCHANGED membershipVars => disturbed' = disturbed /\ unfounded' = unfounded
  BY DEF membershipVars, membershipHistory
<1>. QED BY <1>1, <1>2, <1>3, <1>4, BeginTables, MembershipNext

-----------------------------------------------------------------------------
\* How a club and a row of members go on.

\* Once founded, a club stays founded under the same president.
LEMMA ClubKept ==
    ASSUME ClubsOK, [Next]_vars, NEW c \in Clubs, clubs[c].state # "free"
    PROVE  clubs'[c].state # "free" /\ clubs'[c].president = clubs[c].president
<1>0. clubs \in [Clubs -> ClubRow] /\ clubs[c] \in ClubRow
  BY DEF ClubsOK
<1>1. ASSUME NEW r \in Requests, NEW u \in Users, NEW d \in Clubs, CreateClub(r, u, d)
      PROVE  clubs'[c] = clubs[c]
  BY <1>0, <1>1 DEF CreateClub
<1>2. ASSUME NEW u \in Users, NEW d \in Clubs, DeleteClub(u, d)
      PROVE  clubs'[c].state # "free" /\ clubs'[c].president = clubs[c].president
  <2>1. clubs' = [clubs EXCEPT ![d] = [clubs[d] EXCEPT !.state = "deleted"]]
    BY <1>2 DEF DeleteClub
  <2>2. /\ [clubs[c] EXCEPT !.state = "deleted"].state = "deleted"
        /\ [clubs[c] EXCEPT !.state = "deleted"].president = clubs[c].president
    BY <1>0 DEF ClubRow
  <2>. QED BY <1>0, <2>1, <2>2
<1>. QED BY <1>1, <1>2, ClubsChange

LEMMA IdsGrow ==
    ASSUME ClubsOK, [Next]_vars
    PROVE  /\ row' \in [member : Nat, request : Nat, dummy : Nat]
           /\ row.member \in Nat /\ row'.member >= row.member
<1>. DEFINE Ids == [member : Nat, request : Nat, dummy : Nat]
<1>0. row \in Ids
  BY DEF ClubsOK
<1>1. /\ \A n \in Nat : /\ [row EXCEPT !.member = n] \in Ids
                         /\ [row EXCEPT !.member = n].member = n
      /\ \A n \in Nat : /\ [row EXCEPT !.request = n] \in Ids
                         /\ [row EXCEPT !.request = n].member = row.member
      /\ \A n \in Nat : /\ [row EXCEPT !.dummy = n] \in Ids
                         /\ [row EXCEPT !.dummy = n].member = row.member
      /\ row.member \in Nat /\ row.member + 1 \in Nat /\ row.request + 1 \in Nat
      /\ row.dummy + 1 \in Nat
  BY <1>0
<1>2. ASSUME NEW r \in Requests, FoundMember(r) \/ Admit(r) \/ SeatDummy(r) \/ SeatInvited(r)
      PROVE  row' = row \/ row' = [row EXCEPT !.member = row.member + 1]
  BY <1>2 DEF FoundMember, Admit, SeatDummy, SeatInvited, Insert
<1>3. ASSUME NEW r \in Requests, Apply(r) \/ RecordInvitation(r) \/ InsertDummy(r)
      PROVE  \/ row' = row \/ row' = [row EXCEPT !.request = row.request + 1]
             \/ row' = [row EXCEPT !.dummy = row.dummy + 1]
  BY <1>3 DEF Apply, RecordInvitation, Record, InsertDummy
<1>4. \/ row' = row \/ row' = [row EXCEPT !.member = row.member + 1]
      \/ row' = [row EXCEPT !.request = row.request + 1]
      \/ row' = [row EXCEPT !.dummy = row.dummy + 1]
  BY <1>2, <1>3, RowChange
<1>. QED BY <1>0, <1>1, <1>4

\* The old row m keeps its club and its person, and stays a membership unless it
\* is being unseated.
MemberKept(m) ==
    /\ m \in DOMAIN members
    /\ members'[m].club = members[m].club /\ members'[m].who = members[m].who
    /\ {"club", "who", "member", "admin"} \subseteq DOMAIN members'[m]
    /\ members[m].member =>
          members'[m].member \/ \E r \in Requests : Unseat(r) /\ m = loc[r].row

\* The row is of the club and the person that the request is about, and a
\* membership unless the person is invited.
RowFor(r, x) ==
    /\ pc[r] \in MembershipLabels \ {"apply"}
    /\ x.club = loc[r].club /\ x.who = loc[r].who
    /\ x.member \/ pc[r] = "seatInvited"

\* A new row is of a live club.
MemberNew(m) ==
    /\ m = row.member + 1 /\ row'.member = m
    /\ \E r \in Requests : RowFor(r, members'[m])
    /\ {"club", "who", "member", "admin"} \subseteq DOMAIN members'[m]
    /\ clubs' = clubs /\ members'[m].club \in Clubs /\ Live(members'[m].club)

\* Inserting leaves the old rows as they are.
LEMMA Inserted ==
    ASSUME ClubsOK, NEW r \in Requests, NEW x, Insert(x), RowFor(r, x), Live(loc[r].club),
           {"club", "who", "member", "admin"} \subseteq DOMAIN x, clubs' = clubs
    PROVE  /\ DOMAIN members' = DOMAIN members \cup {row.member + 1}
           /\ \A m \in DOMAIN members : members'[m] = members[m] /\ MemberKept(m)
           /\ members'[row.member + 1] = x /\ MemberNew(row.member + 1)
<1>1. /\ members' = With(members, row.member + 1, x)
      /\ row' = [row EXCEPT !.member = row.member + 1]
  BY DEF Insert
<1>2. /\ row.member \in Nat /\ row'.member = row.member + 1
      /\ \A m \in DOMAIN members : m # row.member + 1
  BY <1>1 DEF ClubsOK
<1>3. /\ DOMAIN members' = DOMAIN members \cup {row.member + 1}
      /\ \A m \in DOMAIN members : members'[m] = members[m]
      /\ members'[row.member + 1] = x
  BY <1>1, <1>2 DEF With
<1>4. \A m \in DOMAIN members : MemberKept(m)
  BY <1>3 DEF MemberKept, ClubsOK
<1>5. x.club \in Clubs /\ Live(x.club)
  BY DEF RowFor, ClubsOK
<1>6. MemberNew(row.member + 1)
  BY <1>2, <1>3, <1>5 DEF MemberNew
<1>. QED BY <1>3, <1>4, <1>6

LEMMA MemberGoesOn ==
    ASSUME FlightOK, ClubsOK, [Next]_vars, NEW m \in DOMAIN members'
    PROVE  MemberKept(m) \/ MemberNew(m)
<1>. DEFINE Goal == MemberKept(m) \/ MemberNew(m)
<1>0. ASSUME NEW i \in DOMAIN members
      PROVE  {"club", "who", "member", "admin"} \subseteq DOMAIN members[i]
  BY DEF ClubsOK
<1>1. ASSUME members' = members PROVE Goal
  BY <1>0, <1>1 DEF MemberKept
<1>2. ASSUME NEW ids, members' = Without(members, ids) PROVE Goal
  BY <1>0, <1>2 DEF Without, MemberKept
<1>3. ASSUME NEW r \in Requests, NEW x, Insert(x), clubs' = clubs, RowFor(r, x),
             {"club", "who", "member", "admin"} \subseteq DOMAIN x, Live(loc[r].club)
      PROVE  Goal
  BY <1>3, Inserted
<1>4. ASSUME NEW r \in Requests, FoundMember(r) PROVE Goal
  <2>. DEFINE x == [club |-> loc[r].club, who |-> loc[r].who, member |-> TRUE, admin |-> TRUE]
  <2>1. {"club", "who", "member", "admin"} \subseteq DOMAIN x /\ RowFor(r, x) /\ clubs' = clubs
    BY <1>4 DEF FoundMember, RowFor, MembershipLabels
  <2>2. (Live(loc[r].club) /\ Insert(x)) \/ members' = members
    BY <1>4 DEF FoundMember
  <2>. HIDE DEF x
  <2>. QED BY <1>1, <1>3, <2>1, <2>2
<1>5. ASSUME NEW r \in Requests, Admit(r) PROVE Goal
  <2>. DEFINE x == [club |-> loc[r].club, who |-> loc[r].who, member |-> TRUE, admin |-> FALSE]
  <2>1. {"club", "who", "member", "admin"} \subseteq DOMAIN x /\ RowFor(r, x) /\ clubs' = clubs
    BY <1>5 DEF Admit, RowFor, MembershipLabels
  <2>3. \/ Live(loc[r].club) /\ Insert(x)
        \/ members' = [i \in DOMAIN members |->
               IF i = loc[r].row THEN [members[i] EXCEPT !.member = TRUE] ELSE members[i]]
    BY <1>5 DEF Admit
  <2>4. CASE members' = [i \in DOMAIN members |->
               IF i = loc[r].row THEN [members[i] EXCEPT !.member = TRUE] ELSE members[i]]
    <3>1. m \in DOMAIN members
      BY <2>4
    <3>. DEFINE y == [members[m] EXCEPT !.member = TRUE]
    <3>2. /\ {"club", "who", "member", "admin"} \subseteq DOMAIN y
          /\ y.club = members[m].club /\ y.who = members[m].who /\ y.member
      BY <1>0, <3>1
    <3>3. members'[m] = y \/ members'[m] = members[m]
      BY <2>4, <3>1
    <3>. HIDE DEF y
    <3>. QED BY <1>0, <3>1, <3>2, <3>3 DEF MemberKept
  <2>. HIDE DEF x
  <2>. QED BY <1>3, <2>1, <2>3, <2>4
<1>6. ASSUME NEW r \in Requests, SeatDummy(r) PROVE Goal
  <2>. DEFINE x == [club |-> loc[r].club, who |-> loc[r].who, member |-> TRUE, admin |-> FALSE]
  <2>1. {"club", "who", "member", "admin"} \subseteq DOMAIN x /\ RowFor(r, x) /\ clubs' = clubs
    BY <1>6 DEF SeatDummy, RowFor, MembershipLabels
  <2>2. (Live(loc[r].club) /\ Insert(x)) \/ members' = members
    BY <1>6 DEF SeatDummy
  <2>. HIDE DEF x
  <2>. QED BY <1>1, <1>3, <2>1, <2>2
<1>7. ASSUME NEW r \in Requests, Unseat(r) PROVE Goal
  <2>1. members' = [i \in DOMAIN members |->
          IF i = loc[r].row THEN [members[i] EXCEPT !.member = FALSE, !.admin = FALSE]
          ELSE members[i]]
    BY <1>7 DEF Unseat
  <2>2. m \in DOMAIN members
    BY <2>1
  <2>. DEFINE y == [members[m] EXCEPT !.member = FALSE, !.admin = FALSE]
  <2>3. /\ {"club", "who", "member", "admin"} \subseteq DOMAIN y
        /\ y.club = members[m].club /\ y.who = members[m].who
    BY <1>0, <2>2
  <2>4. (members'[m] = y /\ m = loc[r].row) \/ members'[m] = members[m]
    BY <2>1, <2>2
  <2>. HIDE DEF y
  <2>. QED BY <1>0, <1>7, <2>2, <2>3, <2>4 DEF MemberKept
<1>8. ASSUME NEW r \in Requests, NEW b, members' = [i \in DOMAIN members |->
             IF i = loc[r].row THEN [members[i] EXCEPT !.admin = b] ELSE members[i]]
      PROVE  Goal
  <2>1. m \in DOMAIN members
    BY <1>8
  <2>. DEFINE y == [members[m] EXCEPT !.admin = b]
  <2>2. /\ {"club", "who", "member", "admin"} \subseteq DOMAIN y
        /\ y.club = members[m].club /\ y.who = members[m].who /\ y.member = members[m].member
    BY <1>0, <2>1
  <2>3. members'[m] = y \/ members'[m] = members[m]
    BY <1>8, <2>1
  <2>. HIDE DEF y
  <2>. QED BY <1>0, <2>1, <2>2, <2>3 DEF MemberKept
<1>. HIDE DEF Goal
<1>9. ASSUME NEW r \in Requests, MakeAdmin(r) \/ UnmakeAdmin(r) PROVE Goal
  BY <1>8, <1>9 DEF MakeAdmin, UnmakeAdmin, WriteAdmin
<1>10. ASSUME NEW r \in Requests, DropUser(r) PROVE Goal
  BY <1>2, <1>10 DEF DropUser
<1>11. ASSUME NEW u \in Users, NEW c \in Clubs, DeleteClub(u, c) PROVE Goal
  BY <1>2, <1>11 DEF DeleteClub
<1>12. ASSUME NEW r \in Requests, SeatInvited(r) PROVE Goal
  <2>. DEFINE x == [club |-> loc[r].club, who |-> loc[r].who, member |-> FALSE, admin |-> FALSE]
  <2>1. {"club", "who", "member", "admin"} \subseteq DOMAIN x /\ RowFor(r, x) /\ clubs' = clubs
    BY <1>12 DEF SeatInvited, RowFor, MembershipLabels
  <2>2. (Live(loc[r].club) /\ Insert(x)) \/ members' = members
    BY <1>12 DEF SeatInvited
  <2>. HIDE DEF x
  <2>. QED BY <1>1, <1>3, <2>1, <2>2
<1>13. Goal
  BY <1>1, <1>4, <1>5, <1>6, <1>7, <1>9, <1>10, <1>11, <1>12, MembersChange
<1>. QED BY <1>13 DEF Goal

-----------------------------------------------------------------------------
\* How a request comes to a statement, and what it is then about.

LEMMA BegunClub ==
    ASSUME FlightOK, ClubsOK, NEW r \in Requests, BeginMembershipCall(r)
    PROVE  loc'[r].club \in Clubs
<1>0. ASSUME NEW label, NEW x, Start(r, label, x) \/ BeginFor(r, label, x)
      PROVE  loc'[r] = x
  BY <1>0, GoesTo DEF Start, BeginFor
<1>1. ASSUME NEW u \in Users, NEW c \in Clubs,
             CreateClub(r, u, c) \/ RequestToJoin(r, u, c) \/ CreateDummy(r, u, c)
      PROVE  loc'[r].club \in Clubs
  <2>1. loc'[r] \in {[MembershipLocals EXCEPT !.user = u, !.club = c, !.who = u],
                     [MembershipLocals EXCEPT !.user = u, !.club = c]}
    BY <1>0, <1>1 DEF CreateClub, RequestToJoin, CreateDummy
  <2>2. /\ [MembershipLocals EXCEPT !.user = u, !.club = c, !.who = u].club = c
        /\ [MembershipLocals EXCEPT !.user = u, !.club = c].club = c
    BY DEF MembershipLocals
  <2>. QED BY <2>1, <2>2
<1>2. ASSUME NEW u \in Users, NEW i \in DOMAIN memberRequests,
             AcceptRequest(r, u, i) \/ RejectRequest(r, u, i)
      PROVE  loc'[r].club \in Clubs
  <2>. DEFINE x == [MembershipLocals EXCEPT !.user = u, !.club = memberRequests[i].club,
                                            !.who = memberRequests[i].who, !.request = i]
  <2>1. loc'[r] = x
    BY <1>0, <1>2 DEF AcceptRequest, RejectRequest, BeginAnswer
  <2>2. x.club = memberRequests[i].club
    BY DEF MembershipLocals
  <2>. QED BY <2>1, <2>2 DEF ClubsOK
<1>3. ASSUME NEW u \in Users, NEW m \in DOMAIN members,
             \/ DeleteMember(r, u, m) \/ LeaveClub(r, u, m)
             \/ PromoteMember(r, u, m) \/ DemoteMember(r, u, m)
      PROVE  loc'[r].club \in Clubs
  <2>. DEFINE x == [MembershipLocals EXCEPT !.user = u, !.club = members[m].club,
                                            !.who = members[m].who, !.row = m]
  <2>1. loc'[r] = x
    BY <1>0, <1>3 DEF DeleteMember, LeaveClub, PromoteMember, DemoteMember, BeginMemberCall
  <2>2. x.club = members[m].club
    BY DEF MembershipLocals
  <2>. QED BY <2>1, <2>2 DEF ClubsOK
<1>4. ASSUME NEW u \in Users, NEW c \in Clubs, NEW who \in Users, Invite(r, u, c, who)
      PROVE  loc'[r].club \in Clubs
  <2>1. loc'[r] = [MembershipLocals EXCEPT !.user = u, !.club = c, !.who = who]
    BY <1>0, <1>4 DEF Invite
  <2>. QED BY <2>1 DEF MembershipLocals
<1>. QED BY <1>1, <1>2, <1>3, <1>4 DEF BeginMembershipCall

LEMMA ClubsStep ==
    ASSUME FlightOK, OthersOK, ClubsOK, [Next]_vars
    PROVE  ClubsOK'
<1>0. row' \in [member : Nat, request : Nat, dummy : Nat] /\ row.member \in Nat
      /\ row'.member >= row.member /\ row'.member \in Nat
  BY IdsGrow
<1>1. clubs' \in [Clubs -> ClubRow]
  <2>1. clubs \in [Clubs -> ClubRow]
    BY DEF ClubsOK
  <2>2. ASSUME NEW r \in Requests, NEW u \in Users, NEW c \in Clubs, CreateClub(r, u, c)
        PROVE  clubs' \in [Clubs -> ClubRow]
    BY <2>1, <2>2 DEF CreateClub, ClubRow
  <2>3. ASSUME NEW u \in Users, NEW c \in Clubs, DeleteClub(u, c)
        PROVE  clubs' \in [Clubs -> ClubRow]
    <3>1. [clubs[c] EXCEPT !.state = "deleted"] \in ClubRow
      BY <2>1 DEF ClubRow
    <3>2. clubs' = [clubs EXCEPT ![c] = [clubs[c] EXCEPT !.state = "deleted"]]
      BY <2>3 DEF DeleteClub
    <3>. QED BY <2>1, <3>1, <3>2
  <2>. QED BY <2>1, <2>2, <2>3, ClubsChange
<1>2. ASSUME NEW m \in DOMAIN members'
      PROVE  /\ m \in Nat /\ m <= row'.member
             /\ {"club", "who", "member", "admin"} \subseteq DOMAIN members'[m]
             /\ members'[m].club \in Clubs
  <2>1. CASE MemberKept(m)
    <3>1. m \in Nat /\ m <= row.member /\ members[m].club \in Clubs
      BY <2>1 DEF MemberKept, ClubsOK
    <3>. QED BY <1>0, <2>1, <3>1 DEF MemberKept
  <2>2. CASE MemberNew(m)
    BY <1>0, <2>2 DEF MemberNew
  <2>. QED BY <2>1, <2>2, MemberGoesOn
<1>3. ASSUME NEW i \in DOMAIN memberRequests' PROVE memberRequests'[i].club \in Clubs
  <2>0. \A j \in DOMAIN memberRequests : memberRequests[j].club \in Clubs
    BY DEF ClubsOK
  <2>1. ASSUME NEW ids, memberRequests' = Without(memberRequests, ids)
        PROVE  memberRequests'[i].club \in Clubs
    BY <2>0, <2>1 DEF Without
  <2>2. ASSUME NEW r \in Requests, Apply(r) \/ RecordInvitation(r)
        PROVE  memberRequests'[i].club \in Clubs
    <3>1. loc[r].club \in Clubs
      BY <2>2 DEF Apply, RecordInvitation, ClubsOK, MembershipLabels
    <3>. QED BY <2>0, <2>2, <3>1 DEF Apply, RecordInvitation, Record, With
  <2>. QED BY <2>0, <2>1, <2>2, RequestsChange
<1>4. ASSUME NEW q \in Requests, pc'[q] \in MembershipLabels PROVE loc'[q].club \in Clubs
  <2>0. pc'[q] \notin AccountLabels \cup {"idle"} \cup LogoLabels \cup RatingLabels
                      \cup SocialLabels
    BY <1>4 DEF MembershipLabels, AccountLabels, LogoLabels, Uploading, Removing, RatingLabels,
       SocialLabels
  <2>1. CASE Stays(q)
    BY <1>4, <2>1 DEF Stays, ClubsOK
  <2>2. CASE MembershipGoesOn(q)
    BY <2>2 DEF MembershipGoesOn, Same, ClubsOK
  <2>3. CASE BeginMembershipCall(q)
    BY <2>3, BegunClub
  <2>4. ~(BeginAccountCall(q) \/ AccountStep(q) \/ Tombstone(q) \/ BeginLogoCall(q))
    BY <2>0, AccountTargets, LogoBegun
  <2>. QED BY <2>0, <2>1, <2>2, <2>3, <2>4, Acts DEF NobodyActs, LogoGoesOn
<1>. QED BY <1>0, <1>1, <1>2, <1>3, <1>4 DEF ClubsOK

\* Statements of a club that speak of a row or a president, and what precedes them.
LEMMA MembershipArrives ==
    ASSUME FlightOK, OthersOK, [Next]_vars, NEW q \in Requests, ~Stays(q)
    PROVE  /\ pc'[q] = "found" =>
                 \E u \in Users, c \in Clubs :
                    CreateClub(q, u, c) /\ loc'[q].club = c /\ loc'[q].who = u
           /\ pc'[q] = "readMember" =>
                 \E m \in DOMAIN members : /\ loc'[q].row = m /\ loc'[q].who = members[m].who
                                           /\ members' = members /\ row' = row
           /\ pc'[q] \in {"unseat", "dropDummy"} => ReadMember(q) /\ loc'[q] = loc[q]
           /\ pc'[q] = "dropUser" => DropDummy(q) /\ loc'[q] = loc[q]
           /\ pc'[q] = "invite" =>
                 \E u, who \in Users, c \in Clubs :
                    Invite(q, u, c, who) /\ loc'[q].club = c /\ loc'[q].who = who
           /\ pc'[q] = "findInvited" => RecordInvitation(q) /\ loc'[q] = loc[q]
           /\ pc'[q] = "seatInvited" => FindInvited(q) /\ loc'[q] = loc[q]
<1>. DEFINE Named == {"found", "readMember", "unseat", "dropDummy", "dropUser", "invite",
                      "findInvited", "seatInvited"}
<1>0. pc'[q] \in Named => pc'[q] \notin AccountLabels \cup {"idle"} \cup LogoLabels
                                        \cup RatingLabels \cup SocialLabels
  BY DEF AccountLabels, LogoLabels, Uploading, Removing, RatingLabels, SocialLabels
<1>1. CASE BeginMembershipCall(q)
  <2>0. ASSUME NEW label, NEW x, Start(q, label, x) \/ BeginFor(q, label, x)
        PROVE  pc'[q] = label /\ loc'[q] = x
    BY <2>0, GoesTo DEF Start, BeginFor
  <2>1. ASSUME NEW u \in Users, NEW c \in Clubs, CreateClub(q, u, c)
        PROVE  pc'[q] = "found" /\ loc'[q].club = c /\ loc'[q].who = u
    <3>. DEFINE x == [MembershipLocals EXCEPT !.user = u, !.club = c, !.who = u]
    <3>1. Start(q, "found", x) /\ x.club = c /\ x.who = u
      BY <2>1 DEF CreateClub, MembershipLocals
    <3>. HIDE DEF x
    <3>. QED BY <2>0, <3>1
  <2>2. ASSUME NEW u \in Users, NEW c \in Clubs, RequestToJoin(q, u, c) \/ CreateDummy(q, u, c)
        PROVE  pc'[q] \notin Named
    <3>1. pc'[q] \in {"apply", "dummy"}
      BY <2>0, <2>2 DEF RequestToJoin, CreateDummy
    <3>. QED BY <3>1
  <2>3. ASSUME NEW u \in Users, NEW i, AcceptRequest(q, u, i) \/ RejectRequest(q, u, i)
        PROVE  pc'[q] \notin Named
    <3>1. pc'[q] \in {"findMember", "clearRequest"}
      BY <2>0, <2>3 DEF AcceptRequest, RejectRequest, BeginAnswer
    <3>. QED BY <3>1
  <2>4. ASSUME NEW u \in Users, NEW m \in DOMAIN members, DeleteMember(q, u, m) \/ LeaveClub(q, u, m)
        PROVE  pc'[q] = "readMember" /\ loc'[q].row = m /\ loc'[q].who = members[m].who
    <3>. DEFINE x == [MembershipLocals EXCEPT !.user = u, !.club = members[m].club,
                                              !.who = members[m].who, !.row = m]
    <3>1. BeginFor(q, "readMember", x) /\ x.row = m /\ x.who = members[m].who
      BY <2>4 DEF DeleteMember, LeaveClub, BeginMemberCall, MembershipLocals
    <3>. HIDE DEF x
    <3>. QED BY <2>0, <3>1
  <2>5. ASSUME NEW u \in Users, NEW m \in DOMAIN members, PromoteMember(q, u, m) \/ DemoteMember(q, u, m)
        PROVE  pc'[q] \notin Named
    <3>1. pc'[q] \in {"makeAdmin", "unmakeAdmin"}
      BY <2>0, <2>5 DEF PromoteMember, DemoteMember, BeginMemberCall
    <3>. QED BY <3>1
  <2>6. members' = members /\ row' = row
    BY <1>1, BeginTables
  <2>7. \/ pc'[q] \notin Named
        \/ /\ pc'[q] = "found"
           /\ \E u \in Users, c \in Clubs :
                  CreateClub(q, u, c) /\ loc'[q].club = c /\ loc'[q].who = u
        \/ /\ pc'[q] = "readMember"
           /\ \E m \in DOMAIN members : loc'[q].row = m /\ loc'[q].who = members[m].who
        \/ /\ pc'[q] = "invite"
           /\ \E u, who \in Users, c \in Clubs :
                  Invite(q, u, c, who) /\ loc'[q].club = c /\ loc'[q].who = who
    <3>1. ASSUME NEW u \in Users, NEW who \in Users, NEW c \in Clubs, Invite(q, u, c, who)
          PROVE  pc'[q] = "invite" /\ loc'[q].club = c /\ loc'[q].who = who
      <4>. DEFINE x == [MembershipLocals EXCEPT !.user = u, !.club = c, !.who = who]
      <4>1. BeginFor(q, "invite", x) /\ x.club = c /\ x.who = who
        BY <3>1 DEF Invite, MembershipLocals
      <4>. HIDE DEF x
      <4>. QED BY <2>0, <4>1
    <3>. QED BY <1>1, <2>1, <2>2, <2>3, <2>4, <2>5, <3>1 DEF BeginMembershipCall
  <2>. QED BY <2>6, <2>7
<1>2. CASE MembershipStep(q)
  <2>0. ASSUME NEW label, NEW x, Goto(q, label, x) PROVE pc'[q] = label /\ loc'[q] = x
    BY <2>0, GoesTo
  <2>1. CASE ReadMember(q)
    <3>1. pc'[q] \in {"idle", "unseat", "dropDummy"} /\ (pc'[q] # "idle" => loc'[q] = loc[q])
      BY <2>0, <2>1 DEF ReadMember, Proceed, Done
    <3>. QED BY <2>1, <3>1
  <2>2. CASE DropDummy(q)
    <3>1. pc'[q] = "dropUser" /\ loc'[q] = loc[q]
      BY <2>0, <2>2 DEF DropDummy, Proceed
    <3>. QED BY <2>2, <3>1
  <2>4. CASE RecordInvitation(q)
    <3>1. pc'[q] \in {"idle", "findInvited"} /\ (pc'[q] # "idle" => loc'[q] = loc[q])
      BY <2>0, <2>4 DEF RecordInvitation, Proceed, Done
    <3>. QED BY <2>4, <3>1
  <2>5. CASE FindInvited(q)
    <3>1. pc'[q] \in {"idle", "seatInvited"} /\ (pc'[q] # "idle" => loc'[q] = loc[q])
      BY <2>0, <2>5 DEF FindInvited, Proceed, Done
    <3>. QED BY <2>5, <3>1
  <2>3. CASE ~ReadMember(q) /\ ~DropDummy(q) /\ ~RecordInvitation(q) /\ ~FindInvited(q)
    <3>1. pc'[q] \in {"idle", "admit", "clearRequest", "placeholder", "seatDummy", "bot"}
      BY <1>2, <2>0, <2>3 DEF MembershipStep, FoundMember, Apply, FindMember, Admit,
         ClearRequest, Unseat, DropUser, InsertDummy, InsertPlaceholder, SeatDummy, AddBot,
         MakeAdmin, UnmakeAdmin, WriteAdmin, SeatInvited, Proceed, Done
    <3>. QED BY <3>1
  <2>. QED BY <2>1, <2>2, <2>3, <2>4, <2>5
<1>3. ~(BeginAccountCall(q) \/ AccountStep(q) \/ Tombstone(q)) \/ pc'[q] \notin Named
  BY <1>0, AccountTargets
<1>4. NobodyActs(q) \/ LogoGoesOn(q) \/ BeginLogoCall(q) => pc'[q] \notin Named
  BY <1>0, LogoBegun DEF NobodyActs, LogoGoesOn
<1>5. CASE pc'[q] \notin Named
  BY <1>5
<1>. QED BY <1>0, <1>1, <1>2, <1>3, <1>4, <1>5, Acts

-----------------------------------------------------------------------------
\* The president stays.

\* A call is handled by a request that does nothing else.
LEMMA BeginsIdle ==
    ASSUME NEW q \in Requests, BeginMembershipCall(q)
    PROVE  pc[q] = "idle"
<1>1. ASSUME NEW label, NEW x, BeginFor(q, label, x) PROVE pc[q] = "idle"
  BY <1>1 DEF BeginFor, Start
<1>2. ASSUME NEW u, NEW c, CreateClub(q, u, c) \/ RequestToJoin(q, u, c) \/ CreateDummy(q, u, c)
      PROVE  pc[q] = "idle"
  BY <1>1, <1>2 DEF CreateClub, RequestToJoin, CreateDummy, Start
<1>3. ASSUME NEW u, NEW c, NEW who, Invite(q, u, c, who) PROVE pc[q] = "idle"
  BY <1>1, <1>3 DEF Invite
<1>4. ASSUME NEW u, NEW i, AcceptRequest(q, u, i) \/ RejectRequest(q, u, i) PROVE pc[q] = "idle"
  BY <1>1, <1>4 DEF AcceptRequest, RejectRequest, BeginAnswer
<1>5. ASSUME NEW u, NEW m, \/ DeleteMember(q, u, m) \/ LeaveClub(q, u, m)
                           \/ PromoteMember(q, u, m) \/ DemoteMember(q, u, m)
      PROVE  pc[q] = "idle"
  BY <1>1, <1>5 DEF DeleteMember, LeaveClub, PromoteMember, DemoteMember, BeginMemberCall
<1>. QED BY <1>2, <1>3, <1>4, <1>5 DEF BeginMembershipCall

\* A request of the clubs goes on statement by statement, or stops.
LEMMA CallGoesOn ==
    ASSUME FlightOK, [Next]_vars, NEW q \in Requests, pc[q] \in MembershipLabels
    PROVE  Stays(q) \/ MembershipStep(q) \/ StopMembershipCall(q)
<1>0. /\ pc[q] \notin AccountLabels \cup LogoLabels \cup RatingLabels \cup SocialLabels
      /\ pc[q] # "idle"
  BY DEF MembershipLabels, AccountLabels, LogoLabels, Uploading, Removing, RatingLabels,
     SocialLabels
<1>1. ASSUME NEW r \in Requests, NEW to, NEW x, Moves(r, to, x), r # q PROVE Stays(q)
  BY <1>1 DEF FlightOK, LocOK, PcOK, Moves, Stays
<1>2. UNCHANGED flight => Stays(q)
  BY DEF flight, Stays
<1>3. UNCHANGED vars \/ AtOnce => UNCHANGED flight
  BY DEF vars, AtOnce, TimePasses, AccessExpires, RefreshExpires, LetterExpires, DropAccess,
     DropRefresh, MembershipAtOnce, DeleteClub, CancelRequest, RatingAtOnce, DeleteGame,
     MatchAtOnce, CreateSbmm
<1>4. ASSUME NEW r \in Requests, r # q, Begin(r) \/ Step(r) \/ Stop(r) PROVE Stays(q)
  <2>1. (\E to, x : Moves(r, to, x)) \/ ForeignMove(r)
    BY <1>4, AccountMoves, MembershipBegins, MembershipMoves, MembershipStops, LogoMoves,
       RatingMoves, MatchMoves DEF Begin, Step, Stop, Erase
  <2>. QED BY <1>1, <1>4, <2>1 DEF ForeignMove
<1>5. ~Begin(q)
  <2>0. ASSUME NEW label, NEW x, Start(q, label, x) PROVE FALSE
    BY <1>0, <2>0 DEF Start
  <2>1. ~BeginAccountCall(q)
    BY <2>0 DEF BeginAccountCall, Send, BeginLogin, BeginLogout, Register, RequestLetter,
       UseLetter
  <2>2. ~BeginMembershipCall(q)
    BY <1>0, BeginsIdle
  <2>3. ~BeginLogoCall(q)
    BY <2>0 DEF BeginLogoCall, UploadLogo, RemoveLogo, BeginLogo
  <2>4. ~BeginRatingCall(q) /\ ~BeginMatchCall(q)
    BY <2>0 DEF BeginRatingCall, CompleteGame, SeatPlayer, BeginRating, BeginMatchCall,
       CreateSocial
  <2>. QED BY <2>1, <2>2, <2>3, <2>4 DEF Begin
<1>6. ~AccountStep(q) /\ ~Erase(q)
  BY <1>0 DEF AccountStep, Authenticate, Sweep, GiveUp, AskRefresh, FindSession, SweepOld,
     Rotate, Resend, EditProfile, CheckPassword, IssueSession, SignIn, Logout, ClearCookies,
     Mail, DiscardLetter, SetPassword, SetVerified, SpendLetter, RevokeSessions, Erase,
     Tombstone, AccountLabels
<1>7. ~LogoStep(q) /\ ~RatingStep(q) /\ ~MatchStep(q)
  BY <1>0 DEF LogoStep, PutLogo, SetLogo, ReadLogo, DropLogo, ClearLogo, LogoLabels, Uploading,
     Removing, RatingStep, Fetch, InsertElo, LinkElo, Save, Mark, MatchStep, Swap, Split,
     RatingLabels, SocialLabels
<1>8. Stop(q) => StopMembershipCall(q)
  BY <1>0 DEF Stop, StopAccountCall, StopLogo, StopRating, StopSocial
<1>. QED BY <1>2, <1>3, <1>4, <1>5, <1>6, <1>7, <1>8 DEF Next, Step

\* A founding goes on until the president is seated or the request stops.
LEMMA FoundingEnds ==
    ASSUME FlightOK, [Next]_vars, NEW q \in Requests, pc[q] = "found"
    PROVE  Stays(q) \/ FoundMember(q) \/ StopMembershipCall(q)
<1>1. MembershipStep(q) => FoundMember(q)
  BY DEF MembershipStep, Apply, FindMember, Admit, ClearRequest, ReadMember, Unseat, DropDummy,
     DropUser, InsertDummy, InsertPlaceholder, SeatDummy, AddBot, MakeAdmin, UnmakeAdmin,
     WriteAdmin, RecordInvitation, FindInvited, SeatInvited
<1>. QED BY <1>1, CallGoesOn DEF MembershipLabels

\* The row of a president stays for as long as the club, and a membership.
LEMMA PresidentSeated ==
    ASSUME FlightOK, ClubsOK, PresidentInv, [Next]_vars, NEW c \in Clubs,
           Live(c), clubs'[c].state = "live",
           NEW m \in DOMAIN members, members[m].club = c, members[m].who = President(c)
    PROVE  /\ m \in DOMAIN members'
           /\ members'[m].club = c /\ members'[m].who = President(c)
           /\ members[m].member => members'[m].member
<1>0. /\ clubs \in [Clubs -> ClubRow] /\ President(c) \in Users /\ Users \cap Dummy = {}
      /\ m # row.member + 1
  BY MembershipAssumption DEF ClubsOK, ClubRow, President, Dummy
<1>1. ASSUME NEW r \in Requests, DropUser(r) PROVE m \in DOMAIN members'
  <2>1. loc[r].who \in Dummy
    BY <1>1 DEF DropUser, PresidentInv
  <2>2. members[m].who # loc[r].who
    BY <1>0, <2>1
  <2>. QED BY <1>1, <2>2 DEF DropUser, Without
<1>2. ASSUME NEW u \in Users, NEW d \in Clubs, DeleteClub(u, d) PROVE m \in DOMAIN members'
  <2>1. clubs' = [clubs EXCEPT ![d] = [clubs[d] EXCEPT !.state = "deleted"]]
    BY <1>2 DEF DeleteClub
  <2>2. [clubs[d] EXCEPT !.state = "deleted"].state = "deleted"
    BY <1>0 DEF ClubRow
  <2>3. d # c
    BY <1>0, <2>1, <2>2
  <2>. QED BY <1>2, <2>3 DEF DeleteClub, Without, InClub
<1>3. ASSUME NEW r \in Requests,
             \/ FoundMember(r) \/ Admit(r) \/ SeatDummy(r) \/ SeatInvited(r) \/ Unseat(r)
             \/ MakeAdmin(r) \/ UnmakeAdmin(r)
      PROVE  m \in DOMAIN members'
  BY <1>3 DEF FoundMember, Admit, SeatDummy, SeatInvited, Unseat, MakeAdmin, UnmakeAdmin,
     WriteAdmin, Insert, With
<1>4. m \in DOMAIN members'
  BY <1>1, <1>2, <1>3, MembersChange
<1>5. MemberKept(m)
  BY <1>4, MemberGoesOn DEF MemberNew, ClubsOK
<1>6. ASSUME NEW r \in Requests, Unseat(r), m = loc[r].row PROVE FALSE
  BY <1>6 DEF Unseat, PresidentInv, SameRow
<1>. QED BY <1>4, <1>5, <1>6 DEF MemberKept

\* A call is about a club that was founded before, or that it founds.
LEMMA BegunFounded ==
    ASSUME FlightOK, ClubsOK, PresidentInv, FoundedInv,
           NEW r \in Requests, BeginMembershipCall(r)
    PROVE  clubs'[loc'[r].club].state # "free"
<1>. DEFINE Known(c) == clubs[c].state # "free"
<1>0. ASSUME NEW label, NEW x, BeginFor(r, label, x) PROVE loc'[r] = x /\ clubs' = clubs
  BY <1>0, GoesTo DEF Start, BeginFor, membershipTables
<1>1. ASSUME NEW c, NEW u, IsAdmin(c, u) \/ Live(c) PROVE Known(c)
  BY <1>1 DEF IsAdmin, Live
<1>2. ASSUME NEW u \in Users, NEW c \in Clubs, NEW who \in Users,
             RequestToJoin(r, u, c) \/ Invite(r, u, c, who)
      PROVE  clubs' = clubs /\ Known(loc'[r].club)
  <2>1. /\ clubs' = clubs
        /\ loc'[r] \in {[MembershipLocals EXCEPT !.user = u, !.club = c, !.who = u],
                        [MembershipLocals EXCEPT !.user = u, !.club = c, !.who = who]}
    BY <1>0, <1>2 DEF RequestToJoin, Invite
  <2>2. loc'[r].club = c
    BY <2>1 DEF MembershipLocals
  <2>. QED BY <1>1, <1>2, <2>1, <2>2 DEF RequestToJoin, Invite
<1>3. ASSUME NEW u \in Users, NEW c \in Clubs, CreateDummy(r, u, c)
      PROVE  clubs' = clubs /\ Known(loc'[r].club)
  <2>. DEFINE x == [MembershipLocals EXCEPT !.user = u, !.club = c]
  <2>1. loc'[r] = x /\ clubs' = clubs /\ IsAdmin(c, u)
    BY <1>3, GoesTo DEF CreateDummy, Start, membershipVars, membershipTables
  <2>2. x.club = c
    BY DEF MembershipLocals
  <2>. QED BY <1>1, <2>1, <2>2
<1>4. ASSUME NEW u \in Users, NEW i \in DOMAIN memberRequests,
             AcceptRequest(r, u, i) \/ RejectRequest(r, u, i)
      PROVE  clubs' = clubs /\ Known(loc'[r].club)
  <2>. DEFINE x == [MembershipLocals EXCEPT !.user = u, !.club = memberRequests[i].club,
                                            !.who = memberRequests[i].who, !.request = i]
  <2>1. loc'[r] = x /\ clubs' = clubs
    BY <1>0, <1>4 DEF AcceptRequest, RejectRequest, BeginAnswer
  <2>2. x.club = memberRequests[i].club
    BY DEF MembershipLocals
  <2>. QED BY <2>1, <2>2 DEF FoundedInv
<1>5. ASSUME NEW u \in Users, NEW m \in DOMAIN members,
             \/ DeleteMember(r, u, m) \/ LeaveClub(r, u, m)
             \/ PromoteMember(r, u, m) \/ DemoteMember(r, u, m)
      PROVE  clubs' = clubs /\ Known(loc'[r].club)
  <2>. DEFINE x == [MembershipLocals EXCEPT !.user = u, !.club = members[m].club,
                                            !.who = members[m].who, !.row = m]
  <2>1. loc'[r] = x /\ clubs' = clubs
    BY <1>0, <1>5 DEF DeleteMember, LeaveClub, PromoteMember, DemoteMember, BeginMemberCall
  <2>2. x.club = members[m].club
    BY DEF MembershipLocals
  <2>. QED BY <2>1, <2>2 DEF PresidentInv
<1>6. ASSUME NEW u \in Users, NEW c \in Clubs, CreateClub(r, u, c)
      PROVE  clubs'[loc'[r].club].state # "free"
  <2>. DEFINE x == [MembershipLocals EXCEPT !.user = u, !.club = c, !.who = u]
  <2>1. /\ loc'[r] = x /\ clubs \in [Clubs -> ClubRow]
        /\ clubs' = [clubs EXCEPT ![c] = [state |-> "live", president |-> u]]
    BY <1>6, GoesTo DEF CreateClub, Start, ClubsOK
  <2>2. x.club = c
    BY DEF MembershipLocals
  <2>. HIDE DEF x
  <2>. QED BY <2>1, <2>2
<1>. HIDE DEF Known
<1>7. clubs'[loc'[r].club].state # "free" \/ (clubs' = clubs /\ Known(loc'[r].club))
  BY <1>2, <1>3, <1>4, <1>5, <1>6 DEF BeginMembershipCall
<1>. QED BY <1>7 DEF Known

LEMMA FoundedStep ==
    ASSUME FlightOK, OthersOK, ClubsOK, PresidentInv, FoundedInv, [Next]_vars
    PROVE  FoundedInv'
<1>0. \A c \in Clubs : clubs[c].state # "free" => clubs'[c].state # "free"
  BY ClubKept
<1>1. ASSUME NEW i \in DOMAIN memberRequests'
      PROVE  clubs'[memberRequests'[i].club].state # "free"
  <2>0. \A j \in DOMAIN memberRequests :
           clubs[memberRequests[j].club].state # "free" /\ memberRequests[j].club \in Clubs
    BY DEF FoundedInv, ClubsOK
  <2>1. CASE memberRequests' = memberRequests
    BY <1>0, <2>0, <2>1
  <2>2. ASSUME NEW ids, memberRequests' = Without(memberRequests, ids)
        PROVE  clubs'[memberRequests'[i].club].state # "free"
    BY <1>0, <2>0, <2>2 DEF Without
  <2>3. ASSUME NEW r \in Requests, Apply(r) \/ RecordInvitation(r)
        PROVE  clubs'[memberRequests'[i].club].state # "free"
    <3>1. clubs[loc[r].club].state # "free" /\ loc[r].club \in Clubs
      BY <2>3 DEF Apply, RecordInvitation, ClubsOK, FoundedInv, MembershipLabels
    <3>2. \/ memberRequests' = memberRequests
          \/ memberRequests' = With(memberRequests, row.request + 1,
                                    [club |-> loc[r].club, who |-> loc[r].who])
      BY <2>3 DEF Apply, RecordInvitation, Record
    <3>3. \/ memberRequests'[i].club = loc[r].club
          \/ memberRequests'[i] = memberRequests[i] /\ i \in DOMAIN memberRequests
      BY <3>2 DEF With
    <3>. QED BY <1>0, <2>0, <3>1, <3>3
  <2>. QED BY <2>1, <2>2, <2>3, RequestsChange
<1>2. ASSUME NEW q \in Requests, pc'[q] \in MembershipLabels
      PROVE  clubs'[loc'[q].club].state # "free"
  <2>0. pc'[q] \notin AccountLabels \cup {"idle"} \cup LogoLabels \cup RatingLabels
                      \cup SocialLabels
    BY <1>2 DEF MembershipLabels, AccountLabels, LogoLabels, Uploading, Removing, RatingLabels,
       SocialLabels
  <2>1. ASSUME pc[q] \in MembershipLabels, loc'[q].club = loc[q].club
        PROVE  clubs'[loc'[q].club].state # "free"
    BY <1>0, <2>1 DEF FoundedInv, ClubsOK
  <2>2. CASE Stays(q)
    BY <1>2, <2>1, <2>2 DEF Stays
  <2>3. CASE MembershipGoesOn(q)
    BY <2>1, <2>3 DEF MembershipGoesOn, Same
  <2>4. CASE BeginMembershipCall(q)
    BY <2>4, BegunFounded
  <2>5. ~(BeginAccountCall(q) \/ AccountStep(q) \/ Tombstone(q) \/ BeginLogoCall(q))
    BY <2>0, AccountTargets, LogoBegun
  <2>. QED BY <2>0, <2>2, <2>3, <2>4, <2>5, Acts DEF NobodyActs, LogoGoesOn
<1>. QED BY <1>1, <1>2 DEF FoundedInv

LEMMA PresidentStep ==
    ASSUME FlightOK, OthersOK, ClubsOK, PresidentInv, [Next]_vars
    PROVE  PresidentInv'
<1>0. /\ row.member \in Nat /\ row'.member \in Nat /\ row'.member >= row.member
      /\ clubs \in [Clubs -> ClubRow]
      /\ \A m \in DOMAIN members : m \in Nat /\ m <= row.member /\ members[m].club \in Clubs
      /\ None \notin Users /\ Users \cap Dummy = {}
  BY IdsGrow, AccountsAssumption, MembershipAssumption, SMTT(30) DEF ClubsOK, Dummy
\* A row that is there before and after the step.
<1>k. ASSUME NEW m \in DOMAIN members', m \in DOMAIN members
      PROVE  /\ MemberKept(m)
             /\ clubs'[members[m].club].state # "free"
             /\ clubs'[members[m].club].president = clubs[members[m].club].president
  BY <1>0, <1>k, MemberGoesOn, ClubKept DEF MemberNew, PresidentInv
<1>1. ASSUME NEW m \in DOMAIN members' PROVE clubs'[members'[m].club].state # "free"
  <2>1. CASE m \in DOMAIN members
    BY <1>k, <2>1 DEF MemberKept
  <2>2. CASE MemberNew(m)
    BY <2>2 DEF MemberNew, Live
  <2>. QED BY <2>1, <2>2, MemberGoesOn DEF MemberKept
<1>2. ASSUME NEW c \in Clubs, clubs'[c].state = "live"
      PROVE  LET p == clubs'[c].president
             IN  \/ \E m \in DOMAIN members' :
                       members'[m].club = c /\ members'[m].who = p /\ members'[m].member
                 \/ c \in unfounded'
                 \/ \E r \in Requests : pc'[r] = "found" /\ loc'[r].club = c
  <2>. DEFINE p == clubs[c].president
              Goal == \/ \E m \in DOMAIN members' :
                            members'[m].club = c /\ members'[m].who = p /\ members'[m].member
                      \/ c \in unfounded'
                      \/ \E r \in Requests : pc'[r] = "found" /\ loc'[r].club = c
  <2>1. CASE \E r \in Requests, u \in Users : CreateClub(r, u, c)
    <3>1. PICK r \in Requests, u \in Users : CreateClub(r, u, c)
      BY <2>1
    <3>. DEFINE x == [MembershipLocals EXCEPT !.user = u, !.club = c, !.who = u]
    <3>2. Goto(r, "found", x) /\ x.club = c
      BY <3>1 DEF CreateClub, Start, MembershipLocals
    <3>. HIDE DEF x
    <3>3. pc'[r] = "found" /\ loc'[r].club = c
      BY <3>2, GoesTo
    <3>. QED BY <3>3
  <2>2. CASE ~\E r \in Requests, u \in Users : CreateClub(r, u, c)
    <3>1. clubs'[c] = clubs[c]
      <4>1. ASSUME NEW r \in Requests, NEW u \in Users, NEW d \in Clubs, CreateClub(r, u, d)
            PROVE  clubs'[c] = clubs[c]
        <5>1. d # c
          BY <2>2, <4>1
        <5>. QED BY <1>0, <4>1, <5>1 DEF CreateClub
      <4>2. ASSUME NEW u \in Users, NEW d \in Clubs, DeleteClub(u, d)
            PROVE  clubs'[c] = clubs[c]
        <5>1. clubs' = [clubs EXCEPT ![d] = [clubs[d] EXCEPT !.state = "deleted"]]
          BY <4>2 DEF DeleteClub
        <5>2. [clubs[d] EXCEPT !.state = "deleted"].state = "deleted"
          BY <1>0 DEF ClubRow
        <5>3. d # c
          BY <1>0, <1>2, <5>1, <5>2
        <5>. QED BY <1>0, <5>1, <5>3
      <4>. QED BY <4>1, <4>2, ClubsChange
    <3>2. Live(c) /\ p \in Users
      BY <1>0, <1>2, <3>1 DEF Live, ClubRow
    <3>3. ASSUME NEW m \in MembersOf(c, p), members[m].member PROVE Goal
      <4>1. m \in DOMAIN members /\ members[m].club = c /\ members[m].who = p
        BY DEF MembersOf
      <4>2. /\ m \in DOMAIN members' /\ members'[m].club = c /\ members'[m].who = p
            /\ members'[m].member
        BY <1>2, <3>2, <3>3, <4>1, PresidentSeated DEF President
      <4>. QED BY <4>2
    <3>4. ASSUME c \in unfounded PROVE Goal
      <4>1. c \in unfounded'
        BY <3>4, DisturbedGrows
      <4>. QED BY <4>1
    <3>5. ASSUME NEW r \in Requests, pc[r] = "found", loc[r].club = c PROVE Goal
      <4>0. loc[r].who = p
        BY <3>5 DEF PresidentInv, President
      <4>1. ASSUME Stays(r) PROVE Goal
        <5>1. pc'[r] = "found" /\ loc'[r].club = c
          BY <3>5, <4>1 DEF Stays
        <5>. QED BY <5>1
      <4>2. ASSUME FoundMember(r) PROVE Goal
        <5>. DEFINE x == [club |-> c, who |-> p, member |-> TRUE, admin |-> TRUE]
        <5>1. Insert(x) /\ clubs' = clubs
          BY <3>2, <3>5, <4>0, <4>2 DEF FoundMember
        <5>2. /\ {"club", "who", "member", "admin"} \subseteq DOMAIN x /\ x.member
              /\ x.club = c /\ x.who = p
          OBVIOUS
        <5>. HIDE DEF x
        <5>3. /\ DOMAIN members' = DOMAIN members \cup {row.member + 1}
              /\ members'[row.member + 1] = x
          <6>1. RowFor(r, x)
            BY <3>5, <4>0, <5>2 DEF RowFor, MembershipLabels
          <6>. QED BY <3>2, <3>5, <5>1, <5>2, <6>1, Inserted
        <5>4. \E m \in DOMAIN members' :
                 members'[m].club = c /\ members'[m].who = p /\ members'[m].member
          BY <5>2, <5>3
        <5>. QED BY <5>4
      <4>3. ASSUME StopMembershipCall(r) PROVE Goal
        <5>1. c \in unfounded'
          BY <3>5, <4>3 DEF StopMembershipCall
        <5>. QED BY <5>1
      <4>. HIDE DEF Goal
      <4>. QED BY <3>5, <4>1, <4>2, <4>3, FoundingEnds
    <3>6. Goal
      BY <3>2, <3>3, <3>4, <3>5 DEF PresidentInv, President, IsMember
    <3>. QED BY <3>1, <3>6
  <2>. QED BY <2>1, <2>2
<1>3. ASSUME NEW q \in Requests, pc'[q] = "found"
      PROVE  /\ clubs'[loc'[q].club].state # "free"
             /\ loc'[q].who = clubs'[loc'[q].club].president
  <2>1. CASE Stays(q)
    <3>1. loc[q].club \in Clubs /\ pc[q] = "found" /\ loc'[q] = loc[q]
      BY <1>3, <2>1 DEF Stays, ClubsOK, MembershipLabels
    <3>. QED BY <3>1, ClubKept DEF PresidentInv, President
  <2>2. ASSUME NEW u \in Users, NEW c \in Clubs,
               CreateClub(q, u, c), loc'[q].club = c, loc'[q].who = u
        PROVE  /\ clubs'[loc'[q].club].state # "free"
               /\ loc'[q].who = clubs'[loc'[q].club].president
    BY <1>0, <2>2 DEF CreateClub
  <2>. QED BY <1>3, <2>1, <2>2, MembershipArrives
\* What was read of a row stays true of it.
<1>s. ASSUME NEW l, SameRow(l) PROVE SameRow(l)'
  <2>1. ASSUME l.row \in DOMAIN members' PROVE members'[l.row].who = l.who
    <3>1. ~MemberNew(l.row)
      BY <1>0, <1>s DEF MemberNew, SameRow
    <3>2. MemberKept(l.row)
      BY <2>1, <3>1, MemberGoesOn
    <3>. QED BY <1>s, <3>2 DEF MemberKept, SameRow
  <2>. QED BY <1>0, <1>s, <2>1 DEF SameRow
<1>4. ASSUME NEW q \in Requests, pc'[q] \in {"readMember", "unseat"}
      PROVE  /\ loc'[q].row \in Nat /\ loc'[q].row <= row'.member
             /\ loc'[q].row \in DOMAIN members' => members'[loc'[q].row].who = loc'[q].who
  <2>1. CASE SameRow(loc[q]) /\ loc'[q] = loc[q]
    BY <1>s, <2>1 DEF SameRow
  <2>2. CASE Stays(q)
    BY <1>4, <2>1, <2>2 DEF Stays, PresidentInv
  <2>3. CASE ReadMember(q) /\ loc'[q] = loc[q]
    BY <2>1, <2>3 DEF ReadMember, PresidentInv
  <2>4. ASSUME NEW m \in DOMAIN members,
               loc'[q].row = m, loc'[q].who = members[m].who, members' = members, row' = row
        PROVE  /\ loc'[q].row \in Nat /\ loc'[q].row <= row'.member
               /\ loc'[q].row \in DOMAIN members' => members'[loc'[q].row].who = loc'[q].who
    BY <1>0, <2>4
  <2>. QED BY <1>4, <2>2, <2>3, <2>4, MembershipArrives
<1>5. ASSUME NEW q \in Requests, pc'[q] = "unseat", loc'[q].row \in DOMAIN members'
      PROVE  loc'[q].who # clubs'[members'[loc'[q].row].club].president
  <2>. DEFINE m == loc[q].row
  <2>1. /\ loc'[q] = loc[q] /\ SameRow(loc[q])
        /\ m \in DOMAIN members => loc[q].who # clubs[members[m].club].president
    <3>1. CASE Stays(q)
      BY <1>5, <3>1 DEF Stays, PresidentInv, President
    <3>2. CASE ReadMember(q) /\ loc'[q] = loc[q]
      <4>1. SameRow(loc[q])
        BY <3>2 DEF ReadMember, PresidentInv
      <4>2. m \in DOMAIN members => clubs[members[m].club].president # members[m].who
        <5>1. ASSUME Done(q) PROVE FALSE
          BY <1>5, <5>1, GoesTo DEF Done
        <5>. QED BY <3>2, <5>1 DEF ReadMember
      <4>. QED BY <3>2, <4>1, <4>2 DEF SameRow
    <3>. QED BY <1>5, <3>1, <3>2, MembershipArrives
  <2>2. ~MemberNew(m)
    BY <1>0, <2>1 DEF MemberNew, SameRow
  <2>3. MemberKept(m)
    BY <1>5, <2>1, <2>2, MemberGoesOn
  <2>. QED BY <1>5, <1>k, <2>1, <2>3 DEF MemberKept
<1>6. ASSUME NEW q \in Requests, pc'[q] \in {"dropDummy", "dropUser"}
      PROVE  loc'[q].who \in Dummy
  <2>1. CASE Stays(q)
    BY <1>6, <2>1 DEF Stays, PresidentInv
  <2>2. CASE DropDummy(q) /\ loc'[q] = loc[q]
    BY <2>2 DEF DropDummy, PresidentInv
  <2>3. ASSUME ReadMember(q), loc'[q] = loc[q], pc'[q] = "dropDummy"
        PROVE  loc'[q].who \in Dummy
    <3>. DEFINE m == loc[q].row
    <3>1. SameRow(loc[q])
      BY <2>3 DEF ReadMember, PresidentInv
    <3>2. m \in DOMAIN members /\ Proceed(q, IF members[m].who \in Dummy THEN "dropDummy" ELSE "unseat")
      <4>1. ~Done(q)
        BY <2>3, GoesTo DEF Done
      <4>. QED BY <2>3, <4>1 DEF ReadMember
    <3>3. members[m].who \in Dummy
      BY <2>3, <3>2, GoesTo DEF Proceed
    <3>. QED BY <2>3, <3>1, <3>2, <3>3 DEF SameRow
  <2>. QED BY <1>6, <2>1, <2>2, <2>3, MembershipArrives
<1>. QED
  BY <1>1, <1>2, <1>3, <1>4, <1>5, <1>6 DEF PresidentInv, President, Live, IsMember,
     MembersOf, SameRow

LEMMA ClubsInit == Init => ClubsOK /\ PresidentInv /\ FoundedInv
<1>. SUFFICES ASSUME Init PROVE ClubsOK /\ PresidentInv /\ FoundedInv
  OBVIOUS
<1>1. PICK first \in FirstMembers, home \in Clubs :
        /\ clubs = [c \in Clubs |->
              [state |-> IF c # home \/ first = {} THEN "free" ELSE "live",
               president |-> Founder]]
        /\ members = [m \in first |->
              [club |-> home, who |-> IF m = 1 THEN Founder ELSE Helper,
               member |-> TRUE, admin |-> TRUE]]
        /\ memberRequests = [q \in {} |-> None]
        /\ row = [member |-> Cardinality(first), request |-> 0, dummy |-> 0]
  BY DEF Init, MembershipInit
<1>2. \A q \in Requests : pc[q] = "idle"
  BY DEF Init, FlightInit
<1>3. first \in {{}, {1}, {1, 2}}
  BY DEF FirstMembers
<1>4. Cardinality(first) \in Nat /\ \A m \in first : m \in Nat /\ m <= Cardinality(first)
  <2>1. Cardinality({}) = 0 /\ Cardinality({1}) = 1 /\ Cardinality({1, 2}) = 2
    <3>1. IsFiniteSet({1}) /\ Cardinality({1}) = 1 /\ Cardinality({}) = 0
      BY FS_EmptySet, FS_Singleton
    <3>2. Cardinality({1} \cup {2}) = 2
      BY <3>1, FS_AddElement
    <3>3. {1} \cup {2} = {1, 2}
      OBVIOUS
    <3>. QED BY <3>1, <3>2, <3>3
  <2>. QED BY <1>3, <2>1
<1>5. ClubsOK
  BY <1>1, <1>2, <1>4, MembershipAssumption DEF ClubsOK, ClubRow, MembershipLabels
<1>6. PresidentInv
  BY <1>1, <1>2, <1>3 DEF PresidentInv, President, Live, IsMember, MembersOf
<1>7. FoundedInv
  BY <1>1, <1>2 DEF FoundedInv, MembershipLabels
<1>. QED BY <1>5, <1>6, <1>7

\* A club has its president among its members, once it is founded, whatever is
\* asked of it, unless its creation stopped half-way (create_club,
\* remove_member, demote_member).
THEOREM PresidentsStay == Spec => []PresidentsBelong
<1>1. Init => OthersOK /\ ClubsOK /\ PresidentInv
  BY OthersInit, ClubsInit
<1>2. (FlightOK /\ TablesOK) /\ (OthersOK /\ ClubsOK /\ PresidentInv) /\ [Next]_vars
        => (OthersOK /\ ClubsOK /\ PresidentInv)'
  BY OthersStep, ClubsStep, PresidentStep
<1>3. PresidentInv => PresidentsBelong
  BY DEF PresidentInv, PresidentsBelong, President, InFlightAt
<1>. QED BY <1>1, <1>2, <1>3, TypesHold, PTL DEF Spec

-----------------------------------------------------------------------------
(***************************************************************************)
(* The logo a club shows is in store.  Uploads write the file and then the *)
(* row, removals delete the file and then clear the row.  Of a club that   *)
(* is not smudged requests of one kind only are in flight (OneKind), so    *)
(* nobody deletes the file an upload is about to show (Stored).            *)
(***************************************************************************)

LogoOK(q) ==
    pc[q] \in LogoLabels =>
        {"user", "club", "key"} \subseteq DOMAIN loc[q] /\ loc[q].club \in Clubs

LogosOK == logo = [c \in Clubs |-> logo[c]] /\ \A q \in Requests : LogoOK(q)

\* A club that is not there yet has no logo.
Unborn == \A c \in Clubs : clubs[c].state = "free" => logo[c] = None

OneKind == \A c \in Clubs \ smudged : ~(AtLogo(c, Uploading) /\ AtLogo(c, Removing))

Stored ==
    \A q \in InFlightAt({"setLogo"}) :
        loc[q].club \notin smudged => <<loc[q].club, loc[q].key>> \in files

LogoInv == LogosOK /\ Unborn /\ OneKind /\ Stored /\ LogosAreThere

\* A club is live because it was, or because it is founded.
LEMMA LiveAgain ==
    ASSUME ClubsOK, [Next]_vars, NEW c \in Clubs, Live(c)'
    PROVE  Live(c) \/ clubs[c].state = "free"
<1>0. clubs \in [Clubs -> ClubRow]
  BY DEF ClubsOK
<1>1. ASSUME NEW r \in Requests, NEW u \in Users, NEW d \in Clubs, CreateClub(r, u, d)
      PROVE  Live(c) \/ clubs[c].state = "free"
  BY <1>0, <1>1 DEF CreateClub, Live
<1>2. ASSUME NEW u \in Users, NEW d \in Clubs, DeleteClub(u, d)
      PROVE  Live(c) \/ clubs[c].state = "free"
  <2>1. clubs' = [clubs EXCEPT ![d] = [clubs[d] EXCEPT !.state = "deleted"]]
    BY <1>2 DEF DeleteClub
  <2>2. [clubs[c] EXCEPT !.state = "deleted"].state = "deleted"
    BY <1>0 DEF ClubRow
  <2>. QED BY <1>0, <2>1, <2>2 DEF Live
<1>. QED BY <1>1, <1>2, ClubsChange DEF Live

\* The statements that write the logos.
LEMMA LogosChange ==
    ASSUME [Next]_vars
    PROVE  \/ UNCHANGED logoVars
           \/ /\ clubs' = clubs
              /\ \E r \in Requests : BeginLogoCall(r) \/ LogoStep(r) \/ StopLogo(r)
BY DEF Next, AtOnce, Begin, Step, Stop, Erase, vars, membershipVars, membershipTables

\* A request about a logo goes on statement by statement, or stops.
LEMMA LogoGoes ==
    ASSUME FlightOK, [Next]_vars, NEW q \in Requests, pc[q] \in LogoLabels
    PROVE  Stays(q) \/ LogoStep(q) \/ StopLogo(q)
<1>0. /\ pc[q] \notin AccountLabels \cup MembershipLabels \cup RatingLabels \cup SocialLabels
      /\ pc[q] # "idle"
  BY DEF MembershipLabels, AccountLabels, LogoLabels, Uploading, Removing, RatingLabels,
     SocialLabels
<1>1. ASSUME NEW r \in Requests, NEW to, NEW x, Moves(r, to, x), r # q PROVE Stays(q)
  BY <1>1 DEF FlightOK, LocOK, PcOK, Moves, Stays
<1>2. UNCHANGED flight => Stays(q)
  BY DEF flight, Stays
<1>3. UNCHANGED vars \/ AtOnce => UNCHANGED flight
  BY DEF vars, AtOnce, TimePasses, AccessExpires, RefreshExpires, LetterExpires, DropAccess,
     DropRefresh, MembershipAtOnce, DeleteClub, CancelRequest, RatingAtOnce, DeleteGame,
     MatchAtOnce, CreateSbmm
<1>4. ASSUME NEW r \in Requests, r # q, Begin(r) \/ Step(r) \/ Stop(r) PROVE Stays(q)
  <2>1. (\E to, x : Moves(r, to, x)) \/ ForeignMove(r)
    BY <1>4, AccountMoves, MembershipBegins, MembershipMoves, MembershipStops, LogoMoves,
       RatingMoves, MatchMoves DEF Begin, Step, Stop, Erase
  <2>. QED BY <1>1, <1>4, <2>1 DEF ForeignMove
<1>5. ~Begin(q)
  <2>0. ASSUME NEW label, NEW x, Start(q, label, x) PROVE FALSE
    BY <1>0, <2>0 DEF Start
  <2>1. ~BeginAccountCall(q)
    BY <2>0 DEF BeginAccountCall, Send, BeginLogin, BeginLogout, Register, RequestLetter,
       UseLetter
  <2>2. ~BeginMembershipCall(q)
    BY <1>0, BeginsIdle
  <2>3. ~BeginLogoCall(q)
    BY <2>0 DEF BeginLogoCall, UploadLogo, RemoveLogo, BeginLogo
  <2>4. ~BeginRatingCall(q) /\ ~BeginMatchCall(q)
    BY <2>0 DEF BeginRatingCall, CompleteGame, SeatPlayer, BeginRating, BeginMatchCall,
       CreateSocial
  <2>. QED BY <2>1, <2>2, <2>3, <2>4 DEF Begin
<1>6. ~AccountStep(q) /\ ~Erase(q)
  BY <1>0 DEF AccountStep, Authenticate, Sweep, GiveUp, AskRefresh, FindSession, SweepOld,
     Rotate, Resend, EditProfile, CheckPassword, IssueSession, SignIn, Logout, ClearCookies,
     Mail, DiscardLetter, SetPassword, SetVerified, SpendLetter, RevokeSessions, Erase,
     Tombstone, AccountLabels
<1>7. ~MembershipStep(q) /\ ~RatingStep(q) /\ ~MatchStep(q)
  BY <1>0 DEF MembershipStep, FoundMember, Apply, FindMember, Admit, ClearRequest, ReadMember,
     Unseat, DropDummy, DropUser, InsertDummy, InsertPlaceholder, SeatDummy, AddBot, MakeAdmin,
     UnmakeAdmin, WriteAdmin, RecordInvitation, FindInvited, SeatInvited, MembershipLabels,
     RatingStep, Fetch, InsertElo, LinkElo, Save, Mark, MatchStep, Swap, Split,
     RatingLabels, SocialLabels
<1>8. Stop(q) => StopLogo(q)
  BY <1>0 DEF Stop, StopAccountCall, StopMembershipCall, StopRating, StopSocial
<1>. QED BY <1>2, <1>3, <1>4, <1>5, <1>6, <1>7, <1>8 DEF Next, Step

\* A request comes to a statement about a logo by a call about one.
LEMMA LogoComes ==
    ASSUME FlightOK, OthersOK, [Next]_vars, NEW q \in Requests, pc'[q] \in LogoLabels
    PROVE  Stays(q) \/ BeginLogoCall(q) \/ LogoStep(q)
<1>0. pc'[q] \notin AccountLabels \cup MembershipLabels \cup RatingLabels \cup SocialLabels
                    \cup {"idle"}
  BY DEF MembershipLabels, AccountLabels, LogoLabels, Uploading, Removing, RatingLabels,
     SocialLabels
<1>1. CASE pc[q] \in LogoLabels
  <2>1. ~StopLogo(q)
    BY <1>0 DEF StopLogo, Drop, FlightOK, PcOK
  <2>. QED BY <1>1, <2>1, LogoGoes
<1>2. CASE pc[q] \notin LogoLabels
  <2>1. ~(BeginAccountCall(q) \/ AccountStep(q) \/ Tombstone(q) \/ BeginMembershipCall(q))
    BY <1>0, AccountTargets, MembershipBegun
  <2>. QED BY <1>0, <1>2, <2>1, Acts DEF MembershipGoesOn, LogoGoesOn, NobodyActs
<1>. QED BY <1>1, <1>2

\* The statements about a logo, each with what it does to the requests in flight.
LEMMA LogoBegins ==
    ASSUME FlightOK, NEW r \in Requests, BeginLogoCall(r)
    PROVE  \E u \in Users, c \in Clubs :
              /\ {"user", "club", "key"} \subseteq DOMAIN loc'[r]
              /\ loc'[r].club = c
              /\ logo' = logo /\ files' = files
              /\ \/ pc'[r] = "putLogo"
                    /\ smudged' = IF AtLogo(c, Removing) THEN smudged \cup {c} ELSE smudged
                 \/ pc'[r] = "readLogo"
                    /\ smudged' = IF AtLogo(c, Uploading) THEN smudged \cup {c} ELSE smudged
<1>1. PICK u \in Users, c \in Clubs :
         (\E type \in LogoTypes : UploadLogo(r, u, c, type)) \/ RemoveLogo(r, u, c)
  BY DEF BeginLogoCall
<1>2. ASSUME NEW label, NEW key, NEW others, BeginLogo(r, u, c, label, key, others)
      PROVE  /\ pc'[r] = label
             /\ {"user", "club", "key"} \subseteq DOMAIN loc'[r] /\ loc'[r].club = c
             /\ logo' = logo /\ files' = files
             /\ smudged' = IF AtLogo(c, others) THEN smudged \cup {c} ELSE smudged
  <2>1. pc'[r] = label /\ loc'[r] = [LogoLocals EXCEPT !.user = u, !.club = c, !.key = key]
    BY <1>2, GoesTo DEF BeginLogo, Start
  <2>. QED BY <1>2, <2>1 DEF BeginLogo, LogoLocals
<1>. QED BY <1>1, <1>2 DEF UploadLogo, RemoveLogo

LEMMA LogosOKStep ==
    ASSUME FlightOK, OthersOK, LogosOK, [Next]_vars
    PROVE  LogosOK'
<1>1. logo' = [c \in Clubs |-> logo'[c]]
  <2>1. ASSUME NEW r \in Requests, BeginLogoCall(r) \/ LogoStep(r) \/ StopLogo(r)
        PROVE  logo' = [c \in Clubs |-> logo'[c]]
    <3>1. CASE BeginLogoCall(r)
      BY <3>1, LogoBegins DEF LogosOK
    <3>2. ASSUME NEW c, NEW k, Show(c, k) PROVE logo' = [d \in Clubs |-> logo'[d]]
      BY <3>2 DEF Show, LogosOK
    <3>. QED BY <2>1, <3>1, <3>2 DEF LogoStep, PutLogo, SetLogo, ReadLogo, DropLogo, ClearLogo,
            StopLogo, logoVars, LogosOK
  <2>. QED BY <2>1, LogosChange DEF LogosOK, logoVars
<1>2. ASSUME NEW q \in Requests, pc'[q] \in LogoLabels
      PROVE  {"user", "club", "key"} \subseteq DOMAIN loc'[q] /\ loc'[q].club \in Clubs
  <2>1. CASE Stays(q)
    BY <1>2, <2>1 DEF Stays, LogosOK, LogoOK
  <2>2. CASE BeginLogoCall(q)
    BY <2>2, LogoBegins
  <2>3. CASE LogoStep(q)
    <3>1. {"user", "club", "key"} \subseteq DOMAIN loc[q] /\ loc[q].club \in Clubs
      BY <2>3 DEF LogosOK, LogoOK, LogoStep, PutLogo, SetLogo, ReadLogo, DropLogo, ClearLogo,
         LogoLabels, Uploading, Removing
    <3>2. ~Done(q)
      BY <1>2, GoesTo DEF Done, LogoLabels, Uploading, Removing
    <3>3. loc'[q] = loc[q] \/ \E k : loc'[q] = [loc[q] EXCEPT !.key = k]
      BY <2>3, <3>2, GoesTo DEF LogoStep, PutLogo, SetLogo, ReadLogo, DropLogo, ClearLogo, Proceed
    <3>. QED BY <3>1, <3>3
  <2>. QED BY <1>2, <2>1, <2>2, <2>3, LogoComes
<1>. QED BY <1>1, <1>2 DEF LogosOK, LogoOK

LEMMA SmudgedGrows ==
    ASSUME FlightOK, [Next]_vars
    PROVE  smudged \subseteq smudged'
<1>1. ASSUME NEW r \in Requests, BeginLogoCall(r) \/ LogoStep(r) \/ StopLogo(r)
      PROVE  smudged \subseteq smudged'
  BY <1>1, LogoBegins DEF LogoStep, PutLogo, SetLogo, ReadLogo, DropLogo, ClearLogo, StopLogo,
     logoVars
<1>. QED BY <1>1, LogosChange DEF logoVars

\* A request that is at a logo after a step was before, of the same kind and
\* club, unless it has just begun.
LEMMA KindKept ==
    ASSUME FlightOK, OthersOK, LogosOK, [Next]_vars, NEW q \in Requests,
           pc'[q] \in LogoLabels, ~BeginLogoCall(q)
    PROVE  /\ pc[q] \in LogoLabels /\ loc'[q].club = loc[q].club
           /\ pc'[q] \in Uploading <=> pc[q] \in Uploading
           /\ pc'[q] \in Removing <=> pc[q] \in Removing
<1>. USE DEF LogoLabels, Uploading, Removing
<1>1. CASE Stays(q)
  BY <1>1 DEF Stays
<1>2. CASE LogoStep(q)
  <2>1. pc[q] \in LogoLabels /\ {"user", "club", "key"} \subseteq DOMAIN loc[q]
    BY <1>2 DEF LogosOK, LogoOK, LogoStep, PutLogo, SetLogo, ReadLogo, DropLogo, ClearLogo
  <2>2. ~Done(q)
    BY GoesTo DEF Done
  <2>3. /\ loc'[q] = loc[q] \/ \E k : loc'[q] = [loc[q] EXCEPT !.key = k]
        /\ pc'[q] \in Uploading <=> pc[q] \in Uploading
        /\ pc'[q] \in Removing <=> pc[q] \in Removing
    <3>1. CASE PutLogo(q)
      BY <3>1, GoesTo DEF PutLogo, Proceed
    <3>2. CASE DropLogo(q)
      BY <3>2, GoesTo DEF DropLogo, Proceed
    <3>3. CASE ReadLogo(q)
      <4>1. pc[q] = "readLogo" /\ pc'[q] \in {"dropLogo", "clearLogo"}
        BY <3>3, GoesTo DEF ReadLogo, Proceed
      <4>2. loc'[q] = loc[q] \/ \E k : loc'[q] = [loc[q] EXCEPT !.key = k]
        BY <3>3, GoesTo DEF ReadLogo, Proceed
      <4>. QED BY <4>1, <4>2
    <3>. QED BY <1>2, <2>2, <3>1, <3>2, <3>3 DEF LogoStep, SetLogo, ClearLogo
  <2>. QED BY <2>1, <2>3
<1>. QED BY <1>1, <1>2, LogoComes

LEMMA OneKindStep ==
    ASSUME FlightOK, OthersOK, LogosOK, OneKind, [Next]_vars
    PROVE  OneKind'
<1>. SUFFICES ASSUME NEW c \in Clubs, c \notin smudged',
                     NEW p \in Requests, pc'[p] \in Uploading, loc'[p].club = c,
                     NEW q \in Requests, pc'[q] \in Removing, loc'[q].club = c
              PROVE  FALSE
  BY DEF OneKind, AtLogo, InFlightAt
<1>0. pc'[p] \in LogoLabels /\ pc'[q] \in LogoLabels /\ p # q /\ Uploading \cap Removing = {}
  BY DEF LogoLabels, Uploading, Removing
<1>1. c \notin smudged
  BY SmudgedGrows
<1>2. ASSUME NEW r \in Requests, BeginLogoCall(r), NEW s \in Requests, s # r PROVE Stays(s)
  BY <1>2, LogoMoves DEF ForeignMove, Moves, FlightOK, LocOK, PcOK, Stays
<1>3. CASE BeginLogoCall(p)
  <2>1. Stays(q)
    BY <1>0, <1>2, <1>3
  <2>2. AtLogo(c, Removing)
    BY <2>1 DEF Stays, AtLogo, InFlightAt
  <2>. QED BY <1>0, <1>3, <2>2, LogoBegins DEF Uploading, Removing
<1>4. CASE BeginLogoCall(q)
  <2>1. Stays(p)
    BY <1>0, <1>2, <1>4
  <2>2. AtLogo(c, Uploading)
    BY <2>1 DEF Stays, AtLogo, InFlightAt
  <2>. QED BY <1>0, <1>4, <2>2, LogoBegins DEF Uploading, Removing
<1>5. CASE ~BeginLogoCall(p) /\ ~BeginLogoCall(q)
  <2>1. pc[p] \in Uploading /\ loc[p].club = c /\ pc[q] \in Removing /\ loc[q].club = c
    BY <1>0, <1>5, KindKept
  <2>. QED BY <1>1, <2>1 DEF OneKind, AtLogo, InFlightAt
<1>. QED BY <1>3, <1>4, <1>5

LEMMA UnbornStep ==
    ASSUME FlightOK, ClubsOK, LogosOK, Unborn, [Next]_vars
    PROVE  Unborn'
<1>. SUFFICES ASSUME NEW c \in Clubs, clubs'[c].state = "free" PROVE logo'[c] = None
  BY DEF Unborn
<1>1. clubs[c].state = "free" /\ logo[c] = None /\ ~Live(c)
  BY ClubKept DEF Unborn, Live
<1>2. ASSUME NEW r \in Requests, BeginLogoCall(r) \/ LogoStep(r) \/ StopLogo(r)
      PROVE  logo'[c] = logo[c]
  <2>1. ASSUME NEW d, NEW k, Show(d, k) PROVE logo'[c] = logo[c]
    BY <1>1, <2>1 DEF Show, LogosOK
  <2>. QED BY <1>2, <2>1, LogoBegins DEF LogoStep, PutLogo, SetLogo, ReadLogo, DropLogo,
              ClearLogo, StopLogo, logoVars
<1>. QED BY <1>1, <1>2, LogosChange DEF logoVars

\* A file of a club goes only when a removal deletes it.
LEMMA FileKept ==
    ASSUME FlightOK, LogosOK, [Next]_vars, NEW x \in files, x \notin files'
    PROVE  \E r \in Requests : DropLogo(r) /\ x = <<loc[r].club, loc[r].key>>
<1>1. ASSUME NEW r \in Requests, BeginLogoCall(r) \/ LogoStep(r) \/ StopLogo(r)
      PROVE  DropLogo(r) /\ x = <<loc[r].club, loc[r].key>>
  BY <1>1, LogoBegins DEF LogoStep, PutLogo, SetLogo, ReadLogo, DropLogo, ClearLogo, StopLogo,
     logoVars
<1>. QED BY <1>1, LogosChange DEF logoVars

LEMMA StoredStep ==
    ASSUME FlightOK, OthersOK, LogosOK, OneKind, Stored, [Next]_vars
    PROVE  Stored'
<1>. SUFFICES ASSUME NEW q \in Requests, pc'[q] = "setLogo", loc'[q].club \notin smudged'
              PROVE  <<loc'[q].club, loc'[q].key>> \in files'
  BY DEF Stored, InFlightAt
<1>0. pc'[q] \in LogoLabels /\ loc'[q].club \notin smudged
  BY SmudgedGrows DEF LogoLabels, Uploading
<1>1. ~BeginLogoCall(q)
  BY LogoBegins
<1>2. CASE PutLogo(q)
  BY <1>2, GoesTo DEF PutLogo, Proceed
<1>3. CASE Stays(q)
  <2>. DEFINE x == <<loc[q].club, loc[q].key>>
  <2>1. x \in files /\ pc[q] = "setLogo" /\ loc'[q] = loc[q] /\ loc[q].club \in Clubs
    BY <1>0, <1>3 DEF Stays, Stored, InFlightAt, LogosOK, LogoOK
  <2>2. ASSUME NEW r \in Requests, DropLogo(r), x = <<loc[r].club, loc[r].key>> PROVE FALSE
    <3>1. pc[r] = "dropLogo" /\ loc[r].club = loc[q].club
      BY <2>2 DEF DropLogo
    <3>. QED BY <1>0, <2>1, <3>1 DEF OneKind, AtLogo, InFlightAt, Uploading, Removing
  <2>. QED BY <2>1, <2>2, FileKept
<1>4. LogoStep(q) => PutLogo(q)
  BY GoesTo DEF LogoStep, SetLogo, ReadLogo, DropLogo, ClearLogo, Done, Proceed
<1>. QED BY <1>0, <1>1, <1>2, <1>3, <1>4, LogoComes

\* The statement that clears a row gives way to nothing else but a stop.
LEMMA ClearingEnds ==
    ASSUME FlightOK, [Next]_vars, NEW q \in Requests, pc[q] = "clearLogo"
    PROVE  Stays(q) \/ ClearLogo(q) \/ StopLogo(q)
BY LogoGoes DEF LogoLabels, Removing, LogoStep, PutLogo, SetLogo, ReadLogo, DropLogo

LEMMA ThereStep ==
    ASSUME FlightOK, OthersOK, ClubsOK, LogoInv, [Next]_vars
    PROVE  LogosAreThere'
<1>. SUFFICES ASSUME NEW c \in Clubs, c \notin smudged', Live(c)', logo'[c] # None,
                     <<c, logo'[c]>> \notin files'
              PROVE  \E q \in Requests : pc'[q] = "clearLogo" /\ loc'[q].club = c
  BY DEF LogosAreThere, AtLogo, InFlightAt
<1>0. c \notin smudged
  BY SmudgedGrows
<1>. DEFINE Goal == \E q \in Requests : pc'[q] = "clearLogo" /\ loc'[q].club = c
<1>1. CASE logo'[c] = logo[c]
  <2>1. Live(c)
    BY <1>1, LiveAgain DEF LogoInv, Unborn
  <2>2. CASE <<c, logo[c]>> \in files
    <3>1. PICK r \in Requests : DropLogo(r) /\ <<c, logo[c]>> = <<loc[r].club, loc[r].key>>
      BY <1>1, <2>2, FileKept DEF LogoInv
    <3>2. pc'[r] = "clearLogo" /\ loc'[r] = loc[r]
      BY <3>1, GoesTo DEF DropLogo, Proceed
    <3>. QED BY <3>1, <3>2
  <2>3. CASE AtLogo(c, {"clearLogo"})
    <3>1. PICK q \in Requests : pc[q] = "clearLogo" /\ loc[q].club = c
      BY <2>3 DEF AtLogo, InFlightAt
    <3>2. ~StopLogo(q)
      BY <3>1 DEF StopLogo, Removing
    <3>3. ~ClearLogo(q)
      BY <2>1, <3>1 DEF ClearLogo, Show, LogoInv, LogosOK
    <3>. QED BY <3>1, <3>2, <3>3, ClearingEnds DEF Stays
  <2>. QED BY <1>0, <1>1, <2>1, <2>2, <2>3 DEF LogoInv, LogosAreThere
<1>2. CASE logo'[c] # logo[c]
  <2>1. PICK r \in Requests : BeginLogoCall(r) \/ LogoStep(r) \/ StopLogo(r)
    BY <1>2, LogosChange DEF logoVars
  <2>2. SetLogo(r) \/ ClearLogo(r)
    BY <1>2, <2>1, LogoBegins DEF LogoStep, PutLogo, ReadLogo, DropLogo, StopLogo, logoVars
  <2>3. ASSUME NEW d, NEW k, Show(d, k) PROVE d = c /\ logo'[c] = k
    BY <1>2, <2>3 DEF Show, LogoInv, LogosOK
  <2>4. ~ClearLogo(r)
    BY <2>3 DEF ClearLogo
  <2>5. /\ pc[r] = "setLogo" /\ loc[r].club = c /\ logo'[c] = loc[r].key /\ files' = files
    BY <2>2, <2>3, <2>4 DEF SetLogo
  <2>. QED BY <1>0, <2>5 DEF LogoInv, Stored, InFlightAt
<1>. QED BY <1>1, <1>2

\* A club that shows a logo has its file, or a removal is about to clear the row,
\* unless a removal overlapped an upload or stopped (upload_logo, remove_logo).
THEOREM LogosStay == Spec => []LogosAreThere
<1>1. Init => OthersOK /\ ClubsOK /\ LogoInv
  <2>1. Init => LogoInv
    BY DEF Init, FlightInit, LogoInit, LogoInv, LogosOK, LogoOK, Unborn, OneKind, Stored,
       LogosAreThere, AtLogo, InFlightAt, LogoLabels, Uploading, Removing
  <2>. QED BY <2>1, OthersInit, ClubsInit
<1>2. (FlightOK /\ TablesOK) /\ (OthersOK /\ ClubsOK /\ LogoInv) /\ [Next]_vars
        => (OthersOK /\ ClubsOK /\ LogoInv)'
  BY OthersStep, ClubsStep, LogosOKStep, UnbornStep, OneKindStep, StoredStep, ThereStep
  DEF LogoInv
<1>3. LogoInv => LogosAreThere
  BY DEF LogoInv
<1>. QED BY <1>1, <1>2, <1>3, TypesHold, PTL DEF Spec
=============================================================================
