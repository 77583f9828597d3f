----------------------------- MODULE Membership -----------------------------
(***************************************************************************)
(* Clubs and their members: src/server/src/domain/clubs.rs over the tables *)
(* of migrations/0002_clubs.sql.  The rights of the person who asks are    *)
(* read once, before the statements they allow; nothing reads them again.  *)
(* They are checked on the club the request names, while the row another   *)
(* of its ids names may be of any club.  Only accepted requests are        *)
(* modelled.                                                               *)
(***************************************************************************)
EXTENDS Accounts

CONSTANTS
    Clubs,
    Founder, Helper,    \* president and one more admin of the first clubs
    MaxMembers,         \* bounds on the rows there can ever be
    MaxMemberRequests,
    MaxDummies

ASSUME MembershipAssumption ==
    /\ {MaxMembers, MaxMemberRequests, MaxDummies} \subseteq Nat \ {0}
    /\ MaxMembers >= 2
    /\ {Founder, Helper} \subseteq Users /\ Founder # Helper
    /\ Users \cap Nat = {}   \* placeholders are numbered, and users rows of their own

VARIABLES
    clubs,            \* clubs rows
    members,          \* members rows, by id
    memberRequests,   \* member_requests rows, by id
    dummies,          \* dummy_users rows, by id
    placeholders,     \* the dummies with a users row
    bots,             \* club_bots rows
    row,              \* the last id of each table
    \* History, read by the properties only.
    disturbed,        \* memberships two requests changed at once, or one stopped at
    stopped,          \* dummies whose creation or removal stopped half-way
    unfounded,        \* clubs whose creation stopped half-way
    invited           \* requests recorded by the invitation of somebody who was a member

membershipTables == <<clubs, members, memberRequests, dummies, placeholders, bots, row>>
membershipHistory == <<disturbed, stopped, unfounded, invited>>
membershipVars == <<membershipTables, membershipHistory>>

-----------------------------------------------------------------------------

Dummy == 1..MaxDummies   \* a placeholder's users row is named after its dummy

People == Users \cup Dummy

ClubRow == [state : {"free", "live", "deleted"}, president : Users]
MemberRow == [club : Clubs, who : People, member : BOOLEAN, admin : BOOLEAN]
MemberRequestRow == [club : Clubs, who : Users]

MembershipLabels == {"found", "apply", "findMember", "admit", "clearRequest", "readMember",
                     "unseat", "dropDummy", "dropUser", "makeAdmin", "unmakeAdmin", "dummy",
                     "placeholder", "seatDummy", "bot", "invite", "findInvited", "seatInvited"}

\* user: who is acting; who: whose membership; row: the members row;
\* request: the member_requests row.
MembershipLocals == [user |-> None, club |-> None, who |-> None, row |-> None, request |-> None]

\* The helper may still be outside where people ask to join or are invited, and
\* there may be no club where clubs are founded, unless its admins are to answer.
FirstMembers == IF Asks("createClub") THEN IF Asks("accept") THEN {{1, 2}} ELSE {{}, {1, 2}}
                ELSE IF Asks("join") \/ Asks("invite") THEN {{1}, {1, 2}}
                ELSE {{1, 2}}

MembershipInit ==
    \E first \in FirstMembers, home \in Clubs :
        /\ clubs = [c \in Clubs |->
              [state |-> IF c # home \/ first = {} THEN "free" ELSE "live",
               president |-> Founder]]
        /\ members = [m \in first |->
              [club |-> home, who |-> IF m = 1 THEN Founder ELSE Helper,
               member |-> TRUE, admin |-> TRUE]]
        /\ memberRequests = [q \in {} |-> None]
        /\ dummies = [d \in {} |-> None] /\ placeholders = {} /\ bots = {}
        /\ row = [member |-> Cardinality(first), request |-> 0, dummy |-> 0]
        /\ disturbed = {} /\ stopped = {} /\ unfounded = {} /\ invited = {}

MembersOf(c, p) == {m \in DOMAIN members : members[m].club = c /\ members[m].who = p}

Live(c) == clubs[c].state = "live"

SignedIn(u) == users[u].state = "active" \/ RowsOf(tokens, u) # {}

\* is_member, is_admin: the first row found, if there are several.
IsMember(c, u) == \E m \in MembersOf(c, u) : members[m].member
MayBeOutside(c, u) ==
    MembersOf(c, u) = {} \/ \E m \in MembersOf(c, u) : ~members[m].member
IsAdmin(c, u) == Live(c) /\ \E m \in MembersOf(c, u) : members[m].admin
IsPresident(c, u) == Live(c) /\ clubs[c].president = u

\* The memberships other requests are about.
InHand(r) ==
    {<<loc[q].club, loc[q].who>> : q \in {x \in Requests \ {r} : pc[x] \in MembershipLabels}}

\* A handler accepted for a membership.
BeginFor(r, label, l) ==
    /\ SignedIn(l.user)
    /\ Start(r, label, l)
    /\ disturbed' = disturbed \cup ({<<l.club, l.who>>} \cap InHand(r))
    /\ UNCHANGED <<membershipTables, stopped, unfounded, invited>>

RoomForMember ==
    row.member + Cardinality(InFlightAt({"found", "findMember", "admit", "dummy", "placeholder",
                                         "seatDummy", "invite", "findInvited",
                                         "seatInvited"})) < MaxMembers

RoomForRequest ==
    row.request + Cardinality(InFlightAt({"apply", "invite"})) < MaxMemberRequests

-----------------------------------------------------------------------------
\* create_club, delete_club.

CreateClub(r, u, c) ==
    /\ Asks("createClub")
    /\ RoomForMember
    /\ SignedIn(u)
    /\ clubs[c].state = "free"
    /\ clubs' = [clubs EXCEPT ![c] = [state |-> "live", president |-> u]]
    /\ Start(r, "found", [MembershipLocals EXCEPT !.user = u, !.club = c, !.who = u])
    /\ UNCHANGED <<members, memberRequests, dummies, placeholders, bots, row, membershipHistory>>

Insert(m) ==
    /\ members' = With(members, row.member + 1, m)
    /\ row' = [row EXCEPT !.member = @ + 1]

\* Here and below an INSERT that refers to a row that is gone ends the request.
FoundMember(r) ==
    LET l == loc[r]
    IN  /\ pc[r] = "found"
        /\ IF Live(l.club)
             THEN Insert([club |-> l.club, who |-> l.who, member |-> TRUE, admin |-> TRUE])
             ELSE UNCHANGED <<members, row>>
        /\ Done(r)
        /\ UNCHANGED <<clubs, memberRequests, dummies, placeholders, bots, membershipHistory>>

InClub(table, c) == {i \in DOMAIN table : table[i].club = c}

\* Anyone signed in may; the schema takes everything of the club along but the
\* users rows of its placeholders.
DeleteClub(u, c) ==
    /\ Asks("deleteClub")
    /\ SignedIn(u) /\ Live(c)
    /\ clubs' = [clubs EXCEPT ![c].state = "deleted"]
    /\ members' = Without(members, InClub(members, c))
    /\ memberRequests' = Without(memberRequests, InClub(memberRequests, c))
    /\ dummies' = Without(dummies, {d \in DOMAIN dummies : dummies[d] = c})
    /\ bots' = {b \in bots : b[1] # c}
    /\ UNCHANGED <<flight, placeholders, row, membershipHistory>>

-----------------------------------------------------------------------------
\* create_request, cancel_request, accept_request, reject_request.

RequestToJoin(r, u, c) ==
    /\ Asks("join")
    /\ RoomForRequest
    /\ Live(c) /\ MayBeOutside(c, u)
    /\ BeginFor(r, "apply", [MembershipLocals EXCEPT !.user = u, !.club = c, !.who = u])

RequestsOf(c, u) ==
    {q \in DOMAIN memberRequests : memberRequests[q].club = c /\ memberRequests[q].who = u}

\* The INSERT of a request, unless there is one.
Record(c, u) ==
    IF Live(c) /\ RequestsOf(c, u) = {}
      THEN /\ memberRequests' = With(memberRequests, row.request + 1, [club |-> c, who |-> u])
           /\ row' = [row EXCEPT !.request = @ + 1]
      ELSE UNCHANGED <<memberRequests, row>>

Apply(r) ==
    /\ pc[r] = "apply"
    /\ Record(loc[r].club, loc[r].who)
    /\ Done(r)
    /\ UNCHANGED <<clubs, members, dummies, placeholders, bots, membershipHistory>>

CancelRequest(q) ==
    /\ Asks("join")
    /\ q \in DOMAIN memberRequests
    /\ SignedIn(memberRequests[q].who)
    /\ memberRequests' = Without(memberRequests, {q})
    /\ UNCHANGED <<flight, clubs, members, dummies, placeholders, bots, row, membershipHistory>>

BeginAnswer(r, u, q, label) ==
    /\ q \in DOMAIN memberRequests
    /\ \E c \in Clubs : IsAdmin(c, u)
    /\ BeginFor(r, label, [MembershipLocals EXCEPT !.user = u, !.club = memberRequests[q].club,
                                                   !.who = memberRequests[q].who, !.request = q])

AcceptRequest(r, u, q) == Asks("accept") /\ RoomForMember /\ BeginAnswer(r, u, q, "findMember")

RejectRequest(r, u, q) == Asks("accept") /\ BeginAnswer(r, u, q, "clearRequest")

\* Mutant: a membership that has ended is not seen.
FindActiveMember(r) ==
    LET found == {m \in MembersOf(loc[r].club, loc[r].who) : members[m].member}
    IN  /\ pc[r] = "findMember"
        /\ \/ found = {} /\ Proceed(r, "admit")
           \/ \E m \in found : Goto(r, "admit", [loc[r] EXCEPT !.row = m])
        /\ UNCHANGED membershipVars

FindMember(r) ==
    LET found == MembersOf(loc[r].club, loc[r].who)
    IN  /\ pc[r] = "findMember"
        /\ \/ found = {} /\ Proceed(r, "admit")
           \/ \E m \in found : Goto(r, "admit", [loc[r] EXCEPT !.row = m])
        /\ UNCHANGED membershipVars

Admit(r) ==
    LET l == loc[r]
        fails == l.row = None /\ ~Live(l.club)
    IN  /\ pc[r] = "admit"
        /\ IF l.row = None /\ ~fails
             THEN Insert([club |-> l.club, who |-> l.who, member |-> TRUE, admin |-> FALSE])
             ELSE /\ members' = [m \in DOMAIN members |->
                        IF m = l.row THEN [members[m] EXCEPT !.member = TRUE] ELSE members[m]]
                  /\ UNCHANGED row
        /\ IF fails THEN Done(r) ELSE Proceed(r, "clearRequest")
        /\ UNCHANGED <<clubs, memberRequests, dummies, placeholders, bots, membershipHistory>>

ClearRequest(r) ==
    /\ pc[r] = "clearRequest"
    /\ memberRequests' = Without(memberRequests, {loc[r].request})
    /\ Done(r)
    /\ UNCHANGED <<clubs, members, dummies, placeholders, bots, row, membershipHistory>>

-----------------------------------------------------------------------------
\* invite_member (events.rs): a request to join, and a membership to play with
\* meanwhile, unless there is one.

Invite(r, u, c, who) ==
    /\ Asks("invite")
    /\ RoomForMember /\ RoomForRequest
    /\ IsAdmin(c, u)
    /\ users[who].state = "active"
    /\ BeginFor(r, "invite", [MembershipLocals EXCEPT !.user = u, !.club = c, !.who = who])

RecordInvitation(r) ==
    /\ pc[r] = "invite"
    /\ Record(loc[r].club, loc[r].who)
    /\ invited' = IF IsMember(loc[r].club, loc[r].who)
                   THEN invited \cup (DOMAIN memberRequests' \ DOMAIN memberRequests) ELSE invited
    /\ IF Live(loc[r].club) THEN Proceed(r, "findInvited") ELSE Done(r)
    /\ UNCHANGED <<clubs, members, dummies, placeholders, bots, disturbed, stopped, unfounded>>

\* The activation for the event follows, in both cases.
FindInvited(r) ==
    /\ pc[r] = "findInvited"
    /\ IF MembersOf(loc[r].club, loc[r].who) = {} THEN Proceed(r, "seatInvited") ELSE Done(r)
    /\ UNCHANGED membershipVars

SeatInvited(r) ==
    LET l == loc[r]
    IN  /\ pc[r] = "seatInvited"
        /\ IF Live(l.club)
             THEN Insert([club |-> l.club, who |-> l.who, member |-> FALSE, admin |-> FALSE])
             ELSE UNCHANGED <<members, row>>
        /\ Done(r)
        /\ UNCHANGED <<clubs, memberRequests, dummies, placeholders, bots, membershipHistory>>

-----------------------------------------------------------------------------
\* delete_member, leave_club, remove_member.

BeginMemberCall(r, u, m, label) ==
    BeginFor(r, label, [MembershipLocals EXCEPT !.user = u, !.club = members[m].club,
                                                !.who = members[m].who, !.row = m])

DeleteMember(r, u, m) ==
    /\ Asks("remove")
    /\ m \in DOMAIN members
    /\ \E c \in Clubs : IsAdmin(c, u)
    /\ BeginMemberCall(r, u, m, "readMember")

LeaveClub(r, u, m) ==
    /\ Asks("leave")
    /\ m \in DOMAIN members
    /\ members[m].who = u /\ IsAdmin(members[m].club, u)
    /\ BeginMemberCall(r, u, m, "readMember")

\* Mutant: the president is removed like any other admin.
ReadAnyMember(r) ==
    LET m == loc[r].row
    IN  /\ pc[r] = "readMember"
        /\ IF \/ m \notin DOMAIN members
              \/ members[m].admin /\ clubs[members[m].club].president # loc[r].user
             THEN Done(r)
             ELSE Proceed(r, IF members[m].who \in Dummy THEN "dropDummy" ELSE "unseat")
        /\ UNCHANGED membershipVars

\* Mutant: a placeholder is removed like a person.
ReadPersonMember(r) ==
    LET m == loc[r].row
    IN  /\ pc[r] = "readMember"
        /\ IF \/ m \notin DOMAIN members
              \/ clubs[members[m].club].president = members[m].who
              \/ members[m].admin /\ clubs[members[m].club].president # loc[r].user
             THEN Done(r)
             ELSE Proceed(r, "unseat")
        /\ UNCHANGED membershipVars

\* A president is never removed, and an admin only by the president.
ReadMember(r) ==
    LET m == loc[r].row
    IN  /\ pc[r] = "readMember"
        /\ IF \/ m \notin DOMAIN members
              \/ clubs[members[m].club].president = members[m].who
              \/ members[m].admin /\ clubs[members[m].club].president # loc[r].user
             THEN Done(r)
             ELSE Proceed(r, IF members[m].who \in Dummy THEN "dropDummy" ELSE "unseat")
        /\ UNCHANGED membershipVars

\* is_admin is written as it was read, or cleared: 0 in both cases.
Unseat(r) ==
    /\ pc[r] = "unseat"
    /\ members' = [m \in DOMAIN members |->
          IF m = loc[r].row THEN [members[m] EXCEPT !.member = FALSE, !.admin = FALSE]
          ELSE members[m]]
    /\ Done(r)
    /\ UNCHANGED <<clubs, memberRequests, dummies, placeholders, bots, row, membershipHistory>>

DropDummy(r) ==
    /\ pc[r] = "dropDummy"
    /\ dummies' = Without(dummies, {loc[r].who})
    /\ Proceed(r, "dropUser")
    /\ UNCHANGED <<clubs, members, memberRequests, placeholders, bots, row, membershipHistory>>

\* Mutant: the bot of the club is left behind.
DropUserOnly(r) ==
    LET d == loc[r].who
    IN  /\ pc[r] = "dropUser"
        /\ placeholders' = placeholders \ {d}
        /\ members' = Without(members, {m \in DOMAIN members : members[m].who = d})
        /\ Done(r)
        /\ UNCHANGED <<clubs, memberRequests, dummies, bots, row, membershipHistory>>

\* The schema takes the membership and the bot along.
DropUser(r) ==
    LET d == loc[r].who
    IN  /\ pc[r] = "dropUser"
        /\ placeholders' = placeholders \ {d}
        /\ members' = Without(members, {m \in DOMAIN members : members[m].who = d})
        /\ bots' = {b \in bots : b[2] # d}
        /\ Done(r)
        /\ UNCHANGED <<clubs, memberRequests, dummies, row, membershipHistory>>

-----------------------------------------------------------------------------
\* create_dummy_user: four INSERTs.

CreateDummy(r, u, c) ==
    /\ Asks("dummy")
    /\ RoomForMember
    /\ row.dummy + Cardinality(InFlightAt({"dummy"})) < MaxDummies
    /\ SignedIn(u) /\ IsAdmin(c, u)
    /\ Start(r, "dummy", [MembershipLocals EXCEPT !.user = u, !.club = c])
    /\ UNCHANGED membershipVars

InsertDummy(r) ==
    LET d == row.dummy + 1
    IN  /\ pc[r] = "dummy"
        /\ IF Live(loc[r].club)
             THEN /\ dummies' = With(dummies, d, loc[r].club)
                  /\ row' = [row EXCEPT !.dummy = d]
                  /\ Goto(r, "placeholder", [loc[r] EXCEPT !.who = d])
             ELSE Done(r) /\ UNCHANGED <<dummies, row>>
        /\ UNCHANGED <<clubs, members, memberRequests, placeholders, bots, membershipHistory>>

InsertPlaceholder(r) ==
    /\ pc[r] = "placeholder"
    /\ placeholders' = placeholders \cup {loc[r].who}
    /\ Proceed(r, "seatDummy")
    /\ UNCHANGED <<clubs, members, memberRequests, dummies, bots, row, membershipHistory>>

SeatDummy(r) ==
    LET l == loc[r]
    IN  /\ pc[r] = "seatDummy"
        /\ IF Live(l.club)
             THEN /\ Insert([club |-> l.club, who |-> l.who, member |-> TRUE, admin |-> FALSE])
                  /\ Proceed(r, "bot")
             ELSE Done(r) /\ UNCHANGED <<members, row>>
        /\ UNCHANGED <<clubs, memberRequests, dummies, placeholders, bots, membershipHistory>>

AddBot(r) ==
    LET l == loc[r]
    IN  /\ pc[r] = "bot"
        /\ bots' = IF Live(l.club) /\ l.who \in placeholders THEN bots \cup {<<l.club, l.who>>}
                   ELSE bots
        /\ Done(r)
        /\ UNCHANGED <<clubs, members, memberRequests, dummies, placeholders, row,
                       membershipHistory>>

-----------------------------------------------------------------------------
\* promote_member, demote_member.

PromoteMember(r, u, m) ==
    /\ Asks("promote")
    /\ m \in DOMAIN members
    /\ \E c \in Clubs : IsPresident(c, u)
    /\ ~members[m].admin
    /\ BeginMemberCall(r, u, m, "makeAdmin")

\* Mutant: an admin may do it too.
DemoteByAdmin(r, u, m) ==
    /\ Asks("promote")
    /\ m \in DOMAIN members
    /\ \E c \in Clubs : IsAdmin(c, u)
    /\ members[m].admin
    /\ BeginMemberCall(r, u, m, "unmakeAdmin")

DemoteMember(r, u, m) ==
    /\ Asks("promote")
    /\ m \in DOMAIN members
    /\ \E c \in Clubs : IsPresident(c, u)
    /\ members[m].admin
    /\ BeginMemberCall(r, u, m, "unmakeAdmin")

WriteAdmin(r, label, admin) ==
    /\ pc[r] = label
    /\ members' = [m \in DOMAIN members |->
          IF m = loc[r].row THEN [members[m] EXCEPT !.admin = admin] ELSE members[m]]
    /\ Done(r)
    /\ UNCHANGED <<clubs, memberRequests, dummies, placeholders, bots, row, membershipHistory>>

MakeAdmin(r) == WriteAdmin(r, "makeAdmin", TRUE)

UnmakeAdmin(r) == WriteAdmin(r, "unmakeAdmin", FALSE)

-----------------------------------------------------------------------------

StopMembershipCall(r) ==
    /\ pc[r] \in MembershipLabels
    /\ Drop(r)
    /\ disturbed' = IF loc[r].who = None THEN disturbed
                    ELSE disturbed \cup {<<loc[r].club, loc[r].who>>}
    /\ stopped' = stopped \cup ({loc[r].who} \cap Dummy)
    /\ unfounded' = IF pc[r] = "found" THEN unfounded \cup {loc[r].club} ELSE unfounded
    /\ UNCHANGED <<membershipTables, invited>>

BeginMembershipCall(r) ==
    \E u \in Users :
        \/ \E c \in Clubs :
              \/ CreateClub(r, u, c) \/ RequestToJoin(r, u, c) \/ CreateDummy(r, u, c)
              \/ \E who \in Users : Invite(r, u, c, who)
        \/ \E q \in DOMAIN memberRequests : AcceptRequest(r, u, q) \/ RejectRequest(r, u, q)
        \/ \E m \in DOMAIN members :
              \/ DeleteMember(r, u, m) \/ LeaveClub(r, u, m)
              \/ PromoteMember(r, u, m) \/ DemoteMember(r, u, m)

MembershipStep(r) ==
    \/ FoundMember(r) \/ Apply(r) \/ FindMember(r) \/ Admit(r) \/ ClearRequest(r)
    \/ ReadMember(r) \/ Unseat(r) \/ DropDummy(r) \/ DropUser(r)
    \/ InsertDummy(r) \/ InsertPlaceholder(r) \/ SeatDummy(r) \/ AddBot(r)
    \/ MakeAdmin(r) \/ UnmakeAdmin(r)
    \/ RecordInvitation(r) \/ FindInvited(r) \/ SeatInvited(r)

MembershipAtOnce ==
    \/ \E u \in Users, c \in Clubs : DeleteClub(u, c)
    \/ \E q \in DOMAIN memberRequests : CancelRequest(q)

-----------------------------------------------------------------------------
MembershipTypeOK ==
    /\ clubs \in [Clubs -> ClubRow]
    /\ \A m \in DOMAIN members : m \in 1..row.member /\ members[m] \in MemberRow
    /\ \A q \in DOMAIN memberRequests :
          q \in 1..row.request /\ memberRequests[q] \in MemberRequestRow
    /\ \A d \in DOMAIN dummies : d \in 1..row.dummy /\ dummies[d] \in Clubs
    /\ placeholders \subseteq 1..row.dummy
    /\ bots \subseteq Clubs \X placeholders
    /\ row.member \in 0..MaxMembers /\ row.request \in 0..MaxMemberRequests
    /\ row.dummy \in 0..MaxDummies
    /\ disturbed \subseteq Clubs \X People /\ stopped \subseteq Dummy
    /\ unfounded \subseteq Clubs /\ invited \subseteq 1..row.request

\* A person has one members row of a club, through any number of removals and
\* readmissions, and somebody who is a member has a pending request only if it
\* was recorded by an invitation they did not need, unless two requests about
\* the membership overlapped or one stopped (accept_request, create_request,
\* remove_member, invite_member; nothing in the schema says so).
OneMembershipEach ==
    \A c \in Clubs, p \in People : <<c, p>> \notin disturbed =>
        /\ Cardinality(MembersOf(c, p)) <= 1
        /\ IsMember(c, p) /\ ~(RequestsOf(c, p) \subseteq invited) =>
              \E r \in InFlightAt(MembershipLabels) : loc[r].club = c /\ loc[r].who = p

\* What ends somebody's being an admin of a club that goes on is a removal asked
\* for by its president, or a demotion asked for by a president, whichever club
\* is theirs: never a plain admin, unless the request overlapped another about
\* the same person (remove_member, demote_member, leave_club).
OnlyPresidentsUnmakeAdmins ==
    [][\A m \in DOMAIN members :
          LET c == members[m].club
          IN  members[m].admin /\ ~(m \in DOMAIN members' /\ members'[m].admin) =>
                 \/ clubs'[c].state = "deleted"
                 \/ <<c, members[m].who>> \in disturbed
                 \/ \E r \in Requests :
                       /\ pc[r] \in {"unseat", "dropUser"} /\ pc'[r] = "idle"
                       /\ loc[r].user = clubs[c].president
                 \/ \E r \in Requests, d \in Clubs :
                       /\ pc[r] = "unmakeAdmin" /\ pc'[r] = "idle"
                       /\ clubs[d].state # "free" /\ loc[r].user = clubs[d].president
       ]_membershipVars

\* A placeholder member is whole or gone: dummy, users row, membership and bot
\* are all there or none is, unless a request is making or removing it, or one
\* stopped, or its club was deleted (create_dummy_user, remove_member).
PlaceholdersAreWhole ==
    \A d \in 1..row.dummy \ stopped :
        \/ \E r \in InFlightAt(MembershipLabels) : loc[r].who = d
        \/ d \notin DOMAIN dummies /\ \E c \in Clubs : clubs[c].state = "deleted"
        \/ /\ d \in DOMAIN dummies /\ d \in placeholders
           /\ <<dummies[d], d>> \in bots
           /\ IsMember(dummies[d], d)
        \/ /\ d \notin DOMAIN dummies \cup placeholders
           /\ \A c \in Clubs : <<c, d>> \notin bots /\ MembersOf(c, d) = {}

\* A club has its president among its members, once it is founded, whatever is
\* asked of it, unless its creation stopped half-way (create_club,
\* remove_member, demote_member).
PresidentsBelong ==
    \A c \in Clubs : Live(c) =>
        \/ IsMember(c, clubs[c].president)
        \/ \E r \in InFlightAt({"found"}) : loc[r].club = c
        \/ c \in unfounded
=============================================================================
