----------------------------- MODULE ClubServer -----------------------------
(***************************************************************************)
(* Accounts, membership, logos, ratings and matchmaking put together, as   *)
(* the router of src/server/src/main.rs serves them over one database.     *)
(* The erasure of an account is where they meet: one transaction takes     *)
(* what is the user's own from the tables of several of them.              *)
(***************************************************************************)
EXTENDS Logos, Ratings, Matchmaking

vars == <<flight, accountVars, membershipVars, logoVars, ratingsVars, matchVars>>

Init == FlightInit /\ AccountsInit /\ MembershipInit /\ LogoInit /\ RatingsInit /\ MatchInit

\* Mutant: the requests to join a club are forgotten.
ForgetNothing(u) == UNCHANGED membershipVars

\* What the transaction of account_delete takes of the tables of clubs.
ForgetRequests(u) ==
    /\ memberRequests' = Without(memberRequests, {q \in DOMAIN memberRequests :
                                                     memberRequests[q].who = u})
    /\ UNCHANGED <<clubs, members, dummies, placeholders, bots, row, membershipHistory>>

Erase(r) == Tombstone(r) /\ ForgetRequests(loc[r].user) /\ UNCHANGED <<logoVars, ratingsVars, matchVars>>

Begin(r) ==
    \/ BeginAccountCall(r) /\ UNCHANGED <<membershipVars, logoVars, ratingsVars, matchVars>>
    \/ BeginMembershipCall(r) /\ UNCHANGED <<accountVars, logoVars, ratingsVars, matchVars>>
    \/ BeginLogoCall(r) /\ UNCHANGED <<accountVars, membershipVars, ratingsVars, matchVars>>
    \/ BeginRatingCall(r) /\ UNCHANGED <<accountVars, membershipVars, logoVars, matchVars>>
    \/ BeginMatchCall(r) /\ UNCHANGED <<accountVars, membershipVars, logoVars, ratingsVars>>

Step(r) ==
    \/ AccountStep(r) /\ UNCHANGED <<membershipVars, logoVars, ratingsVars, matchVars>>
    \/ Erase(r)
    \/ MembershipStep(r) /\ UNCHANGED <<accountVars, logoVars, ratingsVars, matchVars>>
    \/ LogoStep(r) /\ UNCHANGED <<accountVars, membershipVars, ratingsVars, matchVars>>
    \/ RatingStep(r) /\ UNCHANGED <<accountVars, membershipVars, logoVars, matchVars>>
    \/ MatchStep(r) /\ UNCHANGED <<accountVars, membershipVars, logoVars, ratingsVars>>

Stop(r) ==
    \/ StopAccountCall(r) /\ UNCHANGED <<membershipVars, logoVars, ratingsVars, matchVars>>
    \/ StopMembershipCall(r) /\ UNCHANGED <<accountVars, logoVars, ratingsVars, matchVars>>
    \/ StopLogo(r) /\ UNCHANGED <<accountVars, membershipVars, ratingsVars, matchVars>>
    \/ StopRating(r) /\ UNCHANGED <<accountVars, membershipVars, logoVars, matchVars>>
    \/ StopSocial(r) /\ UNCHANGED <<accountVars, membershipVars, logoVars, ratingsVars>>

\* One statement is all there is to these, or they are no request.
AtOnce ==
    \/ TimePasses /\ UNCHANGED <<membershipVars, logoVars, ratingsVars, matchVars>>
    \/ MembershipAtOnce /\ UNCHANGED <<accountVars, logoVars, ratingsVars, matchVars>>
    \/ RatingAtOnce /\ UNCHANGED <<accountVars, membershipVars, logoVars, matchVars>>
    \/ MatchAtOnce /\ UNCHANGED <<accountVars, membershipVars, logoVars, ratingsVars>>

Next == AtOnce \/ \E r \in Requests : Begin(r) \/ Step(r) \/ Stop(r)

Spec == Init /\ [][Next]_vars

-----------------------------------------------------------------------------
TypeOK ==
    /\ asked \in Workloads /\ drops \in 0..MaxDrops
    /\ pc \in [Requests -> {"idle"} \cup AccountLabels \cup MembershipLabels \cup LogoLabels
                           \cup RatingLabels \cup SocialLabels]
    /\ AccountsTypeOK /\ MembershipTypeOK /\ LogosTypeOK /\ RatingsTypeOK /\ MatchTypeOK

\* Nothing comes back to an account that was erased while no request of its user
\* and no invitation of them was in flight: no session, no detail, no mailed
\* token and no request to join a club, whatever is asked later (account_delete,
\* login, request_reset, reset_password, create_request, invite_member).
CleanErasureIsFinal ==
    \A u \in final :
        /\ users[u].state = "erased" /\ users[u].password = Unusable /\ ~users[u].personal
        /\ RowsOf(tokens, u) = {} /\ RowsOf(letters, u) = {}
        /\ \A q \in DOMAIN memberRequests : memberRequests[q].who # u
=============================================================================
