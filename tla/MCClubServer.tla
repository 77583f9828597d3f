---------------------------- MODULE MCClubServer ----------------------------
EXTENDS ClubServer, TLC

CONSTANTS ann, ben, g1, g2, g3, c1, c2

\* Each behaviour is of one set of operations.
MCWorkloads == {
    {"edit", "expiry", "logout"},
    {"login", "edit", "expiry"},
    {"login", "reset"},
    {"login", "erase"},
    {"register", "verify", "login"},
    {"reset", "expiry"},
    {"erase", "edit", "reset"},
    {"erase", "join"},
    {"join", "accept", "remove"},
    {"promote", "remove", "leave"},
    {"createClub", "promote"},
    {"createClub", "remove"},
    {"dummy", "remove"},
    {"dummy", "deleteClub"},
    {"createClub", "deleteClub", "join"},
    {"createClub", "join", "accept"},
    {"deleteClub", "join", "accept"},
    {"invite", "accept", "remove"},
    {"invite", "erase"},
    {"logo", "deleteClub"},
    {"play", "seat"},
    {"play", "unplay"},
    {"fixture", "seat"},
    {"match"}}

MCHomeOf == <<ann>>

MCSymmetry == Permutations(Requests) \cup Permutations(Clubs)

\* A game of doubles would only add players; in the third ann, a member of both
\* clubs, is on both sides.
MCGameOf == [g \in {g1, g2, g3} |->
    [winners |-> IF g = g2 THEN <<ben>> ELSE <<ann>>,
     losers |-> IF g = g1 THEN <<ben>> ELSE IF g = g2 THEN <<ann>> ELSE <<ben, ann>>,
     scope |-> IF g = g3 THEN "external" ELSE "internal",
     rated |-> g # g2]]

\* Ratings that differ by less than a streak is worth, for up to five members; and
\* seven members, enough for each of the cuts.  The first has played more, and
\* the pairs that have met are those of neighbours.
Ratings3 == {[elo |-> 1000, streak |-> 0], [elo |-> 1000, streak |-> 3],
             [elo |-> 1070, streak |-> 0]}

Seven == [p \in 1..7 |-> [elo |-> 1000 + 10 * p * p, streak |-> 10 - p]]

Full(r) == [p \in DOMAIN r |->
    [elo |-> r[p].elo, streak |-> r[p].streak,
     gender |-> IF p \in {2, 4} THEN "female" ELSE "male",
     matches |-> IF p = 1 THEN 1 ELSE 0,
     with |-> [q \in DOMAIN r |-> IF Distance(p, q) = 1 THEN 1 ELSE 0]]]

Plain == {x \in Ratings3 : x.streak = 0}

MCRosters ==
    {Full(r) : r \in [1..2 -> Ratings3]
                     \cup {r \in [1..4 -> Ratings3] : {r[3], r[4]} \subseteq Plain}
                     \cup [1..5 -> Plain] \cup {Seven}}
=============================================================================
