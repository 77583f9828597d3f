---------------------------- MODULE Matchmaking -----------------------------
(***************************************************************************)
(* Who plays whom: src/server/src/matchmaking.rs, as create_sbmm and       *)
(* create_social of src/server/src/domain/games.rs call it.  A random      *)
(* choice is a choice of anything the code may draw.  A member's id is a   *)
(* number, and the members are read in the order of their ids.             *)
(***************************************************************************)
EXTENDS InFlight, Sequences, SequencesExt

CONSTANTS
    Rosters,   \* the active members of an event, with what matchmaking reads of them
    Sizes,     \* players in a team: 0 for a game type that does not tell
    MaxSwaps   \* rounds of the social search

ASSUME MatchmakingAssumption ==
    /\ Sizes \subseteq Nat /\ MaxSwaps \in Nat
    /\ \A active \in Rosters :
          /\ IsFiniteSet(DOMAIN active) /\ DOMAIN active \subseteq Nat
          /\ \A p \in DOMAIN active :
                /\ {active[p].elo, active[p].streak} \subseteq Int
                /\ active[p].gender \in {"male", "female"}
    /\ None \notin Nat

VARIABLES
    roster,   \* by id: [elo, streak, gender, matches, with]
    court     \* the game that was made up: [kind, size, first, team1, team2]

matchVars == <<roster, court>>

-----------------------------------------------------------------------------
SocialLabels == {"swap"}

MatchInit ==
    /\ roster \in (IF Asks("match") THEN Rosters ELSE {<<>>})
    /\ court = None

Members == DOMAIN roster

\* player_elo: a winning streak adds to the rating.
PlayerElo(p) ==
    LET s == roster[p].streak
    IN  roster[p].elo + (IF s < 3 THEN 0 ELSE IF s < 6 THEN 50 ELSE IF s < 10 THEN 100 ELSE 200)

Distance(a, b) == IF a >= b THEN a - b ELSE b - a

EloSum(ps) == MapThenSumSet(PlayerElo, ps)

\* |average of team 1 - average of team 2|, times the sizes of both: what the
\* distance of the win probability from one half grows with.
Gap(t1, t2) == Distance(EloSum(t1) * Cardinality(t2), EloSum(t2) * Cardinality(t1))

Teams(t1, t2) == [team1 |-> t1, team2 |-> t2]

\* The places of a mask's bits, and the players there.
Bits(mask, n) == {i \in 1..n : (mask \div (2 ^ (i - 1))) % 2 = 1}
At(ps, places) == {ps[i] : i \in places}

SplitAt(ps, places) == Teams(At(ps, places), At(ps, (1..Len(ps)) \ places))

\* Mutant: the last split is kept, and none is compared with the best.
WeighLast(ps, best, mask) ==
    LET places == Bits(mask, Len(ps))
    IN  IF Cardinality(places) = Len(ps) \div 2 /\ 1 \in places
        THEN [split |-> SplitAt(ps, places), gap |-> 0]
        ELSE best

\* A mask of half the players with the first among them is a split: it is the best
\* if it is more even than every one before.
Weigh(ps, best, mask) ==
    LET places == Bits(mask, Len(ps))
        split == SplitAt(ps, places)
        gap == Gap(split.team1, split.team2)
    IN  IF /\ Cardinality(places) = Len(ps) \div 2 /\ 1 \in places
           /\ best.gap = None \/ gap < best.gap
        THEN [split |-> split, gap |-> gap]
        ELSE best

\* The best split up to each mask.
BestSplits(ps) ==
    LET best[mask \in 0..(2 ^ Len(ps) - 1)] ==
            IF mask = 0 THEN [split |-> SplitAt(ps, 1..(Len(ps) \div 2)), gap |-> None]
            ELSE Weigh(ps, best[mask - 1], mask)
    IN  best

\* even_teams: every split with the first player in team 1, by its mask; the
\* first of the most even ones is kept.
EvenTeams(ps) ==
    IF Len(ps) < 2 THEN Teams(At(ps, 1..Len(ps)), {})
    ELSE BestSplits(ps)[2 ^ Len(ps) - 1].split

\* closest_by_elo: a stable sort by distance, cut off.
ClosestByElo(ps, target, take) ==
    LET Before(q, p) == LET dq == Distance(PlayerElo(q), target)
                            dp == Distance(PlayerElo(p), target)
                        IN  dq < dp \/ (dq = dp /\ q < p)
    IN  {p \in ps : Cardinality({q \in ps : Before(q, p)}) < take}

\* The ways to draw n players one after the other.
Draws(ps, n) == {s \in [1..n -> ps] : IsInjective(s)}

-----------------------------------------------------------------------------
\* sbmm and mixed_sbmm.

Sbmm(first, size) ==
    LET potential == Members \ {first}
        closest == IF Cardinality(potential) > 2 * size + 1
                     THEN ClosestByElo(potential, PlayerElo(first), 2 * size + 1)
                     ELSE potential
        others == IF size = 0 THEN 0 ELSE 2 * size - 1
    IN  {IF size = 1 THEN Teams({first}, {s[1]}) ELSE EvenTeams(<<first>> \o s) :
             s \in Draws(closest, others)}

SameGender(p) == {q \in Members \ {p} : roster[q].gender = roster[p].gender}
OtherGender(p) == {q \in Members : roster[q].gender # roster[p].gender}

\* Mutant: the rival is drawn from everybody else.
MixedWithAnyone(first) ==
    {Teams({first, x[2]}, {x[1], x[3]}) :
        x \in {s \in Draws(Members \ {first}, 3) : {s[2], s[3]} \subseteq OtherGender(first)}}

\* The rival is of the first player's gender; the better of the two partners goes
\* to the weaker of the two.
MixedSbmm(first) ==
    LET same == SameGender(first)
        elo == PlayerElo(first)
        rivals == IF Cardinality(same) < 3 THEN same ELSE ClosestByElo(same, elo, 2)
        other == OtherGender(first)
        partners == IF Cardinality(same) < 5 THEN other ELSE ClosestByElo(other, elo, 4)
        Pair(rival, weak, strong) ==
            IF elo > PlayerElo(rival) THEN Teams({first, weak}, {rival, strong})
            ELSE Teams({first, strong}, {rival, weak})
    IN  {IF roster[s[1]].elo > roster[s[2]].elo THEN Pair(rival, s[2], s[1])
         ELSE Pair(rival, s[1], s[2]) : rival \in rivals, s \in Draws(partners, 2)}

MixedPossible(size) ==
    /\ size = 2
    /\ \A gender \in {"male", "female"} :
          Cardinality({p \in Members : roster[p].gender = gender}) >= 2

\* The event's player_match_counts and played_with, which every call reads.
Played(p) == roster[p].matches
MetBefore(p, q) == roster[p].with[q]

\* pick_player_1: any of those who have played least.
LeastPlayed == {p \in Members : \A q \in Members : Played(p) <= Played(q)}

Enough(size) == Cardinality(Members) >= 2 * size

MakeUp(kind, size, first, teams) ==
    court' = [kind |-> kind, size |-> size, first |-> first,
              team1 |-> teams.team1, team2 |-> teams.team2]

\* Making up a game never waits, and one at a time is enough.
Free == Asks("match") /\ court = None /\ InFlightAt(SocialLabels) = {}

CreateSbmm(size) ==
    /\ Free
    /\ Enough(size)
    /\ \E first \in LeastPlayed :
          \/ \E teams \in Sbmm(first, size) : MakeUp("sbmm", size, first, teams)
          \/ /\ MixedPossible(size)
             /\ \E teams \in MixedSbmm(first) : MakeUp("mixed", size, first, teams)
    /\ UNCHANGED <<flight, roster>>

-----------------------------------------------------------------------------
\* social: a sample of the others, then rounds that swap some of them.

SwapCount(size) == (size + 4) \div 5   \* a fifth of a team, rounded up

Cube(x) == (x + 1) ^ 3

\* social_count: the pairs of the others count both ways, and with themselves.
SocialCount(first, ps) ==
    MapThenSumSet(LAMBDA p : Cube(MetBefore(first, p)), ps)
    + MapThenSumSet(LAMBDA x : Cube(MetBefore(x[1], x[2])), ps \X ps)

\* With a size of 0 the request fails: 2 * 0 - 1 players are wanted.  With as
\* many members as players no round can swap anybody.
CreateSocial(r, size) ==
    /\ Free
    /\ Enough(size) /\ size > 0
    /\ \E first \in LeastPlayed :
          \E chosen \in kSubset(2 * size - 1, Members \ {first}) :
              Start(r, "swap", [user |-> None, size |-> size, first |-> first,
                                chosen |-> chosen, round |-> 1])
    /\ UNCHANGED matchVars

\* The second acceptance test never passes: a cost is at least 1.
Swap(r) ==
    LET l == loc[r]
        b == SwapCount(l.size)
        pool == Members \ (l.chosen \cup {l.first})
    IN  /\ pc[r] = "swap"
        /\ l.round <= MaxSwaps /\ Cardinality(pool) >= b /\ Cardinality(l.chosen) >= b
        /\ \E out \in kSubset(b, l.chosen), in \in kSubset(b, pool) :
              LET candidate == (l.chosen \ out) \cup in
                  better == SocialCount(l.first, candidate) < SocialCount(l.first, l.chosen)
              IN  Goto(r, "swap", [l EXCEPT !.round = @ + 1,
                                            !.chosen = IF better THEN candidate ELSE @])
        /\ UNCHANGED matchVars

\* Even teams if the event says so, else teams drawn by lot.
Split(r) ==
    LET l == loc[r]
        b == SwapCount(l.size)
        pool == Members \ (l.chosen \cup {l.first})
        all == l.chosen \cup {l.first}
    IN  /\ pc[r] = "swap"
        /\ l.round > MaxSwaps \/ Cardinality(pool) < b \/ Cardinality(l.chosen) < b
        /\ \/ \E s \in Draws(l.chosen, 2 * l.size - 1) :
                 MakeUp("even", l.size, l.first, EvenTeams(Append(s, l.first)))
           \/ \E t \in kSubset(l.size, all) :
                 MakeUp("social", l.size, l.first, Teams(t, all \ t))
        /\ Done(r)
        /\ UNCHANGED roster

StopSocial(r) == pc[r] \in SocialLabels /\ Drop(r) /\ UNCHANGED matchVars

BeginMatchCall(r) == \E size \in Sizes : CreateSocial(r, size)

MatchStep(r) == Swap(r) \/ Split(r)

MatchAtOnce == \E size \in Sizes : CreateSbmm(size)

-----------------------------------------------------------------------------
MatchTypeOK == court # None =>
    /\ court.kind \in {"sbmm", "mixed", "social", "even"} /\ court.size \in Sizes
    /\ court.team1 \cup court.team2 \subseteq Members

\* Every game that is made up has two full teams of different members, one who
\* has played least among them, and a mixed game has a man and a woman in each
\* team; when the game type does not tell its size, that one member is alone
\* (create_sbmm, create_social).
TeamsAreFair == court # None =>
    /\ court.first \in (court.team1 \cup court.team2) \cap LeastPlayed
    /\ court.team1 \cap court.team2 = {}
    /\ IF court.size = 0 THEN court.team1 = {court.first} /\ court.team2 = {}
       ELSE Cardinality(court.team1) = court.size /\ Cardinality(court.team2) = court.size
    /\ court.kind = "mixed" =>
          \A t \in {court.team1, court.team2} : {roster[p].gender : p \in t} = {"male", "female"}

\* No other split of the same players into two teams is more even than the one
\* even_teams keeps, in a rated game of doubles or a social game of an event with
\* even teams (even_teams, sbmm, social).
EvenTeamsAreMostEven ==
    (court # None /\ court.kind \in {"sbmm", "even"} /\ court.size > 1) =>
        LET all == court.team1 \cup court.team2
        IN  \A t \in kSubset(court.size, all) :
                Gap(court.team1, court.team2) <= Gap(t, all \ t)
=============================================================================
