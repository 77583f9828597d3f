-------------------------- MODULE SessionLifecycle --------------------------
(***************************************************************************)
(* What an event session promises: each operation happens at once.  A      *)
(* member is away, waits or plays; a game takes players who wait, and they *)
(* play until it is completed or deleted, in no other game; a completed    *)
(* game, and no other, counts once in what the event remembers.            *)
(***************************************************************************)
EXTENDS Naturals, FiniteSets

CONSTANTS Members, GameIds, TeamSize

VARIABLES
    place,      \* where a member is
    stage,      \* where a game is in its life
    teams,      \* the two teams of a game
    wins,       \* games a member has won
    met         \* games two members have both been in

vars == <<place, stage, teams, wins, met>>

Init ==
    /\ place = [m \in Members |-> "away"]
    /\ stage = [g \in GameIds |-> "none"]
    /\ teams = [g \in GameIds |-> <<{}, {}>>]
    /\ wins = [m \in Members |-> 0]
    /\ met = [m \in Members |-> [n \in Members |-> 0]]

Move(members, from, to) ==
    /\ \A m \in members : place[m] = from
    /\ place' = [m \in Members |-> IF m \in members THEN to ELSE place[m]]

Come(m) ==
    /\ Move({m}, "away", "waiting")
    /\ UNCHANGED <<stage, teams, wins, met>>

Leave(m) ==
    /\ Move({m}, "waiting", "away")
    /\ UNCHANGED <<stage, teams, wins, met>>

Play(g, team1, team2) ==
    /\ stage[g] = "none"
    /\ Cardinality(team1) = TeamSize /\ Cardinality(team2) = TeamSize
    /\ team1 \cap team2 = {}
    /\ Move(team1 \cup team2, "waiting", "playing")
    /\ stage' = [stage EXCEPT ![g] = "on"]
    /\ teams' = [teams EXCEPT ![g] = <<team1, team2>>]
    /\ UNCHANGED <<wins, met>>

Both(g) == teams[g][1] \cup teams[g][2]

Finish(g, side) ==
    /\ stage[g] = "on"
    /\ stage' = [stage EXCEPT ![g] = "over"]
    /\ Move(Both(g), "playing", "waiting")
    /\ wins' = [m \in Members |-> IF m \in teams[g][side] THEN wins[m] + 1 ELSE wins[m]]
    /\ met' = [m \in Members |-> [n \in Members |->
                  IF m # n /\ {m, n} \subseteq Both(g) THEN met[m][n] + 1 ELSE met[m][n]]]
    /\ UNCHANGED teams

CallOff(g) ==
    /\ stage[g] = "on"
    /\ stage' = [stage EXCEPT ![g] = "none"]
    /\ teams' = [teams EXCEPT ![g] = <<{}, {}>>]
    /\ Move(Both(g), "playing", "waiting")
    /\ UNCHANGED <<wins, met>>

Next ==
    \/ \E m \in Members : Come(m) \/ Leave(m)
    \/ \E g \in GameIds :
        \/ \E team1 \in SUBSET Members, team2 \in SUBSET Members : Play(g, team1, team2)
        \/ \E side \in {1, 2} : Finish(g, side)
        \/ CallOff(g)

Spec == Init /\ [][Next]_vars
=============================================================================
