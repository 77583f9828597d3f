------------------------- MODULE SessionRefinement --------------------------
(***************************************************************************)
(* The handlers of an event session, run one at a time on what the panel   *)
(* offers, implement SessionLifecycle.  The players of a request in flight *)
(* are where they were before it until its linearization point: the link   *)
(* of a creation and of a deletion, the statistics of a completion.        *)
(***************************************************************************)
EXTENDS EventSession

\* The games whose players a request is taking in, or out.
GoingIn == {loc[r].game : r \in {q \in Requests : pc[q] \in {"take", "putInGame", "link"}}}
GoingOut ==
    {loc[r].game : r \in {q \in Requests :
        pc[q] \in {"setScore", "readTeam1", "readTeam2", "rate", "mark", "reactivate",
                   "leaveGame", "markPlayed", "readStats", "writeStats", "unlink"}}}

PlaceOf(m) ==
    IF \E g \in GoingIn : m \in Players(g) THEN "waiting"
    ELSE IF \E g \in GoingOut : m \in Players(g) THEN "playing"
    ELSE IF m \in inGame THEN "playing"
    ELSE IF m \in active THEN "waiting" ELSE "away"

StageOf(g) ==
    IF ~Linked(g) THEN "none"
    ELSE IF Open(g) \/ g \in GoingOut THEN "on" ELSE "over"

TeamsOf(g) == IF Linked(g) THEN <<game[g].team1, game[g].team2>> ELSE <<{}, {}>>

Session == INSTANCE SessionLifecycle WITH
    place <- [m \in Members |-> PlaceOf(m)],
    stage <- [g \in GameIds |-> StageOf(g)],
    teams <- [g \in GameIds |-> TeamsOf(g)],
    wins  <- stats.wins,
    met   <- stats.playedWith

\* A member plays in one game at a time, and each completed game counts once.
ImplementsSession == Session!Spec
=============================================================================
