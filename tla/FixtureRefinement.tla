------------------------- MODULE FixtureRefinement --------------------------
(***************************************************************************)
(* The fixture handlers, run one at a time, implement FixtureLifecycle.    *)
(* The linearization point of a recording and of a settlement is the       *)
(* UPDATE of the status that ends the handler: until then the game linked, *)
(* or the ladder rows saved, by the request in flight do not count.        *)
(***************************************************************************)
EXTENDS Fixtures

\* Games linked by a recording whose status UPDATE is still to come.
Pending(f) ==
    {loc[r].game : r \in {q \in Requests :
        pc[q] \in {"ratePlayers", "writePlayed"} /\ loc[q].fixture = f}}

\* A settlement whose status UPDATE is still to come.
BeingConfirmed(f) ==
    Cardinality({r \in Requests : pc[r] = "writeConfirmed" /\ loc[r].fixture = f})

EndorsedBy(f) == {side \in Sides : fixture[f][side] \in confirmations[f]}

Lifecycle == INSTANCE FixtureLifecycle WITH
    phase    <- [f \in FixtureIds |-> fixture[f].status],
    result   <- [f \in FixtureIds |-> fixtureGames[f] \ Pending(f)],
    endorsed <- [f \in FixtureIds |-> EndorsedBy(f)],
    counted  <- [f \in FixtureIds |-> settled[f] - BeingConfirmed(f)]

\* Serial requests take a fixture through the promised life: the result is
\* counted once, at the step that confirms it, and nothing changes after.
ImplementsLifecycle == Lifecycle!Spec
=============================================================================
