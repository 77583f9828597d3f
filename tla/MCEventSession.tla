--------------------------- MODULE MCEventSession ---------------------------
(***************************************************************************)
(* Instances of EventSession for TLC: singles, and two teams put together  *)
(* by hand.                                                                *)
(***************************************************************************)
EXTENDS SessionRefinement, TLC

CONSTANTS m1, m2

MCPegTeams == {<<{m1}, {m2}>>, <<{m2}, {m1}>>}

\* Requests, games and members are each interchangeable.
MCSymmetry == Permutations(Requests) \cup Permutations(GameIds) \cup Permutations(Members)
=============================================================================
