----------------------------- MODULE MCFixtures -----------------------------
(***************************************************************************)
(* Instances of Fixtures for TLC: two clubs, an admin for each and one     *)
(* administering both.                                                     *)
(***************************************************************************)
EXTENDS FixtureRefinement, TLC

CONSTANTS c1, c2, homeAdmin, awayAdmin, dualAdmin

MCAdminOf == homeAdmin :> {c1} @@ awayAdmin :> {c2} @@ dualAdmin :> {c1, c2}

\* Without the admin of both clubs.
MCAdminOfEach == homeAdmin :> {c1} @@ awayAdmin :> {c2}
=============================================================================
