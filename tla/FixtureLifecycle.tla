-------------------------- MODULE FixtureLifecycle --------------------------
(***************************************************************************)
(* What the fixture workflow promises (fixtures.rs:1-14, and the header of *)
(* 0011_club_fixtures.sql): each operation happens at once, or not at all. *)
(* proposed -> accepted/declined -> played -> confirmed, or cancelled      *)
(* before confirmation; the result counts once, when both sides have       *)
(* confirmed it, and a confirmed fixture is closed.                        *)
(***************************************************************************)
EXTENDS Naturals

CONSTANTS FixtureIds, GameIds

VARIABLES
    phase,      \* where the fixture is in its life
    result,     \* the games played for it
    endorsed,   \* the sides that confirmed the result
    counted     \* how often the result was put on the ladder

vars == <<phase, result, endorsed, counted>>

Sides == {"home", "away"}

Init ==
    /\ phase = [f \in FixtureIds |-> "absent"]
    /\ result = [f \in FixtureIds |-> {}]
    /\ endorsed = [f \in FixtureIds |-> {}]
    /\ counted = [f \in FixtureIds |-> 0]

Move(f, from, to) == phase[f] \in from /\ phase' = [phase EXCEPT ![f] = to]

Propose(f) ==
    /\ Move(f, {"absent"}, "proposed")
    /\ UNCHANGED <<result, endorsed, counted>>

Answer(f, answer) ==
    /\ Move(f, {"proposed"}, answer)
    /\ UNCHANGED <<result, endorsed, counted>>

Cancel(f) ==
    /\ Move(f, {"proposed", "accepted", "declined", "played"}, "cancelled")
    /\ UNCHANGED <<result, endorsed, counted>>

Play(f, g) ==
    /\ Move(f, {"accepted", "played"}, "played")
    /\ g \notin result[f]
    /\ result' = [result EXCEPT ![f] = @ \cup {g}]
    /\ UNCHANGED <<endorsed, counted>>

Endorse(f, side) ==
    /\ phase[f] = "played"
    /\ endorsed' = [endorsed EXCEPT ![f] = @ \cup {side}]
    /\ UNCHANGED <<phase, result, counted>>

Settle(f) ==
    /\ endorsed[f] = Sides
    /\ result[f] # {}
    /\ Move(f, {"played"}, "confirmed")
    /\ counted' = [counted EXCEPT ![f] = @ + 1]
    /\ UNCHANGED <<result, endorsed>>

Next ==
    \E f \in FixtureIds :
        \/ Propose(f)
        \/ \E answer \in {"accepted", "declined"} : Answer(f, answer)
        \/ Cancel(f)
        \/ \E g \in GameIds : Play(f, g)
        \/ \E side \in Sides : Endorse(f, side)
        \/ Settle(f)

Spec == Init /\ [][Next]_vars
=============================================================================
