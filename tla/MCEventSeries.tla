--------------------------- MODULE MCEventSeries ----------------------------
(***************************************************************************)
(* Instances of EventSeries for TLC: a calendar of three short months, the *)
(* second shorter than the others, and a few rules of each frequency.      *)
(***************************************************************************)
EXTENDS EventSeries

MCTemplates == {[frequency |-> "daily", interval |-> 2, start |-> 2, end |-> 5],
                [frequency |-> "monthly", interval |-> 1, start |-> 3, end |-> 8]}

MCSerialTemplates ==
    {[frequency |-> "weekly", interval |-> 1, start |-> 2, end |-> 7],
     [frequency |-> "monthly", interval |-> 1, start |-> 3, end |-> 8]}

MCFirstDay == <<1, 4, 6, 9>>

\* Requests are interchangeable.
MCSymmetry == Permutations(Requests)
=============================================================================
