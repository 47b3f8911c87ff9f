------------------------------ MODULE MCAlerts -------------------------------
(* Instances of Alerts for TLC: two devices behind one gateway, and one     *)
(* kind of disturbance in each behaviour.                                   *)
EXTENDS Alerts

CONSTANTS d1, d2

MCRoster == <<d1, d2>>
MCHint == [d \in {d1, d2} |-> "gateway"]
Spare == [turns |-> 3, faults |-> 0, restarts |-> 0, edits |-> 0, marks |-> 0, others |-> 0]
OneKind == {[Spare EXCEPT !.turns = 5], [Spare EXCEPT !.faults = 1], [Spare EXCEPT !.restarts = 1],
            [Spare EXCEPT !.edits = 2], [Spare EXCEPT !.marks = 1], [Spare EXCEPT !.others = 1]}
=============================================================================
