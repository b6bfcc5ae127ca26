------------------------------ MODULE DoorLight ------------------------------
(***************************************************************************)
(* What the two nodes promise together (ADR-0021 D9, bodyctl.h): the       *)
(* courtesy light shows the door as it was at some moment, and that moment *)
(* never moves back. A restart of the actuator turns the light off.        *)
(***************************************************************************)
EXTENDS Integers

CONSTANTS MaxChanges   \* bound on the changes of the door switch

VARIABLES
    changes,   \* changes of the door switch so far; it is ajar when odd
    shown,     \* the change the light shows
    light      \* percent

Ajar(k) == k % 2 = 1

Courtesy(ajar) == IF ajar THEN 100 ELSE 0

Init == changes = 0 /\ shown = 0 /\ light = 0

Toggle == changes < MaxChanges /\ changes' = changes + 1 /\ UNCHANGED <<shown, light>>

Show(k) == shown' = k /\ light' = Courtesy(Ajar(k)) /\ UNCHANGED changes

Restart == light' = 0 /\ UNCHANGED <<changes, shown>>

Next == Toggle \/ Restart \/ \E k \in shown .. changes : Show(k)

Spec == Init /\ [][Next]_<<changes, shown, light>>
=============================================================================
