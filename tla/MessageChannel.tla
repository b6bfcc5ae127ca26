---------------------------- MODULE MessageChannel ----------------------------
(***************************************************************************)
(* What a transport promises to the layer above it (isotp.h, D1 and D5 of  *)
(* ADR-0012): messages may be lost, but what is delivered was offered, in  *)
(* order and once. A message is its number. Nobody keeps the frames of     *)
(* other nodes out: a message that one of them begins may be delivered     *)
(* too, and counts as a stray.                                             *)
(***************************************************************************)
EXTENDS Naturals

VARIABLES
    offered,        \* number of the last message offered
    delivered,      \* number of the last of them delivered
    deliveries,     \* how many of them were delivered
    intruded,       \* messages that other nodes began
    strays          \* how many of those were delivered

channelVars == <<offered, delivered, deliveries, intruded, strays>>

Init == offered = 0 /\ delivered = 0 /\ deliveries = 0 /\ intruded = 0 /\ strays = 0

Offer ==
    /\ offered' = offered + 1
    /\ UNCHANGED <<delivered, deliveries, intruded, strays>>

Deliver ==
    /\ delivered' \in (delivered + 1) .. offered
    /\ deliveries' = deliveries + 1
    /\ UNCHANGED <<offered, intruded, strays>>

Intrude ==
    /\ intruded' = intruded + 1
    /\ UNCHANGED <<offered, delivered, deliveries, strays>>

DeliverStray ==
    /\ strays < intruded
    /\ strays' = strays + 1
    /\ UNCHANGED <<offered, delivered, deliveries, intruded>>

Next == Offer \/ Deliver \/ Intrude \/ DeliverStray

Spec == Init /\ [][Next]_channelVars
=============================================================================
