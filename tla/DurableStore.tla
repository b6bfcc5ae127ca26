---------------------------- MODULE DurableStore ----------------------------
(***************************************************************************)
(* What the freshness store promises its callers (the port described in    *)
(* secoc_freshness.h, backed by ADR-0024): one value per domain, a commit  *)
(* that changes one domain as a whole and is durable before it returns,    *)
(* and a store that never turns cold again.                                *)
(*                                                                         *)
(* `mem' is what load answers while the node runs; `disk' is what the next *)
(* mount would answer.  The two differ only while a save is unacknowledged *)
(* and then in the one domain being saved.                                 *)
(***************************************************************************)
CONSTANTS
  Domain,  \* the persisted domains
  Epoch,   \* the values of a domain
  Cold,    \* the value of a domain that was never committed
  Off,     \* mem of a node without power, or not yet mounted
  Lost     \* the store reports BROKEN: nothing can be loaded or committed

VARIABLES mem, disk

vars == <<mem, disk>>

Value   == [Domain -> Epoch \cup {Cold}]
AllCold == [d \in Domain |-> Cold]

TypeOK ==
  /\ mem \in Value \cup {Off, Lost}
  /\ disk \in Value \cup {Lost}

Init ==
  /\ mem = Off
  /\ disk = AllCold

Usable == mem \notin {Off, Lost}

\* The node boots and answers what is durable.
Mount ==
  /\ mem = Off
  /\ mem' = disk
  /\ UNCHANGED disk

\* A save hardens domain d, all at once; power may go at the same moment.
Harden(d, e) ==
  /\ Usable
  /\ disk' = [mem EXCEPT ![d] = e]
  /\ mem' \in {mem, Off}

\* The commit returns true: what is durable is now what load answers.
Acknowledge(d, e) ==
  /\ Usable
  /\ disk = [mem EXCEPT ![d] = e]
  /\ mem' = disk
  /\ UNCHANGED disk

\* An unacknowledged save is undone.
Abandon ==
  /\ Usable
  /\ disk' = mem
  /\ mem' \in {mem, Off}

\* Only before the first commit ever can an interrupted save break the store.
Spoil ==
  /\ mem = AllCold
  /\ disk' = Lost
  /\ mem' \in {mem, Off}

PowerLoss ==
  /\ mem # Off
  /\ mem' = Off
  /\ UNCHANGED disk

Next ==
  \/ Mount \/ Abandon \/ Spoil \/ PowerLoss
  \/ \E d \in Domain, e \in Epoch : Harden(d, e) \/ Acknowledge(d, e)

Spec == Init /\ [][Next]_vars
=============================================================================
