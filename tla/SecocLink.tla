------------------------------ MODULE SecocLink ------------------------------
(***************************************************************************)
(* Freshness on the authenticated link between the gateway (Node A) and    *)
(* the actuator (Node B): each node sends under a persisted epoch and a    *)
(* counter per CAN ID, and accepts by a floor fixed at boot and a          *)
(* high-water mark per ID (shared/secoc/src/secoc_freshness.c, secoc_rx.c, *)
(* and secoc_app.c and can_task.c of both nodes).                          *)
(*                                                                         *)
(* Every node may lose its power at any step and any commit may fail.      *)
(* The bus delivers any frame ever sent, at any time, in any order, any    *)
(* number of times or never; frames that fail the MAC change no state. The *)
(* boot sync is sent once and may be lost on every way the code has: the   *)
(* transmit buffer is overwritten, the receive queue of the peer is full,  *)
(* or its MAC service is busy. Then nobody sends it again (F-014).         *)
(*                                                                         *)
(* One action is one handler, run to completion: Node B does all of this   *)
(* in one task; what Node A's two tasks add is GatewayTasks.               *)
(***************************************************************************)
EXTENDS Integers, FiniteSets

CONSTANTS
  Node,        \* Node A and Node B, which follow the same rules
  EpochMod,    \* 2^16 in the code: epochs are uint16_t
  CounterMax,  \* 0xFFFF in the code: the counter value that rolls over
  MaxEpoch,    \* bound: no boot or rollover spends an epoch beyond it
  MaxWire,     \* bound: the bus remembers this many frames of a node
  MaxFaults    \* bound: this many commits may fail

ASSUME LinkAssumption ==
  /\ \E a, b \in Node : a # b /\ Node = {a, b}
  /\ EpochMod \in Nat \ {0} /\ CounterMax \in Nat \ {0} /\ MaxEpoch \in Nat
  /\ MaxWire \in Nat /\ MaxFaults \in Nat

Id    == {"data", "sync"}   \* commands or telemetry; FRESHNESS_SYNC
Epoch == 0..EpochMod - 1

Peer(n) == CHOOSE m \in Node : m # n

Frame == [id : Id, epoch : Epoch, counter : 0..CounterMax, floor : Epoch]

\* The two domains of the store: own sender epoch, floor of the peer.  A domain
\* never committed loads as cold, which every caller turns into 0.
Cell == [self : Epoch, peer : Epoch]

\* mem: what load answers; disk: what the next mount answers, unless broken.
Store == [mem : Cell, disk : Cell, broken : BOOLEAN]

VARIABLES
  mode,      \* "off", "up", or "fault": the node jumped through a null pointer
  store,     \* the freshness store of each node, as DurableStore has it
  faults,    \* the commits that have failed, of both nodes
  tx, rx,    \* secoc_tx_ctx_t and secoc_rx_ctx_t of each node
  sync,      \* what became of the boot sync of this life: "due" until can_task's
             \* sync_sent is set, "out", "handled" by the peer, or "lost"
  wire,      \* the frames a node has put on the bus
  accepted   \* the frames a node has accepted, in all its lives

vars == <<mode, store, faults, tx, rx, sync, wire, accepted>>

Tx == [booted : BOOLEAN, epoch : Epoch, counter : [Id -> 0..CounterMax]]
Rx == [booted : BOOLEAN, floor : Epoch, current : Epoch, high : [Id -> 0..CounterMax]]

ZeroCell == [self |-> 0, peer |-> 0]
Factory  == [mem |-> ZeroCell, disk |-> ZeroCell, broken |-> FALSE]
NoTx == [booted |-> FALSE, epoch |-> 0, counter |-> [i \in Id |-> 0]]
NoRx == [booted |-> FALSE, floor |-> 0, current |-> 0, high |-> [i \in Id |-> 0]]

TypeOK ==
  /\ mode \in [Node -> {"off", "up", "fault"}]
  /\ store \in [Node -> Store] /\ faults \in 0..MaxFaults
  /\ tx \in [Node -> Tx] /\ rx \in [Node -> Rx]
  /\ sync \in [Node -> {"due", "out", "handled", "lost"}]
  /\ wire \in [Node -> SUBSET Frame] /\ accepted \in [Node -> SUBSET Frame]

Init ==
  /\ mode = [n \in Node |-> "off"]
  /\ store = [n \in Node |-> Factory] /\ faults = 0
  /\ tx = [n \in Node |-> NoTx] /\ rx = [n \in Node |-> NoRx]
  /\ sync = [n \in Node |-> "due"]
  /\ wire = [n \in Node |-> {}] /\ accepted = [n \in Node |-> {}]

-----------------------------------------------------------------------------
(***************************************************************************)
(* The store, as DurableStore has it.  A failed commit leaves load's       *)
(* answer alone; the next mount may find the save, the record before it,   *)
(* or what it would have found anyway, and on a store that never held a    *)
(* record it may find nothing it can use.                                  *)
(***************************************************************************)
Saved(s, d, e) == [s.mem EXCEPT ![d] = e]

Committed(s, d, e) == [mem |-> Saved(s, d, e), disk |-> Saved(s, d, e), broken |-> FALSE]

Failures(s, d, e) ==
  {s} \cup {[s EXCEPT !.disk = c, !.broken = FALSE] : c \in {s.mem, Saved(s, d, e)}}
      \cup {[s EXCEPT !.broken = TRUE] : z \in {ZeroCell} \cap {s.mem}}

\* The commit of a handler that finds the store of node n as s.
Leave(n, s) == store' = [store EXCEPT ![n] = s] /\ UNCHANGED faults

CommitOk(n, s, d, e) == Leave(n, Committed(s, d, e))

CommitFails(n, s, d, e) ==
  /\ faults < MaxFaults
  /\ faults' = faults + 1
  /\ \E t \in Failures(s, d, e) : store' = [store EXCEPT ![n] = t]

Spendable(e) == e < MaxEpoch
Bump(e) == (e + 1) % EpochMod

-----------------------------------------------------------------------------
(* The sender. *)

AtEpoch(e) == [booted |-> TRUE, epoch |-> e, counter |-> [i \in Id |-> 0]]

\* secoc_tx_next on a context that need not, or could, bump its epoch.
Advance(t, i) == [t EXCEPT !.counter[i] = @ + 1]

\* The counter of this ID has no value left under this epoch.
Spent(t, i) == t.counter[i] = CounterMax

NewFrame(t, i, floor) ==
  [id |-> i, epoch |-> t.epoch, counter |-> t.counter[i], floor |-> floor]

\* The frame goes out, or its freshness is spent for nothing: the MAC service
\* or the transmit buffer refused it.
Spend(n, t, i, floor) ==
  /\ tx' = [tx EXCEPT ![n] = t]
  /\ \/ /\ Cardinality(wire[n]) < MaxWire
        /\ wire' = [wire EXCEPT ![n] = @ \cup {NewFrame(t, i, floor)}]
        /\ sync' = [sync EXCEPT ![n] = IF i = "sync" THEN "out" ELSE @]
     \/ UNCHANGED <<wire, sync>>

\* build_secured and can_tx: tx_next, with a durable bump of the epoch when the
\* counter of this ID is spent, then the frame.
Transmit(n, i, floor) ==
  /\ mode[n] = "up"
  /\ tx[n].booted
  /\ \/ /\ ~Spent(tx[n], i)
        /\ Spend(n, Advance(tx[n], i), i, floor)
        /\ UNCHANGED <<store, faults>>
     \/ /\ Spent(tx[n], i)
        /\ Spendable(tx[n].epoch)
        /\ LET e == Bump(tx[n].epoch) IN
             \/ /\ CommitOk(n, store[n], "self", e)
                /\ Spend(n, Advance(AtEpoch(e), i), i, floor)
             \/ /\ CommitFails(n, store[n], "self", e)
                /\ UNCHANGED <<tx, wire, sync>>
  /\ UNCHANGED <<mode, rx, accepted>>

\* Commands from Node A, telemetry from Node B.
SendData(n) == Transmit(n, "data", 0)

\* The boot sync carries the receiver's floor and is sent once per boot; only a
\* failure to build or queue it is retried.
SendSync_FloorOffByOne(n) == sync[n] = "due" /\ Transmit(n, "sync", rx[n].current)
SendSync(n) == sync[n] = "due" /\ Transmit(n, "sync", rx[n].floor)

-----------------------------------------------------------------------------
(* The receiver. *)

\* secoc_rx_check on a registered ID.
Fresh(r, f) ==
  /\ f.epoch >= r.floor
  /\ f.epoch > r.current \/ (f.epoch = r.current /\ f.counter > r.high[f.id])

\* secoc_rx_accept, once a newer epoch is durable.
Adopted_KeepsHigh(r, f) == [r EXCEPT !.current = f.epoch, !.high[f.id] = f.counter]
Adopted(r, f) ==
  IF f.epoch > r.current
  THEN [r EXCEPT !.current = f.epoch,
                 !.high = [i \in Id |-> IF i = f.id THEN f.counter ELSE 0]]
  ELSE [r EXCEPT !.high[f.id] = f.counter]

AcceptFrame(n, f) ==
  /\ rx' = [rx EXCEPT ![n] = Adopted(rx[n], f)]
  /\ accepted' = [accepted EXCEPT ![n] = @ \cup {f}]

\* The store after the accept: a newer epoch was committed first.
AfterAccept(n, f) ==
  IF f.epoch > rx[n].current THEN Committed(store[n], "peer", f.epoch) ELSE store[n]

\* secoc_rx_sync_adopt, the store being s: a floor already covered is ignored,
\* and a sender that never booted has no store to call.
MoveTo(n, floor, s) ==
  \/ CommitOk(n, s, "self", floor) /\ tx' = [tx EXCEPT ![n] = AtEpoch(floor)]
  \/ CommitFails(n, s, "self", floor) /\ UNCHANGED tx

AdoptFloor_AnyDirection(n, floor, s) ==
  /\ tx[n].booted
  /\ MoveTo(n, floor, s)
  /\ UNCHANGED mode

AdoptFloor(n, floor, s) ==
  IF floor > tx[n].epoch /\ tx[n].booted
  THEN MoveTo(n, floor, s) /\ UNCHANGED mode
  ELSE /\ Leave(n, s)
       /\ mode' = [mode EXCEPT ![n] = IF floor > tx[n].epoch THEN "fault" ELSE @]
       /\ UNCHANGED tx

\* The boot sync of this life of n, on its way to the peer.
BootSync(n, f) ==
  /\ sync[n] = "out" /\ f \in wire[n] /\ f.id = "sync"
  /\ \A g \in wire[n] : g.id = "sync" =>
       g.epoch < f.epoch \/ (g.epoch = f.epoch /\ g.counter <= f.counter)

Handled(n, f) == sync' = [sync EXCEPT ![n] = IF BootSync(n, f) THEN "handled" ELSE @]

\* The adopting branch of the handlers: the frame is fresh and, if its epoch is
\* newer than any accepted, that epoch was committed.
Receive(n, f) ==
  /\ mode[n] = "up" /\ rx[n].booted /\ Fresh(rx[n], f)
  /\ \/ /\ AcceptFrame(n, f)
        /\ IF f.id = "sync"
           THEN AdoptFloor(n, f.floor, AfterAccept(n, f))
           ELSE Leave(n, AfterAccept(n, f)) /\ UNCHANGED <<mode, tx>>
     \/ /\ f.epoch > rx[n].current                \* F-015: not persisted, so dropped
        /\ CommitFails(n, store[n], "peer", f.epoch)
        /\ UNCHANGED <<mode, tx, rx, accepted>>
  /\ Handled(Peer(n), f)
  /\ UNCHANGED wire

\* The boot sync of the peer is taken for a stale frame. Any other frame that
\* is, changes nothing.
RejectSync(n, f) ==
  /\ mode[n] = "up" /\ ~(rx[n].booted /\ Fresh(rx[n], f))
  /\ BootSync(Peer(n), f) /\ Handled(Peer(n), f)
  /\ UNCHANGED <<mode, store, faults, tx, rx, wire, accepted>>

\* The boot sync of n is lost: nothing tells n, and it is not repeated.
LoseSync(n) ==
  /\ sync[n] = "out"
  /\ sync' = [sync EXCEPT ![n] = "lost"]
  /\ UNCHANGED <<mode, store, faults, tx, rx, wire, accepted>>

-----------------------------------------------------------------------------
(* A node boots: mount, secoc_tx_boot, secoc_rx_boot; and dies. *)

RxAt_SameEpoch(h) == [booted |-> TRUE, floor |-> h, current |-> h, high |-> [i \in Id |-> 0]]
RxAt(h) == [booted |-> TRUE, floor |-> Bump(h), current |-> h, high |-> [i \in Id |-> 0]]

Mounted(s) == [s EXCEPT !.mem = s.disk]

Boots(n) ==
  /\ mode[n] = "off" /\ ~store[n].broken
  /\ mode' = [mode EXCEPT ![n] = "up"]
  /\ rx' = [rx EXCEPT ![n] = RxAt(store[n].disk.peer)]
  /\ UNCHANGED <<sync, wire, accepted>>

Boot_SpendsLoaded(n) ==
  /\ Boots(n)
  /\ Leave(n, Mounted(store[n]))
  /\ tx' = [tx EXCEPT ![n] = AtEpoch(store[n].disk.self)]

\* The result of secoc_tx_boot is not looked at: the receiver boots anyway.
Boot(n) ==
  /\ Spendable(store[n].disk.self)
  /\ Boots(n)
  /\ LET e == Bump(store[n].disk.self)
         s == Mounted(store[n])
     IN \/ CommitOk(n, s, "self", e) /\ tx' = [tx EXCEPT ![n] = AtEpoch(e)]
        \/ CommitFails(n, s, "self", e) /\ UNCHANGED tx

\* BROKEN fails closed: neither context boots, so nothing is sent or accepted.
BootBroken(n) ==
  /\ mode[n] = "off" /\ store[n].broken
  /\ mode' = [mode EXCEPT ![n] = "up"]
  /\ UNCHANGED <<store, faults, tx, rx, sync, wire, accepted>>

PowerLoss(n) ==
  /\ mode[n] # "off"
  /\ mode' = [mode EXCEPT ![n] = "off"]
  /\ Leave(n, [store[n] EXCEPT !.mem = ZeroCell])
  /\ tx' = [tx EXCEPT ![n] = NoTx] /\ rx' = [rx EXCEPT ![n] = NoRx]
  /\ sync' = [sync EXCEPT ![n] = "due"]
  /\ UNCHANGED <<wire, accepted>>

Next == \E n \in Node :
  \/ SendData(n)
  \/ SendSync(n)
  \/ \E f \in wire[Peer(n)] : Receive(n, f) \/ RejectSync(n, f)
  \/ LoseSync(n)
  \/ Boot(n)
  \/ BootBroken(n)
  \/ PowerLoss(n)

Spec == Init /\ [][Next]_vars

\* A boot sync that is out does not stay out: the peer handles it or it is lost.
SyncEnds(n) ==
  \/ LoseSync(n)
  \/ \E f \in wire[n] : BootSync(n, f) /\ (Receive(Peer(n), f) \/ RejectSync(Peer(n), f))

\* A node boots, and can_task tries until its sync is built and queued.
Fairness == \A n \in Node :
  /\ WF_vars(Boot(n))
  /\ WF_vars(SendSync(n) /\ wire' # wire)
  /\ WF_vars(SyncEnds(n))

FairSpec == Spec /\ Fairness

-----------------------------------------------------------------------------
\* REQ-SECOC-005/006: the next freshness of a sender is above everything it ever
\* put on the bus, and a node without power will boot above it: no (epoch,
\* counter) of an ID is ever spent twice, whatever failed or was cut short.
NeverReused == \A n \in Node : \A f \in wire[n] :
  /\ tx[n].booted => \/ f.epoch < tx[n].epoch
                     \/ f.epoch = tx[n].epoch /\ f.counter <= tx[n].counter[f.id]
  /\ f.epoch <= store[n].disk.self
  /\ ~store[n].broken

\* REQ-SECOC-007: what a node accepted, in this life or an earlier one, it will
\* not accept again, also after a restart that forgot every high-water mark.
NeverAcceptedTwice == \A n \in Node : \A f \in accepted[n] :
  /\ rx[n].booted => ~Fresh(rx[n], f)
  /\ f.epoch <= store[n].disk.peer
  /\ ~store[n].broken

\* A receiver is only ever behind its peer: once the sender is at the receiver's
\* floor, its next frame on every ID is accepted.
SenderAtFloorIsHeard == \A n \in Node : \A i \in Id :
  LET s == tx[Peer(n)] IN
    (/\ rx[n].booted /\ s.booted /\ s.counter[i] # CounterMax
     /\ s.epoch >= rx[n].floor)
    => Fresh(rx[n], NewFrame(Advance(s, i), i, 0))

\* REQ-SECOC-008: an epoch in use never goes back, and a floor only rises from
\* one life of a receiver to the next.
NoEpochGoesBack == [][\A n \in Node :
  /\ (tx[n].booted /\ tx'[n].booted) => tx'[n].epoch >= tx[n].epoch
  /\ (rx[n].booted /\ rx'[n].booted) => rx'[n].current >= rx[n].current /\ rx'[n].floor = rx[n].floor
  /\ (~rx[n].booted /\ rx'[n].booted) => \A f \in accepted[n] : rx'[n].floor > f.epoch]_vars

\* The store of a node whose sender could not boot is never called: the caller
\* of secoc_tx_boot fails safe.
NoCallWithoutStore == \A n \in Node : mode[n] # "fault"

Heard(n) == rx[n].booted /\ tx[Peer(n)].booted /\ tx[Peer(n)].epoch >= rx[n].floor

\* The bounds of the model keep n from sending its sync.
OutOfBound(n) ==
  /\ sync[n] = "due"
  /\ \/ Cardinality(wire[n]) >= MaxWire
     \/ tx[n].booted /\ Spent(tx[n], "sync") /\ ~Spendable(tx[n].epoch)

\* REQ-SECOC-008, F-014: whatever epoch a restarted receiver demands, its boot
\* sync brings the running peer there, unless it is lost or one of the two
\* restarts again. A failed commit on the way there may leave the link dead, too.
LinkRecovers == [](faults = 0) => \A n \in Node :
  (rx[n].booted /\ tx[Peer(n)].booted) ~>
    \/ Heard(n)
    \/ OutOfBound(n) \/ sync[n] = "lost"
    \/ ~rx[n].booted \/ ~tx[Peer(n)].booted
=============================================================================
