-------------------------- MODULE SecocLink_proofs --------------------------
(***************************************************************************)
(* Proofs about the freshness of the link, for every pair of nodes and     *)
(* every bound.  Type correctness needs no hypothesis; everything else     *)
(* holds as long as no store has reached the last epoch: the epoch that    *)
(* wraps to 0 is stale to every receiver.                                  *)
(***************************************************************************)
EXTENDS SecocLink, TLAPS

\* No store has come to the epoch whose successor is 0.
EpochsLast == \A n \in Node : \A d \in {"self", "peer"} : store[n].disk[d] < EpochMod - 1

(***************************************************************************)
(* The inductive invariant.  NeverReused and NeverAcceptedTwice say what   *)
(* the disk covers; a handler works from what load answers, so the         *)
(* invariant ties the contexts to the memory of the store, and that memory *)
(* to the disk and to the frames.  Its parts are predicates on the values  *)
(* of one node (m its mode, s its store, t its sender, r its receiver, W   *)
(* what it sent, V what its peer sent, A what it accepted), so that a      *)
(* handler of several steps can be followed one step at a time.            *)
(***************************************************************************)
\* A booted sender uses the epoch the store answers, and never epoch 0.
SenderUsesStore(m, s, t, r) ==
  t.booted => m = "up" /\ r.booted /\ t.epoch = s.mem.self /\ t.epoch > 0

\* A booted receiver has adopted the epoch the store answers.
ReceiverUsesStore(m, s, r) ==
  /\ r.booted => m # "off" /\ r.current = s.mem.peer
  /\ m = "off" => s.mem = ZeroCell

\* What load answers is never above what a mount would find, and only a store
\* that answers nothing can be broken.
MemBelowDisk(s) ==
  /\ s.mem.self <= s.disk.self /\ s.mem.peer <= s.disk.peer
  /\ s.broken => s.mem = ZeroCell

Below(t, f) == f.epoch < t.epoch \/ (f.epoch = t.epoch /\ f.counter <= t.counter[f.id])

\* Every frame ever sent is covered by the disk, by the store of a booted node
\* and by the sender.
SentIsCovered(s, t, r, W) == \A f \in W :
  /\ f.epoch > 0 /\ f.epoch <= s.disk.self /\ ~s.broken
  /\ r.booted => f.epoch <= s.mem.self
  /\ t.booted => Below(t, f)

\* The same of every frame ever accepted, which the peer has sent.
AcceptedIsCovered(s, r, V, A) == \A f \in A :
  /\ f \in V /\ f.epoch > 0 /\ f.epoch <= s.disk.peer /\ ~s.broken
  /\ r.booted => f.epoch <= s.mem.peer /\ ~Fresh(r, f)

\* The marks of a receiver are its boot values or come from accepted frames.
MarksAreAccepted(r, A) == r.booted =>
  /\ r.current < r.floor \/ \E f \in A : f.epoch = r.current
  /\ \A i \in Id : \/ r.high[i] = 0
                   \/ \E f \in A : f.id = i /\ f.epoch = r.current /\ f.counter = r.high[i]

Sound(m, s, t, r, W, V, A) ==
  /\ SenderUsesStore(m, s, t, r)
  /\ ReceiverUsesStore(m, s, r)
  /\ MemBelowDisk(s)
  /\ SentIsCovered(s, t, r, W)
  /\ AcceptedIsCovered(s, r, V, A)
  /\ MarksAreAccepted(r, A)

NodeInv(n) ==
  Sound(mode[n], store[n], tx[n], rx[n], wire[n], wire[Peer(n)], accepted[n])

IInv == TypeOK /\ \A n \in Node : NodeInv(n)

-----------------------------------------------------------------------------
(* The operators of the link. *)

LEMMA PeerFacts ==
  ASSUME NEW n \in Node
  PROVE  Peer(n) \in Node /\ Peer(n) # n /\ Peer(Peer(n)) = n
<1>1. \A m \in Node : Peer(m) \in Node /\ Peer(m) # m
  BY LinkAssumption DEF Peer
<1>2. QED
  BY <1>1, LinkAssumption

LEMMA BumpFacts ==
  ASSUME NEW e \in Epoch
  PROVE  Bump(e) \in Epoch /\ (e < EpochMod - 1 => Bump(e) = e + 1)
BY LinkAssumption DEF Bump, Epoch

LEMMA InitialTypes == ZeroCell \in Cell /\ Factory \in Store /\ NoTx \in Tx /\ NoRx \in Rx
<1>1. 0 \in Epoch /\ 0 \in 0..CounterMax
  BY LinkAssumption DEF Epoch
<1>2. QED
  BY <1>1 DEF ZeroCell, Cell, Factory, Store, NoTx, Tx, NoRx, Rx

LEMMA SenderTypes ==
  ASSUME NEW t \in Tx, NEW i \in Id, NEW e \in Epoch
  PROVE  /\ AtEpoch(e) \in Tx
         /\ ~Spent(t, i) => Advance(t, i) \in Tx
         /\ ~Spent(AtEpoch(e), i)
         /\ NewFrame(t, i, e) \in Frame
<1>1. AtEpoch(e) \in Tx /\ ~Spent(AtEpoch(e), i)
  BY LinkAssumption DEF AtEpoch, Tx, Spent
<1>2. ASSUME ~Spent(t, i) PROVE Advance(t, i) \in Tx
  <2>1. t.counter[i] + 1 \in 0..CounterMax
    BY <1>2, LinkAssumption DEF Spent, Tx
  <2>2. QED
    BY <2>1 DEF Advance, Tx
<1>3. NewFrame(t, i, e) \in Frame
  BY DEF NewFrame, Frame, Tx
<1>4. QED
  BY <1>1, <1>2, <1>3

\* Sending under an ID moves its counter on and no other.
LEMMA AdvanceFacts ==
  ASSUME NEW t \in Tx, NEW i \in Id
  PROVE  /\ Advance(t, i).booted = t.booted /\ Advance(t, i).epoch = t.epoch
         /\ \A j \in Id : Advance(t, i).counter[j] = IF j = i THEN t.counter[j] + 1 ELSE t.counter[j]
BY DEF Advance, Tx

LEMMA AdoptedType ==
  ASSUME NEW r \in Rx, NEW f \in Frame
  PROVE  Adopted(r, f) \in Rx
<1>1. f.epoch \in Epoch /\ f.counter \in 0..CounterMax /\ f.id \in Id /\ 0 \in 0..CounterMax
  BY LinkAssumption DEF Frame
<1>2. QED
  BY <1>1 DEF Adopted, Rx

\* What the receiver remembers of a frame it accepts, and of the frames before.
LEMMA AdoptedFacts ==
  ASSUME NEW r \in Rx, NEW f \in Frame
  PROVE  /\ Adopted(r, f).booted = r.booted /\ Adopted(r, f).floor = r.floor
         /\ Adopted(r, f).current = IF f.epoch > r.current THEN f.epoch ELSE r.current
         /\ \A i \in Id : Adopted(r, f).high[i] =
               IF i = f.id THEN f.counter
               ELSE IF f.epoch > r.current THEN 0 ELSE r.high[i]
<1>1. f.id \in Id
  BY DEF Frame
<1>2. QED
  BY <1>1 DEF Adopted, Rx

LEMMA RxAtFacts ==
  ASSUME NEW h \in Epoch
  PROVE  RxAt(h) \in Rx
<1>1. 0 \in 0..CounterMax
  BY LinkAssumption
<1>2. QED
  BY <1>1, BumpFacts DEF RxAt, Rx

LEMMA StoreTypes ==
  ASSUME NEW s \in Store, NEW d \in {"self", "peer"}, NEW e \in Epoch
  PROVE  /\ Saved(s, d, e) \in Cell /\ Committed(s, d, e) \in Store
         /\ Failures(s, d, e) \subseteq Store /\ Mounted(s) \in Store
<1>1. Saved(s, d, e) \in Cell
  BY DEF Saved, Store, Cell
<1>2. Committed(s, d, e) \in Store /\ Mounted(s) \in Store
  BY <1>1 DEF Committed, Mounted, Store
<1>3. Failures(s, d, e) \subseteq Store
  BY <1>1 DEF Failures, Store
<1>4. QED
  BY <1>1, <1>2, <1>3

\* What a commit that failed has changed: never what load answers, and a mount
\* finds the old value or the new, or a store that held nothing is broken.
LEMMA FailuresFacts ==
  ASSUME NEW s \in Store, NEW d \in {"self", "peer"}, NEW e \in Epoch,
         NEW t \in Failures(s, d, e)
  PROVE  /\ t.mem = s.mem
         /\ \/ t.disk = s.disk
            \/ t.disk = s.mem
            \/ t.disk = Saved(s, d, e)
         /\ t.broken => s.broken \/ s.mem = ZeroCell
BY DEF Failures, Store

LEMMA SavedFacts ==
  ASSUME NEW s \in Store, NEW d \in {"self", "peer"}, NEW e \in Epoch
  PROVE  /\ Saved(s, d, e)[d] = e
         /\ \A c \in {"self", "peer"} \ {d} : Saved(s, d, e)[c] = s.mem[c]
         /\ Saved(s, d, e).self = IF d = "self" THEN e ELSE s.mem.self
         /\ Saved(s, d, e).peer = IF d = "peer" THEN e ELSE s.mem.peer
BY DEF Saved, Store, Cell

-----------------------------------------------------------------------------
(* Type correctness, one action at a time. *)

LEMMA LeaveType ==
  ASSUME TypeOK, NEW n \in Node, NEW s \in Store, Leave(n, s)
  PROVE  store' \in [Node -> Store] /\ faults' \in 0..MaxFaults
BY DEF Leave, TypeOK

LEMMA CommitType ==
  ASSUME TypeOK, NEW n \in Node, NEW s \in Store, NEW d \in {"self", "peer"}, NEW e \in Epoch,
         CommitOk(n, s, d, e) \/ CommitFails(n, s, d, e)
  PROVE  store' \in [Node -> Store] /\ faults' \in 0..MaxFaults
<1>1. CASE CommitOk(n, s, d, e)
  BY <1>1, StoreTypes, LeaveType DEF CommitOk
<1>2. CASE CommitFails(n, s, d, e)
  BY <1>2, StoreTypes, LinkAssumption DEF CommitFails, TypeOK
<1>3. QED
  BY <1>1, <1>2

LEMMA SpendType ==
  ASSUME TypeOK, NEW n \in Node, NEW t \in Tx, NEW i \in Id, NEW e \in Epoch, Spend(n, t, i, e)
  PROVE  /\ tx' \in [Node -> Tx] /\ wire' \in [Node -> SUBSET Frame]
         /\ sync' \in [Node -> {"due", "out", "handled", "lost"}]
<1>1. NewFrame(t, i, e) \in Frame
  BY SenderTypes
<1>2. tx' \in [Node -> Tx] /\ wire' \in [Node -> SUBSET Frame]
  BY <1>1 DEF Spend, TypeOK
<1>3. sync' \in [Node -> {"due", "out", "handled", "lost"}]
  BY DEF Spend, TypeOK
<1>4. QED
  BY <1>2, <1>3

LEMMA TransmitType ==
  ASSUME TypeOK, NEW n \in Node, NEW i \in Id, NEW e \in Epoch, Transmit(n, i, e)
  PROVE  TypeOK'
<1> DEFINE b == Bump(tx[n].epoch)
<1>1. tx[n] \in Tx /\ store[n] \in Store /\ tx[n].epoch \in Epoch /\ b \in Epoch
  BY BumpFacts DEF TypeOK, Tx
<1>2. UNCHANGED <<mode, rx, accepted>>
  BY DEF Transmit
<1>3. CASE ~Spent(tx[n], i) /\ Spend(n, Advance(tx[n], i), i, e) /\ UNCHANGED <<store, faults>>
  BY <1>1, <1>2, <1>3, SenderTypes, SpendType DEF TypeOK
<1>4. CASE CommitOk(n, store[n], "self", b) /\ Spend(n, Advance(AtEpoch(b), i), i, e)
  <2>1. Advance(AtEpoch(b), i) \in Tx
    BY <1>1, SenderTypes
  <2>2. QED
    BY <1>1, <1>2, <1>4, <2>1, SpendType, CommitType DEF TypeOK
<1>5. CASE CommitFails(n, store[n], "self", b) /\ UNCHANGED <<tx, wire, sync>>
  BY <1>1, <1>2, <1>5, CommitType DEF TypeOK
<1>6. QED
  BY <1>3, <1>4, <1>5 DEF Transmit

LEMMA AfterAcceptType ==
  ASSUME TypeOK, NEW n \in Node, NEW f \in Frame
  PROVE  AfterAccept(n, f) \in Store
BY StoreTypes DEF AfterAccept, TypeOK, Frame

\* The boot sync moves on, and nothing else happens.
OnlySync ==
  /\ UNCHANGED <<mode, store, faults, tx, rx, wire, accepted>>
  /\ TypeOK => sync' \in [Node -> {"due", "out", "handled", "lost"}]

LEMMA SyncMoves ==
  /\ \A n \in Node : \A f : RejectSync(n, f) => OnlySync
  /\ \A n \in Node : LoseSync(n) => OnlySync
<1>1. ASSUME NEW n \in Node, NEW f, RejectSync(n, f) PROVE OnlySync
  BY <1>1 DEF RejectSync, Handled, OnlySync, TypeOK
<1>2. ASSUME NEW n \in Node, LoseSync(n) PROVE OnlySync
  BY <1>2 DEF LoseSync, OnlySync, TypeOK
<1>3. QED
  BY <1>1, <1>2

LEMMA ReceiveType ==
  ASSUME TypeOK, NEW n \in Node, NEW f \in wire[Peer(n)], Receive(n, f)
  PROVE  TypeOK'
<1> DEFINE s == AfterAccept(n, f)
<1>1. f \in Frame /\ f.epoch \in Epoch /\ f.floor \in Epoch
  BY PeerFacts DEF TypeOK, Frame
<1>2. s \in Store /\ store[n] \in Store
  BY <1>1, AfterAcceptType DEF TypeOK
<1>3. UNCHANGED wire /\ sync' \in [Node -> {"due", "out", "handled", "lost"}]
  BY DEF Receive, Handled, TypeOK
<1>4. CASE f.epoch > rx[n].current /\ CommitFails(n, store[n], "peer", f.epoch)
           /\ UNCHANGED <<mode, tx, rx, accepted>>
  BY <1>1, <1>2, <1>3, <1>4, CommitType DEF TypeOK
<1>5. ASSUME AcceptFrame(n, f)
      PROVE  rx' \in [Node -> Rx] /\ accepted' \in [Node -> SUBSET Frame]
  BY <1>1, <1>5, AdoptedType DEF AcceptFrame, TypeOK
<1>6. CASE AcceptFrame(n, f) /\ f.id = "sync" /\ AdoptFloor(n, f.floor, s)
  <2>1. CASE MoveTo(n, f.floor, s) /\ UNCHANGED mode
    <3>1. AtEpoch(f.floor) \in Tx
      BY <1>1, SenderTypes DEF TypeOK, Id
    <3>2. tx' \in [Node -> Tx]
      BY <2>1, <3>1 DEF MoveTo, TypeOK
    <3>3. QED
      BY <1>1, <1>2, <1>3, <1>5, <1>6, <2>1, <3>2, CommitType DEF MoveTo, TypeOK
  <2>2. CASE Leave(n, s) /\ UNCHANGED tx
             /\ mode' = [mode EXCEPT ![n] = IF f.floor > tx[n].epoch THEN "fault" ELSE @]
    <3>1. mode' \in [Node -> {"off", "up", "fault"}]
      BY <2>2 DEF TypeOK
    <3>2. QED
      BY <1>2, <1>3, <1>5, <1>6, <2>2, <3>1, LeaveType DEF TypeOK
  <2>3. QED
    BY <1>6, <2>1, <2>2 DEF AdoptFloor
<1>7. CASE AcceptFrame(n, f) /\ Leave(n, s) /\ UNCHANGED <<mode, tx>>
  BY <1>2, <1>3, <1>5, <1>7, LeaveType DEF TypeOK
<1>8. QED
  BY <1>4, <1>6, <1>7 DEF Receive

LEMMA BootType ==
  ASSUME TypeOK, NEW n \in Node, Boot(n)
  PROVE  TypeOK'
<1> DEFINE e == Bump(store[n].disk.self)
           s == Mounted(store[n])
<1>1. store[n].disk.self \in Epoch /\ store[n].disk.peer \in Epoch
  BY DEF TypeOK, Store, Cell
<1>2. e \in Epoch /\ s \in Store
  BY <1>1, BumpFacts, StoreTypes DEF TypeOK, Epoch
<1>3. AtEpoch(e) \in Tx /\ RxAt(store[n].disk.peer) \in Rx
  BY <1>1, <1>2, SenderTypes, RxAtFacts, InitialTypes DEF Id
<1>4. CommitOk(n, s, "self", e) \/ CommitFails(n, s, "self", e)
  BY DEF Boot
<1>5. store' \in [Node -> Store] /\ faults' \in 0..MaxFaults
  BY <1>2, <1>4, CommitType
<1>6. tx' \in [Node -> Tx] /\ rx' \in [Node -> Rx]
  BY <1>3 DEF Boot, Boots, TypeOK
<1>7. QED
  BY <1>5, <1>6 DEF Boot, Boots, TypeOK

LEMMA TypeInit == Init => TypeOK
BY InitialTypes, LinkAssumption DEF Init, TypeOK

LEMMA TypeStep == TypeOK /\ [Next]_vars => TypeOK'
<1> SUFFICES ASSUME TypeOK, [Next]_vars PROVE TypeOK'
  OBVIOUS
<1>1. CASE UNCHANGED vars
  BY <1>1 DEF vars, TypeOK
<1>2. ASSUME NEW n \in Node, SendData(n) PROVE TypeOK'
  BY <1>2, TransmitType, LinkAssumption DEF SendData, Id, Epoch
<1>3. ASSUME NEW n \in Node, SendSync(n) PROVE TypeOK'
  BY <1>3, TransmitType DEF SendSync, Id, TypeOK, Rx
<1>4. ASSUME NEW n \in Node, NEW f \in wire[Peer(n)], Receive(n, f) PROVE TypeOK'
  BY <1>4, ReceiveType
<1>5. ASSUME NEW n \in Node, Boot(n) PROVE TypeOK'
  BY <1>5, BootType
<1>6. ASSUME NEW n \in Node, BootBroken(n) PROVE TypeOK'
  BY <1>6 DEF BootBroken, TypeOK
<1>7. ASSUME NEW n \in Node, PowerLoss(n) PROVE TypeOK'
  <2>1. [store[n] EXCEPT !.mem = ZeroCell] \in Store
    BY InitialTypes DEF TypeOK, Store
  <2>2. QED
    BY <1>7, <2>1, InitialTypes, LeaveType DEF PowerLoss, TypeOK
<1>8. ASSUME OnlySync PROVE TypeOK'
  BY <1>8 DEF OnlySync, TypeOK
<1>9. QED
  BY <1>1, <1>2, <1>3, <1>4, <1>5, <1>6, <1>7, <1>8, SyncMoves DEF Next

\* Contexts, stores and frames of both nodes keep their types: in particular no
\* counter passes CounterMax and no epoch leaves its 16 bits.
THEOREM LinkTypeCorrect == Spec => []TypeOK
BY TypeInit, TypeStep, PTL DEF Spec

-----------------------------------------------------------------------------
(* The steps a handler is made of, each on the values of one node. *)

\* A failed commit of a value above the loaded one.
LEMMA FailedCommitSound ==
  ASSUME NEW m, NEW s \in Store, NEW t \in Tx, NEW r \in Rx,
         NEW W \in SUBSET Frame, NEW V \in SUBSET Frame, NEW A \in SUBSET Frame,
         Sound(m, s, t, r, W, V, A), r.booted,
         NEW d \in {"self", "peer"}, NEW e \in Epoch, e > s.mem[d],
         NEW u \in Failures(s, d, e)
  PROVE  Sound(m, u, t, r, W, V, A)
<1>1. u.mem = s.mem /\ u \in Store
  BY FailuresFacts, StoreTypes
<1>2. /\ s.mem.self \in Epoch /\ s.mem.peer \in Epoch
      /\ u.disk.self \in Epoch /\ u.disk.peer \in Epoch
  BY <1>1 DEF Store, Cell
<1>3. u.mem.self <= u.disk.self /\ u.mem.peer <= u.disk.peer
  <2>1. CASE u.disk = s.disk
    BY <1>1, <2>1 DEF Sound, MemBelowDisk
  <2>2. CASE u.disk = s.mem
    BY <1>1, <1>2, <2>2 DEF Epoch
  <2>3. CASE u.disk = Saved(s, d, e)
    BY <1>1, <1>2, <2>3, SavedFacts DEF Epoch
  <2>4. QED
    BY <2>1, <2>2, <2>3, FailuresFacts
<1>4. u.broken => s.broken \/ s.mem = ZeroCell
  BY FailuresFacts
<1>5. MemBelowDisk(u)
  BY <1>1, <1>3, <1>4 DEF Sound, MemBelowDisk
<1>6. SentIsCovered(u, t, r, W)
  <2> SUFFICES ASSUME NEW f \in W
               PROVE  /\ f.epoch > 0 /\ f.epoch <= u.disk.self /\ ~u.broken
                      /\ f.epoch <= u.mem.self /\ (t.booted => Below(t, f))
    BY DEF SentIsCovered
  <2>1. /\ f.epoch > 0 /\ f.epoch <= s.mem.self /\ ~s.broken
        /\ t.booted => Below(t, f)
    BY DEF Sound, SentIsCovered
  <2>2. f.epoch \in Epoch
    BY DEF Frame
  <2>3. ~u.broken
    BY <1>4, <2>1, <2>2 DEF ZeroCell, Epoch
  <2>4. QED
    BY <1>1, <1>2, <1>3, <2>1, <2>2, <2>3 DEF Epoch
<1>7. AcceptedIsCovered(u, r, V, A)
  <2> SUFFICES ASSUME NEW f \in A
               PROVE  /\ f \in V /\ f.epoch > 0 /\ f.epoch <= u.disk.peer /\ ~u.broken
                      /\ f.epoch <= u.mem.peer /\ ~Fresh(r, f)
    BY DEF AcceptedIsCovered
  <2>1. f \in V /\ f.epoch > 0 /\ f.epoch <= s.mem.peer /\ ~s.broken /\ ~Fresh(r, f)
    BY DEF Sound, AcceptedIsCovered
  <2>2. f.epoch \in Epoch
    BY DEF Frame
  <2>3. ~u.broken
    BY <1>4, <2>1, <2>2 DEF ZeroCell, Epoch
  <2>4. QED
    BY <1>1, <1>2, <1>3, <2>1, <2>2, <2>3 DEF Epoch
<1>8. QED
  BY <1>1, <1>5, <1>6, <1>7 DEF Sound, SenderUsesStore, ReceiverUsesStore

\* The durable bump of the own epoch, by a boot, a rollover or an adopted floor.
LEMMA NewEpochSound ==
  ASSUME NEW s \in Store, NEW t \in Tx, NEW r \in Rx,
         NEW W \in SUBSET Frame, NEW V \in SUBSET Frame, NEW A \in SUBSET Frame,
         Sound("up", s, t, r, W, V, A), r.booted,
         NEW e \in Epoch, e > s.mem.self
  PROVE  Sound("up", Committed(s, "self", e), AtEpoch(e), r, W, V, A)
<1> DEFINE u == Committed(s, "self", e)
<1>1. /\ u.mem.self = e /\ u.mem.peer = s.mem.peer
      /\ u.disk.self = e /\ u.disk.peer = s.mem.peer /\ ~u.broken
  BY SavedFacts DEF Committed
<1>2. s.mem.self \in Epoch /\ s.mem.peer \in Epoch
  BY DEF Store, Cell
<1>3. AtEpoch(e).booted /\ AtEpoch(e).epoch = e
  BY DEF AtEpoch
<1>4. MemBelowDisk(u)
  BY <1>1, <1>2 DEF MemBelowDisk, Epoch
<1>5. SenderUsesStore("up", u, AtEpoch(e), r) /\ ReceiverUsesStore("up", u, r)
  BY <1>1, <1>2, <1>3 DEF Sound, SenderUsesStore, ReceiverUsesStore, Epoch
<1>6. SentIsCovered(u, AtEpoch(e), r, W)
  <2> SUFFICES ASSUME NEW f \in W
               PROVE  f.epoch > 0 /\ f.epoch < e
    BY <1>1, <1>3 DEF SentIsCovered, Below, Frame, Epoch
  <2>1. f.epoch > 0 /\ f.epoch <= s.mem.self
    BY DEF Sound, SentIsCovered
  <2>2. QED
    BY <1>2, <2>1 DEF Frame, Epoch
<1>7. AcceptedIsCovered(u, r, V, A)
  BY <1>1 DEF Sound, AcceptedIsCovered
<1>8. QED
  BY <1>4, <1>5, <1>6, <1>7 DEF Sound

\* A freshness is spent, and goes out with the frame or not at all.
LEMMA SpendSound ==
  ASSUME NEW s \in Store, NEW t \in Tx, NEW r \in Rx,
         NEW W \in SUBSET Frame, NEW V \in SUBSET Frame, NEW A \in SUBSET Frame,
         Sound("up", s, t, r, W, V, A), t.booted,
         NEW i \in Id, ~Spent(t, i), NEW e \in Epoch,
         NEW X, X = W \/ X = W \cup {NewFrame(Advance(t, i), i, e)}
  PROVE  Sound("up", s, Advance(t, i), r, X, V, A)
<1> DEFINE a == Advance(t, i)
           g == NewFrame(a, i, e)
<1>1. /\ a.booted = t.booted /\ a.epoch = t.epoch
      /\ \A j \in Id : a.counter[j] = IF j = i THEN t.counter[j] + 1 ELSE t.counter[j]
  BY AdvanceFacts
<1>2. g.id = i /\ g.epoch = t.epoch /\ g.counter = a.counter[i]
  BY <1>1 DEF NewFrame
<1>3. t.epoch = s.mem.self /\ t.epoch > 0 /\ r.booted
  BY DEF Sound, SenderUsesStore
<1>4. /\ s.mem.self \in Epoch /\ s.disk.self \in Epoch /\ t.epoch \in Epoch
      /\ \A j \in Id : t.counter[j] \in 0..CounterMax
  BY DEF Store, Cell, Tx
<1>5. s.mem.self <= s.disk.self
  BY DEF Sound, MemBelowDisk
<1>6. ~s.broken
  BY <1>3, <1>4 DEF Sound, MemBelowDisk, ZeroCell, Epoch
<1>7. \A f \in W : Below(a, f)
  <2> SUFFICES ASSUME NEW f \in W PROVE Below(a, f)
    OBVIOUS
  <2>1. Below(t, f)
    BY <1>3 DEF Sound, SentIsCovered
  <2>2. f.id \in Id /\ f.counter \in 0..CounterMax
    BY DEF Frame
  <2>3. QED
    BY <1>1, <1>4, <2>1, <2>2, LinkAssumption DEF Below
<1>8. Below(a, g)
  BY <1>1, <1>2, <1>4, LinkAssumption DEF Below
<1>9. SentIsCovered(s, a, r, X)
  <2>1. \A f \in W : SentIsCovered(s, a, r, {f})
    BY <1>7 DEF Sound, SentIsCovered
  <2>2. SentIsCovered(s, a, r, {g})
    BY <1>2, <1>3, <1>4, <1>5, <1>6, <1>8 DEF SentIsCovered, Epoch
  <2>3. QED
    BY <2>1, <2>2 DEF SentIsCovered
<1>10. SenderUsesStore("up", s, a, r)
  BY <1>1 DEF Sound, SenderUsesStore
<1>11. QED
  BY <1>9, <1>10 DEF Sound

\* A frame is accepted, its epoch made durable first when it is newer.
LEMMA AcceptSound ==
  ASSUME NEW m, NEW s \in Store, NEW t \in Tx, NEW r \in Rx,
         NEW W \in SUBSET Frame, NEW V \in SUBSET Frame, NEW A \in SUBSET Frame,
         Sound(m, s, t, r, W, V, A), r.booted,
         NEW f \in V, f.epoch > 0, Fresh(r, f),
         NEW u, u = IF f.epoch > r.current THEN Committed(s, "peer", f.epoch) ELSE s
  PROVE  Sound(m, u, t, Adopted(r, f), W, V, A \cup {f})
<1> DEFINE q == Adopted(r, f)
           B == A \cup {f}
<1>1. /\ q.booted /\ q.floor = r.floor
      /\ q.current = IF f.epoch > r.current THEN f.epoch ELSE r.current
      /\ \A i \in Id : q.high[i] = IF i = f.id THEN f.counter
                                   ELSE IF f.epoch > r.current THEN 0 ELSE r.high[i]
  BY AdoptedFacts
<1>2. /\ f \in Frame /\ f.epoch \in Epoch /\ f.counter \in 0..CounterMax /\ f.id \in Id
      /\ r.floor \in Epoch /\ r.current \in Epoch /\ \A i \in Id : r.high[i] \in 0..CounterMax
      /\ s.mem.self \in Epoch /\ s.mem.peer \in Epoch
      /\ s.disk.self \in Epoch /\ s.disk.peer \in Epoch
  BY DEF Frame, Rx, Store, Cell
<1>3. r.current = s.mem.peer
  BY DEF Sound, ReceiverUsesStore
<1>4. f.epoch >= r.current /\ f.epoch >= r.floor
  BY <1>2 DEF Fresh, Epoch
<1>5. /\ u.mem.self = s.mem.self /\ u.mem.peer = q.current /\ q.current = f.epoch
      /\ u.mem.self <= u.disk.self /\ u.mem.peer <= u.disk.peer /\ ~u.broken
  <2>1. CASE f.epoch > r.current
    <3>1. /\ u.mem.self = s.mem.self /\ u.mem.peer = f.epoch
          /\ u.disk.self = s.mem.self /\ u.disk.peer = f.epoch /\ ~u.broken
      BY <1>2, <2>1, SavedFacts DEF Committed
    <3>2. QED
      BY <1>1, <1>2, <2>1, <3>1 DEF Epoch
  <2>2. CASE ~(f.epoch > r.current)
    <3>1. u = s /\ f.epoch = r.current
      BY <1>2, <1>4, <2>2 DEF Epoch
    <3>2. ~s.broken
      BY <1>2, <1>3, <3>1 DEF Sound, MemBelowDisk, ZeroCell, Epoch
    <3>3. QED
      BY <1>1, <1>3, <2>2, <3>1, <3>2 DEF Sound, MemBelowDisk
  <2>3. QED
    BY <2>1, <2>2
<1>6. SenderUsesStore(m, u, t, q) /\ ReceiverUsesStore(m, u, q) /\ MemBelowDisk(u)
  BY <1>1, <1>2, <1>5
     DEF Sound, SenderUsesStore, ReceiverUsesStore, MemBelowDisk
<1>7. SentIsCovered(u, t, q, W)
  <2> SUFFICES ASSUME NEW g \in W
               PROVE  /\ g.epoch > 0 /\ g.epoch <= u.disk.self /\ ~u.broken
                      /\ g.epoch <= u.mem.self /\ (t.booted => Below(t, g))
    BY <1>1 DEF SentIsCovered
  <2>1. g.epoch > 0 /\ g.epoch <= s.mem.self /\ (t.booted => Below(t, g)) /\ g.epoch \in Epoch
    BY DEF Sound, SentIsCovered, Frame
  <2>2. u.disk.self \in Epoch
    BY <1>2, StoreTypes DEF Store, Cell
  <2>3. QED
    BY <1>2, <1>5, <2>1, <2>2 DEF Epoch
<1>8. AcceptedIsCovered(u, q, V, B)
  <2>1. u.disk.peer \in Epoch
    BY <1>2, StoreTypes DEF Store, Cell
  <2>2. ~Fresh(q, f)
    BY <1>1, <1>2, <1>5 DEF Fresh, Epoch
  <2>3. ASSUME NEW g \in A
        PROVE  g \in V /\ g.epoch > 0 /\ g.epoch <= q.current /\ ~Fresh(q, g)
    <3>1. /\ g \in V /\ g.epoch > 0 /\ g.epoch <= s.mem.peer /\ ~Fresh(r, g)
          /\ g.epoch \in Epoch /\ g.counter \in 0..CounterMax /\ g.id \in Id
      BY DEF Sound, AcceptedIsCovered, Frame
    <3>2. g.epoch <= q.current
      BY <1>2, <1>3, <1>4, <1>5, <3>1 DEF Epoch
    <3>3. CASE f.epoch > r.current
      BY <1>1, <1>2, <1>3, <3>1, <3>2, <3>3 DEF Fresh, Epoch
    <3>4. CASE ~(f.epoch > r.current)
      <4>1. /\ q.current = r.current /\ r.high[g.id] <= q.high[g.id]
            /\ r.high[g.id] \in 0..CounterMax /\ q.high[g.id] \in 0..CounterMax
        BY <1>1, <1>2, <1>4, <3>1, <3>4, LinkAssumption DEF Fresh, Epoch
      <4>2. QED
        BY <1>1, <1>2, <3>1, <3>2, <4>1, LinkAssumption DEF Fresh, Epoch
    <3>5. QED
      BY <3>1, <3>2, <3>3, <3>4
  <2>4. QED
    BY <1>2, <1>5, <2>1, <2>2, <2>3 DEF AcceptedIsCovered, Frame, Epoch
<1>9. MarksAreAccepted(q, B)
  <2>1. \E g \in B : g.epoch = q.current
    BY <1>5
  <2>2. ASSUME NEW i \in Id
        PROVE  \/ q.high[i] = 0
               \/ \E g \in B : g.id = i /\ g.epoch = q.current /\ g.counter = q.high[i]
    <3>1. CASE i = f.id
      BY <1>1, <1>5, <3>1
    <3>2. CASE i # f.id /\ f.epoch > r.current
      BY <1>1, <3>2
    <3>3. CASE i # f.id /\ ~(f.epoch > r.current)
      BY <1>1, <3>3 DEF Sound, MarksAreAccepted
    <3>4. QED
      BY <3>1, <3>2, <3>3
  <2>3. QED
    BY <2>1, <2>2 DEF MarksAreAccepted
<1>10. QED
  BY <1>6, <1>7, <1>8, <1>9 DEF Sound

\* A receiver boots one above everything durable, whatever the sender does.
LEMMA BootSound ==
  ASSUME NEW s \in Store, NEW t \in Tx, NEW r \in Rx,
         NEW W \in SUBSET Frame, NEW V \in SUBSET Frame, NEW A \in SUBSET Frame,
         Sound("off", s, t, r, W, V, A), ~s.broken, s.disk.peer < EpochMod - 1
  PROVE  Sound("up", Mounted(s), t, RxAt(s.disk.peer), W, V, A)
<1> DEFINE u == Mounted(s)
           q == RxAt(s.disk.peer)
<1>1. u.mem = s.disk /\ u.disk = s.disk /\ u.broken = s.broken
  BY DEF Mounted, Store
<1>2. s.disk.self \in Epoch /\ s.disk.peer \in Epoch
  BY DEF Store, Cell
<1>3. /\ q.booted /\ q.floor = s.disk.peer + 1 /\ q.current = s.disk.peer
      /\ \A i \in Id : q.high[i] = 0
  BY <1>2, BumpFacts DEF RxAt
<1>4. ~t.booted
  BY DEF Sound, SenderUsesStore
<1>5. MemBelowDisk(u)
  BY <1>1, <1>2 DEF MemBelowDisk, Epoch
<1>6. SentIsCovered(u, t, q, W)
  BY <1>1, <1>4 DEF Sound, SentIsCovered
<1>7. AcceptedIsCovered(u, q, V, A)
  <2> SUFFICES ASSUME NEW f \in A
               PROVE  /\ f \in V /\ f.epoch > 0 /\ f.epoch <= s.disk.peer
                      /\ ~Fresh(q, f)
    BY <1>1 DEF AcceptedIsCovered
  <2>1. f \in V /\ f.epoch > 0 /\ f.epoch <= s.disk.peer /\ f.epoch \in Epoch
    BY DEF Sound, AcceptedIsCovered, Frame
  <2>2. QED
    BY <1>2, <1>3, <2>1 DEF Fresh, Epoch
<1>8. MarksAreAccepted(q, A)
  BY <1>2, <1>3 DEF MarksAreAccepted, Epoch
<1>9. SenderUsesStore("up", u, t, q) /\ ReceiverUsesStore("up", u, q)
  BY <1>1, <1>3, <1>4 DEF SenderUsesStore, ReceiverUsesStore
<1>10. QED
  BY <1>5, <1>6, <1>7, <1>8, <1>9 DEF Sound

\* Contexts that have not booted claim nothing; the disk covers the frames.
LEMMA PowerLossSound ==
  ASSUME NEW m, NEW s \in Store, NEW t \in Tx, NEW r \in Rx,
         NEW W \in SUBSET Frame, NEW V \in SUBSET Frame, NEW A \in SUBSET Frame,
         Sound(m, s, t, r, W, V, A)
  PROVE  Sound("off", [s EXCEPT !.mem = ZeroCell], NoTx, NoRx, W, V, A)
<1> DEFINE u == [s EXCEPT !.mem = ZeroCell]
<1>1. u.mem = ZeroCell /\ u.disk = s.disk /\ u.broken = s.broken
  BY DEF Store
<1>2. s.disk.self \in Epoch /\ s.disk.peer \in Epoch
  BY DEF Store, Cell
<1>3. ~NoTx.booted /\ ~NoRx.booted
  BY DEF NoTx, NoRx
<1>4. MemBelowDisk(u)
  BY <1>1, <1>2 DEF MemBelowDisk, ZeroCell, Epoch
<1>5. SentIsCovered(u, NoTx, NoRx, W) /\ AcceptedIsCovered(u, NoRx, V, A)
  BY <1>1, <1>3 DEF Sound, SentIsCovered, AcceptedIsCovered
<1>6. QED
  BY <1>1, <1>3, <1>4, <1>5 DEF Sound, SenderUsesStore, ReceiverUsesStore, MarksAreAccepted

-----------------------------------------------------------------------------
(* Every action keeps the invariant. *)

LEMMA NodeTypes ==
  ASSUME TypeOK, NEW n \in Node
  PROVE  /\ store[n] \in Store /\ tx[n] \in Tx /\ rx[n] \in Rx
         /\ wire[n] \in SUBSET Frame /\ wire[Peer(n)] \in SUBSET Frame
         /\ accepted[n] \in SUBSET Frame
BY PeerFacts DEF TypeOK

\* A step of node n leaves the other node as it was, but for what it may hear.
LEMMA OtherNode ==
  ASSUME IInv, NEW n \in Node, NodeInv(n)', TypeOK',
         \A k \in Node \ {n} :
           /\ mode'[k] = mode[k] /\ store'[k] = store[k] /\ tx'[k] = tx[k]
           /\ rx'[k] = rx[k] /\ wire'[k] = wire[k] /\ accepted'[k] = accepted[k],
         wire[n] \subseteq wire'[n]
  PROVE  IInv'
<1>1. ASSUME NEW k \in Node \ {n} PROVE NodeInv(k)'
  <2>1. NodeInv(k) /\ Peer(k) = n
    BY LinkAssumption, PeerFacts DEF IInv
  <2>2. QED
    BY <2>1 DEF NodeInv, Sound, AcceptedIsCovered
<1>2. QED
  BY <1>1 DEF IInv

LEMMA TransmitInv ==
  ASSUME IInv, EpochsLast, NEW n \in Node, NEW i \in Id, NEW e \in Epoch, Transmit(n, i, e)
  PROVE  IInv'
<1> DEFINE b == Bump(tx[n].epoch)
           P == Peer(n)
<1>1. TypeOK /\ TypeOK' /\ NodeInv(n)
  BY TransmitType DEF IInv
<1>2. /\ store[n] \in Store /\ tx[n] \in Tx /\ rx[n] \in Rx
      /\ wire[n] \in SUBSET Frame /\ wire[P] \in SUBSET Frame /\ accepted[n] \in SUBSET Frame
  BY <1>1, NodeTypes
<1>3. mode[n] = "up" /\ tx[n].booted /\ UNCHANGED <<mode, rx, accepted>>
  BY DEF Transmit
<1>4. rx[n].booted /\ tx[n].epoch = store[n].mem.self
  BY <1>1, <1>3 DEF NodeInv, Sound, SenderUsesStore
<1>5. b \in Epoch /\ b > store[n].mem.self
  <2>1. store[n].mem.self \in Epoch /\ store[n].disk.self \in Epoch
    BY <1>2 DEF Store, Cell
  <2>2. store[n].mem.self < EpochMod - 1
    BY <1>1, <2>1, LinkAssumption DEF EpochsLast, NodeInv, Sound, MemBelowDisk, Epoch
  <2>3. QED
    BY <1>4, <2>1, <2>2, BumpFacts DEF Epoch
<1>6. ASSUME NEW t \in Tx, Spend(n, Advance(t, i), i, e)
      PROVE  /\ tx'[n] = Advance(t, i) /\ wire'[P] = wire[P]
             /\ \/ wire'[n] = wire[n]
                \/ wire'[n] = wire[n] \cup {NewFrame(Advance(t, i), i, e)}
             /\ \A k \in Node \ {n} : tx'[k] = tx[k] /\ wire'[k] = wire[k]
  BY <1>1, <1>6, PeerFacts DEF Spend, TypeOK
<1>7. CASE ~Spent(tx[n], i) /\ Spend(n, Advance(tx[n], i), i, e) /\ UNCHANGED <<store, faults>>
  <2>1. NodeInv(n)'
    BY <1>1, <1>2, <1>3, <1>6, <1>7, SpendSound DEF NodeInv
  <2>2. QED
    BY <1>1, <1>2, <1>3, <1>6, <1>7, <2>1, OtherNode
<1>8. CASE CommitOk(n, store[n], "self", b) /\ Spend(n, Advance(AtEpoch(b), i), i, e)
  <2> DEFINE u == Committed(store[n], "self", b)
  <2>1. AtEpoch(b) \in Tx /\ ~Spent(AtEpoch(b), i) /\ AtEpoch(b).booted /\ u \in Store
    BY <1>2, <1>5, SenderTypes, StoreTypes DEF AtEpoch
  <2>2. Sound("up", u, AtEpoch(b), rx[n], wire[n], wire[P], accepted[n])
    BY <1>1, <1>2, <1>3, <1>4, <1>5, NewEpochSound DEF NodeInv
  <2>3. store'[n] = u /\ \A k \in Node \ {n} : store'[k] = store[k]
    BY <1>1, <1>8 DEF CommitOk, Leave, TypeOK
  <2>4. NodeInv(n)'
    BY <1>2, <1>3, <1>6, <1>8, <2>1, <2>2, <2>3, SpendSound DEF NodeInv
  <2>5. QED
    BY <1>1, <1>2, <1>3, <1>6, <1>8, <2>1, <2>3, <2>4, OtherNode
<1>9. CASE CommitFails(n, store[n], "self", b) /\ UNCHANGED <<tx, wire, sync>>
  <2>1. /\ store'[n] \in Failures(store[n], "self", b)
        /\ \A k \in Node \ {n} : store'[k] = store[k]
    BY <1>1, <1>9 DEF CommitFails, TypeOK
  <2>2. Sound(mode[n], store'[n], tx[n], rx[n], wire[n], wire[P], accepted[n])
    BY <1>1, <1>2, <1>4, <1>5, <2>1, FailedCommitSound DEF NodeInv
  <2>3. NodeInv(n)'
    BY <1>3, <1>9, <2>2 DEF NodeInv
  <2>4. QED
    BY <1>1, <1>3, <1>9, <2>1, <2>3, OtherNode
<1>10. QED
  BY <1>7, <1>8, <1>9 DEF Transmit

LEMMA ReceiveInv ==
  ASSUME IInv, EpochsLast, NEW n \in Node, NEW f \in wire[Peer(n)], Receive(n, f)
  PROVE  IInv'
<1> DEFINE u == AfterAccept(n, f)
           q == Adopted(rx[n], f)
           P == Peer(n)
           A == accepted[n] \cup {f}
<1>1. TypeOK /\ TypeOK' /\ NodeInv(n) /\ NodeInv(P)
  BY ReceiveType, PeerFacts DEF IInv
<1>2. /\ store[n] \in Store /\ tx[n] \in Tx /\ rx[n] \in Rx
      /\ wire[n] \in SUBSET Frame /\ wire[P] \in SUBSET Frame /\ accepted[n] \in SUBSET Frame
  BY <1>1, NodeTypes
<1>3. f \in Frame /\ f.epoch \in Epoch /\ f.floor \in Epoch /\ f.epoch > 0
  BY <1>1, <1>2 DEF NodeInv, Sound, SentIsCovered, Frame
<1>4. /\ mode[n] = "up" /\ rx[n].booted /\ Fresh(rx[n], f)
      /\ UNCHANGED wire
  BY DEF Receive
<1>5. CASE /\ f.epoch > rx[n].current /\ CommitFails(n, store[n], "peer", f.epoch)
           /\ UNCHANGED <<mode, tx, rx, accepted>>
  <2>1. /\ store'[n] \in Failures(store[n], "peer", f.epoch)
        /\ \A k \in Node \ {n} : store'[k] = store[k]
    BY <1>1, <1>5 DEF CommitFails, TypeOK
  <2>2. f.epoch > store[n].mem.peer
    BY <1>1, <1>4, <1>5 DEF NodeInv, Sound, ReceiverUsesStore
  <2>3. Sound(mode[n], store'[n], tx[n], rx[n], wire[n], wire[P], accepted[n])
    BY <1>1, <1>2, <1>3, <1>4, <2>1, <2>2, FailedCommitSound DEF NodeInv
  <2>4. NodeInv(n)'
    BY <1>4, <1>5, <2>3 DEF NodeInv
  <2>5. QED
    BY <1>1, <1>4, <1>5, <2>1, <2>4, OtherNode
<1>6. CASE AcceptFrame(n, f) /\ ( (f.id = "sync" /\ AdoptFloor(n, f.floor, u))
                                   \/ (Leave(n, u) /\ UNCHANGED <<mode, tx>>) )
  <2>1. /\ rx'[n] = q /\ accepted'[n] = A
        /\ \A k \in Node \ {n} : rx'[k] = rx[k] /\ accepted'[k] = accepted[k]
    BY <1>1, <1>6 DEF AcceptFrame, TypeOK
  <2>2. u \in Store /\ q \in Rx /\ A \in SUBSET Frame /\ q.booted
    BY <1>1, <1>2, <1>3, <1>4, AfterAcceptType, AdoptedType, AdoptedFacts
  <2>3. Sound("up", u, tx[n], q, wire[n], wire[P], A)
    <3>1. u = IF f.epoch > rx[n].current THEN Committed(store[n], "peer", f.epoch) ELSE store[n]
      BY DEF AfterAccept
    <3>2. QED
      BY <1>1, <1>2, <1>3, <1>4, <3>1, AcceptSound DEF NodeInv
  <2>4. CASE Leave(n, u) /\ UNCHANGED <<mode, tx>>
    <3>1. store'[n] = u /\ \A k \in Node \ {n} : store'[k] = store[k]
      BY <1>1, <2>4 DEF Leave, TypeOK
    <3>2. NodeInv(n)'
      BY <1>4, <2>1, <2>3, <2>4, <3>1 DEF NodeInv
    <3>3. QED
      BY <1>1, <1>4, <2>1, <2>4, <3>1, <3>2, OtherNode
  <2>5. CASE /\ f.floor > tx[n].epoch /\ tx[n].booted
             /\ MoveTo(n, f.floor, u) /\ UNCHANGED mode
    <3>1. f.floor > u.mem.self
      BY <2>3, <2>5 DEF Sound, SenderUsesStore
    <3>2. CASE CommitOk(n, u, "self", f.floor) /\ tx' = [tx EXCEPT ![n] = AtEpoch(f.floor)]
      <4>1. /\ store'[n] = Committed(u, "self", f.floor) /\ tx'[n] = AtEpoch(f.floor)
            /\ \A k \in Node \ {n} : store'[k] = store[k] /\ tx'[k] = tx[k]
        BY <1>1, <3>2 DEF CommitOk, Leave, TypeOK
      <4>2. Sound("up", store'[n], tx'[n], q, wire[n], wire[P], A)
        BY <1>2, <1>3, <2>2, <2>3, <3>1, <4>1, NewEpochSound
      <4>3. NodeInv(n)'
        BY <1>4, <2>1, <2>5, <4>2 DEF NodeInv
      <4>4. QED
        BY <1>1, <1>4, <2>1, <2>5, <4>1, <4>3, OtherNode
    <3>3. CASE CommitFails(n, u, "self", f.floor) /\ UNCHANGED tx
      <4>1. /\ store'[n] \in Failures(u, "self", f.floor)
            /\ \A k \in Node \ {n} : store'[k] = store[k]
        BY <1>1, <3>3 DEF CommitFails, TypeOK
      <4>2. Sound("up", store'[n], tx[n], q, wire[n], wire[P], A)
        BY <1>2, <1>3, <2>2, <2>3, <3>1, <4>1, FailedCommitSound
      <4>3. NodeInv(n)'
        BY <1>4, <2>1, <2>5, <3>3, <4>2 DEF NodeInv
      <4>4. QED
        BY <1>1, <1>4, <2>1, <2>5, <3>3, <4>1, <4>3, OtherNode
    <3>4. QED
      BY <2>5, <3>2, <3>3 DEF MoveTo
  <2>6. CASE /\ ~(f.floor > tx[n].epoch /\ tx[n].booted) /\ Leave(n, u) /\ UNCHANGED tx
             /\ mode' = [mode EXCEPT ![n] = IF f.floor > tx[n].epoch THEN "fault" ELSE @]
    <3>1. store'[n] = u /\ \A k \in Node \ {n} : store'[k] = store[k]
      BY <1>1, <2>6 DEF Leave, TypeOK
    <3>2. /\ mode'[n] = "up" \/ (mode'[n] = "fault" /\ ~tx[n].booted)
          /\ \A k \in Node \ {n} : mode'[k] = mode[k]
      BY <1>1, <1>4, <2>6 DEF TypeOK
    <3>3. Sound(mode'[n], u, tx[n], q, wire[n], wire[P], A)
      BY <2>3, <3>2 DEF Sound, SenderUsesStore, ReceiverUsesStore
    <3>4. NodeInv(n)'
      BY <1>4, <2>1, <2>6, <3>1, <3>3 DEF NodeInv
    <3>5. QED
      BY <1>1, <1>4, <2>1, <2>6, <3>1, <3>2, <3>4, OtherNode
  <2>7. QED
    BY <1>6, <2>4, <2>5, <2>6 DEF AdoptFloor
<1>7. QED
  BY <1>5, <1>6 DEF Receive

LEMMA BootInv ==
  ASSUME IInv, EpochsLast, NEW n \in Node, Boot(n)
  PROVE  IInv'
<1> DEFINE P == Peer(n)
           s == store[n]
           u == Mounted(store[n])
           e == Bump(store[n].disk.self)
           q == RxAt(store[n].disk.peer)
<1>1. TypeOK /\ TypeOK' /\ NodeInv(n)
  BY BootType DEF IInv
<1>2. /\ s \in Store /\ tx[n] \in Tx /\ rx[n] \in Rx
      /\ wire[n] \in SUBSET Frame /\ wire[P] \in SUBSET Frame /\ accepted[n] \in SUBSET Frame
  BY <1>1, NodeTypes
<1>3. s.disk.self \in Epoch /\ s.disk.peer \in Epoch /\ u \in Store /\ u.mem = s.disk
  BY <1>2, StoreTypes DEF Store, Cell, Mounted
<1>4. q \in Rx /\ q.booted /\ e \in Epoch /\ e > u.mem.self
  BY <1>3, RxAtFacts, BumpFacts DEF EpochsLast, RxAt, Epoch
<1>5. /\ mode[n] = "off" /\ ~s.broken /\ mode'[n] = "up" /\ rx'[n] = q
      /\ \A k \in Node \ {n} : mode'[k] = mode[k] /\ rx'[k] = rx[k]
      /\ UNCHANGED <<wire, accepted>>
  BY <1>1 DEF Boot, Boots, TypeOK
<1>6. Sound("up", u, tx[n], q, wire[n], wire[P], accepted[n])
  BY <1>1, <1>2, <1>5, BootSound DEF NodeInv, EpochsLast
<1>7. CASE CommitOk(n, u, "self", e) /\ tx' = [tx EXCEPT ![n] = AtEpoch(e)]
  <2>1. /\ store'[n] = Committed(u, "self", e) /\ tx'[n] = AtEpoch(e)
        /\ \A k \in Node \ {n} : store'[k] = store[k] /\ tx'[k] = tx[k]
    BY <1>1, <1>7 DEF CommitOk, Leave, TypeOK
  <2>2. Sound("up", store'[n], tx'[n], q, wire[n], wire[P], accepted[n])
    BY <1>2, <1>3, <1>4, <1>6, <2>1, NewEpochSound
  <2>3. NodeInv(n)'
    BY <1>5, <2>2 DEF NodeInv
  <2>4. QED
    BY <1>1, <1>5, <2>1, <2>3, OtherNode
<1>8. CASE CommitFails(n, u, "self", e) /\ UNCHANGED tx
  <2>1. /\ store'[n] \in Failures(u, "self", e)
        /\ \A k \in Node \ {n} : store'[k] = store[k]
    BY <1>1, <1>8 DEF CommitFails, TypeOK
  <2>2. Sound("up", store'[n], tx[n], q, wire[n], wire[P], accepted[n])
    BY <1>2, <1>3, <1>4, <1>6, <2>1, FailedCommitSound
  <2>3. NodeInv(n)'
    BY <1>5, <1>8, <2>2 DEF NodeInv
  <2>4. QED
    BY <1>1, <1>5, <1>8, <2>1, <2>3, OtherNode
<1>9. QED
  BY <1>7, <1>8 DEF Boot

LEMMA BootBrokenInv ==
  ASSUME IInv, NEW n \in Node, BootBroken(n)
  PROVE  IInv'
<1>1. TypeOK /\ TypeOK' /\ NodeInv(n)
  BY DEF IInv, BootBroken, TypeOK
<1>2. /\ mode[n] = "off" /\ mode'[n] = "up" /\ \A k \in Node \ {n} : mode'[k] = mode[k]
      /\ UNCHANGED <<store, tx, rx, wire, accepted>>
  BY <1>1 DEF BootBroken, TypeOK
<1>3. NodeInv(n)'
  BY <1>1, <1>2 DEF NodeInv, Sound, SenderUsesStore, ReceiverUsesStore
<1>4. QED
  BY <1>1, <1>2, <1>3, OtherNode

LEMMA PowerLossInv ==
  ASSUME IInv, NEW n \in Node, PowerLoss(n), TypeOK'
  PROVE  IInv'
<1>1. TypeOK /\ NodeInv(n)
  BY DEF IInv
<1>2. /\ mode'[n] = "off" /\ store'[n] = [store[n] EXCEPT !.mem = ZeroCell]
      /\ tx'[n] = NoTx /\ rx'[n] = NoRx
      /\ \A k \in Node \ {n} : /\ mode'[k] = mode[k] /\ store'[k] = store[k]
                               /\ tx'[k] = tx[k] /\ rx'[k] = rx[k]
      /\ UNCHANGED <<wire, accepted>>
  BY <1>1 DEF PowerLoss, Leave, TypeOK
<1>3. NodeInv(n)'
  BY <1>1, <1>2, NodeTypes, PowerLossSound DEF NodeInv
<1>4. QED
  BY <1>1, <1>2, <1>3, OtherNode

LEMMA InvInit == Init => IInv
<1> SUFFICES ASSUME Init PROVE IInv
  OBVIOUS
<1>1. TypeOK
  BY TypeInit
<1>2. ASSUME NEW n \in Node PROVE NodeInv(n)
  BY PeerFacts DEF Init, NodeInv, Sound, SenderUsesStore, ReceiverUsesStore, MemBelowDisk,
     SentIsCovered, AcceptedIsCovered, MarksAreAccepted, NoTx, NoRx, Factory, ZeroCell
<1>3. QED
  BY <1>1, <1>2 DEF IInv

LEMMA InvStep == IInv /\ EpochsLast /\ [Next]_vars => IInv'
<1> SUFFICES ASSUME IInv, EpochsLast, [Next]_vars PROVE IInv'
  OBVIOUS
<1>1. TypeOK'
  BY TypeStep DEF IInv
<1>2. CASE UNCHANGED vars
  BY <1>1, <1>2 DEF vars, IInv, NodeInv
<1>3. ASSUME NEW n \in Node, SendData(n) PROVE IInv'
  BY <1>3, TransmitInv, LinkAssumption DEF SendData, Id, Epoch
<1>4. ASSUME NEW n \in Node, SendSync(n) PROVE IInv'
  BY <1>4, TransmitInv DEF SendSync, Id, IInv, TypeOK, Rx
<1>5. ASSUME NEW n \in Node, NEW f \in wire[Peer(n)], Receive(n, f) PROVE IInv'
  BY <1>5, ReceiveInv
<1>6. ASSUME NEW n \in Node, Boot(n) PROVE IInv'
  BY <1>6, BootInv
<1>7. ASSUME NEW n \in Node, BootBroken(n) PROVE IInv'
  BY <1>7, BootBrokenInv
<1>8. ASSUME NEW n \in Node, PowerLoss(n) PROVE IInv'
  BY <1>1, <1>8, PowerLossInv
<1>9. ASSUME OnlySync PROVE IInv'
  BY <1>1, <1>9 DEF OnlySync, IInv, NodeInv
<1>10. QED
  BY <1>2, <1>3, <1>4, <1>5, <1>6, <1>7, <1>8, <1>9, SyncMoves DEF Next

LEMMA InvAlways == Spec /\ []EpochsLast => []IInv
BY InvInit, InvStep, PTL DEF Spec

-----------------------------------------------------------------------------
\* No (epoch, counter) of an ID goes out twice, whatever commits fail and
\* whenever the power goes, until a store has reached the last epoch.
THEOREM LinkNeverReuses == Spec /\ []EpochsLast => []NeverReused
<1>1. IInv => NeverReused
  BY DEF IInv, NodeInv, Sound, SentIsCovered, Below, NeverReused
<1>2. QED
  BY <1>1, InvAlways, PTL

\* A frame accepted once is never accepted again, also by a receiver restarted
\* with no memory of its marks, until a store has reached the last epoch.
THEOREM LinkNeverAcceptsTwice == Spec /\ []EpochsLast => []NeverAcceptedTwice
<1>1. IInv => NeverAcceptedTwice
  BY DEF IInv, NodeInv, Sound, AcceptedIsCovered, NeverAcceptedTwice
<1>2. QED
  BY <1>1, InvAlways, PTL

LEMMA HeardNow == IInv => SenderAtFloorIsHeard
<1> SUFFICES ASSUME IInv, NEW n \in Node, NEW i \in Id,
                    rx[n].booted, tx[Peer(n)].booted, tx[Peer(n)].counter[i] # CounterMax,
                    tx[Peer(n)].epoch >= rx[n].floor
             PROVE  Fresh(rx[n], NewFrame(Advance(tx[Peer(n)], i), i, 0))
  BY DEF SenderAtFloorIsHeard
<1> DEFINE P == Peer(n)
           t == tx[P]
           r == rx[n]
           g == NewFrame(Advance(t, i), i, 0)
<1>1. P \in Node /\ NodeInv(n) /\ NodeInv(P)
  BY PeerFacts DEF IInv
<1>2. t \in Tx /\ r \in Rx /\ accepted[n] \in SUBSET Frame
  BY <1>1, NodeTypes DEF IInv
<1>3. g.epoch = t.epoch /\ g.counter = t.counter[i] + 1 /\ g.id = i
  BY <1>2, AdvanceFacts DEF NewFrame
<1>4. /\ t.epoch \in Epoch /\ t.counter[i] \in 0..CounterMax
      /\ r.floor \in Epoch /\ r.current \in Epoch /\ r.high[i] \in 0..CounterMax
  BY <1>2 DEF Tx, Rx
<1>5. ASSUME NEW f \in accepted[n]
      PROVE  Below(t, f) /\ f.epoch \in Epoch /\ f.counter \in 0..CounterMax
  BY <1>1, <1>2 DEF NodeInv, Sound, AcceptedIsCovered, SentIsCovered, Frame
<1>6. t.epoch >= r.current
  <2>1. CASE r.current < r.floor
    BY <1>4, <2>1 DEF Epoch
  <2>2. CASE \E f \in accepted[n] : f.epoch = r.current
    BY <1>4, <1>5, <2>2 DEF Below, Epoch
  <2>3. QED
    BY <1>1, <2>1, <2>2 DEF NodeInv, Sound, MarksAreAccepted
<1>7. ASSUME t.epoch = r.current PROVE t.counter[i] >= r.high[i]
  <2>1. CASE r.high[i] = 0
    BY <1>4, <2>1, LinkAssumption
  <2>2. CASE \E f \in accepted[n] : f.id = i /\ f.epoch = r.current /\ f.counter = r.high[i]
    <3>1. PICK f \in accepted[n] : f.id = i /\ f.epoch = r.current /\ f.counter = r.high[i]
      BY <2>2
    <3>2. QED
      BY <1>4, <1>5, <1>7, <3>1, LinkAssumption DEF Below, Epoch
  <2>3. QED
    BY <1>1, <2>1, <2>2 DEF NodeInv, Sound, MarksAreAccepted
<1>8. QED
  BY <1>3, <1>4, <1>6, <1>7, LinkAssumption DEF Fresh, Epoch

\* Once a running sender is at the floor of its peer, its next frame under any ID
\* with counters left is accepted: the receiver never runs ahead of the sender.
THEOREM LinkHearsSenderAtFloor == Spec /\ []EpochsLast => []SenderAtFloorIsHeard
BY HeardNow, InvAlways, PTL

-----------------------------------------------------------------------------
(* The epochs of the contexts, step by step. *)

EpochsRise ==
  \A n \in Node :
    /\ (tx[n].booted /\ tx'[n].booted) => tx'[n].epoch >= tx[n].epoch
    /\ (rx[n].booted /\ rx'[n].booted) =>
         rx'[n].current >= rx[n].current /\ rx'[n].floor = rx[n].floor
    /\ (~rx[n].booted /\ rx'[n].booted) => \A f \in accepted[n] : rx'[n].floor > f.epoch

\* A rollover and an adopted floor raise the epoch, no other step moves it.
LEMMA SendersRise ==
  ASSUME IInv, EpochsLast, NEW n \in Node, [Next]_vars, tx[n].booted, tx'[n].booted
  PROVE  tx'[n].epoch >= tx[n].epoch
<1>1. TypeOK /\ tx[n] \in Tx /\ tx[n].epoch \in Epoch
  BY DEF IInv, TypeOK, Tx
<1>2. CASE tx'[n] = tx[n]
  BY <1>1, <1>2 DEF Epoch
<1>3. ASSUME NEW i \in Id, NEW e \in Epoch, NEW k \in Node, Transmit(k, i, e)
      PROVE  tx'[n].epoch >= tx[n].epoch
  <2> DEFINE b == Bump(tx[n].epoch)
  <2>1. b \in Epoch /\ b > tx[n].epoch
    <3>1. /\ tx[n].epoch = store[n].mem.self /\ store[n].mem.self <= store[n].disk.self
          /\ store[n].disk.self < EpochMod - 1 /\ store[n].disk.self \in Epoch
      BY <1>1 DEF IInv, NodeInv, Sound, SenderUsesStore, MemBelowDisk, EpochsLast, TypeOK,
                  Store, Cell
    <3>2. QED
      BY <1>1, <3>1, BumpFacts, LinkAssumption DEF Epoch
  <2>2. CASE tx' = [tx EXCEPT ![k] = Advance(tx[k], i)]
    <3>1. tx[k] \in Tx
      BY <1>1 DEF TypeOK
    <3>2. tx'[n].epoch = tx[n].epoch
      BY <1>1, <2>2, <3>1, AdvanceFacts DEF TypeOK
    <3>3. QED
      BY <1>1, <3>2 DEF Epoch
  <2>3. CASE tx' = [tx EXCEPT ![k] = Advance(AtEpoch(Bump(tx[k].epoch)), i)]
    <3>1. CASE k = n
      <4>1. AtEpoch(b) \in Tx /\ AtEpoch(b).epoch = b
        BY <1>1, <1>3, <2>1, SenderTypes DEF AtEpoch
      <4>2. tx'[n].epoch = b
        BY <1>1, <1>3, <2>3, <3>1, <4>1, AdvanceFacts DEF TypeOK
      <4>3. QED
        BY <1>1, <2>1, <4>2 DEF Epoch
    <3>2. QED
      BY <1>1, <1>2, <2>3, <3>1 DEF TypeOK
  <2>4. tx'[n] = tx[n] \/ tx' = [tx EXCEPT ![k] = Advance(tx[k], i)]
          \/ tx' = [tx EXCEPT ![k] = Advance(AtEpoch(Bump(tx[k].epoch)), i)]
    BY <1>3 DEF Transmit, Spend
  <2>5. QED
    BY <1>2, <2>2, <2>3, <2>4
<1>4. ASSUME NEW k \in Node, NEW f \in wire[Peer(k)], Receive(k, f)
      PROVE  tx'[n].epoch >= tx[n].epoch
  <2>1. \/ tx' = tx
        \/ f.floor > tx[k].epoch /\ tx' = [tx EXCEPT ![k] = AtEpoch(f.floor)]
    BY <1>4 DEF Receive, AdoptFloor, MoveTo
  <2>2. f.floor \in Epoch
    BY <1>1, <1>4, PeerFacts DEF TypeOK, Frame
  <2>3. QED
    BY <1>1, <1>2, <2>1, <2>2 DEF TypeOK, AtEpoch, Epoch
<1>5. ASSUME NEW k \in Node, Boot(k) PROVE tx'[n] = tx[n]
  <2>1. mode[k] = "off" /\ mode[n] = "up"
    BY <1>5 DEF Boot, Boots, IInv, NodeInv, Sound, SenderUsesStore
  <2>2. k # n
    BY <2>1
  <2>3. QED
    BY <1>1, <1>5, <2>2 DEF Boot, TypeOK
<1>6. ASSUME NEW k \in Node, PowerLoss(k) PROVE tx'[n] = tx[n]
  <2>1. k # n
    BY <1>1, <1>6 DEF PowerLoss, NoTx, TypeOK
  <2>2. QED
    BY <1>1, <1>6, <2>1 DEF PowerLoss, TypeOK
<1>7. ASSUME NEW k \in Node, SendData(k) PROVE tx'[n].epoch >= tx[n].epoch
  BY <1>3, <1>7, LinkAssumption DEF SendData, Id, Epoch
<1>8. ASSUME NEW k \in Node, SendSync(k) PROVE tx'[n].epoch >= tx[n].epoch
  BY <1>1, <1>3, <1>8 DEF SendSync, Id, TypeOK, Rx
<1>9. ASSUME OnlySync PROVE tx'[n] = tx[n]
  BY <1>9 DEF OnlySync
<1>10. QED
  BY <1>2, <1>4, <1>5, <1>6, <1>7, <1>8, <1>9, SyncMoves DEF Next, BootBroken, vars

\* An accept keeps the floor and never lowers the epoch; a boot starts above all
\* that was accepted.
LEMMA ReceiversRise ==
  ASSUME IInv, EpochsLast, NEW n \in Node, [Next]_vars, rx'[n].booted
  PROVE  /\ rx[n].booted => rx'[n].current >= rx[n].current /\ rx'[n].floor = rx[n].floor
         /\ ~rx[n].booted => \A f \in accepted[n] : rx'[n].floor > f.epoch
<1>1. TypeOK /\ NodeInv(n) /\ rx[n] \in Rx /\ rx[n].current \in Epoch
  BY DEF IInv, TypeOK, Rx
<1>2. CASE rx'[n] = rx[n]
  BY <1>1, <1>2 DEF Epoch
<1>3. ASSUME NEW f \in wire[Peer(n)], Receive(n, f), rx' # rx
      PROVE  rx[n].booted /\ rx'[n].current >= rx[n].current /\ rx'[n].floor = rx[n].floor
  <2>1. f \in Frame /\ f.epoch \in Epoch
    BY <1>1, PeerFacts DEF TypeOK, Frame
  <2>2. rx'[n] = Adopted(rx[n], f) /\ rx[n].booted
    BY <1>1, <1>3 DEF Receive, AcceptFrame, TypeOK
  <2>3. QED
    BY <1>1, <2>1, <2>2, AdoptedFacts DEF Epoch
<1>4. ASSUME NEW k \in Node, k # n, NEW f \in wire[Peer(k)], Receive(k, f)
      PROVE  rx'[n] = rx[n]
  BY <1>1, <1>4 DEF Receive, AcceptFrame, TypeOK
<1>5. ASSUME Boot(n)
      PROVE  ~rx[n].booted /\ \A f \in accepted[n] : rx'[n].floor > f.epoch
  <2>1. store[n].disk.peer \in Epoch /\ store[n].disk.peer < EpochMod - 1
    BY <1>1 DEF EpochsLast, TypeOK, Store, Cell
  <2>2. rx'[n].floor = store[n].disk.peer + 1
    BY <1>1, <1>5, <2>1, BumpFacts DEF Boot, Boots, RxAt, TypeOK
  <2>3. ~rx[n].booted
    BY <1>1, <1>5 DEF Boot, Boots, NodeInv, Sound, ReceiverUsesStore
  <2>4. ASSUME NEW f \in accepted[n] PROVE f.epoch <= store[n].disk.peer /\ f.epoch \in Epoch
    BY <1>1 DEF NodeInv, Sound, AcceptedIsCovered, TypeOK, Frame
  <2>5. QED
    BY <2>1, <2>2, <2>3, <2>4 DEF Epoch
<1>6. ASSUME NEW k \in Node, k # n, Boot(k) PROVE rx'[n] = rx[n]
  BY <1>1, <1>6 DEF Boot, Boots, TypeOK
<1>7. ASSUME NEW k \in Node, PowerLoss(k) PROVE rx'[n] = rx[n]
  BY <1>1, <1>7 DEF PowerLoss, NoRx, TypeOK
<1>8. ASSUME OnlySync PROVE rx'[n] = rx[n]
  BY <1>8 DEF OnlySync
<1>9. QED
  BY <1>1, <1>2, <1>3, <1>4, <1>5, <1>6, <1>7, <1>8, SyncMoves
     DEF Next, SendData, SendSync, Transmit, BootBroken, vars

\* An epoch in use never goes back, and a receiver that boots again demands more
\* than anything it accepted, until a store has reached the last epoch.
THEOREM LinkEpochsRise == Spec /\ []EpochsLast => NoEpochGoesBack
<1>1. IInv /\ EpochsLast /\ [Next]_vars => [EpochsRise]_vars
  BY SendersRise, ReceiversRise DEF EpochsRise
<1>2. QED
  BY <1>1, InvAlways, PTL DEF Spec, NoEpochGoesBack, EpochsRise

=============================================================================
