------------------------- MODULE GatewayTasks_proofs -------------------------
(***************************************************************************)
(* Proofs about the two tasks of Node A, for every set of epochs, every    *)
(* rollover and every number of saves.  What the tasks can do to each      *)
(* other is stated by the windows in which CAN_CyclicTask has hit          *)
(* App_CyclicTask (races); each part of the invariant names the windows    *)
(* that end it.                                                            *)
(***************************************************************************)
EXTENDS GatewayTasks, TLAPS

Commit   == {"erase", "body", "mark", "readback"}
Rollover == {"copy", "epoch"} \cup Commit
Other    == TargetOf(newest)

\* An epoch that is used, or about to be used, is one that a commit acknowledged.
UsesCommitted ==
  /\ SpentWasCommitted
  /\ app.pc \in {"epoch", "mac", "wait"} => app.epoch \in committed

Above(e, f) == f.epoch < e
Below(e, c, f) == f.epoch < e \/ (f.epoch = e /\ f.counter <= c)
BelowApp(f) == f.epoch < app.epoch \/ (f.epoch = app.epoch /\ f.counter < app.counter)
Commands == {f \in sent : f.id = "cmd"}

\* No command was sent beyond the sender context; a rollover moves to an epoch
\* no command was sent in; and the command in the making is beyond all others,
\* but not beyond the sender.
CommandsAreBehind == "take" \notin races =>
  /\ \A f \in Commands : Below(epoch, counter["cmd"], f)
  /\ app.pc \in Rollover => \A f \in Commands : Above(app.epoch, f)
  /\ app.pc = "clear" => \A f \in Commands : Above(epoch, f)
  /\ app.pc = "count" => counter["cmd"] < app.counter
  /\ app.pc = "take" => /\ app.counter = counter["cmd"]
                        /\ \A f \in Commands : Below(epoch, app.counter - 1, f)
  /\ app.pc \in {"mac", "wait"} => /\ \A f \in Commands : BelowApp(f)
                                   /\ Below(epoch, counter["cmd"], AppFrame)

\* A rollover leads to the next epoch unless a resync came into it.
BumpsByOne == app.pc \in Rollover /\ "bump" \notin races => app.epoch = epoch + 1

\* A slot whose body is written and whose mark is not.
Unmarked(r) == [mark |-> "blank", sound |-> TRUE, body |-> r]

\* The newest slot holds the mirror, the other one an older record or one that
\* says as much; a commit works on the other slot, with the record it copied.
SlotsFollowMirror == "commit" \notin races =>
  /\ slot[newest] = Whole(mirror)
  /\ Valid(slot[Other]) =>
       \/ slot[Other].body.seq < mirror.seq
       \/ slot[Other].body.epoch[Peer] >= mirror.epoch[Peer]
  /\ mirror.epoch[Peer] >= current
  /\ app.pc \in Commit => app.target = Other /\ app.record = NextRecord(mirror, Self, app.epoch)
  /\ app.pc = "body" => slot[Other] = ErasedSlot
  /\ app.pc = "mark" => slot[Other] = Unmarked(app.record)
  /\ app.pc = "readback" => slot[Other] = Whole(app.record)

\* The same of the own epoch, which a resync into a rollover spoils as well.
OwnEpochFollows == races \subseteq {"take"} =>
  /\ Valid(slot[Other]) =>
       \/ slot[Other].body.seq < mirror.seq
       \/ slot[Other].body.epoch[Self] >= mirror.epoch[Self]
  /\ mirror.epoch[Self] = IF app.pc = "epoch" THEN app.epoch ELSE epoch

IInv ==
  /\ TypeOK
  /\ UsesCommitted
  /\ CommandsAreBehind
  /\ BumpsByOne
  /\ SlotsFollowMirror
  /\ OwnEpochFollows

-----------------------------------------------------------------------------
(* The operators of the store. *)

\* The record of a commit: the mirror with one domain replaced (store_commit).
LEMMA NextRecordIs ==
  ASSUME NEW r \in Record, NEW d \in Domain, NEW e \in Epoch, r.seq < MaxSeq
  PROVE  /\ NextRecord(r, d, e) \in Record
         /\ NextRecord(r, d, e).seq = r.seq + 1
         /\ NextRecord(r, d, e).epoch = [r.epoch EXCEPT ![d] = e]
BY WorkFlashAssumption DEF NextRecord, Record, Domain

\* A commit writes the slot that does not hold the newest record (store_commit).
LEMMA TargetIsOther ==
  ASSUME NEW n \in Slot
  PROVE  TargetOf(n) \in Slot /\ TargetOf(n) # n /\ TargetOf(TargetOf(n)) = n
BY DEF Slot, TargetOf

\* What a slot holds has its type (encode, wf_erase_sector).
LEMMA ContentTypes ==
  /\ ErasedSlot \in SlotContent
  /\ \A r \in Record : Whole(r) \in SlotContent
BY WorkFlashAssumption DEF ErasedSlot, SlotContent, ZeroRecord, Record, Whole

\* A commit of CAN_CyclicTask as a whole (store_commit): the slot and the record
\* it leaves, and the slot it does not touch.
StoreState == [slot : [Slot -> SlotContent], newest : Slot, mirror : Record]

LEMMA SavedIs ==
  ASSUME NEW s \in StoreState, NEW d \in Domain, NEW e \in Epoch, s.mirror.seq < MaxSeq
  PROVE  /\ Saved(s, d, e) \in StoreState
         /\ Saved(s, d, e).newest = TargetOf(s.newest)
         /\ Saved(s, d, e).mirror.seq = s.mirror.seq + 1
         /\ Saved(s, d, e).mirror.epoch = [s.mirror.epoch EXCEPT ![d] = e]
         /\ Saved(s, d, e).slot[Saved(s, d, e).newest] = Whole(Saved(s, d, e).mirror)
         /\ Saved(s, d, e).slot[TargetOf(Saved(s, d, e).newest)] = s.slot[s.newest]
<1>0. s.slot \in [Slot -> SlotContent] /\ s.newest \in Slot /\ s.mirror \in Record
  BY DEF StoreState
<1>1. NextRecord(s.mirror, d, e) \in Record
  BY <1>0, NextRecordIs
<1>2. Whole(NextRecord(s.mirror, d, e)) \in SlotContent
  BY <1>1, ContentTypes
<1>3. /\ TargetOf(s.newest) \in Slot /\ TargetOf(s.newest) # s.newest
      /\ TargetOf(TargetOf(s.newest)) = s.newest
  BY <1>0, TargetIsOther
<1>4. /\ NextRecord(s.mirror, d, e).seq = s.mirror.seq + 1
      /\ NextRecord(s.mirror, d, e).epoch = [s.mirror.epoch EXCEPT ![d] = e]
  BY <1>0, NextRecordIs
<1> QED BY <1>0, <1>1, <1>2, <1>3, <1>4 DEF StoreState, Saved

-----------------------------------------------------------------------------
(* Types. *)

LEMMA InitType == Init => TypeOK
<1> SUFFICES ASSUME Init PROVE TypeOK
  OBVIOUS
<1>1. Booted \in Record
  BY WorkFlashAssumption, TasksAssumption DEF Booted, Record, Domain, Self
<1>2. slot \in [Slot -> SlotContent]
  BY <1>1, ContentTypes DEF Init
<1>3. app \in App
  BY WorkFlashAssumption, TasksAssumption DEF Init, App, ZeroRecord, Record, Slot
<1>4. counter \in [Id -> 0..CounterMax]
  BY TasksAssumption DEF Init
<1>5. mirror \in Record /\ newest \in Slot
  BY <1>1 DEF Init, Slot
<1> QED BY <1>2, <1>3, <1>4, <1>5, WorkFlashAssumption, TasksAssumption DEF Init, TypeOK

LEMMA AppType == TypeOK /\ AppTask /\ UNCHANGED races => TypeOK'
<1> SUFFICES ASSUME TypeOK, AppTask, UNCHANGED races PROVE TypeOK'
  OBVIOUS
<1> USE TasksAssumption, WorkFlashAssumption DEF TypeOK, store, sender, history, Goto
<1>1. CASE Bump
  BY <1>1 DEF Bump, App
<1>2. CASE CommitCopy
  <2>1. TargetOf(newest) \in Slot
    BY TargetIsOther
  <2>2. NextRecord(mirror, Self, app.epoch) \in Record
    <3>1. app.epoch \in Epoch /\ mirror \in Record /\ mirror.seq < MaxSeq /\ Self \in Domain
      BY <1>2 DEF CommitCopy, Self, Domain, App
    <3> QED BY <3>1, NextRecordIs
  <2> QED BY <1>2, <2>1, <2>2 DEF CommitCopy, App
<1>3. CASE CommitErase
  BY <1>3, ContentTypes DEF CommitErase, App
<1>4. CASE CommitBody
  <2>1. app.record \in Record /\ app.target \in Slot
    BY DEF App
  <2>2. [slot[app.target] EXCEPT !.sound = TRUE, !.body = app.record] \in SlotContent
    BY <2>1 DEF SlotContent
  <2>3. slot' \in [Slot -> SlotContent]
    BY <1>4, <2>1, <2>2 DEF CommitBody
  <2> QED BY <1>4, <2>3 DEF CommitBody, App
<1>5. CASE CommitMark
  <2>1. slot' \in [Slot -> SlotContent]
    BY <1>5 DEF CommitMark, SlotContent, App
  <2> QED BY <1>5, <2>1 DEF CommitMark, App
<1>6. CASE CommitReadBack
  BY <1>6 DEF CommitReadBack, Acknowledge, App
<1>7. CASE SetEpoch
  BY <1>7 DEF SetEpoch, App
<1>8. CASE Clear
  BY <1>8 DEF Clear, App
<1>9. CASE Add
  <2>1. counter["cmd"] + 1 \in 0..CounterMax
    BY <1>9 DEF Add, Id
  <2> QED BY <1>9, <2>1 DEF Add, App
<1>10. CASE Count
  BY <1>10 DEF Count, App, Id
<1>11. CASE Take
  BY <1>11 DEF Take, App
<1>12. CASE AskMac
  BY <1>12 DEF AskMac, App
<1>13. CASE MacDone
  BY <1>13 DEF MacDone, AppFrame, App, Frame, Id
<1> QED BY <1>1, <1>2, <1>3, <1>4, <1>5, <1>6, <1>7, <1>8, <1>9, <1>10, <1>11, <1>12, <1>13 DEF AppTask

\* The store after a frame whose epoch may be new (secoc_rx_accept).
LEMMA AfterAcceptIs ==
  ASSUME TypeOK, NEW p \in Epoch, Room(1)
  PROVE  /\ StoreNow \in StoreState
         /\ AfterAccept(p) \in StoreState
         /\ AfterAccept(p).mirror.seq <= mirror.seq + 1
         /\ AfterAccept(p).mirror.epoch[Self] = mirror.epoch[Self]
         /\ p > current => /\ mirror.seq < MaxSeq
                           /\ AfterAccept(p) = Saved(StoreNow, Peer, p)
         /\ ~(p > current) => AfterAccept(p) = StoreNow
<1>0. /\ StoreNow \in StoreState /\ mirror.seq \in Nat /\ MaxSeq \in Nat
      /\ StoreNow.mirror = mirror /\ mirror.epoch \in [Domain -> Epoch]
  BY WorkFlashAssumption DEF TypeOK, StoreNow, StoreState, Record
<1>1. mirror.seq < MaxSeq
  BY <1>0 DEF Room
<1>2. CASE p > current
  <2>1. AfterAccept(p) = Saved(StoreNow, Peer, p)
    BY <1>2 DEF AfterAccept
  <2>2. Peer \in Domain /\ StoreNow.mirror.seq < MaxSeq
    BY <1>0, <1>1 DEF Peer, Domain
  <2>3. /\ Saved(StoreNow, Peer, p) \in StoreState
        /\ Saved(StoreNow, Peer, p).mirror.seq = mirror.seq + 1
        /\ Saved(StoreNow, Peer, p).mirror.epoch = [mirror.epoch EXCEPT ![Peer] = p]
    BY <1>0, <2>2, SavedIs
  <2>4. [mirror.epoch EXCEPT ![Peer] = p][Self] = mirror.epoch[Self]
    BY <1>0 DEF Self, Peer, Domain
  <2> QED BY <1>0, <1>1, <1>2, <2>1, <2>3, <2>4
<1>3. CASE ~(p > current)
  BY <1>0, <1>3 DEF AfterAccept
<1> QED BY <1>2, <1>3

\* The store after an adopted floor: a second commit on top of the first one.
LEMMA FloorStoreIs ==
  ASSUME TypeOK, NEW p \in Epoch, NEW floor \in Epoch, Room(2)
  PROVE  /\ Room(1)
         /\ AfterAccept(p).mirror.seq < MaxSeq
         /\ Saved(AfterAccept(p), Self, floor) \in StoreState
<1>0. mirror.seq \in Nat /\ MaxSeq \in Nat
  BY WorkFlashAssumption DEF TypeOK, Record
<1>1. Room(1)
  BY <1>0 DEF Room
<1>2. AfterAccept(p) \in StoreState /\ AfterAccept(p).mirror.seq <= mirror.seq + 1
  BY <1>1, AfterAcceptIs
<1>3. AfterAccept(p).mirror.seq \in Nat
  BY <1>2 DEF StoreState, Record
<1>4. AfterAccept(p).mirror.seq < MaxSeq
  BY <1>0, <1>2, <1>3 DEF Room
<1>5. Self \in Domain
  BY DEF Self, Domain
<1> QED BY <1>1, <1>2, <1>4, <1>5, SavedIs

LEMMA KeepType ==
  ASSUME NEW s \in StoreState, Keep(s)
  PROVE  slot' \in [Slot -> SlotContent] /\ newest' \in Slot /\ mirror' \in Record
BY DEF Keep, StoreState

LEMMA CanType == TypeOK /\ CanTask /\ Raced => TypeOK'
<1> SUFFICES ASSUME TypeOK, CanTask, Raced PROVE TypeOK'
  OBVIOUS
<1>0. races' \subseteq {"commit", "bump", "take"}
  BY DEF Raced, TypeOK
<1>1. CASE SendSync
  <2>1. counter["sync"] + 1 \in 0..CounterMax
    BY <1>1, TasksAssumption DEF SendSync, Id, TypeOK
  <2>2. [id |-> "sync", epoch |-> epoch, counter |-> counter["sync"] + 1] \in Frame
    BY <2>1 DEF Frame, Id, TypeOK
  <2> QED BY <1>0, <1>1, <2>1, <2>2 DEF SendSync, store, TypeOK
<1>2. ASSUME NEW p \in Epoch, HandleTelemetry(p) PROVE TypeOK'
  <2>1. slot' \in [Slot -> SlotContent] /\ newest' \in Slot /\ mirror' \in Record
    BY <1>2, AfterAcceptIs, KeepType DEF HandleTelemetry
  <2> QED BY <1>0, <1>2, <2>1 DEF HandleTelemetry, sender, history, TypeOK
<1>3. ASSUME NEW p \in Epoch, NEW floor \in Epoch, HandleSync(p, floor) PROVE TypeOK'
  <2>1. Room(2) /\ Room(1)
    BY <1>3, FloorStoreIs DEF HandleSync
  <2>2. CASE floor > epoch
    <3>1. /\ Keep(Saved(AfterAccept(p), Self, floor))
          /\ epoch' = floor /\ counter' = [i \in Id |-> 0] /\ committed' = committed \cup {floor}
      BY <1>3, <2>2 DEF HandleSync, AdoptedFloor
    <3>2. slot' \in [Slot -> SlotContent] /\ newest' \in Slot /\ mirror' \in Record
      BY <2>1, <3>1, FloorStoreIs, KeepType
    <3>3. counter' \in [Id -> 0..CounterMax]
      BY <3>1, TasksAssumption
    <3> QED BY <1>0, <1>3, <3>1, <3>2, <3>3 DEF HandleSync, TypeOK
  <2>3. CASE ~(floor > epoch)
    <3>1. Keep(AfterAccept(p)) /\ UNCHANGED <<sender, committed>>
      BY <1>3, <2>3 DEF HandleSync, AdoptedFloor
    <3>2. slot' \in [Slot -> SlotContent] /\ newest' \in Slot /\ mirror' \in Record
      BY <2>1, <3>1, AfterAcceptIs, KeepType
    <3> QED BY <1>0, <1>3, <3>1, <3>2 DEF HandleSync, sender, TypeOK
  <2> QED BY <2>2, <2>3
<1> QED BY <1>1, <1>2, <1>3 DEF CanTask

-----------------------------------------------------------------------------
(* Epochs and counters of the sender. *)

\* secoc_tx_next and secoc_tx_adopt_floor use an epoch only after its commit.
LEMMA UsesCommittedStep ==
  ASSUME TypeOK, UsesCommitted, [Next]_vars
  PROVE  UsesCommitted'
<1> USE DEF UsesCommitted, SpentWasCommitted, store, sender, history, Goto
<1>1. CASE AppTask
  <2> app \in App
    BY DEF TypeOK
  <2> USE DEF App
  <2>1. CASE Bump
    BY <2>1 DEF Bump
  <2>2. CASE CommitCopy
    BY <2>2 DEF CommitCopy
  <2>3. CASE CommitErase \/ CommitBody \/ CommitMark
    BY <2>3 DEF CommitErase, CommitBody, CommitMark
  <2>4. CASE CommitReadBack
    BY <2>4 DEF CommitReadBack, Acknowledge
  <2>5. CASE SetEpoch \/ Clear \/ Add \/ Count \/ AskMac
    BY <2>5 DEF SetEpoch, Clear, Add, Count, AskMac
  <2>6. CASE Take
    BY <2>6 DEF Take
  <2>7. CASE MacDone
    BY <2>7 DEF MacDone, AppFrame
  <2> QED BY <1>1, <2>1, <2>2, <2>3, <2>4, <2>5, <2>6, <2>7 DEF AppTask
<1>2. CASE SendSync
  BY <1>2 DEF SendSync
<1>3. ASSUME NEW p \in Epoch, HandleTelemetry(p) PROVE UsesCommitted'
  BY <1>3 DEF HandleTelemetry
<1>4. ASSUME NEW p \in Epoch, NEW floor \in Epoch, HandleSync(p, floor) PROVE UsesCommitted'
  <2>1. \/ epoch' = floor /\ committed' = committed \cup {floor}
        \/ UNCHANGED <<epoch, committed>>
    BY <1>4 DEF HandleSync, AdoptedFloor
  <2> QED BY <1>4, <2>1 DEF HandleSync
<1>5. CASE UNCHANGED vars
  BY <1>5 DEF vars
<1> QED BY <1>1, <1>2, <1>3, <1>4, <1>5 DEF Next, CanTask

\* What CAN_CyclicTask does to the sender: it moves the epoch forward and clears
\* the counters, or it takes a counter for its own frame.
LEMMA CanSender ==
  ASSUME TypeOK, CanTask
  PROVE  /\ UNCHANGED app
         /\ Commands' = Commands
         /\ epoch' # epoch => epoch' > epoch /\ counter'["cmd"] = 0
         /\ epoch' = epoch => counter'["cmd"] = counter["cmd"]
<1> USE DEF TypeOK, Id
<1>1. CASE SendSync
  BY <1>1 DEF SendSync, Commands
<1>2. ASSUME NEW p \in Epoch, HandleTelemetry(p)
      PROVE  UNCHANGED <<app, sent, sender>>
  BY <1>2 DEF HandleTelemetry, history
<1>3. ASSUME NEW p \in Epoch, NEW floor \in Epoch, HandleSync(p, floor)
      PROVE  /\ UNCHANGED <<app, sent>>
             /\ \/ floor > epoch /\ epoch' = floor /\ counter' = [i \in Id |-> 0]
                \/ UNCHANGED sender
  BY <1>3 DEF HandleSync, AdoptedFloor
<1>4. ASSUME NEW p \in Epoch, NEW floor \in Epoch, floor > epoch, epoch' = floor
      PROVE  epoch' # epoch
  BY <1>4, TasksAssumption
<1> QED BY <1>1, <1>2, <1>3, <1>4 DEF CanTask, Commands, sender

\* Whatever CAN_CyclicTask moves while the command is at a step is noted.
LEMMA RacesNoted ==
  ASSUME Raced
  PROVE  /\ races \subseteq races'
         /\ app.pc \in Commit /\ mirror' # mirror => "commit" \in races'
         /\ app.pc \in Rollover /\ epoch' # epoch => "bump" \in races'
         /\ app.pc = "take" /\ epoch' # epoch => "take" \in races'
BY DEF Raced, Rollover, Commit

LEMMA BumpsByOneStep ==
  ASSUME TypeOK, BumpsByOne, Next
  PROVE  BumpsByOne'
<1> USE DEF BumpsByOne, Rollover, Commit, store, sender, history, Goto
<1>1. CASE AppTask /\ UNCHANGED races
  <2>0. app \in App
    BY DEF TypeOK
  <2>1. CASE Bump
    BY <1>1, <2>0, <2>1 DEF Bump, App
  <2>2. CASE CommitCopy
    BY <1>1, <2>0, <2>2 DEF CommitCopy, App
  <2>3. CASE CommitErase \/ CommitBody \/ CommitMark
    BY <1>1, <2>0, <2>3 DEF CommitErase, CommitBody, CommitMark, App
  <2>4. CASE CommitReadBack
    BY <1>1, <2>0, <2>4 DEF CommitReadBack, Acknowledge, App
  <2>5. CASE SetEpoch \/ Clear \/ Add \/ Count \/ Take \/ AskMac \/ MacDone
    BY <1>1, <2>0, <2>5 DEF SetEpoch, Clear, Add, Count, Take, AskMac, MacDone, App
  <2> QED BY <1>1, <2>1, <2>2, <2>3, <2>4, <2>5 DEF AppTask
<1>2. CASE CanTask /\ Raced
  BY <1>2, CanSender, RacesNoted
<1> QED BY <1>1, <1>2 DEF Next

\* The orders on the freshness of a frame.
LEMMA FrameOrders ==
  ASSUME NEW e \in Epoch, NEW c \in Nat, NEW f \in Frame, Below(e, c, f)
  PROVE  /\ Below(e, c + 1, f)
         /\ \A d \in Epoch : d > e => Above(d, f)
         /\ \A d \in Nat : d > c => Below(e, d, f) /\ Below(e, d - 1, f)
<1>1. \A d \in Epoch : d \in Nat
  BY TasksAssumption
<1>2. f.epoch \in Epoch /\ f.counter \in 0..CounterMax
  BY DEF Frame
<1>3. f.counter \in Nat
  BY <1>2
<1>4. e \in Nat /\ f.epoch \in Nat
  BY <1>1, <1>2
<1> QED BY <1>1, <1>3, <1>4 DEF Below, Above

LEMMA CommandsStep ==
  ASSUME TypeOK, CommandsAreBehind, Next
  PROVE  CommandsAreBehind'
<1> SUFFICES ASSUME "take" \notin races' PROVE CommandsAreBehind'
  BY DEF CommandsAreBehind
<1>0. /\ epoch \in Epoch /\ epoch \in Nat /\ counter["cmd"] \in 0..CounterMax
      /\ counter["cmd"] \in Nat /\ app \in App /\ app.counter \in Nat
      /\ Commands \subseteq Frame /\ \A f \in Frame : f.counter \in Nat
  BY TasksAssumption DEF TypeOK, Id, App, Commands, Frame
<1>1. CASE AppTask /\ UNCHANGED races
  <2> USE <1>0, <1>1 DEF CommandsAreBehind, Goto, App
  <2>1. CASE Bump
    <3>1. UNCHANGED <<epoch, counter, sent>> /\ app'.pc = "copy" /\ app'.epoch = epoch + 1
      BY <2>1 DEF Bump, sender, history
    <3>2. \A f \in Commands : Below(epoch, counter["cmd"], f)
      BY DEF CommandsAreBehind
    <3>3. epoch + 1 \in Epoch /\ epoch + 1 > epoch
      BY <2>1 DEF Bump
    <3>4. \A f \in Commands : Above(epoch + 1, f)
      BY <3>2, <3>3, FrameOrders
    <3> QED BY <3>1, <3>2, <3>4 DEF Commands, Rollover, Commit, Above, Below
  <2>2. CASE CommitCopy \/ CommitErase \/ CommitBody \/ CommitMark \/ CommitReadBack
    <3>1. /\ UNCHANGED <<epoch, counter, sent, app.epoch>>
          /\ app.pc \in Rollover /\ app'.pc \in Rollover \cup {"idle"}
      BY <2>2 DEF CommitCopy, CommitErase, CommitBody, CommitMark, CommitReadBack, Acknowledge,
                  sender, history, Rollover, Commit
    <3> QED BY <3>1 DEF Commands, Rollover, Commit, Above, Below
  <2>3. CASE SetEpoch
    <3>1. UNCHANGED <<counter, sent>> /\ epoch' = app.epoch /\ app.pc = "epoch" /\ app'.pc = "clear"
      BY <2>3 DEF SetEpoch, history
    <3> QED BY <3>1 DEF Commands, Rollover, Commit, Above, Below
  <2>4. CASE Clear
    <3>1. UNCHANGED <<epoch, sent>> /\ app.pc = "clear" /\ app'.pc = "add"
      BY <2>4 DEF Clear, history
    <3> QED BY <3>1 DEF Commands, Rollover, Commit, Above, Below
  <2>5. CASE Add
    <3>1. UNCHANGED <<epoch, counter, sent>> /\ app'.pc = "count" /\ app'.counter = counter["cmd"] + 1
      BY <2>5 DEF Add, sender, history
    <3> QED BY <3>1 DEF Commands, Rollover, Commit, Above, Below
  <2>6. CASE Count
    <3>1. UNCHANGED <<epoch, sent>> /\ app.pc = "count" /\ app'.pc = "take" /\ app'.counter = app.counter
      BY <2>6 DEF Count, history
    <3>2. counter'["cmd"] = app.counter
      BY <2>6 DEF Count, TypeOK, Id
    <3>3. \A f \in Commands : Below(epoch, app.counter, f) /\ Below(epoch, app.counter - 1, f)
      BY <3>1, FrameOrders
    <3> QED BY <3>1, <3>2, <3>3 DEF Commands, Rollover, Commit, Above, Below
  <2>7. CASE Take
    <3>1. /\ UNCHANGED <<epoch, counter, sent>> /\ app.pc = "take" /\ app'.pc = "mac"
          /\ app'.epoch = epoch /\ app'.counter = app.counter
      BY <2>7 DEF Take, sender, history
    <3>2. \A f \in Commands : BelowApp(f)'
      BY <3>1 DEF Below, BelowApp
    <3> QED BY <3>1, <3>2 DEF Commands, Rollover, Commit, Below, AppFrame
  <2>8. CASE AskMac
    <3>1. /\ UNCHANGED <<epoch, counter, sent, app.epoch, app.counter>>
          /\ app.pc = "mac" /\ app'.pc = "wait"
      BY <2>8 DEF AskMac, sender, history
    <3> QED BY <3>1 DEF Commands, Rollover, Commit, Below, BelowApp, AppFrame
  <2>9. CASE MacDone
    <3>1. /\ UNCHANGED <<epoch, counter>> /\ app.pc = "wait" /\ app'.pc = "idle"
          /\ Commands' \subseteq Commands \cup {AppFrame}
      BY <2>9 DEF MacDone, sender, Commands
    <3> QED BY <3>1 DEF Rollover, Commit, Below
  <2> QED BY <1>1, <2>1, <2>2, <2>3, <2>4, <2>5, <2>6, <2>7, <2>8, <2>9 DEF AppTask
<1>2. CASE CanTask /\ Raced
  <2>1. /\ UNCHANGED app /\ Commands' = Commands
        /\ epoch' # epoch => epoch' > epoch /\ counter'["cmd"] = 0
        /\ epoch' = epoch => counter'["cmd"] = counter["cmd"]
        /\ "take" \notin races
        /\ app.pc = "take" => epoch' = epoch
    BY <1>2, CanSender, RacesNoted
  <2>2. CASE epoch' = epoch
    BY <1>0, <2>1, <2>2 DEF CommandsAreBehind, Above, Below, BelowApp, AppFrame
  <2>3. CASE epoch' # epoch
    <3>1. epoch' \in Epoch
      BY <1>2, CanType DEF TypeOK
    <3>2. \A f \in Commands : Above(epoch', f)
      BY <1>0, <2>1, <2>3, <3>1, FrameOrders DEF CommandsAreBehind
    <3>3. app.pc = "count" => 0 < app.counter
      BY <1>0, <2>1 DEF CommandsAreBehind
    <3>4. AppFrame.epoch \in Nat /\ epoch' \in Nat
      BY <1>0, <3>1, TasksAssumption DEF AppFrame, App
    <3>5. app.pc \in {"mac", "wait"} => AppFrame.epoch <= epoch
      BY <1>0, <2>1, <3>4 DEF CommandsAreBehind, Below
    <3> QED BY <1>0, <2>1, <2>3, <3>2, <3>3, <3>4, <3>5
            DEF CommandsAreBehind, Above, Below, BelowApp, AppFrame
  <2> QED BY <2>2, <2>3
<1> QED BY <1>1, <1>2 DEF Next

-----------------------------------------------------------------------------
(* The two slots of the store. *)

\* What the saves of CAN_CyclicTask leave in the store: the new mirror in the
\* newest slot, over an older record, and each epoch that moved in the mirror.
LEMMA CanSaves ==
  ASSUME TypeOK, CanTask, slot[newest] = Whole(mirror), mirror.epoch[Peer] >= current
  PROVE  /\ UNCHANGED app
         /\ \/ UNCHANGED store
            \/ /\ mirror' # mirror /\ slot'[newest'] = Whole(mirror')
               /\ slot'[Other'].body.seq < mirror'.seq
         /\ mirror'.epoch[Peer] >= current'
         /\ mirror'.epoch[Self] = IF epoch' = epoch THEN mirror.epoch[Self] ELSE epoch'
<1>0. /\ mirror.seq \in Nat /\ mirror.epoch \in [Domain -> Epoch]
      /\ \A e \in Epoch : e \in Nat
      /\ Self \in Domain /\ Peer \in Domain /\ Self # Peer
  BY TasksAssumption DEF TypeOK, Record, Self, Peer, Domain
<1> DEFINE Follows(s) == /\ mirror.seq < s.mirror.seq /\ s.slot[s.newest] = Whole(s.mirror)
                         /\ s.slot[TargetOf(s.newest)].body.seq < s.mirror.seq
<1>1. ASSUME NEW s \in StoreState, s.slot[s.newest] = Whole(s.mirror), s.mirror.seq < MaxSeq,
             s.mirror.seq >= mirror.seq, NEW d \in Domain, NEW e \in Epoch
      PROVE  /\ Follows(Saved(s, d, e))
             /\ Saved(s, d, e).mirror.epoch = [s.mirror.epoch EXCEPT ![d] = e]
  <2>1. s.mirror.seq \in Nat /\ s.slot[s.newest].body = s.mirror
    BY <1>1 DEF StoreState, Record, Whole
  <2>2. /\ Saved(s, d, e).mirror.seq = s.mirror.seq + 1
        /\ Saved(s, d, e).mirror.epoch = [s.mirror.epoch EXCEPT ![d] = e]
        /\ Saved(s, d, e).slot[Saved(s, d, e).newest] = Whole(Saved(s, d, e).mirror)
        /\ Saved(s, d, e).slot[TargetOf(Saved(s, d, e).newest)] = s.slot[s.newest]
    BY <1>1, SavedIs
  <2> QED BY <1>0, <1>1, <2>1, <2>2
<1>2. ASSUME NEW p \in Epoch, Room(1)
      PROVE  /\ AfterAccept(p) \in StoreState
             /\ AfterAccept(p).slot[AfterAccept(p).newest] = Whole(AfterAccept(p).mirror)
             /\ AfterAccept(p).mirror.seq >= mirror.seq
             /\ AfterAccept(p).mirror.epoch[Self] = mirror.epoch[Self]
             /\ p > current => Follows(AfterAccept(p)) /\ AfterAccept(p).mirror.epoch[Peer] = p
             /\ ~(p > current) => AfterAccept(p) = StoreNow
  <2>0. /\ StoreNow \in StoreState /\ AfterAccept(p) \in StoreState
        /\ AfterAccept(p).mirror.epoch[Self] = mirror.epoch[Self]
    BY <1>2, AfterAcceptIs
  <2>1. StoreNow.slot[StoreNow.newest] = Whole(StoreNow.mirror) /\ StoreNow.mirror = mirror
    BY DEF StoreNow
  <2>2. CASE p > current
    <3>1. mirror.seq < MaxSeq /\ AfterAccept(p) = Saved(StoreNow, Peer, p)
      BY <1>2, <2>2, AfterAcceptIs
    <3>2. /\ Follows(Saved(StoreNow, Peer, p))
          /\ Saved(StoreNow, Peer, p).mirror.epoch = [mirror.epoch EXCEPT ![Peer] = p]
      <4>1. StoreNow.mirror.seq < MaxSeq /\ StoreNow.mirror.seq >= mirror.seq
        BY <1>0, <2>1, <3>1
      <4> HIDE DEF Follows
      <4> QED BY <1>0, <1>1, <2>0, <2>1, <4>1
    <3>3. AfterAccept(p).mirror.seq \in Nat
      BY <2>0 DEF StoreState, Record
    <3> QED BY <1>0, <2>0, <2>2, <3>1, <3>2, <3>3
  <2>3. CASE ~(p > current)
    <3>1. AfterAccept(p) = StoreNow
      BY <1>2, <2>3, AfterAcceptIs
    <3> QED BY <1>0, <2>0, <2>1, <2>3, <3>1
  <2> QED BY <2>2, <2>3
<1>3. ASSUME NEW s \in StoreState, Follows(s), Keep(s)
      PROVE  /\ mirror' = s.mirror /\ mirror' # mirror /\ slot'[newest'] = Whole(mirror')
             /\ slot'[Other'].body.seq < mirror'.seq
  BY <1>0, <1>3 DEF Keep, Other
<1> HIDE DEF Follows
<1>4. CASE SendSync
  BY <1>4 DEF SendSync, store
<1>5. ASSUME NEW p \in Epoch, HandleTelemetry(p)
      PROVE  /\ UNCHANGED <<app, epoch>> /\ current' = p /\ mirror' # mirror
             /\ slot'[newest'] = Whole(mirror') /\ slot'[Other'].body.seq < mirror'.seq
             /\ mirror'.epoch[Peer] = p /\ mirror'.epoch[Self] = mirror.epoch[Self]
  <2>1. /\ p > current /\ Room(1) /\ Keep(AfterAccept(p))
        /\ UNCHANGED <<app, epoch>> /\ current' = p
    BY <1>5 DEF HandleTelemetry, sender
  <2> QED BY <1>2, <1>3, <2>1
<1>6. ASSUME NEW p \in Epoch, NEW floor \in Epoch, HandleSync(p, floor)
      PROVE  /\ UNCHANGED app /\ current' = p
             /\ \/ UNCHANGED store
                \/ /\ mirror' # mirror /\ slot'[newest'] = Whole(mirror')
                   /\ slot'[Other'].body.seq < mirror'.seq
             /\ mirror'.epoch[Peer] >= p
             /\ mirror'.epoch[Self] = IF epoch' = epoch THEN mirror.epoch[Self] ELSE epoch'
  <2>1. /\ p >= current /\ Room(1) /\ Room(2) /\ AdoptedFloor(p, floor)
        /\ UNCHANGED app /\ current' = p /\ p \in Nat /\ current \in Nat
    BY <1>0, <1>6, FloorStoreIs DEF HandleSync, TypeOK
  <2>2. AfterAccept(p).mirror.epoch[Peer] >= p
    <3>1. ~(p > current) => p = current
      BY <2>1
    <3> QED BY <1>2, <2>1, <3>1 DEF StoreNow
  <2>3. CASE floor > epoch
    <3> DEFINE s == Saved(AfterAccept(p), Self, floor)
    <3>0. floor \in Nat /\ epoch \in Nat
      BY <1>0 DEF TypeOK
    <3>1. Keep(s) /\ epoch' = floor /\ epoch' # epoch
      BY <2>1, <2>3, <3>0 DEF AdoptedFloor
    <3>2. s \in StoreState /\ AfterAccept(p).mirror.seq < MaxSeq
      BY <2>1, FloorStoreIs
    <3>3. /\ Follows(s)
          /\ s.mirror.epoch = [AfterAccept(p).mirror.epoch EXCEPT ![Self] = floor]
      BY <1>0, <1>1, <1>2, <2>1, <3>2
    <3>4. AfterAccept(p).mirror.epoch \in [Domain -> Epoch]
      BY <1>2, <2>1 DEF StoreState, Record
    <3>5. s.mirror.epoch[Self] = floor /\ s.mirror.epoch[Peer] >= p
      BY <1>0, <2>2, <3>3, <3>4
    <3> HIDE DEF s
    <3>6. /\ mirror' = s.mirror /\ mirror' # mirror /\ slot'[newest'] = Whole(mirror')
          /\ slot'[Other'].body.seq < mirror'.seq
      BY <1>3, <3>1, <3>2, <3>3
    <3> QED BY <2>1, <3>1, <3>5, <3>6
  <2>4. CASE ~(floor > epoch)
    <3>1. Keep(AfterAccept(p)) /\ epoch' = epoch
      BY <2>1, <2>4 DEF AdoptedFloor, sender
    <3>2. mirror' = AfterAccept(p).mirror
      BY <3>1 DEF Keep
    <3>3. \/ UNCHANGED store
          \/ /\ mirror' # mirror /\ slot'[newest'] = Whole(mirror')
             /\ slot'[Other'].body.seq < mirror'.seq
      <4>1. CASE p > current
        BY <1>2, <1>3, <2>1, <3>1, <4>1
      <4>2. CASE ~(p > current)
        BY <1>2, <2>1, <3>1, <4>2 DEF Keep, StoreNow, store
      <4> QED BY <4>1, <4>2
    <3> QED BY <1>2, <2>1, <2>2, <3>1, <3>2, <3>3
  <2> QED BY <2>3, <2>4
<1>7. ASSUME NEW p \in Epoch PROVE p >= p
  BY <1>0
<1> QED BY <1>4, <1>5, <1>6, <1>7 DEF CanTask


\* What the steps of a commit do to the two slots.
LEMMA SlotsStep ==
  ASSUME TypeOK, SlotsFollowMirror, Next
  PROVE  SlotsFollowMirror'
<1> SUFFICES ASSUME "commit" \notin races' PROVE SlotsFollowMirror'
  BY DEF SlotsFollowMirror
<1>0. /\ slot \in [Slot -> SlotContent] /\ newest \in Slot /\ mirror \in Record /\ app \in App
      /\ Other \in Slot /\ Other # newest /\ TargetOf(Other) = newest
      /\ mirror.seq \in Nat /\ mirror.epoch \in [Domain -> Epoch]
      /\ Peer \in Domain /\ Self \in Domain /\ Peer # Self
      /\ \A e \in Epoch : e \in Nat
  BY TargetIsOther, TasksAssumption DEF TypeOK, Other, Record, Peer, Self, Domain
<1>1. CASE AppTask /\ UNCHANGED races
  <2> DEFINE Old(c) == Valid(c) => \/ c.body.seq < mirror.seq
                                   \/ c.body.epoch[Peer] >= mirror.epoch[Peer]
  <2>0. /\ slot[newest] = Whole(mirror) /\ Old(slot[Other]) /\ mirror.epoch[Peer] >= current
        /\ app.pc \in Commit => app.target = Other /\ app.record = NextRecord(mirror, Self, app.epoch)
        /\ app.pc = "body" => slot[Other] = ErasedSlot
        /\ app.pc = "mark" => slot[Other] = Unmarked(app.record)
        /\ app.pc = "readback" => slot[Other] = Whole(app.record)
    BY <1>1 DEF SlotsFollowMirror
  <2> USE <1>0, <2>0 DEF SlotsFollowMirror, Commit, Goto, App
  \* A step that leaves the store alone and does not enter a commit.
  <2>1. ASSUME UNCHANGED <<store, current>>, app'.pc \notin Commit PROVE SlotsFollowMirror'
    BY <2>1 DEF store, Other
  <2>2. CASE CommitCopy
    BY <2>2 DEF CommitCopy, store, Other
  <2>3. CASE CommitErase
    <3>1. /\ slot' = [slot EXCEPT ![Other] = ErasedSlot] /\ app'.pc = "body"
          /\ UNCHANGED <<newest, mirror, current, app.target, app.record, app.epoch, Other>>
      BY <2>3 DEF CommitErase, Other
    <3>2. slot'[newest] = Whole(mirror) /\ slot'[Other] = ErasedSlot /\ ~Valid(ErasedSlot)
      BY <3>1 DEF Valid, ErasedSlot
    <3> QED BY <3>1, <3>2, <2>3 DEF CommitErase
  <2>4. CASE CommitBody
    <3>1. CASE Empty(slot[app.target])
      <4>1. /\ slot' = [slot EXCEPT ![Other].sound = TRUE, ![Other].body = app.record]
            /\ app'.pc = "mark" /\ slot[Other] = ErasedSlot
            /\ UNCHANGED <<newest, mirror, current, app.target, app.record, app.epoch, Other>>
        BY <2>4, <3>1 DEF CommitBody, Other
      <4>2. slot'[Other] = [ErasedSlot EXCEPT !.sound = TRUE, !.body = app.record]
        BY <4>1
      <4>3. slot'[newest] = Whole(mirror)
        BY <4>1
      <4>4. slot'[Other] = Unmarked(app.record)
        BY ONLY <4>2 DEF Unmarked, ErasedSlot
      <4>5. ~Valid(slot'[Other])
        BY <4>4 DEF Valid, Unmarked
      <4> QED BY <2>4, <4>1, <4>3, <4>4, <4>5 DEF CommitBody
    <3>2. CASE ~Empty(slot[app.target])
      BY <2>1, <2>4, <3>2 DEF CommitBody, store
    <3> QED BY <3>1, <3>2
  <2>5. CASE CommitMark
    <3>1. CASE Empty(slot[app.target])
      <4>1. /\ slot' = [slot EXCEPT ![Other].mark = "set"] /\ app'.pc = "readback"
            /\ slot[Other] = Unmarked(app.record)
            /\ UNCHANGED <<newest, mirror, current, app.target, app.record, app.epoch, Other>>
        BY <2>5, <3>1 DEF CommitMark, Other
      <4>2. slot'[newest] = Whole(mirror) /\ slot'[Other] = Whole(app.record)
        <5>1. slot'[newest] = slot[newest] /\ slot'[Other] = [slot[Other] EXCEPT !.mark = "set"]
          BY <4>1
        <5>2. slot'[Other] = [Unmarked(app.record) EXCEPT !.mark = "set"]
          BY <4>1, <5>1
        <5>3. slot'[Other] = Whole(app.record)
          BY ONLY <5>2 DEF Unmarked, Whole
        <5> QED BY <5>1, <5>3
      <4>3. app.record.epoch[Peer] = mirror.epoch[Peer]
        BY <2>5 DEF CommitMark, NextRecord
      <4>4. Old(slot'[Other])
        BY <4>2, <4>3 DEF Whole
      <4> QED BY <2>5, <4>1, <4>2, <4>4 DEF CommitMark
    <3>2. CASE ~Empty(slot[app.target])
      BY <2>1, <2>5, <3>2 DEF CommitMark, store
    <3> QED BY <3>1, <3>2
  <2>6. CASE CommitReadBack
    <3>1. CASE UNCHANGED <<mirror, newest>> /\ app'.pc \notin Commit
      BY <2>1, <2>6, <3>1 DEF CommitReadBack, store
    <3>2. CASE Acknowledge
      <4>1. /\ mirror' = app.record /\ newest' = Other /\ app'.pc = "epoch"
            /\ UNCHANGED <<slot, current>> /\ slot[Other] = Whole(app.record)
            /\ Other' = newest
        BY <2>6, <3>2 DEF CommitReadBack, Acknowledge, Other
      <4>2. app.record.seq = mirror.seq + 1 /\ app.record.epoch[Peer] = mirror.epoch[Peer]
        BY <2>6 DEF CommitReadBack, NextRecord
      <4>3. slot[newest].body.seq = mirror.seq
        BY DEF Whole
      <4> QED BY <4>1, <4>2, <4>3
    <3> QED BY <2>6, <3>1, <3>2 DEF CommitReadBack
  <2>7. CASE Bump \/ SetEpoch \/ Clear \/ Add \/ Count \/ Take \/ AskMac \/ MacDone
    <3>1. UNCHANGED <<store, current>> /\ app'.pc \notin Commit
      BY <2>7 DEF Bump, SetEpoch, Clear, Add, Count, Take, AskMac, MacDone
    <3> QED BY <2>1, <3>1
  <2> QED BY <1>1, <2>2, <2>3, <2>4, <2>5, <2>6, <2>7 DEF AppTask
<1>2. CASE CanTask /\ Raced
  <2>1. "commit" \notin races /\ (app.pc \in Commit => mirror' = mirror)
    BY <1>2, RacesNoted
  <2>2. slot[newest] = Whole(mirror) /\ mirror.epoch[Peer] >= current
    BY <2>1 DEF SlotsFollowMirror
  <2>3. /\ UNCHANGED app
        /\ \/ UNCHANGED store
           \/ /\ mirror' # mirror /\ slot'[newest'] = Whole(mirror')
              /\ slot'[Other'].body.seq < mirror'.seq
        /\ mirror'.epoch[Peer] >= current'
    BY <1>2, <2>2, CanSaves
  <2>4. CASE UNCHANGED store
    BY <2>1, <2>3, <2>4 DEF SlotsFollowMirror, store, Other
  <2>5. CASE ~ UNCHANGED store
    BY <2>1, <2>3, <2>5 DEF SlotsFollowMirror, Commit
  <2> QED BY <2>4, <2>5
<1> QED BY <1>1, <1>2 DEF Next

\* The own epoch of the mirror: what the sender uses, or what a rollover that
\* has saved it is about to use.
LEMMA OwnEpochStep ==
  ASSUME TypeOK, BumpsByOne, SlotsFollowMirror, OwnEpochFollows, Next
  PROVE  OwnEpochFollows'
<1> SUFFICES ASSUME races' \subseteq {"take"} PROVE OwnEpochFollows'
  BY DEF OwnEpochFollows
<1>0. /\ slot \in [Slot -> SlotContent] /\ newest \in Slot /\ app \in App
      /\ Other \in Slot /\ Other # newest /\ TargetOf(Other) = newest
      /\ mirror.seq \in Nat /\ mirror.epoch \in [Domain -> Epoch]
      /\ Self \in Domain /\ epoch \in Nat
  BY TargetIsOther, TasksAssumption DEF TypeOK, Other, Record, Self, Domain
<1>1. CASE AppTask /\ UNCHANGED races
  <2> DEFINE Old(c) == Valid(c) => \/ c.body.seq < mirror.seq
                                   \/ c.body.epoch[Self] >= mirror.epoch[Self]
  <2>0. /\ Old(slot[Other]) /\ slot[newest] = Whole(mirror)
        /\ mirror.epoch[Self] = IF app.pc = "epoch" THEN app.epoch ELSE epoch
        /\ app.pc \in Commit => app.target = Other /\ app.record = NextRecord(mirror, Self, app.epoch)
        /\ app.pc \in Rollover => app.epoch = epoch + 1
        /\ app.pc = "mark" => slot[Other] = Unmarked(app.record)
        /\ app.pc = "readback" => slot[Other] = Whole(app.record)
    BY <1>1 DEF SlotsFollowMirror, OwnEpochFollows, BumpsByOne
  <2> USE <1>0, <2>0 DEF OwnEpochFollows, Commit, Rollover, Goto, App
  <2>1. ASSUME UNCHANGED <<store, epoch>>, app.pc # "epoch", app'.pc # "epoch" PROVE OwnEpochFollows'
    BY <2>1 DEF store, Other
  <2>2. CASE CommitErase
    <3>1. /\ slot' = [slot EXCEPT ![Other] = ErasedSlot] /\ app'.pc = "body"
          /\ UNCHANGED <<mirror, epoch, Other>> /\ app.pc = "erase"
      BY <2>2 DEF CommitErase, Other, sender
    <3>2. ~Valid(slot'[Other])
      BY <3>1 DEF Valid, ErasedSlot
    <3> QED BY <3>1, <3>2
  <2>3. CASE CommitBody
    <3>1. CASE Empty(slot[app.target])
      <4>1. /\ slot' = [slot EXCEPT ![Other].sound = TRUE, ![Other].body = app.record]
            /\ app'.pc = "mark" /\ UNCHANGED <<mirror, epoch, Other>> /\ app.pc = "body"
        BY <2>3, <3>1 DEF CommitBody, Other, sender
      <4>2. slot'[Other].mark = "blank"
        BY <2>3, <3>1, <4>1 DEF Empty, SlotContent
      <4> QED BY <4>1, <4>2 DEF Valid
    <3>2. CASE ~Empty(slot[app.target])
      BY <2>1, <2>3, <3>2 DEF CommitBody, store, sender
    <3> QED BY <3>1, <3>2
  <2>4. CASE CommitMark
    <3>1. CASE Empty(slot[app.target])
      <4>1. /\ slot' = [slot EXCEPT ![Other].mark = "set"] /\ app'.pc = "readback" /\ app.pc = "mark"
            /\ slot[Other] = Unmarked(app.record)
            /\ UNCHANGED <<mirror, epoch, Other>>
        BY <2>4, <3>1 DEF CommitMark, Other, sender
      <4>2. slot'[Other] = Whole(app.record)
        <5>1. slot'[Other] = [slot[Other] EXCEPT !.mark = "set"]
          BY <4>1
        <5>2. slot'[Other] = [Unmarked(app.record) EXCEPT !.mark = "set"]
          BY <4>1, <5>1
        <5> QED BY ONLY <5>2 DEF Unmarked, Whole
      <4>3. app.record.epoch[Self] = app.epoch
        BY <4>1 DEF NextRecord
      <4>4. Old(slot'[Other])
        BY <4>1, <4>2, <4>3 DEF Whole
      <4> QED BY <4>1, <4>4
    <3>2. CASE ~Empty(slot[app.target])
      BY <2>1, <2>4, <3>2 DEF CommitMark, store, sender
    <3> QED BY <3>1, <3>2
  <2>5. CASE CommitReadBack
    <3>1. CASE UNCHANGED <<mirror, newest>> /\ app'.pc = "idle"
      BY <2>1, <2>5, <3>1 DEF CommitReadBack, store, sender
    <3>2. CASE Acknowledge
      <4>1. /\ mirror' = app.record /\ newest' = Other /\ app'.pc = "epoch" /\ app'.epoch = app.epoch
            /\ UNCHANGED slot /\ Other' = newest
        BY <2>5, <3>2 DEF CommitReadBack, Acknowledge, Other
      <4>2. app.record.seq = mirror.seq + 1 /\ app.record.epoch[Self] = app.epoch
        BY <2>5 DEF CommitReadBack, NextRecord
      <4>3. slot[newest].body.seq = mirror.seq
        BY DEF Whole
      <4> QED BY <4>1, <4>2, <4>3
    <3> QED BY <2>5, <3>1, <3>2 DEF CommitReadBack
  <2>6. CASE SetEpoch
    <3>1. UNCHANGED store /\ epoch' = app.epoch /\ app.pc = "epoch" /\ app'.pc = "clear"
      BY <2>6 DEF SetEpoch
    <3> QED BY <3>1 DEF store, Other
  <2>7. CASE Bump \/ CommitCopy \/ Clear \/ Add \/ Count \/ Take \/ AskMac \/ MacDone
    <3>1. UNCHANGED <<store, epoch>> /\ app.pc # "epoch" /\ app'.pc # "epoch"
      BY <2>7 DEF Bump, CommitCopy, Clear, Add, Count, Take, AskMac, MacDone, sender
    <3> QED BY <2>1, <3>1
  <2> QED BY <1>1, <2>2, <2>3, <2>4, <2>5, <2>6, <2>7 DEF AppTask
<1>2. CASE CanTask /\ Raced
  <2>1. /\ races \subseteq {"take"}
        /\ app.pc \in Rollover => epoch' = epoch
    BY <1>2, RacesNoted
  <2>2. slot[newest] = Whole(mirror) /\ mirror.epoch[Peer] >= current
    BY <2>1 DEF SlotsFollowMirror
  <2>3. /\ UNCHANGED app
        /\ \/ UNCHANGED store
           \/ slot'[Other'].body.seq < mirror'.seq
        /\ mirror'.epoch[Self] = IF epoch' = epoch THEN mirror.epoch[Self] ELSE epoch'
    BY <1>2, <2>2, CanSaves
  <2>4. mirror'.epoch[Self] = IF app'.pc = "epoch" THEN app'.epoch ELSE epoch'
    BY <2>1, <2>3 DEF OwnEpochFollows, Rollover
  <2>5. CASE UNCHANGED store
    BY <2>1, <2>4, <2>5 DEF OwnEpochFollows, store, Other
  <2>6. CASE ~ UNCHANGED store
    BY <2>3, <2>4, <2>6 DEF OwnEpochFollows
  <2> QED BY <2>5, <2>6
<1> QED BY <1>1, <1>2 DEF Next

-----------------------------------------------------------------------------
(* The theorems. *)

LEMMA InitInv == Init => IInv
<1> SUFFICES ASSUME Init PROVE IInv
  OBVIOUS
<1>1. TypeOK
  BY InitType
<1>2. UsesCommitted /\ CommandsAreBehind /\ BumpsByOne
  BY DEF Init, UsesCommitted, SpentWasCommitted, CommandsAreBehind, BumpsByOne, Commands, Rollover, Commit
<1>3. Other = 1 /\ slot[Other] = ErasedSlot /\ slot[newest] = Whole(mirror)
  BY DEF Init, Other, TargetOf, Slot
<1>4. ~Valid(slot[Other])
  BY <1>3 DEF Valid, ErasedSlot
<1>5. mirror.epoch[Peer] = 0 /\ mirror.epoch[Self] = 1
  BY DEF Init, Booted, Self, Peer, Domain
<1> QED BY <1>1, <1>2, <1>3, <1>4, <1>5
        DEF Init, IInv, SlotsFollowMirror, OwnEpochFollows, Commit

LEMMA NextInv == IInv /\ [Next]_vars => IInv'
<1> SUFFICES ASSUME IInv, [Next]_vars PROVE IInv'
  OBVIOUS
<1> USE DEF IInv
<1>1. CASE Next
  <2>1. TypeOK'
    BY <1>1, AppType, CanType DEF Next
  <2> QED BY <1>1, <2>1, UsesCommittedStep, CommandsStep, BumpsByOneStep, SlotsStep, OwnEpochStep
<1>2. CASE UNCHANGED vars
  <2>1. UsesCommitted'
    BY UsesCommittedStep
  <2>2. UNCHANGED <<Other, Commands>>
    BY <1>2 DEF vars, store, history, Other, Commands
  <2>3. TypeOK' /\ BumpsByOne'
    BY <1>2 DEF vars, store, sender, history, TypeOK, BumpsByOne
  <2>4. CommandsAreBehind'
    BY <1>2, <2>2 DEF vars, sender, CommandsAreBehind, Below, Above, BelowApp, AppFrame
  <2>5. SlotsFollowMirror' /\ OwnEpochFollows'
    BY <1>2, <2>2 DEF vars, store, sender, SlotsFollowMirror, OwnEpochFollows
  <2> QED BY <2>1, <2>3, <2>4, <2>5
<1> QED BY <1>1, <1>2

LEMMA Invariance == Spec => []IInv
BY InitInv, NextInv, PTL DEF Spec

\* The variables keep their types.
THEOREM TasksTypeCorrect == Spec => []TypeOK
<1>1. IInv => TypeOK
  BY DEF IInv
<1> QED BY <1>1, Invariance, PTL

\* No frame is built under an epoch that no commit has reported durable
\* (secoc_tx_next, secoc_tx_adopt_floor: the commit comes first).
THEOREM UsedEpochsAreCommitted == Spec => []SpentWasCommitted
<1>1. IInv => SpentWasCommitted
  BY DEF IInv, UsesCommitted
<1> QED BY <1>1, Invariance, PTL

\* The command in the making has a freshness no command has had, unless a resync
\* came between its counter and its epoch (secoc_tx_next, unlocked).
THEOREM FreshnessIsNeverReused == Spec => []NeverSentTwice
<1>1. IInv => NeverSentTwice
  <2> SUFFICES ASSUME IInv, app.pc \in {"mac", "wait"}, "take" \notin races, AppFrame \in sent
               PROVE  FALSE
    BY DEF NeverSentTwice
  <2>1. AppFrame \in Commands /\ BelowApp(AppFrame)
    BY DEF IInv, CommandsAreBehind, Commands, AppFrame
  <2>2. app.epoch \in Epoch /\ app.counter \in 0..CounterMax
    BY DEF IInv, TypeOK, App
  <2>3. app.counter \in Int
    BY <2>2
  <2>4. app.epoch \in Nat
    BY <2>2, TasksAssumption
  <2> QED BY <2>1, <2>3, <2>4 DEF BelowApp, AppFrame
<1> QED BY <1>1, Invariance, PTL

\* What a mount would find when the newest slot holds the mirror (secoc_store_mount).
LEMMA MountFinds ==
  ASSUME TypeOK, slot[newest] = Whole(mirror)
  PROVE  \/ MountRecord(slot) = mirror
         \/ /\ Valid(slot[Other]) /\ MountRecord(slot) = slot[Other].body
            /\ ~(slot[Other].body.seq < mirror.seq)
<1>1. Valid(slot[newest]) /\ slot[newest].body = mirror
  BY DEF Valid, Whole
<1>2. newest \in {0, 1} /\ Other = 1 - newest
  BY DEF TypeOK, Slot, Other, TargetOf
<1>3. /\ slot[0].body.seq \in Nat /\ slot[1].body.seq \in Nat
  BY DEF TypeOK, Slot, SlotContent, Record
<1> QED BY <1>1, <1>2, <1>3 DEF MountRecord, NewestSlot, NoSlot

\* What a restart would load is not behind the epochs in use (secoc_rx_accept,
\* secoc_tx_adopt_floor), unless one task hit the other in the middle of a save.
THEOREM RestartFindsTheFloors == Spec => []FloorIsDurableUnlessRaced
<1>1. IInv => FloorIsDurableUnlessRaced
  <2> SUFFICES ASSUME IInv PROVE FloorIsDurableUnlessRaced
    OBVIOUS
  <2> USE DEF IInv
  <2>0. /\ mirror.epoch[Peer] \in Nat /\ mirror.epoch[Self] \in Nat /\ current \in Nat /\ epoch \in Nat
        /\ slot[Other].body.epoch[Peer] \in Nat /\ slot[Other].body.epoch[Self] \in Nat
    <3>1. Other \in Slot /\ Peer \in Domain /\ Self \in Domain
      BY TargetIsOther DEF TypeOK, Other, Peer, Self, Domain
    <3>2. slot[Other].body \in Record
      BY <3>1 DEF TypeOK, SlotContent
    <3> QED BY <3>1, <3>2, TasksAssumption DEF TypeOK, Record
  <2>1. ASSUME "commit" \notin races PROVE MountRecord(slot).epoch[Peer] >= current
    BY <2>0, <2>1, MountFinds DEF SlotsFollowMirror
  <2>2. ASSUME races \subseteq {"take"} PROVE MountRecord(slot).epoch[Self] >= epoch
    <3>1. mirror.epoch[Self] >= epoch
      BY <2>0, <2>2 DEF OwnEpochFollows, BumpsByOne, Rollover
    <3> QED BY <2>0, <2>2, <3>1, MountFinds DEF SlotsFollowMirror, OwnEpochFollows
  <2> QED BY <2>1, <2>2 DEF FloorIsDurableUnlessRaced
<1> QED BY <1>1, Invariance, PTL

\* The epoch of the sender goes back only at the end of a rollover that a resync
\* came into (secoc_tx_next writes the epoch it computed before).
THEOREM EpochGoesBackOnlyInARollover == Spec => OnlyRolloverGoesBack
<1>1. IInv /\ [Next]_vars => [epoch' < epoch => app.pc = "epoch" /\ "bump" \in races]_vars
  <2> SUFFICES ASSUME IInv, Next, epoch' < epoch PROVE app.pc = "epoch" /\ "bump" \in races
    OBVIOUS
  <2>0. epoch \in Nat /\ TypeOK
    BY TasksAssumption DEF IInv, TypeOK
  <2>1. CASE CanTask /\ Raced
    <3>1. epoch' \in Nat
      BY <2>0, <2>1, TasksAssumption, CanType DEF TypeOK
    <3>2. epoch' # epoch => epoch' > epoch
      BY <2>0, <2>1, CanSender
    <3> QED BY <2>0, <3>1, <3>2
  <2>2. CASE AppTask /\ UNCHANGED races
    <3>1. SetEpoch
      BY <2>0, <2>2 DEF AppTask, Bump, CommitCopy, CommitErase, CommitBody, CommitMark,
                        CommitReadBack, Clear, Add, Count, Take, AskMac, MacDone, sender
    <3>2. app.pc = "epoch" /\ epoch' = app.epoch
      BY <3>1 DEF SetEpoch
    <3> QED BY <2>0, <3>2 DEF IInv, BumpsByOne, Rollover
  <2> QED BY <2>1, <2>2 DEF Next
<1> QED BY <1>1, Invariance, PTL DEF Spec, OnlyRolloverGoesBack
=============================================================================
