----------------------------- MODULE GatewayTasks -----------------------------
(***************************************************************************)
(* The two tasks of Node A that share one sender context, one freshness    *)
(* store and one crypto mailbox, none of them locked                       *)
(* (node_a_gateway/app/src/{app_task,can_task,secoc_app,port_crypto}.c).   *)
(*                                                                         *)
(* App_CyclicTask builds a command: secoc_tx_next, with a commit when the  *)
(* counter rolls over, then the MAC of the CM0+.  CAN_CyclicTask, of       *)
(* higher priority, may preempt it between any two steps, never the other  *)
(* way round, and never blocks inside a handler: its handlers are atomic,  *)
(* the command is cut into its accesses to what the tasks share.           *)
(***************************************************************************)
EXTENDS WorkFlash

CONSTANTS
  CounterMax   \* 0xFFFF in the code: the counter value that rolls over

ASSUME TasksAssumption ==
  Epoch \subseteq Nat /\ 1 \in Epoch /\ CounterMax \in Nat \ {0}

Self == 0    \* SECOC_DOM_TX_SELF
Peer == 1    \* SECOC_DOM_RX_B

Id == {"cmd", "sync"}   \* the light or door command; FRESHNESS_SYNC of Node A

Frame == [id : Id, epoch : Epoch, counter : 0..CounterMax]

VARIABLES
  slot, newest, mirror,  \* the store, as in FreshnessStore, status OK
  epoch, counter,        \* g_tx
  current,               \* g_rx.current: the epoch of Node B last adopted
  app,                   \* App_CyclicTask: where it is and its locals
  syncSent,              \* can_task's sync_sent
  sent,                  \* the freshness of every frame built
  committed,             \* the sender epochs a commit reported durable
  races                  \* the windows of App_CyclicTask that CAN_CyclicTask hit

store   == <<slot, newest, mirror>>
sender  == <<epoch, counter>>
history == <<sent, committed>>
vars    == <<store, sender, current, app, syncSent, history, races>>

\* Steps of the command: copy .. readback are store_commit, epoch and clear the
\* rollover, add, count and take the rest of secoc_tx_next, wait the MAC.
App == [pc      : {"idle", "copy", "erase", "body", "mark", "readback", "epoch",
                   "clear", "add", "count", "take", "mac", "wait"},
        epoch   : Epoch,            \* bumped, then *epoch
        counter : 0..CounterMax,    \* next
        record  : Record,           \* store_commit's next
        target  : Slot]             \* store_commit's target

TypeOK ==
  /\ slot \in [Slot -> SlotContent] /\ newest \in Slot /\ mirror \in Record
  /\ epoch \in Epoch /\ counter \in [Id -> 0..CounterMax]
  /\ current \in Epoch
  /\ app \in App
  /\ syncSent \in BOOLEAN
  /\ sent \subseteq Frame /\ committed \subseteq Epoch
  /\ races \subseteq {"commit", "bump", "take"}

Booted == [seq |-> 1, epoch |-> [d \in Domain |-> IF d = Self THEN 1 ELSE 0], written |-> {Self}]
Whole(r) == [mark |-> "set", sound |-> TRUE, body |-> r]

\* After secoc_app_init on a factory-new store.
Init ==
  /\ slot = [i \in Slot |-> IF i = 0 THEN Whole(Booted) ELSE ErasedSlot]
  /\ newest = 0 /\ mirror = Booted
  /\ epoch = 1 /\ counter = [i \in Id |-> 0]
  /\ current = 0
  /\ app = [pc |-> "idle", epoch |-> 0, counter |-> 0, record |-> ZeroRecord, target |-> 0]
  /\ syncSent = FALSE
  /\ sent = {} /\ committed = {1}
  /\ races = {}

-----------------------------------------------------------------------------
(* App_CyclicTask. *)

Goto(step) == app' = [app EXCEPT !.pc = step]

\* The counter is spent: secoc_tx_next computes the epoch to bump to.
Bump ==
  /\ app.pc = "idle"
  /\ counter["cmd"] = CounterMax
  /\ epoch + 1 \in Epoch
  /\ app' = [app EXCEPT !.pc = "copy", !.epoch = epoch + 1]
  /\ UNCHANGED <<store, sender, current, syncSent, history>>

CommitCopy ==
  /\ app.pc = "copy"
  /\ mirror.seq < MaxSeq
  /\ app' = [app EXCEPT !.pc = "erase", !.target = TargetOf(newest),
                        !.record = NextRecord(mirror, Self, app.epoch)]
  /\ UNCHANGED <<store, sender, current, syncSent, history>>

CommitErase ==
  /\ app.pc = "erase"
  /\ slot' = [slot EXCEPT ![app.target] = ErasedSlot]
  /\ Goto("body")
  /\ UNCHANGED <<newest, mirror, sender, current, syncSent, history>>

\* The driver checks that the word is blank; a slot CAN_CyclicTask saved to in
\* the meantime is not, and the commit fails.
CommitBody ==
  /\ app.pc = "body"
  /\ IF Empty(slot[app.target])
     THEN /\ slot' = [slot EXCEPT ![app.target].sound = TRUE, ![app.target].body = app.record]
          /\ Goto("mark")
     ELSE Goto("idle") /\ UNCHANGED slot
  /\ UNCHANGED <<newest, mirror, sender, current, syncSent, history>>

CommitMark ==
  /\ app.pc = "mark"
  /\ IF Empty(slot[app.target])
     THEN slot' = [slot EXCEPT ![app.target].mark = "set"] /\ Goto("readback")
     ELSE Goto("idle") /\ UNCHANGED slot
  /\ UNCHANGED <<newest, mirror, sender, current, syncSent, history>>

Acknowledge ==
  /\ mirror' = app.record
  /\ newest' = app.target
  /\ committed' = committed \cup {app.epoch}
  /\ Goto("epoch")

CommitReadBack_ResultIgnored ==
  /\ app.pc = "readback"
  /\ Acknowledge \/ (Goto("epoch") /\ UNCHANGED <<mirror, newest, committed>>)
  /\ UNCHANGED <<slot, sender, current, syncSent, sent>>

\* The read-back finds this record, or another one, or an unreadable word.
CommitReadBack ==
  /\ app.pc = "readback"
  /\ \/ slot[app.target] = Whole(app.record) /\ Acknowledge
     \/ Goto("idle") /\ UNCHANGED <<mirror, newest, committed>>
  /\ UNCHANGED <<slot, sender, current, syncSent, sent>>

SetEpoch ==
  /\ app.pc = "epoch"
  /\ epoch' = app.epoch
  /\ Goto("clear")
  /\ UNCHANGED <<store, counter, current, syncSent, history>>

Clear ==
  /\ app.pc = "clear"
  /\ counter' = [i \in Id |-> 0]
  /\ Goto("add")
  /\ UNCHANGED <<store, epoch, current, syncSent, history>>

\* next = counter + 1, then the counter, then the epoch of the frame.
Add ==
  /\ app.pc \in {"idle", "add"}
  /\ counter["cmd"] # CounterMax
  /\ app' = [app EXCEPT !.pc = "count", !.counter = counter["cmd"] + 1]
  /\ UNCHANGED <<store, sender, current, syncSent, history>>

Count_NotKept ==
  /\ app.pc = "count"
  /\ Goto("take")
  /\ UNCHANGED <<store, sender, current, syncSent, history>>

Count ==
  /\ app.pc = "count"
  /\ counter' = [counter EXCEPT !["cmd"] = app.counter]
  /\ Goto("take")
  /\ UNCHANGED <<store, epoch, current, syncSent, history>>

Take ==
  /\ app.pc = "take"
  /\ app' = [app EXCEPT !.pc = "mac", !.epoch = epoch]
  /\ UNCHANGED <<store, sender, current, syncSent, history>>

\* ipc_transact takes the mailbox; CAN_CyclicTask never leaves it taken.
AskMac ==
  /\ app.pc = "mac"
  /\ Goto("wait")
  /\ UNCHANGED <<store, sender, current, syncSent, history>>

AppFrame == [id |-> "cmd", epoch |-> app.epoch, counter |-> app.counter]

\* The CM0+ answers and the frame goes out, or the wait times out.
MacDone ==
  /\ app.pc = "wait"
  /\ sent' \in {sent, sent \cup {AppFrame}}
  /\ Goto("idle")
  /\ UNCHANGED <<store, sender, current, syncSent, committed>>

AppTask ==
  \/ Bump \/ CommitCopy \/ CommitErase \/ CommitBody \/ CommitMark \/ CommitReadBack
  \/ SetEpoch \/ Clear \/ Add \/ Count \/ Take \/ AskMac \/ MacDone

-----------------------------------------------------------------------------
(* CAN_CyclicTask. *)

MailboxFree == app.pc # "wait"

\* The store before, after one commit, and as what a handler leaves.
StoreNow == [slot |-> slot, newest |-> newest, mirror |-> mirror]

Saved(s, d, e) ==
  LET t == TargetOf(s.newest)
      r == NextRecord(s.mirror, d, e)
  IN [slot |-> [s.slot EXCEPT ![t] = Whole(r)], newest |-> t, mirror |-> r]

Keep(s) == slot' = s.slot /\ newest' = s.newest /\ mirror' = s.mirror

Room(n) == mirror.seq + n <= MaxSeq

\* secoc_rx_accept of a frame of epoch p.
AfterAccept(p) == IF p > current THEN Saved(StoreNow, Peer, p) ELSE StoreNow

\* A telemetry frame of a new epoch; the others change nothing that is shared.
HandleTelemetry_AdoptsFirst(p) ==
  /\ MailboxFree /\ p > current
  /\ current' = p
  /\ UNCHANGED <<store, sender, app, syncSent, history>>

HandleTelemetry(p) ==
  /\ MailboxFree /\ p > current /\ Room(1)
  /\ Keep(AfterAccept(p))
  /\ current' = p
  /\ UNCHANGED <<sender, app, syncSent, history>>

\* A fresh, authentic FRESHNESS_SYNC of epoch p asks for a floor.  When the mailbox
\* is taken or the flash busy it is dropped and changes nothing: Node B sent it
\* once.
AdoptedFloor_AnyDirection(p, floor) ==
  /\ Keep(Saved(AfterAccept(p), Self, floor))
  /\ epoch' = floor /\ counter' = [i \in Id |-> 0]
  /\ committed' = committed \cup {floor}

AdoptedFloor(p, floor) ==
  IF floor > epoch
  THEN /\ Keep(Saved(AfterAccept(p), Self, floor))
       /\ epoch' = floor /\ counter' = [i \in Id |-> 0]
       /\ committed' = committed \cup {floor}
  ELSE Keep(AfterAccept(p)) /\ UNCHANGED <<sender, committed>>

HandleSync(p, floor) ==
  /\ MailboxFree /\ p >= current /\ Room(2)
  /\ AdoptedFloor(p, floor)
  /\ current' = p
  /\ UNCHANGED <<app, syncSent, sent>>

\* The boot sync, retried until it is built; a refused MAC wastes a counter.
SendSync ==
  /\ ~syncSent
  /\ counter["sync"] # CounterMax
  /\ counter' = [counter EXCEPT !["sync"] = @ + 1]
  /\ \/ /\ MailboxFree
        /\ sent' = sent \cup {[id |-> "sync", epoch |-> epoch, counter |-> counter["sync"] + 1]}
        /\ syncSent' = TRUE
     \/ UNCHANGED <<sent, syncSent>>
  /\ UNCHANGED <<store, epoch, current, app, committed>>

CanTask ==
  \/ SendSync
  \/ \E p \in Epoch : HandleTelemetry(p)
  \/ \E p, floor \in Epoch : HandleSync(p, floor)

\* Not in the code: notes a save by CAN_CyclicTask between the copy and the
\* read-back of a commit, and an epoch it moved while a rollover held the one it
\* will move to, or between the counter of a command and the command's epoch.
Raced ==
  LET saved == mirror' # mirror
      moved == epoch' # epoch
      Hit(window, steps, cond) == IF cond /\ app.pc \in steps THEN {window} ELSE {}
  IN races' = races
       \cup Hit("commit", {"erase", "body", "mark", "readback"}, saved)
       \cup Hit("bump", {"copy", "erase", "body", "mark", "readback", "epoch"}, moved)
       \cup Hit("take", {"take"}, moved)

Next ==
  \/ AppTask /\ UNCHANGED races
  \/ CanTask /\ Raced

Spec == Init /\ [][Next]_vars

-----------------------------------------------------------------------------
\* REQ-SECOC-006: whatever the tasks do to each other, no frame is built under
\* an epoch that no commit has reported durable.
SpentWasCommitted ==
  /\ epoch \in committed
  /\ \A f \in sent : f.epoch \in committed

\* REQ-SECOC-005/006: the freshness of the command in the making is on no frame
\* built before, unless a resync took effect between its counter and its epoch.
NeverSentTwice ==
  app.pc \in {"mac", "wait"} /\ "take" \notin races => AppFrame \notin sent

\* ADR-0024 D5: what a restart would load is never behind what the tasks work
\* with, neither the floor of Node B nor the own epoch ...
FloorIsDurable ==
  /\ MountRecord(slot).epoch[Peer] >= current
  /\ MountRecord(slot).epoch[Self] >= epoch

\* ... as long as no save of CAN_CyclicTask fell into one of App_CyclicTask, and
\* for the own epoch no resync into a rollover.
FloorIsDurableUnlessRaced ==
  /\ "commit" \notin races => MountRecord(slot).epoch[Peer] >= current
  /\ races \subseteq {"take"} => MountRecord(slot).epoch[Self] >= epoch

\* secoc_tx_adopt_floor never moves the epoch backward; what may is the last
\* step of a rollover that a resync preempted.
OnlyRolloverGoesBack == [][epoch' < epoch => app.pc = "epoch" /\ "bump" \in races]_vars
=============================================================================
