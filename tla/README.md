# Traveo body domain: TLA+ models and proofs

Two Traveo II nodes share a CAN FD bus. **Node A** (`node_a_gateway`, CYT2B7: CM4 application
core, CM0+ crypto core, a flash bootloader) turns authenticated telemetry into authenticated
commands. **Node B** (`node_b_actuator`, CYT4BF: CM7 and CM0+) verifies the commands and drives
the light. The code they have in common is under `shared/`, a scheduler of its own under
`scheduler/`, and what runs on the workstation (flash tool, log decoder, signing) under
`host_tools/`. This directory holds TLA+ models of that code, the configurations TLC checks them
with, and proofs for TLAPS.

Run TLC with `tlc -config X.cfg M` as listed under *Runs*, and the proofs with `tlapm M.tla` for
the eight modules `*_proofs`.

## 1. Inventory

| component | state it keeps | operations | interacts with |
|---|---|---|---|
| **Freshness store** `shared/secoc_store` | two work-flash sectors of one 20-byte record; a RAM mirror, its slot and a status | `mount`, `load`, `commit` (erase, body, mark, read-back) | flash driver below; SecOC above; on Node A two tasks |
| **SecOC freshness** `shared/secoc` | sender: epoch, counter per CAN ID; receiver: floor, current epoch, high-water mark per ID | `tx_boot`, `tx_next`, `adopt_floor`, `rx_boot`, `rx_check`, `rx_accept`, `rx_process`, `sync_adopt` | the store, the crypto service, the peer over the bus |
| **SecOC frames** `secoc.c`, length code of the CAN tasks | none | secure, verify, pad, infer the length | freshness, CAN controller |
| **SecOC glue** `secoc_app.c` of each node | one sender and one receiver context | init, verify, handle sync, build command / telemetry / boot sync | the CAN task, on Node A also the application task |
| **CAN tasks, application task** `can_task.c`, `app_task.c` | receive queue (ISR to task), message queue (task to task), `sync_sent`, one transmit buffer, the debounced button | receive callback, dispatch by ID, telemetry when idle, commands, reprogram request | SecOC glue, the other node |
| **Body control, codecs, actuator** `bodyctl.c`, `body_msgs.c`, `actuator_fsm.c` | door and light state | step, pack / unpack, apply | the tasks |
| **Crypto mailbox** `ipc_mailbox.c`, `port_crypto.c`, `main_cm0p.c` | a hardware lock, a status word, one payload buffer shared by two cores | `ipc_transact` on the application core, `service_mailbox_once` on the CM0+ | the calls above it |
| **Crypto service** `crypto_service.c`, `crypto_dispatch.c`, `crypto_msg.c`, `crypto_keystore.c`, `crypto_ops_cm0p.c` | error bits of the crypto block, two keys | verify image, MAC, hash; encode, decode, dispatch | mailbox; bootloader, SecOC |
| **Log** `shared/log`, `port_log.c` | a byte ring, a sequence number, drop counters, the UART | `log_evt`, `log_drain`, `log_flush`, baud-rate search, `log_panic` (no caller) | every task; a low-priority drain task, or the bootloader's loop; the host |
| **Boot decision** `shared/boot` | boot counter in backup registers, handshake in `.noinit` | `run_boot`, counter update, image validation, knock window | bootloader, application (`reprogram.c`), crypto service |
| **Bootloader** `fbl_main.c`, `fbl_diag.c`, its ports | programming mode, pending reset, application flash | boot, serve diagnostics, erase / write, reset, jump | boot decision, UDS, ISO-TP |
| **UDS** `shared/diag/src/uds_*.c` | session, security level, seed, download progress | session control, security access, download, routine control, reset | ISO-TP, flash, crypto, boot |
| **ISO-TP** `shared/diag/src/isotp.c` | one reception and one transmission | single / first / consecutive frame, flow control, poll, send | CAN, UDS, the tool |
| **System manager** `shared/sysmgr` | a state and a retry count per resource | tick, failure handling | the resources it starts; no image links it yet |
| **Scheduler** `scheduler` | ready and delay state per task, current task | create, start, tick, yield, delay | the port (assembly, described, not written) |
| **Protection regions** `prot_region.c`, `prot_config_cm0p.c` | none | size and subregion arithmetic, the wall around the CM0+ image | CM0+ start-up |
| **Host tools** | decoder state, folding window; tool position | flash, probe, decode and fold the log, sign and stamp images | bootloader, UART |
| Board support packages, linker scripts, `shared/eeprom_emu` | - | vendored or generated; a README without code | - |

What is hard, and what makes each part correct:

* *Store*: power can go in any flash operation and an operation can report the wrong outcome.
  Correct: a commit is durable before it returns, changes one domain as a whole, and a store that
  holds a record never looks factory-fresh or broken again.
* *Freshness*: restarts forget the counters; commits fail; the bus repeats frames. Correct: no
  (epoch, counter) is spent twice, none is accepted twice, a genuine sender at the floor is heard,
  and a restarted receiver brings its peer there.
* *Frames*: a CAN FD controller pads to one of 16 lengths, and the receiver must find the secured
  bytes in what arrives. Correct: what was secured verifies, to the same PDU.
* *Node A's tasks*: the higher-priority CAN task preempts the command task inside `secoc_tx_next`
  and inside `store_commit`; nothing is locked.
* *Body control*: every queue drops when full, the transmit buffer is overwritten, nothing is
  repeated. Correct: the light never goes back to an older state of the door and, once the door
  rests, agrees with it, unless a boot sync was dropped.
* *Mailbox and crypto*: only one of the two cores takes the lock; the CM0+ may be late or dead;
  the block may fault. Correct: a caller gets the answer to its own request, every call returns, a
  call says what happened, and one fault costs one MAC.
* *Log*: producers that preempt each other in the unmasked part of `log_evt`, a drain that reads
  while they write, 6-bit numbers. Correct: bytes leave whole, in order and once; losses are
  counted; a flush before the jump returns and tells the truth; the host sees every accept.
* *Boot and bootloader*: resets and power losses between counter update and jump, and within an
  erase or a write. Correct: only a whole signed image runs, a crash loop ends, a request is kept,
  a good image is not locked out, and an undisturbed download works whatever came before.
* *ISO-TP/UDS*: lost frames, frames of other nodes that nothing filters, timeouts on both sides,
  sessions that expire, a tool that starts over. Correct: the server gets the tool's messages in
  order and once, and whole ones while no other node sends; nothing stays pending for ever.
* *System manager, scheduler*: retries that must end; switches that must not be lost.

The hazards are listed one by one, with their lines, in `PROJECT.json`.

## 2. Modules

| module | models | remarks |
|---|---|---|
| `DurableStore` | the promise of the freshness port (`secoc_freshness.h`, ADR-0024) | abstract; `mem` is what `load` answers, `disk` what the next mount would |
| `WorkFlash` | slot contents, `read_slot`, the choice of a mount, what interrupted flash operations leave | operators, used by the next one and by `GatewayTasks` |
| `FreshnessStore` | `secoc_store.c` with one caller | each flash operation a step; implements `DurableStore` |
| `SecocLink` | `secoc_freshness.c`, `secoc_rx.c`, the glue and CAN tasks of both nodes | the store of each node in the shape of `DurableStore` |
| `SecocFrame` | `secoc.c`, `body_msgs.c`, DLC and length tables | operators over bytes; proved only |
| `GatewayTasks` | `App_CyclicTask` and `CAN_CyclicTask` of Node A on one sender context, one store, one mailbox | extends `WorkFlash`; one shared-memory access of the command a step |
| `BodyControl` | both nodes from the door switch to the light: ISR queues, transmit buffers, message queue, `bodyctl_step`, the button, restarts | implements `DoorLight` |
| `DoorLight` | what the light promises | abstract |
| `IpcMailbox` | `ipc_mailbox.c`, `port_crypto.c`, `service_mailbox_once` | messages in two halves, so overlapping writers garble them |
| `CryptoMsg` | the envelope, its builders and parsers, with their length limits | operators |
| `CryptoService` | the crypto calls of Node A's bootloader and application and of Node B, dispatch, key lookup, handlers, the fault bits | extends `CryptoMsg`; the transport as whole messages |
| `ByteQueue` | what the log promises about bytes | abstract; `Start` is what it may hold at first |
| `LogRing` | `log.c` in the application images (preemptive tasks) and in the bootloader (one thread), with the start of both | implements `ByteQueue`; a record is two units, each memory access outside the mask a step |
| `LogView` | `log_decode.py` and the folding of `logview.py`, against what the target queued | proved only |
| `UartClock` | `log_uart_clock_init` of the three `port_log.c`, in 32-bit arithmetic | operators; proved only |
| `Alive` | the sign of life of both nodes (`health_log_alive`, `heartbeat_log_alive`) | operators; proved only |
| `AppFlash` | the geometry and the guards of the bootloader's flash port | operators |
| `BootDecision` | `boot.c` and the boot ports: causes, handshake, counter, knock, validation | operators |
| `UdsServer` | every UDS service with its guards, as functions from server state and request to server state, answer and flash work | operators |
| `Reprogramming` | `fbl_main.c`, the boot decision, the server, the flash port and the tools, over resets and power losses | extends the two above |
| `SignedImage` | `sign_image.py`, `fbl_image_stamp.py`, `make_test_image.py`, and what `do_verify_image` finds | operators; ties the images of `MCReprogramming` to the tools |
| `MessageChannel` | what a transport promises | abstract |
| `IsoTp` | `isotp.c`, its CAN port and `UdsClient` of the flash tool | implements `MessageChannel` |
| `SysMgr` | `sysmgr.c` | proved only, for every table |
| `Scheduler` | `sched.c` and the decide / perform split of its port | |
| `ProtRegion` | `prot_region.c`, the wall of `prot_config_cm0p.c` | operators; proved only |
| `SecocBase_proofs` | - | theorems of `FreshnessStore` and `SecocFrame`, what SecOC stands on |
| `Cm0p_proofs` | - | theorems of `CryptoService` and `ProtRegion`, the CM0+ and its wall |
| `Runtime_proofs` | - | theorems of `SysMgr` and `Scheduler` |
| `Log_proofs` | - | theorems of `LogRing`, `LogView`, `UartClock` and `Alive` |
| `Transport_proofs` | - | theorems of `IpcMailbox`, `IsoTp` and `BodyControl`, which carry data between two parties |
| other `*_proofs` | - | theorems of the module they are named after |
| `MC*` | - | values of constants, and for `MCReprogramming` checks of operators on literal inputs |

Definitions called `Operator_Defect` are `Operator` with a plausible programming error (a dropped
check, an off-by-one, a result ignored). No specification uses them; each property was confirmed
to fail when the defect replaces the operator.

How they compose: `WorkFlash` -> `FreshnessStore` => `DurableStore`, whose shape `SecocLink` gives
the store of each node; `GatewayTasks` opens that store again for two tasks. `CryptoMsg` ->
`CryptoService`, whose transport is `IpcMailbox`. `AppFlash`, `BootDecision`, `UdsServer` ->
`Reprogramming`, whose transport is `IsoTp` => `MessageChannel`. `LogRing` => `ByteQueue`; its
bytes reach `LogView`. `BodyControl` => `DoorLight` has SecOC in short: the
epochs, the floor of each life and the boot sync, without counters, commits and replay, which
`SecocLink` has. (`->` is EXTENDS, `=>` is implements.)

### Correspondence with the code

*Store.* `slot[i]` abstracts a sector to the state of the mark word (blank, torn, set), whether
the four body words are sound (programmed, readable by DMA, CRC right), and the record. `status`,
`newest`, `mirror` are the fields of `s_store`; `pc` is the position inside `store_commit` and
`next` its local. `EraseCut`, `BodyCut` and `MarkCut` list what a slot may hold when the operation
failed or lost power, after ADR-0024; `BodyDone` and `MarkDone` let an operation report success
without having worked, which only the read-back can notice. Programming cells that are not blank
leaves them torn. `store_load` is `View`.

*Link.* The store of a node is `DurableStore` folded into one record per node: `mem`, `disk`,
`broken`. A commit inside a handler either succeeds or fails; after a failure `Failures` gives
what the next mount may find. This is the abstraction the refinement `FreshnessStore =>
DurableStore` justifies (`Harden`, `Acknowledge`, `Abandon`, `Spoil`). `tx` and `rx` are the two
contexts; `Id` keeps two protected IDs per direction, a data ID and the sync, as each direction
has one or two data IDs that behave alike. `wire` is the set of frames ever sent: delivery picks
any of them at any time, so frames may be lost, delayed, repeated and reordered. `sync` follows
the boot sync of this life: `due` until `sync_sent`, then `out`, until the peer has `handled` it or
it is `lost`, which no action of the node notices. A frame that fails the MAC changes no state and
is left out, but for the boot sync, which is lost by it. `mode = "fault"` marks the call through the null
store pointer.

*Frames.* Sequences of bytes; `Mac` is any function to 16 bytes, and the argument `works` says
whether the call of the crypto service got a tag. `OnWire` is a frame through both length tables.

*Node A's tasks.* `app.pc` cuts `secoc_tx_next`, `store_commit` and the MAC round trip at every
access to what the tasks share; the handlers of the CAN task are atomic since the lower-priority
task cannot run inside them. A handler that needs the mailbox while the command task waits for its
MAC gets `IPC_BUSY` (`MailboxFree`). `races` is history.

*Body control.* `txbuf` is the single transmit buffer of a node, which `Deliver` empties into the
receive queue of the other; `raw`, `app` and `out` are the queues and the command at work. `Loop`
is the head of either CAN task: the boot sync until it is built. A reset loses everything in RAM;
`Poll` counts low samples of the button at the end of every round, message or not. `epoch`, `floor`
and `seen` are a node's own epoch, the floor it booted with and the last epoch it accepted; the last
and the first outlive a reset. `Accepted` lets a frame through and, for a sync, raises the own epoch
(`secoc_rx_sync_adopt`); `Stale` rejects what is below the floor; `Failed` is a frame that could not
be verified or an epoch that could not be committed. `shown` and `heard` are
history: which change of the door the light stands for, and whether the peer has handled the sync of
this life. Not in the model, as nothing reads or
sends it: what `bodyctl_step` remembers, and door commands.

*Mailbox.* One action per access to the lock, the status word and either half of the payload, on
both cores. `late` is history: some client has given up on an answer.

*Crypto.* A client's call is `Call` (build, encode, take the lock, notify) and then `Return` or
`GiveUp`; `Ends` is what the call does with the reply and `reports` what it reports (F-018). The
CM0+ runs on when the bootloader jumps to the application (`Jump`). `Outcome` has the three ways
the block may end an operation: it works, the driver reports an error, or a bus fault sets the
bits that only `cmac_compute` looks at. `garbles` is the build option that spoils one byte of a
reply.

*Log.* `producer[p]` is the position of a task in `log_evt` with its locals; `cell` holds `s_seq`,
`s_dropped`, `s_pending_overflow`, of which every read and write is a step (`Load`, `Store`).
`Put` is the masked region, `Refuse` its failure. `drain` and `flush` are the same for `log_drain`
and `log_flush`: head is read in `Look`, the UART takes what its FIFO has room for in `Send`, the
tail follows in `Advance`. `MayRun` is the scheduling: a task runs unless one of higher priority
is inside the log, and equal priorities (heartbeat and log task of Node B) are time-sliced; the
bootloader runs one call at a time. A UART that did not come up is `ready = FALSE`. A deadline is
a choice in `FlushCheck`, as the clock may stand still. `AppStart` and `FblStart` are what
`log_port_init` and `fbl_log_init` leave: an application starts with its boot record in the ring, or
silent if its baud rate was not found. `refused`, `told`, `next`, `nested` are
history. In `LogView` a record arrives whole or is lost; `s_seq` is the number due at the target,
and `Numbered` lets a record take it, or take any number and leave any, as calls of `log_evt` do
that preempt each other; `last`,
`lost`, `pending`, `start`, `lastTs` are fields of `Decoder` and `AcceptFolder`; `overlap`, `due`,
`displaced` and everything under `truth` and `folded` is history.

*Node A from reset to application.* `phase` is where `fbl_run_boot` or the main loop is, and power
may go at each; `breg`, `noinit` and `cause` are what a reset keeps. A cell of `flash` is a row,
known by the image and offset it was written from; `EraseStep` and `WriteStep` go sector by sector
and row by row, and `CutShort` leaves one torn. `UdsServer` computes what a handler does to `srv`;
`Dispatch` applies it and starts the flash `job`, during which the loop serves nothing else. The
tools are positions in `Script`, the request sequences of `uds_flash.py` and the two probes, with
the answers each waits for. `toEcu` is one request, `toTool` the answers that may still arrive.
`crashes`, `asked` and `calm` are history.

*ISO-TP.* A frame carries the message it belongs to, its part and a length; a part lands in the
buffer with that identity, so mixtures show. `Foreign` are the frames of Node B as `isotp_poll`
reads them, which has no look at the identifier: telemetry is a single frame of length 0, a boot sync
of any type. They carry no message of the tool (`msg = 0`), and `intruded` and `strays` count the
messages they begin and those of them the server gets. `calm` and `alone` are history: nothing
disturbed this run; nothing of another node is left in what is under way. Lengths are those of the
code (62, 59, 63, padding),
only buffer, block, sequence modulus and FIFO are smaller. `isotp_poll` drains the FIFO before
anything is taken, so `Take` and `RxTimeout` need it empty.

*Scheduler.* A critical section is a step. `Yield`, `Delay` change table and current task,
`Trigger` is the request to switch that follows, `PendSV` the switch; `owes` has the contexts
between the two, and `cpu` is whose context really runs. `Tick` may come anywhere.

*System manager.* One call of `sysmgr_tick` is one step of the first resource that is not
terminal.

## 3. Runs

| run | module, configuration | result | question |
|---|---|---|---|
| `store` | `MCFreshnessStore` | passes, 7 709 states | does the two-slot store keep what the port promises, for every failure of every flash operation? |
| `link` | `SecocLink`, `MCSecocLink.cfg` | passes, 341 k states | no freshness spent or accepted twice; a sender at the floor is heard; epochs and floors only rise; a boot sync that is not lost brings a running peer to the floor |
| `gateway` | `GatewayTasks`, `MCGatewayTasks.cfg` | passes, 3.6 M states | what preemption cannot break, and the exact windows for what it can |
| `mailbox` | `IpcMailbox`, `MCIpcMailbox.cfg` | passes, 17 k states | own answers while answers are timely; one request outstanding; every call returns |
| `crypto` | `CryptoService`, `MCCryptoService.cfg` | passes, 1.0 M states | what the crypto calls return and report, for faults of the block, garbled and late replies |
| `log` | `MCLogRing` | passes, 730 k states | the ring is a byte queue; drops and numbers; the flush; the backlog empties |
| `reprogram` | `MCReprogramming` | passes, 933 k states | what may run, when the bootloader stays and when it must not, what the tool may believe, and that an undisturbed download ends with the new image running |
| `isotp` | `MCIsoTp` | passes, 962 k states | the server gets the tool's messages in order and once, and whole ones while the tool is alone; receptions and undisturbed runs end, and end well |
| `sched` | `Scheduler`, `MCScheduler.cfg` | passes, 147 k states | table, bitmap and current task agree; the highest ready task runs; a delay ends |
| `body` | `BodyControl`, `MCBodyControl.cfg` | passes, 996 k states | the light never shows an older door than before, and comes to agree with a door at rest unless a lost boot sync left a node deaf |
| `link_null` | `SecocLink`, `MCSecocLinkNull.cfg` | violated | finding 1 |
| `gateway_lost_update` | `GatewayTasks`, `MCGatewayLostUpdate.cfg` | violated | finding 2 |

`SysMgr`, `SecocFrame`, `ProtRegion`, `LogView`, `UartClock` and `Alive` have no run: what they promise is
proved for every value (section 5). Deadlock is not checked where the bounds stop the system
(`MaxSeq`, `MaxEpoch`, `MaxWire`, `MaxCalls`, `MaxRuns`, `MaxLost`); the runs `store`, `sched` and
`body` check it.

**Bounds.** `MaxSeq` bounds the saves: four give both slots several generations, an aborted save
after each, and restarts in between. `MaxEpoch = 2` with `CounterMax = 1` gives each node two
epochs spent by boots or a rollover, and floors one above; `MaxWire = 2` frames per sender are
enough to replay one and to swap two; `MaxFaults = 1` lets any one commit of either node fail.
`EpochMod` lies beyond `MaxEpoch`: the run does not reach the wrap of the epoch (section 4). In
`GatewayTasks`, four epochs and five saves allow a rollover and up to three saves of the CAN task
around it. In `IpcMailbox`, four calls by two tasks allow a late answer to reach the next call and
the one after. In `CryptoService`, four calls, two faults and one spoiled reply let a fault of one
operation meet the next two, across the jump; 12, 120 and 123 bytes lie below all three limits,
between them (122 of message, 128 on the wire) and above. In `LogRing`, a ring of two records,
with a banner of one unit in front, makes the second of four records drop, the third report it,
and the fourth race with that report; `Wrap` is twice the ring, so head and tail wrap within
those; the FIFO (2 units) and the drain limit (3) both cut records. In `Reprogramming`, four rows
in one large and two small sectors hold every shape of an erase; the new image takes two blocks,
after which the block counter wraps; two runs of any tool and one fault (power loss, reset, lost
answer, silent CM0+) at any point leave every half-finished state to the second run; `Threshold`
is that of the code, 3. In `IsoTp`, a message of four consecutive frames wraps the sequence number
(modulo 4) and overflows the FIFO of 3; three frames may be lost in two runs, so that a whole block
and its flow control can go; a request of 250 bytes is one more than the buffer takes; one frame of
Node B may come at any point and of any type, so that it can end, replace or begin each reception of
both runs. In `Scheduler`, three
tasks at three priorities cover every order of creation, ties and a lone idle task. In
`BodyControl`, queues of one are full at once, two changes of the door give the light an
older state to go back to, and one fault is a reset, a failed build, a frame that is not verified or
an epoch that is not committed. `MaxEpoch = 2` gives the gateway two lives, by the fault or by the
button, and Node B as many as it has resets, so each node can boot under a running peer and find
its sync dropped on every way.

**Fairness.** `LinkRecovers` assumes that a node that can boot does (`WF(Boot)`), that the CAN
task goes on trying to send its boot sync until one is built (`can_task.c`, the loop around
`sync_sent`), and that a sync that is out does not stay out: the peer handles it or it is lost.
Nothing says which. A sync is sent once, and is lost for good by a busy mailbox
(`secoc_app.c:130` of Node A), a full receive queue (`can_task.c:150`) or a later frame in the
transmit buffer (`can_task.c:185` of Node A, `:150` of Node B), without a failed commit. Then the
link stays dead until a restart, as ADR-0021 says of its addendum F-014, and the property excepts
exactly that (`sync[n] = "lost"`). Its premise is that no commit fails, which has the same effect.
States in which a bound leaves nothing to send count as done. `EveryCallReturns`
assumes only that a task in `ipc_transact` keeps running; the CM0+ gets no fairness, it may be
dead. In `LogRing` the threads go on (the scheduler runs what is ready, and calls of the log are
finite) and the log task wakes again and again; the UART gets no fairness, so `FlushReturns` holds
with a dead one, and `BacklogDrains` has the premise that its FIFO empties again and again. In
`Reprogramming` and `IsoTp` the super-loop runs and polls, its clock advances, and a tool that was
started goes on; nobody has to start a tool, and frames and answers may be lost, which ends the
premise (`calm`) of the promises for undisturbed runs. In `Scheduler` SysTick and PendSV are taken
and a task does not stop inside a call; that a task ever calls anything is not assumed. In
`BodyControl` the tasks are scheduled, the bus delivers to a node that listens, and Node B comes
up by itself; the gateway must be up for the promise to bind, and no node `LeftDeaf`: below whose
floor its peer sends, and whose boot sync is neither on its way nor handled.

## 4. Findings and observations

Two runs show a disagreement between the code and what the repository says of it:

1. `secoc_app_init` of both nodes ignores the result of `secoc_tx_boot`. If the boot commit fails
   once, the receiver still boots; the peer's boot sync is accepted and `secoc_tx_adopt_floor`
   commits through a null store pointer (`link_null`).
2. ADR-0024 D5 and `secoc_store.h` promise a mutex around `commit`; there is none. A rollover
   commit preempted by the commit of an adopted epoch loses that epoch, and with it the floor of
   the next boot (`gateway_lost_update`).

What else the models had to say, each stated where a property excepts it or a bound keeps clear of
it:

* *Epochs.* A resync between lines 106 and 107 of `secoc_freshness.c` gives a command the new
  epoch with an old counter, which is spent again later (`NeverSentTwice` excepts just this
  window); a resync inside a rollover is undone by line 98 (`OnlyRolloverGoesBack`). The wrap of
  the epoch from 0xFFFF to 0, which ADR-0021 calls defined, ends the link: `secoc_rx_check`
  compares plain numbers.
* *Syncs.* A sync that arrives while the command task waits for its MAC is dropped (`IPC_BUSY`,
  `secoc_app.c:130` of Node A) and never repeated by its sender; a boot sync waiting in the single
  transmit buffer can be overwritten (`can_task.c:185` of Node A, `:150` of Node B), and a full
  receive queue drops it (`can_task.c:150`). Each leaves the node that sent it deaf until one of the
  two restarts, and the light with it (`LinkRecovers` and `LightFollowsDoor` except just that).
  ADR-0021 (addendum F-014, lines 408-410) has only the full queue: a successful `can_tx` means
  there that the other controller took the frame, but it reports no more than that transmission
  was requested.
* *Mailbox.* The CM0+ does not take the lock as ADR-0018 D2 says; after a timeout its late answer
  can be returned to the next request (`TimelyAnswerIsOwn` has the premise `~late`).
* *Crypto.* `crypto_mac` accepts 120 to 122 bytes, which the transport then refuses, as the
  message is longer than 128 bytes with its headers. `crypto_parse_verdict` does not look at the
  operation of a reply (the repository's open item F-020). A bus fault during a verification shows
  as INVALID, and fails the next MAC, as only `cmac_compute` reads and clears the bits.
* *Log.* The counters are not part of the masked region: two tasks in `log_note_drop` lose one
  count of `s_pending_overflow`, as does a drop between a queued report and the clearing at line
  228; no gap in the numbers shows it, since a dropped record takes none (`DropsAreAccounted`
  counts exactly only when calls have not nested). `log_flush` counts a round in which the UART
  took bytes, but not all it was offered, as one without progress. On the host, `lost` counts gaps
  in the numbers only: a multiple of 64 lost records, and those lost before a restart, do not show
  (`GapsAreLosses` has a term for each), and a lost boot record gives a gap that is none. Nor is
  every loss one: `log_evt` reads `s_seq` before the masked region (`log.c:207`) and writes it
  after (`:226-229`), so calls that preempt each other there queue records whose numbers repeat or
  jump. A number used twice is 63 lost records to the host (`log_decode.py:217`); the term for
  these is `displaced`.
* *Baud rate.* The product in the error of the search wraps 32 bits for a divider of 1 and a clock
  some 4.3 MHz off, so that 11 705 032 Hz would pass as exact; from 24 MHz on it cannot (proved).
* *ISO-TP.* The controller of the bootloader accepts every standard identifier
  (`design.modus:1148`), the port hands up any (`port_can.c:152-185`) and `isotp_poll` looks at none
  (`isotp.c:232-246`). Node B's telemetry, every 20 ms, begins with 0 and is a single frame of length 0:
  it ends a reception or takes the place of a complete request, and what is then delivered is empty
  and goes unanswered. Its boot sync may even begin a reception. So the tool gets its answers
  only when no such frame meets a request. And `handle_ff` does not clear that a message is complete
  (`isotp.c:173`): a first frame polled together with a complete message, as telemetry is one,
  makes `isotp_take_received` hand over its first 59 bytes and drop the rest, where `isotp.h:34`
  speaks of a complete message that has been reassembled. So `TakenIsWhole` has the premise `alone`,
  and a frame of another node ends `calm`. Such messages may reach the UDS server; `Reprogramming`
  has only whole requests. Without other nodes, a tool that does not wait for its answers
  can bring this about by itself. So can a
  tool started again while the answer of its previous run is under way, if it takes that answer for
  the one to its first request and its second is segmented; the tools of the repository begin with
  two different single-frame requests, and `TakenIsWhole` is checked and proved for scripts like
  theirs (`Orderly`). N_Bs is
  declared (`isotp_types.h:31-34`) and not used, so a lost flow control leaves a transmission
  pending, and an answer of more than one block stalls, as the tool sends one flow control; the
  tool ignores the block size it is told, and may overrun the FIFO; a loss of sixteen frames in a
  row shows in the length alone.
* *Scheduler.* A task of priority 31, which `sched_task_create` accepts, shares the priority of
  the idle task and gets no switch when it wakes (`sched.c:348`); the run keeps to lower ones.
  Yield and delay set the current task before PendSV has saved the context of the one that runs,
  which the port must take into account (`sched_port_arm.c:99-110`). A tick between the two
  rotates a second time and skips a task.
* *UDS.* No handler looks at the session or the security state: downloads, routines and resets are
  served in any session, locked or not, and an expired S3 timer refuses nothing. ADR-0014 D1 and D2
  say that only the programming session exposes these services and only `UNLOCKED` opens them.
  `UdsServer` follows the code.
* *System manager.* A budget of 255 retries is never used up, as `attempts` is a byte.
* *Body control.* `bodyctl_init` calls unlocked the safe default, `actuator_fsm_init` locked; the
  button is polled after each message too, so messages shorten its debounce.
* *Frames.* The sender allows PDUs of 64 bytes, a CAN FD frame holds 52 of them with the trailer.
  Without the table of lengths (`secoc_verify`) a padded frame does not verify.
* *Protection.* A cover of the whole address space has no size code (0xFF), though
  `prot_region_cover` returns true; the wall of Node A is far below. That wall is a build option
  (`FBL_M4_SEAM5_PROT`), off in the committed makefile.

## 5. Proofs

All theorems hold for every value of the constants; nothing is assumed but the named assumptions
of the modules and what a theorem states.

**The store** (`SecocBase_proofs`): `TypeCorrect`, `MirrorAlwaysDurable`, `AlwaysMountable`,
`SavesAreAtomic` and `StoreImplementsPort`, that every step maps to a step of `DurableStore` or a stutter.
`MirrorIsDurable` is not inductive by itself. `IInv` adds what it rests on: a save only runs on a
usable store and its record is the mirror with one domain replaced (`SaveIsOneDomain`); what the
slot being written holds before each flash operation (`SlotUnderSave`: erased before the body;
blank mark, and the new record if sound, before the mark; no blank mark after it), so that a
read-back can only accept the record of this save; that a factory-fresh store writes slot 0 and
leaves slot 1 blank (`FactoryLeavesSlotOne`), which confines the loss of a first save to a store
that holds nothing; and that an unmounted store counts as broken (`OffIsBroken`). Refinement then
has one lemma per kind of step: until the mark is programmed a save is a stutter or an `Abandon`,
with the mark it is a `Harden`, the accepting read-back is the `Acknowledge`, and only the first
save ever can `Spoil`. `SavesAreAtomic` says of every later mount what `MirrorIsDurable` says of the
running store. It is not implied: a save that has written its slot and not been acknowledged is
already what a mount finds, so the step lemma `AbortedStep` follows the slot through the save and
lets the mount find the old record or the new one, never a mixture.

**The link** (`SecocLink_proofs`): `LinkTypeCorrect`; under `[]EpochsLast` also `LinkNeverReuses`,
`LinkNeverAcceptsTwice`, `LinkHearsSenderAtFloor` and `LinkEpochsRise`. `EpochsLast` says that no
store has come to the last epoch, `EpochMod - 1`. It is a real condition on the program: the
successor of that epoch is 0, and everything below rests on successors being larger. The runs stay
below it through `MaxEpoch`, the proofs through this hypothesis, and after 65 535 boots and
rollovers of one node neither says anything. The invariant `NodeInv` speaks of one node at a time.
The sender's epoch is the one its store answers (`SenderUsesStore`); the receiver's floor is the
store's floor and its current epoch is not below it (`ReceiverUsesStore`); what RAM holds is not
above what the next mount may find (`MemBelowDisk`); every frame sent by the node carries a
freshness its running context is past, or an epoch the store is past (`SentIsCovered`); and every
accepted frame lies below the floor, or at or below its ID's high-water mark (`AcceptedIsCovered`,
`MarksAreAccepted`). The last three are what a restart, which forgets the contexts, must not
break: it spends a new epoch as sender and raises the floor as receiver, and `MemBelowDisk` makes
sure that a failed commit only ever errs upwards.

**Node A's tasks** (`GatewayTasks_proofs`), for every set of epochs, rollover and number of saves:
`TasksTypeCorrect`, `UsedEpochsAreCommitted`, `FreshnessIsNeverReused`, `RestartFindsTheFloors` and
`EpochGoesBackOnlyInARollover`. Nothing is locked here, so an invariant must say which interleaving
ends it: `races` names the windows in which the CAN task has hit the command task, and each part of
`IInv` is conditioned on the windows it does not survive. `UsesCommitted` survives all of them.
`CommandsAreBehind` (every command sent is below what the command task will use next, at each of
its positions) ends with a resync between taking the counter and the epoch; `BumpsByOne` with one
inside a rollover; `SlotsFollowMirror` (which slot holds what, through every step of a commit, and
that the *other* slot cannot win a mount unless it says as much about the peer) with a commit inside
a commit; and `OwnEpochFollows` with any of the last two. The theorem is what remains of the
promise of ADR-0024 D5, and the run `gateway_lost_update` shows that the last condition is needed.

**Frames** (`SecocBase_proofs`): the length tables of the CAN tasks and of `secoc.c` agree
(`FdCode`); every PDU that fits is delivered (`Delivered`) and the padding cannot matter
(`PaddingIsIgnored`); the input of the MAC determines identifier, epoch, counter and PDU
(`MacInputBinds`); reports and light commands arrive (`MessagesArrive`). Nothing is assumed of the
MAC but its length. The argument is one of positions: `Parts` says where the three parts of a
concatenation lie, whatever follows them.

**The mailbox** (`Transport_proofs`), for any set of clients and any number of calls:
`MailboxTypeCorrect`, `MailboxAnswersOwn`, `MailboxOneOutstanding`. `LockIsHeld` (whoever is past
the lock is the only one) holds always. While nobody has given up, the two cores also alternate:
the CM0+ is idle while a client prepares its request (`Preparing`), works on exactly that request
while it waits (`Waiting`), and is idle again with that answer while it leaves (`Leaving`). After
a timeout the alternation is gone and only the lock remains.

**The transport** (`Transport_proofs`), for any scripts of the tool, any lengths of requests and
answers that are natural numbers, any FIFO, and any number of losses and runs:
`IsoTypeCorrect`, `ServerGetsMessagesInOrder`, with any frames of other nodes. The tool's frames in
the FIFO begin messages in the order
of their numbers, all later than the message in the receive buffer, and that one has not been
delivered while it is being received or waits to be taken; and if another node began it, fewer such
messages have been delivered than begun (`InOrder`). So a message of the tool that `Take` hands over
is later than all that were delivered, whatever was lost, refused or overwritten in between, and the
server gets no more messages of other nodes than they began. The length
is bounded by the buffer without any such order: `HandleFf` refuses what does not fit and
`Extended` stops at the total.

`ServerGetsWholeMessages` needs more, and assumes more: that every script is `Orderly`, as those of
the tools here are (TLC evaluates the assumption for the scripts of `MCIsoTp`); and it speaks of the
steps in which the tool is `alone`, as it must (section 4). A run of the tool that finds the FIFO
empty and nothing under way is alone again, so the invariant (`AloneInv`) must hold at such a
moment whatever other nodes have left behind. Consecutive frames
carry a number that wraps and no name of their message, so a reception takes any frame with the
number it waits for. The invariant (`WholeInv`) therefore says what can be on the way at all, stage
by stage of the tool. After the first request (`FirstRequest`) earlier runs may still have left
frames, but once an answer is on the wire there are only flow controls and this request's single
frame in the FIFO. From the second request on (`LaterRequest`) no first frame and no part of a
message is on the way but those of the request at work, and if the first two requests differ, no
answer older than the request before can be taken for the own one (`Young`). So the parts in the
FIFO are of one message and in order; some may be missing. That a gap cannot be closed is arithmetic
(`Receiving`): a reception with a part missing has fewer parts than the number of the last one it
holds, the number of a part is at most `Chunks` of the length, and the reception is complete only
with `Chunks` parts (`ChunksAre`). The wrap of the number plays no part.

`UndisturbedRunsSucceed` assumes only that nothing but the last request of a script goes unanswered
(`SilentLast`). While a run is calm, tool, bus and `isotp.c` move in lockstep, and the invariant
(`CalmIs`) says for each stage of the tool where its request or the answer is, how many frames of it
have arrived, and that the block of the ECU and the counting of the tool agree (`BlockAnswers`,
`NextCollected`). A request that does not fit and an answer of several blocks never end a calm
run; what follows from them is the timeout that `UndisturbedRunEnds` excludes by `Sendable`. Both
invariants were checked with TLC, on scripts with more kinds of requests than those of the run,
before they were proved.

**Body control** (`Transport_proofs`), for any number of changes of the door, any depth of the
queues and any faults: `LightShowsTheDoor`. Epochs and floors only decide which frames get through,
so the invariant needs no more of them than their types (`SecocType`). The way from the door to the light is a pipeline of six
stages (the transmit buffer of Node B, the receive queue of Node A, the message queue, the output
at work, the transmit buffer of Node A, the receive queue of Node B). The invariant (`Flow`) cuts
it at five numbers of changes: what a stage holds says what the door was at a change between the
numbers at its two ends, and a queue is in the order of those changes. Overwriting, dropping and
a reset empty a stage or a part of it, which disturbs no order; the numbers move only when
a frame passes a cut.

**The crypto service** (`Cm0p_proofs`), for any lengths of message that are natural numbers, any
number of calls, faults and spoiled replies: `ServiceTellsTheTruth`, `FaultsCostOneMac`. A call that
ended must be right about the moment it ended in, so `ServiceInv` follows the one exchange in flight
while nobody gave up (`OneExchange`): who holds the lock, that the mailbox holds that client's
encoded request or one of the replies this request may get, spoiled or not, and that the envelope
says so to the parsers. `WhoRuns` says that the bootloader's calls end before the application's
begin. For the faults, an error bit that is set stands for a fault that has cost no MAC yet
(`BitIsAFault`), so the counts can never cross.

**Node A from reset to application** (`Reprogramming_proofs`), for every flash geometry, set of
images, threshold, lifecycle and bound: `AlwaysRunsWholeImage`, `CrashLoopAlwaysEnds`,
`RequestAlwaysKept`, `NeverStaysNeedlessly`, `ToolIsAlwaysRight`, `ReprogrammingTypeCorrect`.
The first four rest on one invariant (`IInv`, theorem `SpecIInv`), which relates what survives a
reset to what happened: by phase and cause, `Owed` says how the counter in the
backup registers relates to the crashes since a clean start, of which one may not be counted yet,
until `UpdateCounter` makes it `Settled`; a request stands exactly while the handshake does; and
no flash job runs outside programming mode, so a validated image stays.
`ToolIsAlwaysRight` spans the tool, the bus and the server, and its invariant (`ToolInv`, theorem
`SpecToolInv`) was found with TLC before it was proved. `Follows` takes flash, download, job, bus
and tool as arguments. Before its session is answered (`First`) a run may still find answers of
earlier runs, which tell it nothing. After it (`Later`) at most one of them, for a session, can be
ahead and ends the run, and the own request, the own job and the own answer exclude each other.
So each carries what the tool counts on: the request `Ready`, the job `Working` (how far it has
got), a positive answer the `Ready` of the step that follows; `Ready` says that flash holds the
image up to the offset of the tool and is erased beyond it, and that a live download expects just
the next block. Loss, timeouts and resets only drop a request, a job or the download, which
weakens `Follows`; what remains is arithmetic of rows, sectors and block numbers that wrap.
Type correctness adds that a boot that is about to count a crash finds at most the threshold
(`Counted`).

**The log ring** (`Log_proofs`), for every capacity, width of head and tail (a multiple of the
capacity), modulus of the sequence numbers, priorities and any number of producers:
`LogTypeCorrect`, `RingIsAQueue`, `DropsAlwaysAccounted`, `NumbersAlwaysContinue`,
`FlushMeansSent`. The invariant has three parts that hardly touch. `Counting` speaks of producers
and counters: always, a drop is counted or its producer is still on the way to the counter; as long
as no call began inside another, either all producers are idle and the books are `Balanced`, or one
is at work and `Counted` says, for each of its positions, by how much the counters lag what it has
done. `DrainInv` speaks of the gap between the reading of head and the writing of tail: what the
drain found or sent is still in the ring, as producers only add. `FlushInv` says that nobody queues
while the bootloader flushes, so an `IDLE` found by its drain stays true until the UART is asked.
For the refinement the queue is `Unsent`, what the ring holds less what the port has accepted and
the tail has not passed: `Send` is a `HandOver`, `Advance` a stutter (`TailMoves`), `Put` an
`Enqueue` (`PutQueues`, over `CopyHolds`: two copies that may cross the end of the ring append to
what it holds and change nothing else). The arithmetic below is that of counters that wrap at one
modulus and index at another (`ModMod`), which needs the second to divide the first: `Wrap % Cap = 0`
in `LogAssumption`, in the code a capacity that is a power of two.

**The log view** (`Log_proofs`): `GapsAccount`, `FoldingLosesNothing` and `RestartsSplitSummaries`,
for any set of identifiers, any timestamps and any folding window (`FoldMs` positive). The
invariant keeps the decoder's number, the numbers passed over since and the one that is due congruent
modulo 64 (`InStep`), except between a restart whose boot record was lost and the next record. The
number due is `s_seq` as long as no calls of `log_evt` have preempted each other; from then on a
record may take any number, and `displaced` has what the numbers queued have passed over, which the
host cannot tell from losses. And
for the baud rate, `UpIsInTolerance` (24 MHz to 2 GHz) and `NodeClocksAreExact` (80 and 100 MHz),
in the 32-bit arithmetic of the search. The sign of life: `DueWhenThePeriodIsOver`, whatever the
32-bit tick counter wraps in between, and `SignsKeepComing`, the step of an induction a reader can
do: with calls at most `gap` apart, two signs are less than a period and a gap apart.

**Protection regions** (`Cm0p_proofs`), for every target range: `NothingIsLeftOut`,
`EnabledForTheTarget`, `ExactIsExact`, and `WallIsTheKeyRegion` for Node A's wall, in the builds that
raise it (`FBL_M4_SEAM5_PROT`).

**The scheduler** (`Runtime_proofs`), for any number of tasks and priorities:
`SchedulerIsConsistent` and `SchedulerRunsTheHighest`. Neither is inductive. `SchedInv` adds to
`Consistent` the shape of the table (`Table`: identifiers are given in order; before the start
nothing runs) and `SwitchIsDue`: a ready task above the current one means that a switch is pended,
and the CPU is with the current task unless a switch is pended or about to be requested. The hard
step is `sched_choose_next`: that the round robin over the ready tasks of the highest priority
returns one of them. The lookup takes the task of a given rank; that each rank below the number of
tasks has a task needs the least element of a set of naturals (`LeastElement`, from the well-founded
order of the naturals) and the cardinality of initial segments (`NthExists`, `NextIsHighest`). One
lemma per action then shows that the decision leaves the table consistent (`DecisionKeeps`).

**System manager** (`Runtime_proofs`), for every table that keeps the rules of `sysmgr.h`:
`BringUpInOrder`, `SettledIsFinal`. Besides the stated properties the invariant needs that a
resource that is due has an attempt left (`DueHasBudget`).

*Only model-checked.* Liveness under fairness (`LinkRecovers`, `EveryCallReturns`, `FlushReturns`,
`BacklogDrains`, `UndisturbedRunFlashes`, `ReceptionEnds`, `UndisturbedRunEnds`, `HighestWakes`,
`LightFollowsDoor`) is out of the prover's reach. Every invariant and action property of a passing run
is also the subject of a theorem, if not for every script of the tool (`Orderly` and `SilentLast`
above).

## 6. Not modelled

* `shared/eeprom_emu` has no code; board support packages and linker scripts are vendored or
  generated.
* Register-level parts of the ports: pins, clocks, the set-up of controllers and of the UART, MPU
  set-up, Node B's self-check of its crypto block at bring-up, the probes of the CM0+ boundary.
  They keep no state a property speaks of.
* The cryptography: a MAC is a function, a digest and a signature are ideal, and what the crypto
  block computes is its outcome.
* A slot of the store that reads wrong at one mount and right at the next, which ADR-0024 accepts
  as a residual risk.
* The debugger's reset inside the boot decision, the meaning of log texts, `log_panic` (no
  caller), the LED of `health_task.c` (its sign of life is in `Alive`), the report generators and
  requirement checks under `host_tools`, and tests.
* In `Reprogramming`, requests that a frame of another node has emptied, cut short or begun
  (`IsoTp` has them).
* The context switch of the scheduler, which the repository describes and does not have yet.
