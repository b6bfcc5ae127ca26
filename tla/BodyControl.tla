----------------------------- MODULE BodyControl -----------------------------
(***************************************************************************)
(* The body-control loop over both nodes: the door switch of Node B goes   *)
(* out as telemetry, Node A's CAN task hands it to the app task, bodyctl   *)
(* answers with a light command, Node B applies it.  Between them are a    *)
(* single transmit buffer per node, written without a look at what it      *)
(* holds, and queues whose full result nobody reads.                       *)
(*                                                                         *)
(* SecOC is here what it does to the loop (SecocLink is the whole of it):  *)
(* a node sends in an epoch that is new in each of its lives, and rejects  *)
(* what is below the floor it booted with, one above the last epoch it     *)
(* accepted.  So a node that restarts is deaf to a peer that goes on,      *)
(* until its boot sync moves the peer to that floor; the sync is sent once *)
(* and goes the way of all frames.  A fault is a frame that could not be   *)
(* built or verified, or an epoch that could not be committed.             *)
(*                                                                         *)
(* What bodyctl remembers is never read, and no door command is ever sent: *)
(* both are left out.                                                      *)
(***************************************************************************)
EXTENDS Integers, Sequences

CONSTANTS
    RawDepth,     \* RAW_FRAME_QDEPTH, 16 in the code
    AppDepth,     \* APP_MSG_QDEPTH, 8
    Debounce,     \* APP_BTN_DEBOUNCE, 3
    MaxChanges,   \* bound on the changes of the door switch
    MaxPresses,   \* bound on the presses of the button
    MaxEpoch,     \* bound: from this epoch on the gateway stays down
    MaxFaults     \* bound on failed builds, rejected frames and resets

Node == {"A", "B"}
Peer(n) == IF n = "A" THEN "B" ELSE "A"

Id == {"sync", "report", "light"}

\* What a frame says, the change of the door it stems from and the epoch it was
\* secured in; the value of a sync is the floor of its sender.
Frame == [id : Id, value : Nat, at : 0 .. MaxChanges, epoch : Nat]
None == [id |-> "none"]

VARIABLES
    changes, button, presses,   \* the door switch, the user button
    mode,                       \* of each node: "on", "off", or "fbl"
    sync,                       \* sync_sent
    epoch, floor, seen,         \* own epoch; the floor of this life; the last
                                \* epoch accepted
    txbuf, raw,                 \* the transmit buffer, s_raw_q
    app, out,                   \* s_msg_q; the output apply_output works on
    low,                        \* low_count
    light,                      \* s_light_pct of Node B
    faults,
    shown,        \* not in the code: the change of the door the light shows
    heard         \* not in the code: the peer handled the sync of this life

secoc == <<epoch, floor, seen, heard>>
bodyVars == <<changes, button, presses, mode, sync, secoc, txbuf, raw, app, out, low, light, faults, shown>>
gateway == <<app, out, low>>
actuator == <<light, shown>>
outside == <<changes, button, presses>>

On(n) == mode[n] = "on"

BodyInit ==
    /\ changes = 0 /\ button = FALSE /\ presses = 0
    /\ mode = [n \in Node |-> "off"]
    /\ sync = [n \in Node |-> FALSE]
    /\ epoch = [n \in Node |-> 0] /\ floor = [n \in Node |-> 0] /\ seen = [n \in Node |-> 0]
    /\ heard = [n \in Node |-> FALSE]
    /\ txbuf = [n \in Node |-> None]
    /\ raw = [n \in Node |-> <<>>]
    /\ app = <<>> /\ out = None /\ low = 0
    /\ light = 0 /\ shown = 0
    /\ faults = 0

Fault == faults < MaxFaults /\ faults' = faults + 1

-----------------------------------------------------------------------------
(* What the CAN tasks share. *)

Report(k) == [id |-> "report", value |-> k % 2, at |-> k, epoch |-> 0]
Sync(e, h) == [id |-> "sync", value |-> h, at |-> 0, epoch |-> e]

\* What is secured is secured in the epoch of the moment.
Secured(n, m) == [m EXCEPT !.epoch = epoch[n]]
Unsecured(f) == [f EXCEPT !.epoch = 0]

\* xQueueSend without a wait and xQueueSendFromISR: a full queue drops.
Queued(q, f, depth) == IF Len(q) < depth THEN Append(q, f) ELSE q

\* The head of the task loop, with what the last round left to transmit: the
\* boot sync is tried until it is built, and replaces what is in the buffer.
Loop(n, left) ==
    \/ /\ ~sync[n] /\ sync' = [sync EXCEPT ![n] = TRUE]
       /\ txbuf' = [txbuf EXCEPT ![n] = Sync(epoch'[n], floor'[n])]
    \/ txbuf' = [txbuf EXCEPT ![n] = left] /\ UNCHANGED sync

\* A boot sync that cannot be built is a fault.
NextRound(n, left) == Loop(n, left) /\ IF sync'[n] THEN UNCHANGED faults ELSE Fault

\* secoc_tx_boot and secoc_rx_boot.
Start(n) ==
    /\ mode[n] # "on" /\ (n = "A" => epoch["A"] < MaxEpoch)
    /\ mode' = [mode EXCEPT ![n] = "on"]
    /\ epoch' = [epoch EXCEPT ![n] = @ + 1]
    /\ floor' = [floor EXCEPT ![n] = seen[n] + 1]
    /\ NextRound(n, None)
    /\ UNCHANGED <<outside, seen, heard, raw, gateway, actuator>>

Fresh(n, f) == f.epoch >= floor[n] /\ f.epoch >= seen[n]

Handled(n, f) ==
    heard' = IF f.id = "sync" /\ f.value = floor[Peer(n)] THEN [heard EXCEPT ![Peer(n)] = TRUE]
             ELSE heard

Accepted_AdoptsNothing(n, f) ==
    /\ Fresh(n, f)
    /\ seen' = [seen EXCEPT ![n] = f.epoch]
    /\ Handled(n, f)
    /\ UNCHANGED <<epoch, floor>>

\* secoc_rx_process lets a frame through, and secoc_rx_sync_adopt moves the own
\* epoch to the floor that a sync asks for.
Accepted(n, f) ==
    /\ Fresh(n, f)
    /\ seen' = [seen EXCEPT ![n] = f.epoch]
    /\ epoch' = [epoch EXCEPT ![n] = IF f.id = "sync" /\ f.value > @ THEN f.value ELSE @]
    /\ Handled(n, f)
    /\ UNCHANGED floor

Stale(n, f) == ~Fresh(n, f) /\ Handled(n, f) /\ UNCHANGED <<epoch, floor, seen>>

\* A frame that is not verified, or whose epoch is not committed; or it is let
\* through and what it asks for fails.
Failed(n, f) ==
    /\ UNCHANGED <<epoch, floor, heard>>
    /\ \/ UNCHANGED seen
       \/ Fresh(n, f) /\ seen' = [seen EXCEPT ![n] = f.epoch]

\* The bus takes the frame once the other node is there to acknowledge it; the
\* interrupt of the receiver queues it.
Deliver(n) ==
    /\ txbuf[n] # None /\ On(n) /\ On(Peer(n))
    /\ txbuf' = [txbuf EXCEPT ![n] = None]
    /\ raw' = [raw EXCEPT ![Peer(n)] = Queued(@, txbuf[n], RawDepth)]
    /\ UNCHANGED <<outside, mode, sync, secoc, gateway, actuator, faults>>

\* Everything in RAM is gone; actuator_fsm_init has the light off.
Down(n, m) ==
    /\ mode' = [mode EXCEPT ![n] = m]
    /\ sync' = [sync EXCEPT ![n] = FALSE]
    /\ floor' = [floor EXCEPT ![n] = 0]
    /\ heard' = [heard EXCEPT ![n] = FALSE]
    /\ UNCHANGED <<epoch, seen>>
    /\ txbuf' = [txbuf EXCEPT ![n] = None]
    /\ raw' = [raw EXCEPT ![n] = <<>>]

GatewayDown(m) == Down("A", m) /\ app' = <<>> /\ out' = None /\ low' = 0

ResetGateway ==
    /\ On("A") /\ Fault /\ GatewayDown("off")
    /\ UNCHANGED <<outside, actuator>>

ResetActuator ==
    /\ On("B") /\ Fault /\ Down("B", "off")
    /\ light' = 0
    /\ UNCHANGED <<outside, gateway, shown>>

-----------------------------------------------------------------------------
(* Node A. *)

\* Telemetry is handed on when it verifies.
CanReceive ==
    /\ On("A") /\ raw["A"] # <<>>
    /\ raw' = [raw EXCEPT !["A"] = Tail(@)]
    /\ LET f == Head(raw["A"])
       IN  \/ /\ Accepted("A", f)
              /\ app' = IF f.id = "report" THEN Queued(app, Unsecured(f), AppDepth) ELSE app
              /\ NextRound("A", txbuf["A"])
           \/ Stale("A", f) /\ UNCHANGED app /\ NextRound("A", txbuf["A"])
           \/ Fault /\ Failed("A", f) /\ UNCHANGED app /\ Loop("A", txbuf["A"])
    /\ UNCHANGED <<outside, mode, out, low, actuator>>

CanIdle ==
    /\ On("A") /\ raw["A"] = <<>> /\ ~sync["A"]
    /\ UNCHANGED <<outside, mode, secoc, raw, gateway, actuator>>
    /\ NextRound("A", txbuf["A"])

BodyStep_LightStays(f) == [id |-> "light", value |-> 100, at |-> f.at, epoch |-> 0]

\* bodyctl_step on a sensor report: the courtesy-light rule.
BodyStep(f) ==
    [id |-> "light", value |-> IF f.value # 0 THEN 100 ELSE 0, at |-> f.at, epoch |-> 0]

AppReceive ==
    /\ On("A") /\ out = None /\ app # <<>>
    /\ out' = BodyStep(Head(app))
    /\ app' = Tail(app)
    /\ UNCHANGED <<outside, mode, sync, secoc, txbuf, raw, low, actuator, faults>>

\* The end of a round of the app task. app_request_reprogram does not return,
\* so pressed is never seen set: every third low poll in a row is an edge.
\* t is what the transmit buffer holds.
Poll(t) ==
    IF button /\ low + 1 >= Debounce
    THEN GatewayDown("fbl")
    ELSE /\ low' = IF button THEN low + 1 ELSE 0
         /\ out' = None
         /\ txbuf' = [txbuf EXCEPT !["A"] = t]
         /\ UNCHANGED <<mode, sync, secoc, raw, app>>

\* apply_output: the command replaces what is in the transmit buffer, or cannot
\* be built and is skipped.
AppSend ==
    /\ On("A") /\ out # None
    /\ \/ Poll(Secured("A", out)) /\ UNCHANGED faults
       \/ Poll(txbuf["A"]) /\ Fault
    /\ UNCHANGED <<outside, actuator>>

\* APP_PERIOD_APP_MS without a message.
AppIdle ==
    /\ On("A") /\ out = None /\ app = <<>>
    /\ Poll(txbuf["A"])
    /\ UNCHANGED <<outside, actuator, faults>>

-----------------------------------------------------------------------------
(* Node B. *)

\* actuator_fsm_apply.
Apply(f) == light' = f.value /\ shown' = f.at

\* A light command is applied when it verifies.
Actuate ==
    /\ On("B") /\ raw["B"] # <<>>
    /\ raw' = [raw EXCEPT !["B"] = Tail(@)]
    /\ LET f == Head(raw["B"])
       IN  \/ /\ Accepted("B", f)
              /\ IF f.id = "light" THEN Apply(f) ELSE UNCHANGED actuator
              /\ NextRound("B", txbuf["B"])
           \/ Stale("B", f) /\ UNCHANGED actuator /\ NextRound("B", txbuf["B"])
           \/ Fault /\ Failed("B", f) /\ UNCHANGED actuator /\ Loop("B", txbuf["B"])
    /\ UNCHANGED <<outside, mode, gateway>>

\* CAN_POLL_MS without a frame: telemetry, over what is in the buffer.
Telemetry ==
    /\ On("B") /\ raw["B"] = <<>>
    /\ UNCHANGED <<outside, mode, secoc, raw, gateway, actuator>>
    /\ \/ NextRound("B", Secured("B", Report(changes)))
       \/ Fault /\ Loop("B", txbuf["B"])

-----------------------------------------------------------------------------
Toggle ==
    /\ changes < MaxChanges /\ changes' = changes + 1
    /\ UNCHANGED <<button, presses, mode, sync, secoc, txbuf, raw, gateway, actuator, faults>>

Press ==
    /\ ~button /\ presses < MaxPresses
    /\ button' = TRUE /\ presses' = presses + 1
    /\ UNCHANGED <<changes, mode, sync, secoc, txbuf, raw, gateway, actuator, faults>>

Release ==
    /\ button /\ button' = FALSE
    /\ UNCHANGED <<changes, presses, mode, sync, secoc, txbuf, raw, gateway, actuator, faults>>

CanTask == CanReceive \/ CanIdle
AppTask == AppReceive \/ AppSend \/ AppIdle
ActuatorTask == Actuate \/ Telemetry

BodyNext ==
    \/ Toggle \/ Press \/ Release
    \/ \E n \in Node : Start(n) \/ Deliver(n)
    \/ ResetGateway \/ ResetActuator
    \/ CanTask \/ AppTask \/ ActuatorTask

\* The tasks are scheduled and the bus works; the actuator comes up by itself.
Fairness ==
    /\ WF_bodyVars(CanTask) /\ WF_bodyVars(AppTask) /\ WF_bodyVars(ActuatorTask)
    /\ WF_bodyVars(Deliver("A")) /\ WF_bodyVars(Deliver("B"))
    /\ WF_bodyVars(Start("B"))

BodySpec == BodyInit /\ [][BodyNext]_bodyVars /\ Fairness
-----------------------------------------------------------------------------
(* Properties. *)

\* The light shows what the door was, and never an older door than before,
\* through overwritten buffers, full queues and restarts (can_task.c of both
\* nodes, bodyctl_step).
D == INSTANCE DoorLight
ShowsTheDoor == D!Spec

\* A node below whose floor the peer sends, and whose sync was overwritten, found a
\* full queue, was not verified or went down with the peer.
LeftDeaf(n) ==
    /\ On(n) /\ epoch[Peer(n)] < floor[n]
    /\ sync[n] /\ ~heard[n]
    /\ txbuf[n] = None \/ txbuf[n].id # "sync"
    /\ \A i \in 1 .. Len(raw[Peer(n)]) : raw[Peer(n)][i].id # "sync"

\* Once the door rests and the gateway stays up, the light comes to agree with
\* the door, whatever was dropped before (bodyctl.c's courtesy rule), unless a
\* boot sync was dropped and left a node deaf.
LightFollowsDoor ==
    \A k \in 0 .. MaxChanges :
        <>[](changes = k /\ On("A") /\ \A n \in Node : ~LeftDeaf(n))
            => <>[](light = IF k % 2 = 1 THEN 100 ELSE 0)
=============================================================================
