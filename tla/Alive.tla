------------------------------- MODULE Alive -------------------------------
(***************************************************************************)
(* The sign of life of a node: health_log_alive of Node A and              *)
(* heartbeat_log_alive of Node B, which the bench tells a node that        *)
(* refuses a frame from one that is dead by (REQ-LOG-009).  Their task     *)
(* calls them again and again; the tick count is 32 bits wide and wraps.   *)
(* Functions only: Log_proofs has what they promise.                       *)
(***************************************************************************)
EXTENDS Integers

AlivePeriod == 5000           \* ALIVE_PERIOD_MS, in ticks of a millisecond
TickMod == 65536 * 65536      \* TickType_t

\* xTaskGetTickCount, at the time t since the start.
TickCount(t) == t % TickMod

\* s_alive_started and s_alive_last, before the first call.
NotStarted == [started |-> FALSE, last |-> 0]

\* The difference is taken in unsigned arithmetic.
AliveDue(alive, t) ==
  alive.started => (TickCount(t) - alive.last) % TickMod >= AlivePeriod

\* What a call leaves: LOG_EVT_APP_ALIVE is logged exactly if it was due.
AliveAfter(alive, t) ==
  IF AliveDue(alive, t) THEN [started |-> TRUE, last |-> TickCount(t)] ELSE alive
=============================================================================
