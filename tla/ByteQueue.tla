------------------------------ MODULE ByteQueue ------------------------------
(***************************************************************************)
(* What the log channel promises about bytes (REQ-LOG-005, REQ-LOG-006 of  *)
(* docs/requirements/logging.md): producers append whole messages or       *)
(* nothing, never more than fits; the sink is handed the oldest bytes, in  *)
(* order, each once; no byte leaves in another way.                        *)
(***************************************************************************)
EXTENDS Naturals, Sequences

CONSTANTS
  Cap,           \* the queue holds this many units
  IsMessage(_),  \* the sequences of units a producer may append
  Start          \* what may be queued at the start

VARIABLES
  queue,    \* what the sink has not been handed
  handed    \* the last piece it was handed

vars == <<queue, handed>>

Init ==
  /\ queue \in Start
  /\ handed = <<>>

Enqueue ==
  /\ Len(queue') <= Cap /\ Len(queue') > Len(queue)
  /\ SubSeq(queue', 1, Len(queue)) = queue
  /\ IsMessage(SubSeq(queue', Len(queue) + 1, Len(queue')))
  /\ UNCHANGED handed

HandOver(n) ==
  /\ handed' = SubSeq(queue, 1, n)
  /\ queue' = SubSeq(queue, n + 1, Len(queue))

Next == Enqueue \/ \E n \in 1..Len(queue) : HandOver(n)

Spec == Init /\ [][Next]_vars
=============================================================================
