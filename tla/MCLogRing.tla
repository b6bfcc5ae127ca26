----------------------------- MODULE MCLogRing -----------------------------
(***************************************************************************)
(* LogRing for TLC: two producers, the lower of which has the priority of  *)
(* the log task, as the heartbeat of Node B.                               *)
(***************************************************************************)
EXTENDS LogRing, TLC

CONSTANTS can, hb, log

Priority == can :> 2 @@ hb :> 1 @@ log :> 1
=============================================================================
