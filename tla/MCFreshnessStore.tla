-------------------------- MODULE MCFreshnessStore --------------------------
(* A store with two epoch values beside the initial one and four saves. *)
EXTENDS FreshnessStore

MCEpoch == 0..2
=============================================================================
