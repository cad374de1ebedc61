---------------------------- MODULE MCQueueBridge ----------------------------
(***************************************************************************)
(* A migration of four steps for TLC: two through the bridge, two raw, so  *)
(* that a bridged step can stand before, between and behind raw ones.      *)
(***************************************************************************)
EXTENDS QueueBridge

CONSTANTS b1, b2, r1, r2
=============================================================================
