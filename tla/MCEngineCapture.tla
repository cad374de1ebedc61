--------------------------- MODULE MCEngineCapture ---------------------------
(* Two operations, of each of which one thing more is said than its channel keeps. *)
EXTENDS EngineCapture, TLC

\* No channel is treated unlike another, and every property is one of single steps.
Operations == Permutations(Channel)
==============================================================================
