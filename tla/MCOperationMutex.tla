--------------------------- MODULE MCOperationMutex ---------------------------
(***************************************************************************)
(* Small instances of OperationMutex for TLC: two deployers, so that a     *)
(* chain of calls can leave one and come back to it.  No symmetry: the     *)
(* run checks liveness as well.                                            *)
(***************************************************************************)
EXTENDS OperationMutex
===============================================================================
