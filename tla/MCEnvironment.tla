---------------------------- MODULE MCEnvironment ----------------------------
(* What the operations ask for, each slot alone, and everything as an option. *)
EXTENDS Environment

ValidateOnly == {"paths", "network", "artifacts", "output", "compiler"}
StateChanging == ValidateOnly \cup {"chain", "receipts"}

MCRequests ==
  {[required |-> StateChanging, optional |-> {"scheduling"}],
   [required |-> ValidateOnly, optional |-> {}],
   [required |-> {"chain"}, optional |-> Slots \ {"chain"}]}
  \cup {[required |-> {slot}, optional |-> {}] : slot \in Slots}

==============================================================================
