------------------------------ MODULE NoteLedger ------------------------------
(***************************************************************************)
(* What an operation's notes promise its caller: they are what was said    *)
(* about the operation, in the order it was said, the first Cap of it word *)
(* for word and the rest as a count.                                       *)
(***************************************************************************)
EXTENDS Naturals, Sequences

CONSTANTS
  Channel,    \* the channels, one of each operation
  Note,       \* what can be said
  Cap,        \* how many notes a channel keeps
  Open, Lost  \* the operation has not ended; it failed and returned no notes

VARIABLES
  said,       \* of each channel, everything said
  handed      \* of each channel, what its caller was handed

ledgerVars == <<said, handed>>

kept(s) == SubSeq(s, 1, IF Len(s) < Cap THEN Len(s) ELSE Cap)

handOver(s) == [notes |-> kept(s), suppressed |-> Len(s) - Len(kept(s))]

LedgerInit ==
  /\ said = [c \in Channel |-> <<>>]
  /\ handed = [c \in Channel |-> Open]

Say(c) ==
  /\ handed[c] = Open
  /\ \E n \in Note : said' = [said EXCEPT ![c] = Append(@, n)]
  /\ UNCHANGED handed

End(c) ==
  /\ handed[c] = Open
  /\ handed' = [handed EXCEPT ![c] = handOver(said[c])] \/ handed' = [handed EXCEPT ![c] = Lost]
  /\ UNCHANGED said

LedgerSpec == LedgerInit /\ [][\E c \in Channel : Say(c) \/ End(c)]_ledgerVars
=============================================================================
