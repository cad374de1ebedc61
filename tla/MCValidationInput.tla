-------------------------- MODULE MCValidationInput --------------------------
(* Two files that may declare Box, one base; texts as small as the causes need. *)
EXTENDS ValidationInput

CONSTANTS Box, Base, Moved,
          v1, v2, flat, iface, linked, ctor, over, bad, base1, base2, moved

MCTextsOf ==
  [k \in Key |->
     CASE k = Box -> {v1, v2, flat, iface, linked, ctor, over, bad, Missing}
       [] k = Base -> {base1, base2, Unreadable}
       [] k = Moved -> {moved, Missing}]

MCImports ==
  [t \in Text |->
     CASE t \in {v1, v2, linked, ctor, over} -> <<Base>>
       [] t = bad -> <<Base, Outside>>
       [] OTHER -> <<>>]

\* v2 is v1 with another comment, ctor is v1 with a library in its constructor.
MCBody == [t \in Text |-> IF t \in {v2, ctor} THEN v1 ELSE t]

MCFirstDisks ==
  {[k \in Key |-> CASE k = Box -> t [] k = Base -> base1 [] k = Moved -> Missing] :
     t \in {v1, linked}}

\* The metadata hash on and off, a TronBox too old, a compiler out of range.
MCHosts ==
  {[metadata |-> TRUE, fields |-> TRUE, supported |-> TRUE],
   [metadata |-> FALSE, fields |-> TRUE, supported |-> TRUE],
   [metadata |-> TRUE, fields |-> FALSE, supported |-> TRUE],
   [metadata |-> TRUE, fields |-> TRUE, supported |-> FALSE]}
==============================================================================
