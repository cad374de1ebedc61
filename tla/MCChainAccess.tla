--------------------------- MODULE MCChainAccess ---------------------------
(* Two nodes of two networks behind one endpoint.                          *)
EXTENDS ChainAccess

CONSTANTS n1, n2

MCChainIdOf == n1 :> "0xa" @@ n2 :> "0xb"
MCGenesisOf == n1 :> "genesis a" @@ n2 :> "genesis b"
MCFirstOf == n1 :> "first a" @@ n2 :> "first b"
MCTailOf == "genesis a" :> "0xa" @@ "genesis b" :> "0xb"
=============================================================================
