--------------------------- MODULE MCRecordSession ---------------------------
(***************************************************************************)
(* Small instances of RecordSession for TLC: a disposable node whose       *)
(* genesis survives a wipe (TRE), so only block 1 tells its eras apart.    *)
(***************************************************************************)
EXTENDS RecordSession, TLC

CONSTANTS e1, e2

\* Spellings: the genesis hash has a second one, an uppercase copy.
MCHash == {"genesis", "first1", "first2"}
MCHashSpelling == MCHash \cup {"GENESIS"}
MCCanonicalHash ==
  [s \in MCHashSpelling |-> IF s = "GENESIS" THEN "genesis" ELSE s]

MCChainIdValue == {"0x1", "0x2"}
MCCanonicalChainId == [c \in MCChainIdValue |-> c]

MCGenesisOf == [i \in 1..MaxEra |-> "genesis"]
MCFirstOf == [i \in 1..MaxEra |-> IF i = 1 THEN "first1" ELSE "first2"]

\* Left by an older version: a sidecar that never recorded block 1, respelled,
\* and one copied from another network.
MCInitialFingerprints ==
  {[chainId |-> "0x1", genesisHash |-> "GENESIS", firstBlockHash |-> Missing],
   [chainId |-> "0x2", genesisHash |-> "genesis", firstBlockHash |-> Missing]}

MCInitialEntries ==
  {[id |-> e1, kind |-> "proxy", form |-> "legacy", era |-> 1]}
=============================================================================
