---------------------------- MODULE ChainInstance ----------------------------
(***************************************************************************)
(* A chain instance, what the sidecar file beside the deployment record    *)
(* remembers of one, and the comparator between the two: the pure part of  *)
(* chain/instance.ts and of record/sidecar.ts, record/reconcile.ts.        *)
(*                                                                         *)
(* Hashes and chain ids are atoms.  The file holds spellings of them (any  *)
(* letter case, leading zeros on a chain id); the canonicalizers are       *)
(* functions from spellings to the value they spell.                       *)
(***************************************************************************)

CONSTANTS
  Hash,                \* block hashes, as the chain layer returns them
  HashSpelling,        \* what a file may hold for one
  canonicalHash,       \* [HashSpelling -> Hash]
  ChainIdValue,        \* chain ids, in minimal form
  ChainIdSpelling,     \* what a file may hold for one
  canonicalChainId,    \* [ChainIdSpelling -> ChainIdValue]
  Null,                \* "the chain has no block 1 yet", an explicit null
  Missing              \* the key is not in the file

ASSUME SpellingAssumption ==
  /\ Hash \subseteq HashSpelling
  /\ canonicalHash \in [HashSpelling -> Hash]
  /\ \A h \in Hash : canonicalHash[h] = h
  /\ ChainIdValue \subseteq ChainIdSpelling
  /\ canonicalChainId \in [ChainIdSpelling -> ChainIdValue]
  /\ \A c \in ChainIdValue : canonicalChainId[c] = c
  /\ {Null, Missing} \cap HashSpelling = {}
  /\ Null # Missing

-----------------------------------------------------------------------------

\* The answer of readChainInstanceIdentity: canonical, and complete except
\* that a chain may have no block 1 yet.
Identity ==
  [chainId : ChainIdValue, genesisHash : Hash, firstBlockHash : Hash \cup {Null}]

\* A usable sidecar.  A key that is not there is Missing; only the first
\* block's hash may be an explicit null.
RecordedFingerprint ==
  [chainId : ChainIdSpelling,
   genesisHash : HashSpelling \cup {Missing},
   firstBlockHash : HashSpelling \cup {Null, Missing}]

\* The verdicts of the comparator, each with its signal or its cause.
same == [kind |-> "same"]
changed(signal) == [kind |-> "changed", signal |-> signal]
indeterminate(because) == [kind |-> "indeterminate", because |-> because]

InstanceComparison ==
  {same}
    \cup {changed(s) : s \in {"chain-id", "genesis-hash", "first-block-hash"}}
    \cup {indeterminate(b) :
            b \in {"no-recorded-identity", "recorded-identity-incomplete"}}

\* fingerprintFor: what a session writes down for the identity it observed.
\* The null is explicit and the key is always present.
fingerprintFor(identity) ==
  [chainId |-> identity.chainId,
   genesisHash |-> identity.genesisHash,
   firstBlockHash |-> identity.firstBlockHash]

\* The record carries no first-block hash to compare.
firstBlockUndecided(observed) ==
  IF observed.firstBlockHash = Null
  THEN same
  ELSE indeterminate("recorded-identity-incomplete")

\* Mutant: the comparison stops at the genesis hash.
comparesUpToGenesis(recorded, observed) ==
  IF canonicalChainId[recorded.chainId] # observed.chainId
    THEN changed("chain-id")
  ELSE IF recorded.genesisHash = Missing
    THEN indeterminate("recorded-identity-incomplete")
  ELSE IF canonicalHash[recorded.genesisHash] # observed.genesisHash
    THEN changed("genesis-hash")
  ELSE same

\* compareChainInstance over a record that exists: chain id, genesis, block 1.
compareChainInstance(recorded, observed) ==
  IF canonicalChainId[recorded.chainId] # observed.chainId
    THEN changed("chain-id")
  ELSE IF recorded.genesisHash = Missing
    THEN indeterminate("recorded-identity-incomplete")
  ELSE IF canonicalHash[recorded.genesisHash] # observed.genesisHash
    THEN changed("genesis-hash")
  ELSE IF recorded.firstBlockHash = Missing
    THEN indeterminate("recorded-identity-incomplete")
  ELSE IF recorded.firstBlockHash = Null
    THEN firstBlockUndecided(observed)
  ELSE IF canonicalHash[recorded.firstBlockHash] # observed.firstBlockHash
    THEN changed("first-block-hash")
  ELSE same

\* compareChainInstance when there is no sidecar.
comparisonWithoutRecord == indeterminate("no-recorded-identity")

-----------------------------------------------------------------------------

\* A fingerprint that pins one chain instance: nothing missing, nothing null.
Complete(recorded) ==
  /\ recorded.genesisHash # Missing
  /\ recorded.firstBlockHash \notin {Null, Missing}
=============================================================================
