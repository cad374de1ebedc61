SPECIFICATION Spec
CONSTANTS
  Process = {p1, p2}
  NoOne = NoOne
  Stale = Stale
  e1 = e1
  e2 = e2
  EntryId = {e1, e2}
  MaxEra = 2
  ThisChain = "0x1"
  Null = Null
  Missing = Missing
  Hash <- MCHash
  HashSpelling <- MCHashSpelling
  canonicalHash <- MCCanonicalHash
  ChainIdValue <- MCChainIdValue
  ChainIdSpelling <- MCChainIdValue
  canonicalChainId <- MCCanonicalChainId
  genesisOf <- MCGenesisOf
  firstOf <- MCFirstOf
  InitialFingerprints = {}
  InitialEntries = {}
  WipeMidRun = FALSE
PROPERTY
  RefusalNamesAnotherChain
