\* Two callers on one ChainAccess over nodes of two networks.
SPECIFICATION FairSpec
CONSTANTS
  n1 = n1
  n2 = n2
  Node = {n1, n2}
  Deployed = {n1}
  chainIdOf <- MCChainIdOf
  genesisOf <- MCGenesisOf
  firstOf <- MCFirstOf
  tailOf <- MCTailOf
  Implementation = {"i1", "i2"}
  Caller = {c1, c2}
  MaxChanges = 2
  NoOne = NoOne
CHECK_DEADLOCK FALSE
INVARIANTS
  AnswersAreTrue
  IdentityIsOneNetwork
PROPERTIES
  OnlyTheChosenEndpoint
  EveryReadSettles
