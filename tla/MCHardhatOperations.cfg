CHECK_DEADLOCK FALSE
SPECIFICATION Spec
CONSTANTS
  Contracts <- MCContracts
  Upgradeable <- MCUpgradeable
  Projects <- MCProjects
INVARIANTS
  LostProxiesAreRecoverable
PROPERTIES
  NoLostEntries
  RecordedKindGoverns
  ImplementationsAreReused
