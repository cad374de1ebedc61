\* The migrations of MCMigrations.
SPECIFICATION Spec
CONSTANTS
  Box = Box
  BoxV2 = BoxV2
  Contracts = {Box, BoxV2}
  Migrations <- MCMigrations
SYMMETRY Versions
CHECK_DEADLOCK FALSE
INVARIANTS
  LiveProxiesAreAccountedFor
  RecordedProxiesAreReal
  UpgradesReplaceWhatTheyChecked
  OwnWritesAreVouchedFor
  ImplementationsAreReused
  RecordedProxiesHaveLayouts
  TransfersHold
PROPERTIES
  FailureLeavesArtifact
