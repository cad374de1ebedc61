SPECIFICATION Spec
CONSTANTS
  Box = Box
  BoxV2 = BoxV2
  Contracts = {Box, BoxV2}
  Migrations <- MCStandalone
CHECK_DEADLOCK FALSE
INVARIANTS
  FailedOperationsCanBeRerun
