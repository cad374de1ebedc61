SPECIFICATION Spec
CONSTANTS
  Box = Box
  BoxV2 = BoxV2
  Contracts = {Box, BoxV2}
  Migrations <- MCShort
CHECK_DEADLOCK FALSE
INVARIANTS
  ConfirmedWritesAreNamed
