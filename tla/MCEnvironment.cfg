SPECIFICATION Spec
CONSTANTS
  Undefined = Undefined
  Missing = Missing
  Threw = Threw
  Junk = Junk
  Nullish = Nullish
  Falsy = Falsy
  Fails = Fails
  Requests <- MCRequests
  MaxFaults = 2
CHECK_DEADLOCK FALSE
INVARIANTS
  NoPreference
  DiagnosesAreTrue
  TableIsTrue
