SPECIFICATION FairSpec
CONSTANTS
  Op = {o1, o2, o3, o4}
  Host = {d1, d2}
  Unkeyed = Unkeyed
  Nobody = Nobody
CHECK_DEADLOCK FALSE
INVARIANTS
  CallOrder
PROPERTIES
  EveryCallSettles
  TakesTurns
