SPECIFICATION FairSpec
CONSTANTS
  b1 = b1
  b2 = b2
  r1 = r1
  r2 = r2
  Step = {b1, b2, r1, r2}
  Bridged = {b1, b2}
CHECK_DEADLOCK FALSE
INVARIANTS
  TypeOK
  AnswersForItsStep
  NothingRunsPastFailure
PROPERTIES
  EveryCallerLearns
