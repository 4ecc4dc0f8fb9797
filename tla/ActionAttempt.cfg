SPECIFICATION FairSpec
INVARIANTS
  TypeOK
  JoinedOnce
  ResultDelivered
  ErrorIsTrue
PROPERTIES
  AttemptReplaced
CHECK_DEADLOCK FALSE
