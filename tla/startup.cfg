SPECIFICATION FairSpec
CHECK_DEADLOCK FALSE
INVARIANTS
  RightBank
  InOrder
  NoReplay
  RetryIsClean
  HotplugHonest
PROPERTY SetupEnds
