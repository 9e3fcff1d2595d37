SPECIFICATION FairSpec
CONSTANTS
  HeaderSize = 2
  SizeMod = 4
  PoolSize = 4
  Segment = 2
  LinkCapacity = 4
  MsgIds = {1, 2}
  IdsCapacity = 2
  Sizes = {0, 2, 3}
  MaxMessages = 2
  TimesOut = TRUE
INVARIANTS TypeOK IntactUntilCut MessageInv
PROPERTIES CallsSubscriber EveryMessageHandled
