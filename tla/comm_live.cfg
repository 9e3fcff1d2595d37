SPECIFICATION FairSpec
CONSTANTS
  IdMod = 16
  Payload = 2
  SndCap = 2
  RcvCap = 2
  MaxBytes <- OneWay2
  MaxCall = 2
  InitStored = {0}
PROPERTIES ImplementsStream StampedIsRemoved StampedIsDelivered
