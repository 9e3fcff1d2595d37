SPECIFICATION FairSpec
CONSTANTS
  IdMod = 16
  Payload = 1
  SndCap = 2
  RcvCap = 1
  MaxBytes <- OneWay2
  MaxCall = 1
  InitStored = {0}
PROPERTY AcceptedIsDelivered
