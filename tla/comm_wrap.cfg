SPECIFICATION LateSpec
CONSTANTS
  IdMod = 6
  Payload = 2
  SndCap = 2
  RcvCap = 2
  Start = 3
  More = 6
  MaxBytes <- OneWayMore
  MaxCall = 2
  InitStored = {0}
INVARIANTS LinkInv ContentInv InOrderDelivery RetainedUntilRemoved FirstIsUnacked
PROPERTY NoTurningBack
