SPECIFICATION Spec
CONSTANTS
  IdMod = 16
  Payload = 2
  SndCap = 2
  RcvCap = 1
  MaxBytes <- OneWay2
  MaxCall = 2
  InitStored = {0, 1, 2}
INVARIANT InOrderDelivery
