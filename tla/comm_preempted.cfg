SPECIFICATION PreSpec
CONSTANTS
  IdMod = 16
  Payload = 2
  SndCap = 2
  RcvCap = 1
  MaxBytes <- OneWay3
  MaxCall = 1
  InitStored = {0}
INVARIANT InOrderDelivery
