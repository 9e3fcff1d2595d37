SPECIFICATION Spec
CONSTANTS
  IdMod = 16
  Payload = 2
  SndCap = 2
  RcvCap = 1
  MaxBytes <- ThreeAndOne
  MaxCall = 3
  InitStored = {0}
INVARIANTS
  TypeOK
  LinkInv
  ContentInv
  InOrderDelivery
  AckedIsReceived
  OneContentPerId
  WriteTakesAll
  FlushedIsReceived
