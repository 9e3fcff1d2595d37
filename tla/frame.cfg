SPECIFICATION FairSpec
CONSTANTS
  WindowSize = 3
  Packets = {p1, p2}
  Dropped = dropped
  LineSize = 5
  Cuts = TRUE
  MaxSends = 3
  MaxShort = 2
  MaxLost = 2
  MaxChanged = 1
INVARIANTS TypeOK BytesAccounted InStep OrderKept InPlace
PROPERTY AlignedArrives
