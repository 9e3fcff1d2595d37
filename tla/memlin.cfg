SPECIFICATION Spec
CONSTANTS
  Buffers = {3, 7, 8, 10, 11, 15, 16, 17, 24, 25, 28}
  Mods <- SmallMods
  MetaSizes <- HeaderSizes
  Requests = {0, 1, 2, 3, 5, 9, 11, 20, 30}
  MaxBlocks = 3
INVARIANTS TypeOK FitsBuffer HeaderWhole RefusesIffFull
