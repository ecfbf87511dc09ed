CONSTANTS
  MEM_SIZE = 120
  HDR = 8
  MIN = 12
  ALIGN = 4
  Sizes = {10, 17, 38}
SPECIFICATION Spec
INVARIANTS
  TypeOK
  OwnersKeepTheirBlocks
  NoAdjacentHoles
  RemaindersUsable
  LfreeIsLowest
  FailsOnlyIfFull
