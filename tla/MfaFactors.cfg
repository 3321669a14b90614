SPECIFICATION Spec
CONSTANTS
  b1 = b1
  b2 = b2
  s1 = s1
  s2 = s2
  Browsers <- TwoBrowsers
  Slots <- TwoSlots
  CodeCount = 1
  MaxSecrets = 2
  MaxBatches = 3
  MaxPosts = 5
SYMMETRY Symmetry
INVARIANTS TypeOK OneCodeOneUse NeverLockedOut OneBatch
CHECK_DEADLOCK FALSE
