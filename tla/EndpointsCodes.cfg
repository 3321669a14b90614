SPECIFICATION Spec
CONSTANTS
  e1 = e1
  e2 = e2
  s1 = s1
  s2 = s2
  Endpoints <- TwoEndpoints
  Slots <- TwoSlots
  Limit = 1
  MaxCodes = 3
  MaxPosts = 3
SYMMETRY Symmetry
INVARIANTS TypeOK TriesBounded OldCodeDead RightCodeWorks
CHECK_DEADLOCK FALSE
