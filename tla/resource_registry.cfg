SPECIFICATION FairSpec
CONSTANTS
  c1 = c1
  c2 = c2
  m = m
  n = n
  l1 = l1
  l2 = l2
  x1 = x1
  x2 = x2
  none = none
  Callers <- TwoCallers
  Names <- TwoNames
  Loads <- TwoLoads
  Addresses <- TwoAddresses
  Nothing <- none
  Needs <- MNeedsN
INVARIANTS TypeOK LoadingExact InverseAgrees
PROPERTIES ReplacesOnlyOverlapped EveryCallAnswered
CHECK_DEADLOCK FALSE
