SPECIFICATION Spec
CONSTANTS
  p1 = p1
  p2 = p2
  p3 = p3
  p4 = p4
  a = a
  b = b
  none = none
  novalue = novalue
  Promises <- FourPromises
  NoPromise <- none
  Values <- TwoValues
  NoValue <- novalue
  Usage = {"fan_out", "cycle"}
INVARIANTS TypeOK HandedOnce PendingHasCause AdoptionAgrees FinallyTransparent
PROPERTIES Immutable
SYMMETRY Symmetry
CHECK_DEADLOCK FALSE
