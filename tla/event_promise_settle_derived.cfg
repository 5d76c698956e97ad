SPECIFICATION Spec
CONSTANTS
  p1 = p1
  p2 = p2
  p3 = p3
  p4 = p4
  a = a
  b = b
  none = none
  novalue = novalue
  Promises <- ThreePromises
  NoPromise <- none
  Values <- OneValue
  NoValue <- novalue
  Usage = {"settle_derived"}
PROPERTIES Immutable
CHECK_DEADLOCK FALSE
