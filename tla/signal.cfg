SPECIFICATION Spec
CONSTANTS
  c1 = c1
  c2 = c2
  c3 = c3
  none = none
  Conns <- ThreeConns
  Nothing <- none
  MaxDepth = 2
INVARIANTS TypeOK IndexExact EmptyIsDirty
PROPERTIES ImplementsDelivery
CHECK_DEADLOCK FALSE
