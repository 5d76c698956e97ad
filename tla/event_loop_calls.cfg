SPECIFICATION Spec
CONSTANTS
  p1 = p1
  c1 = c1
  c2 = c2
  e1 = e1
  e2 = e2
  none = none
  Producers <- OneProducer
  Consumers <- TwoConsumers
  Events <- TwoEvents
  NoEvent <- none
  Delays = {0, 1}
  Waits <- MixedWaits
  Batches = {0, 1}
  Throwing <- OneThrower
  Calls = {"spin", "spin_once", "wait_for_events"}
  MaxTime = 1
INVARIANTS TypeOK OneHolder 
PROPERTIES ImplementsDelivery
SYMMETRY ConsumerSymmetry
