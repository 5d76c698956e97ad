SPECIFICATION Spec
CONSTANTS
  p1 = p1
  c1 = c1
  c2 = c2
  e1 = e1
  e2 = e2
  none = none
  Producers <- OneProducer
  Consumers <- TwoConsumers
  Events <- TwoEvents
  NoEvent <- none
  Delays = {0, 1, 2}
  Waits <- WaitForever
  Batches = {0}
  Throwing = {}
  Calls = {"spin"}
  MaxTime = 2
PROPERTIES SpinDrains
