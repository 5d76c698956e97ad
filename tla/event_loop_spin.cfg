SPECIFICATION PolledSpec
CONSTANTS
  p1 = p1
  c1 = c1
  c2 = c2
  e1 = e1
  e2 = e2
  none = none
  Producers <- OneProducer
  Consumers <- OneConsumer
  Events <- TwoEvents
  NoEvent <- none
  Delays = {0, 1, 2, 3}
  Waits <- WaitForever
  Batches = {0, 1}
  Throwing <- OneThrower
  Calls = {"spin", "spin_once"}
  MaxTime = 3
INVARIANTS EarliestCovered
PROPERTIES SpinDrains  EventuallyPolled
