SPECIFICATION FairSpec
CONSTANTS
  main = main
  w1 = w1
  w2 = w2
  t1 = t1
  t2 = t2
  t3 = t3
  t4 = t4
  none = none
  Workers <- TwoWorkers
  Owner <- main
  Tasks <- FourTasks
  NoTask <- none
INVARIANTS TypeOK NoIdleWorker DestructorWaits
PROPERTIES EveryTaskEnds DestructorReturns
CHECK_DEADLOCK FALSE
