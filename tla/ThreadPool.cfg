CONSTANTS
  t1 = t1
  t2 = t2
  t3 = t3
  w1 = w1
  w2 = w2
  w3 = w3
  Main = Main
  NoTask = NoTask
  Tasks <- ThreeTasks
  Workers <- ThreeWorkers
SPECIFICATION FairSpec
INVARIANTS
  NoLostWakeup
PROPERTIES
  KeepsPromise
  PromiseFulfilled
