CONSTANTS
  f1 = f1
  f2 = f2
  s1 = s1
  s2 = s2
  cm = cm
  um = um
  Garbage = Garbage
  NoData = NoData
  DefaultUnit = cm
  Enough = 1
  Files <- TwoFiles
  Settings <- TwoSettings
  Units <- TwoUnits
SPECIFICATION FairSpec
INVARIANTS
  OneUnit
  CompleteAverage
PROPERTIES
  KeepsPromise
  PromiseFulfilled
