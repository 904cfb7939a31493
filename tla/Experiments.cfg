CONSTANTS
  f1 = f1
  f2 = f2
  s1 = s1
  e1 = e1
  e2 = e2
  NoTab = NoTab
  FileKeys <- Files0
  EmbeddedKeys <- Sources0
  ExpIds <- Exps2
  MaxEvents = 7
  Allowed <- Calm
SPECIFICATION Spec
INVARIANTS
  ExperimentsNeverLost
  CleanExperimentIsSaved
