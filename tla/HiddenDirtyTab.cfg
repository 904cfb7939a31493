CONSTANTS
  f1 = f1
  f2 = f2
  s1 = s1
  e1 = e1
  e2 = e2
  NoTab = NoTab
  FileKeys <- Files1
  EmbeddedKeys <- Sources0
  ExpIds <- Exps1
  MaxEvents = 5
  Allowed <- Calm
SPECIFICATION Spec
INVARIANTS
  GoHomeFindsTabsClean
