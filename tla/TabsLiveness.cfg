CONSTANTS
  f1 = f1
  f2 = f2
  s1 = s1
  e1 = e1
  e2 = e2
  NoTab = NoTab
  FileKeys <- Files2
  EmbeddedKeys <- Sources0
  ExpIds <- Exps0
  MaxEvents = 6
  Allowed <- Impatience
SPECIFICATION FairSpec
PROPERTIES
  SaveAllEnds
  DeferredCloseResolves
