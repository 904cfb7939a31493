CONSTANTS
  f1 = f1
  f2 = f2
  s1 = s1
  e1 = e1
  e2 = e2
  NoTab = NoTab
  FileKeys <- Files2
  EmbeddedKeys <- Sources1
  ExpIds <- Exps0
  MaxEvents = 7
  Allowed <- DiskFaults
SPECIFICATION Spec
INVARIANTS
  TypeOK
  PromptShowsTabBeingClosed
  GoHomeFindsTabsClean
  TabCloseKeepsChanges
  ExitKeepsChanges
PROPERTIES
  StaleDropAskedBySaves
