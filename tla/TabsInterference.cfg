CONSTANTS
  f1 = f1
  f2 = f2
  s1 = s1
  e1 = e1
  e2 = e2
  NoTab = NoTab
  FileKeys <- Files2
  EmbeddedKeys <- Sources1
  ExpIds <- Exps1
  MaxEvents = 6
  Allowed <- Interference
SPECIFICATION Spec
INVARIANTS
  ActiveConsistent
  QueuesInRange
  OpenLandsInItsTab
  WaitingHasPrompt
