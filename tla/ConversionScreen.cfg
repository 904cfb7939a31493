CONSTANTS
  p1 = p1
  p2 = p2
  NoPath = NoPath
  Paths <- TwoPaths
SPECIFICATION FairSpec
INVARIANTS
  NeverTerminates
  ModalOutlivesJobs
PROPERTIES
  Joined
