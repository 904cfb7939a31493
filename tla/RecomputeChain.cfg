CONSTANTS
  v1 = v1
  v2 = v2
  NoData = NoData
  Selections <- TwoSelections
SPECIFICATION FairSpec
INVARIANTS
  OncePerRequest
  StdMatchesReference
PROPERTIES
  ChainClearsStaleness
  ChainEnds
