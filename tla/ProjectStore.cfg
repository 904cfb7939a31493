CONSTANTS
  s1 = s1
  s2 = s2
  own = own
  given = given
  d1 = d1
  d2 = d2
  r1 = r1
  NoFile = NoFile
  Stale = Stale
  Sources <- Sources2
  Names <- Names2
  OwnName = own
  Datas <- Datas2
  MaxExpId = 3
  Recipes <- Recipes1
  MaxActs = 7
  Faults <- Unlucky
SYMMETRY Symmetry
SPECIFICATION Spec
INVARIANTS
  ManifestMatchesGroups
  CleanTabIsOnDisk
  CopiesMatchArchive
  ExperimentIdsDistinct
  CleanExperimentIsOnDisk
PROPERTIES
  StoreIsAtomic
  SavedIsRestored
CHECK_DEADLOCK FALSE
