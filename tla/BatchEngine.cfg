CONSTANTS
  d1 = d1
  d2 = d2
  f1 = f1
  f2 = f2
  NoData = NoData
  MaxBins = 1
  Sources <- TwoSources
  Files <- TwoFiles
  FileSets <- AllOrNone
  Recipes <- TwoRecipes
SPECIFICATION FairSpec
INVARIANTS
  RecipeFollowed
  TabsShowResult
PROPERTIES
  KeepsPromise
  UsesEverySpectrum
  BatchEnds
