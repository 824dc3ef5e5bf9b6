SPECIFICATION LibrarySpec
CONSTANTS
  Keys = {a, b}
  MaxTokens = 3
  RefillRate = 2
  RefillInterval = 2
  MaxTime = 6
  Configs <- SomeConfigs
  Source <- Record
  New <- NewObjects
  SourceFields <- Columns
  TargetFields <- Wanted
  Scores <- SomeScores
  Docs <- SomeDocs
INVARIANT ItemsInPacks
CHECK_DEADLOCK FALSE
