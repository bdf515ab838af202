CONSTANTS
  Key <- OneKey
  Width = 2
  Element <- TwoElements
  Score <- TwoScores
  MaxArgs = 2
  MaxList = 3
  MaxTypes = 2
SPECIFICATION Spec
INVARIANTS TypeOK ZSetSorted RangeExact
PROPERTIES OtherTypesKept CountsExact CollectionsExact
