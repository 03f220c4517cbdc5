CONSTANTS
  MaxArray = 4
  MaxOrdered = 4
  Letters = {1, 2}
  MaxText = 6
  MaxPattern = 4
  MaxOperators = 3
  CalculatorWidth = 4
  MaxDivided = 12
  SieveWidth = 10
  MaxJson = 5
  MaxNumber = 4
  MaxLibInfo = 5
SPECIFICATION Spec
INVARIANTS
  SortsAreSorted
  SearchesFind
  NotationsKeepTheTree
  NumbersAreRight
  TextsArrive
PROPERTIES
  GraphsAreGraphs
  FiltersNeverForget
CHECK_DEADLOCK FALSE
