CONSTANTS
  MaxArray = 0
  MaxOrdered = 3
  Letters = {1, 2}
  MaxText = 0
  MaxPattern = 0
  MaxOperators = 0
  CalculatorWidth = 1
  MaxDivided = 1
  SieveWidth = 2
  MaxJson = 0
  MaxNumber = 0
  MaxLibInfo = 0
SPECIFICATION Spec
INVARIANT
  SearchesAreFirst
CHECK_DEADLOCK FALSE
