CONSTANTS
  MaxArray = 0
  MaxOrdered = 0
  Letters = {1, 2}
  MaxText = 5
  MaxPattern = 4
  MaxOperators = 0
  CalculatorWidth = 1
  MaxDivided = 1
  SieveWidth = 2
  MaxJson = 0
  MaxNumber = 0
  MaxLibInfo = 0
SPECIFICATION Spec
INVARIANT
  MatchesAreFirst
CHECK_DEADLOCK FALSE
