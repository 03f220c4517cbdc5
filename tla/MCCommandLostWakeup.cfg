CONSTANTS
  Parts = {"exec"}
  CommandLines <- AllLines
  MaxCalls = 1
  TasksMayFail = FALSE
  MaxTokens = 0
  Programs = {p1}
  MaxStarts = 0
  MaxEdits = 0
  MaxKills = 0
  Helpers = {}
  MaxTyped = 0
SPECIFICATION PartSpec
PROPERTIES
  ExecuteReturns
