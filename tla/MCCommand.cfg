CONSTANTS
  Parts = {"exec", "line", "setting", "program", "console"}
  CommandLines <- AllLines
  MaxCalls = 2
  TasksMayFail = TRUE
  MaxTokens = 3
  Programs = {p1, p2}
  MaxStarts = 3
  MaxEdits = 1
  MaxKills = 1
  Helpers = {"log", "view"}
  MaxTyped = 2
SPECIFICATION PartSpec
INVARIANTS
  RunsWhatWasAsked
  LineIsUnderstood
  SettingsAreSound
  VerdictIsTheChilds
PROPERTIES
  CallsEnd
  LinesAreRun
