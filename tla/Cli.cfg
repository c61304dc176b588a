\* The shell may have been closed, and the user may type nothing.
SPECIFICATION CliSpec
CONSTANTS
  Keys = {"k1"}
  Lines <- MCLines
  MaxCommands = 4
  MaxPmem = 1
  MaxOff = 1
INVARIANTS OnlyLateCallbacksDangle ReportedOnce
PROPERTIES PromptReturns
CHECK_DEADLOCK FALSE
