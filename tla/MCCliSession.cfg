CONSTANTS
  None = None
  Commands <- MCCommands
  Accepts <- MCAccepts
  HelpWords <- MCHelpWords
  Lines <- MCLines
  QuitLine <- MCQuitLine
  HistoryLines <- MCHistoryLines
  Setups <- MCSetups
  FileCalls <- MCFileCalls
  MaxHistory = 2
SPECIFICATION Spec
INVARIANTS PrivilegeEarned LoginEarned ConfigIsPrivileged HistoryKeepsLast
CHECK_DEADLOCK FALSE
