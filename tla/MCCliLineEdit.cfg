CONSTANTS
  Size = 6
  MaxHistory = 2
  MaxEntered = 1
  MaxSubmit = 1
  MaxLater = 3
  Ordinary = "A"
  Nul = Nul
  None = None
  Blank = " "
  Help = "?"
  Chars <- MCChars
  Names <- MCNames
  Completes <- MCCompletes
  QuitText <- MCQuit
  HistoryText <- MCHistoryText
  Histories <- MCHistories
SPECIFICATION Spec
INVARIANTS BufferIsLine ScreenShowsLine PasswordNotShown
PROPERTY EditorPromise
CHECK_DEADLOCK FALSE
