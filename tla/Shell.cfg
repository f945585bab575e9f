CONSTANTS
  VGA_WIDTH = 4
  VGA_HEIGHT = 3
  SHELL_BUFFER_SIZE = 5
  SHELL_HISTORY_SIZE = 2
  Keys = {"e", "space", "enter", "backspace", "esc", "lshift", "capslock"}
  MaxLines = 3
  MaxTyped = 5
SPECIFICATION Spec
INVARIANT TypeOK
INVARIANT LineShown
INVARIANT BlankAhead
INVARIANT HistoryIsTail
PROPERTY EditKeepsOutput
