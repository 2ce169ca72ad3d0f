CONSTANTS
  KEYBOARD_BUFFER_SIZE = 3
  COMMAND_BUFFER_SIZE = 5
  ROWS = 3
  COLUMNS = 3
  PromptLen = 1
  Letters = {"a"}
  Signs = {}
  ExitLine <- MCExitLine
  Space <- MCSpace
  INT_MAX = 127
  MaxOutput = 1
  MaxPresses = 5
SPECIFICATION Spec
INVARIANTS
  TypeOK
  NothingLost
  OrderWhenPolled
  CursorFollowsLine
  ScreenShowsLine
  LineOnScreen
  LinesReadAsWords
  NumbersReadBack
PROPERTIES
  Drained
