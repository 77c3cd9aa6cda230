SPECIFICATION WinSpec
CONSTANTS
  NUM_WIN = 3
  NUM_ORECT = 8
  gl_width = 7
  gl_height = 8
  gl_wbox = 2
  gl_hbox = 2
  DROP_SIZE = 1
  Kinds <- KindsNS
  Places <- PlacesHere
  Dialogs <- DialogsHere
  Lengths = {0}
  Names = {"", "a"}
INVARIANTS RectsDivide ScreenShows FindsShown
