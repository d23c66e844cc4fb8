SPECIFICATION Spec
CONSTANTS
  Cases = {1, 2, 3, 4}
  None = none
  DefaultSize = 2
  MaxSize = 4
  Tables <- MCTables
  Writes <- MCWrites
  Bookmarks <- MCBookmarks
  Controls <- MCControls
  MaxClicks = 2
  MaxWrites = 0
PROPERTIES
  NextAdvances
CHECK_DEADLOCK FALSE
