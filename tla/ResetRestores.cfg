SPECIFICATION Spec
CONSTANTS
  Servers = {s1}
  Commands = {c1}
  Releases = {"first"}
  Files <- MCFiles
  Needs <- MCNeeds
  Flagged <- MCFlagged
  Detected <- MCDetected
  Authors = {"first"}
  e1 = e1
  e2 = e2
  Entries = {e1, e2}
  Canonical = e1
  Closed = {e2}
  None = none
  MaxStarts = 2
PROPERTIES
  ResetRestores
CHECK_DEADLOCK FALSE
