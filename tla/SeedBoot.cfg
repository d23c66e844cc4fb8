SPECIFICATION Spec
CONSTANTS
  Servers = {s1, s2}
  Commands = {c1}
  Releases = {"first", "second", "edited", "broken"}
  Files <- MCFiles
  Needs <- MCNeeds
  Flagged <- MCFlagged
  Detected <- MCDetected
  Authors = {"first", "second", "edited"}
  e1 = e1
  e2 = e2
  Entries = {e1, e2}
  Canonical = e1
  Closed = {e2}
  None = none
  MaxStarts = 3
INVARIANTS
  TypeOK
  ServingIsReady
  DemoIsReal
PROPERTIES
  ImplementsDemoData
  Recovers
CHECK_DEADLOCK FALSE
