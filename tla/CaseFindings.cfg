SPECIFICATION Spec
CONSTANTS
  DocTypes = {"INVOICE", "UNLISTED_DOCUMENT"}
  RawTypes = {"INVOICE", "UNLISTED_DOCUMENT"}
  Normal <- MCNormal
  UnlistedDoc = "UNLISTED_DOCUMENT"
  Users = {sam, pat}
  Nobody = nobody
  Justs = {"from40"}
  MaxRequested = 1
  MaxNamed = 2
  Cases = {c1}
  Rules = {"INVOICE", "LATE_ARRIVAL"}
  MissingOf <- MCMissingOf
  SeverityOf <- MCSeverityOf
  HighValue = {c1}
  AgeLimit = 0
  Supervisors = {sam}
  Actor = sam
  SeedStatuses = {"NEW", "CLEARED"}
  SeedOfficial = sam
  Keys = {}
  NoKey = nokey
  BlankKeys = {}
  NoVersion = noversion
  Watched = {c1}
  Arriving = {}
  Leavers = {pat}
  ClockSteps <- MonotoneClock
  MaxTime = 1
  MaxActions = 1
  MaxEvaluations = 3
INVARIANTS
  TypeOK
  OpenAreCurrent
  ProjectionAgrees
  PriorityExplained
  FirstDetectionCarried
  ClearedByDecision
PROPERTIES
  DecisionsStand
  UnseenAreSimultaneous
  ImplementsLifecycle
CHECK_DEADLOCK FALSE
