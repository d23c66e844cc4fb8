SPECIFICATION Spec
CONSTANTS
  DocTypes = {"INVOICE", "UNLISTED_DOCUMENT"}
  RawTypes = {"INVOICE", "UNLISTED_DOCUMENT"}
  Normal <- MCNormal
  UnlistedDoc = "UNLISTED_DOCUMENT"
  Users = {sam}
  Nobody = nobody
  Justs = {"from40"}
  MaxRequested = 2
  MaxNamed = 2
  Cases = {c1}
  Rules = {"LATE_ARRIVAL"}
  MissingOf <- MCMissingOf
  SeverityOf <- MCSeverityOf
  HighValue = {c1}
  AgeLimit = 1
  Supervisors = {sam}
  Actor = sam
  SeedStatuses = {"NEW"}
  SeedOfficial = sam
  Keys = {}
  NoKey = nokey
  BlankKeys = {}
  NoVersion = noversion
  Watched = {c1}
  Arriving = {}
  Leavers = {}
  ClockSteps <- MonotoneClock
  MaxTime = 1
  MaxActions = 2
  MaxEvaluations = 2
PROPERTIES
  NoLostUpdate
CHECK_DEADLOCK FALSE
