SPECIFICATION Spec
CONSTANTS
  DocTypes = {"INVOICE", "UNLISTED_DOCUMENT"}
  RawTypes = {"INVOICE", "invoice", "UNLISTED_DOCUMENT"}
  Normal <- MCNormal
  UnlistedDoc = "UNLISTED_DOCUMENT"
  Users = {sam}
  Nobody = nobody
  Justs = {"from40"}
  MaxRequested = 2
  MaxNamed = 1
  Cases = {c1}
  Rules = {"INVOICE"}
  MissingOf <- MCMissingOf
  SeverityOf <- MCSeverityOf
  HighValue = {}
  AgeLimit = 1
  Supervisors = {sam}
  Actor = sam
  SeedStatuses = {"NEW"}
  SeedOfficial = sam
  Keys = {k1}
  NoKey = nokey
  BlankKeys = {}
  NoVersion = noversion
  Watched = {}
  Arriving = {"INVOICE"}
  Leavers = {}
  ClockSteps <- MonotoneClock
  MaxTime = 1
  MaxActions = 3
  MaxEvaluations = 1
INVARIANTS
  NoDuplicateRequest
  OutstandingAcknowledged
  OffersHold
  HistoryConnected
  KeysRecordActions
PROPERTIES
  UnseenAreSimultaneous
  ImplementsLifecycle
CHECK_DEADLOCK FALSE
