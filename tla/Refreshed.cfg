SPECIFICATION Spec
CONSTANTS
  DocTypes = {"INVOICE", "UNLISTED_DOCUMENT"}
  RawTypes = {"INVOICE", "UNLISTED_DOCUMENT"}
  Normal <- MCNormal
  UnlistedDoc = "UNLISTED_DOCUMENT"
  Users = {}
  Nobody = nobody
  Justs = {"from10", "from40"}
  MaxRequested = 2
  MaxNamed = 1
  None = none
  Asked = asked
  Findings = {x1}
  Missing = {"INVOICE"}
  Seeded = {"NEW"}
  Choices = {"REQUEST_INFORMATION", "CLEAR_EXCEPTION"}
  OtherChoices = {"CLEAR_EXCEPTION", "PLACE_ON_HOLD"}
  Fillings <- MCFillings
  MaxSubmits = 2
  MaxOthers = 1
  MaxFocus = 1
PROPERTIES
  Refreshed
CHECK_DEADLOCK FALSE
