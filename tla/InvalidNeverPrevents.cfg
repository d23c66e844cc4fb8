SPECIFICATION Spec
CONSTANTS
  None = none
  Malformed = malformed
  Blank = "blank"
  Prose = "prose"
  Iso <- MCIso
  Normal <- MCNormal
  Instances <- MCInstances
  MaxEvaluations = 2
INVARIANT
  InvalidNeverPrevents
CHECK_DEADLOCK FALSE
