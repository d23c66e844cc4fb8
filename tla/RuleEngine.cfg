SPECIFICATION Spec
CONSTANTS
  None = none
  Malformed = malformed
  Blank = "blank"
  Prose = "prose"
  Iso <- MCIso
  Normal <- MCNormal
  Instances <- MCInstances
  MaxEvaluations = 2
INVARIANTS
  TypeOK
  FindingsInOrder
  NoneSuppressed
  HtsFindingsExact
  OriginFindingsExact
  GatesNeverRefuse
  DocumentsOnlyHelp
CHECK_DEADLOCK FALSE
