CONSTANTS
  Process = {p1, p2}
  Scenarios <- OtherScenarios
  MaxTime = 4
SPECIFICATION Spec
SYMMETRY ProcessSymmetry
INVARIANT FetchTypeOK
INVARIANT OwnRefusalHasCause
INVARIANT LegacyUntouched
INVARIANT OutdatedStaysRefused
INVARIANT FetchTimeBacked
INVARIANT SingleFetchMeta
PROPERTY FetchTimeMonotone
CHECK_DEADLOCK FALSE
