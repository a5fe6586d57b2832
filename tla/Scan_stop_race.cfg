SPECIFICATION Spec
CONSTANTS
  MaxDone = 1
  MaxList = 1
INVARIANT NoSurveyAfterStop
CHECK_DEADLOCK FALSE
