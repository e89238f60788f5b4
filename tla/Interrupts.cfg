CONSTANTS
  StartTimes <- MCStartTimes
  MaxSeconds = 1
SPECIFICATION Spec
INVARIANTS
  TimeIsRecent
  NoRequestForgotten
  NothingLeftInService
  HaltsOnlyWithoutGate
PROPERTIES
  RequestsServed
