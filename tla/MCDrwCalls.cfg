\* Three calls; the server dies twice and may return each time.
SPECIFICATION Spec
CONSTANTS
  Commands <- MCCommands
  RETRIES = 3
  MaxCalls = 3
  MaxCrashes = 2
INVARIANTS
  TypeOK
PROPERTIES
  CallsAtMostOnce
  CallsEndUnlessCut
  QuietCallsAreAnswered
CHECK_DEADLOCK FALSE
