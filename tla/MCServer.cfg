\* Two requests, two rotations, one fault, one crash.
SPECIFICATION LiveSpec
CONSTANTS
  r1 = r1
  r2 = r2
  Requests = {r1, r2}
  MaxRotates = 2
  MaxFaults = 1
  MaxCrashes = 1
INVARIANTS
  SinkFollowsPath
  SinkIsOpen
  StopAnswersAll
PROPERTIES
  ServesAgain
  StopEnds
CHECK_DEADLOCK FALSE
