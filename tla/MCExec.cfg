\* One call of any kind, with and without stdin.
SPECIFICATION LiveSpec
CONSTANTS
  c1 = c1
  Calls = {c1}
  Kinds <- MCKinds
  PipeSize = 2
  TailSize = 2
  MaxOut = 3
  MaxFaults = 2
  MaxCrashes = 1
INVARIANTS
  TypeOK
  GoneAtReturn
  SyncAnswerIsFinal
PROPERTIES
  GoesInTheEnd
  CallEnds
  OutputFlows
CHECK_DEADLOCK FALSE
