SPECIFICATION Spec
CONSTANTS
  Streams = {"stdout", "stderr"}
  NoStream = "none"
  Codes = {0}
  MaxItems <- MCOneItem
  PipeSize = 1
  BufSize = 1
  MaxFaults = 0
INVARIANT AllLogged
CHECK_DEADLOCK FALSE
