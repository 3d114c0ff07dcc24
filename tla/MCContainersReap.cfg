SPECIFICATION Spec
CONSTANTS
  c1 = c1
  h1 = h1
  NoCnt = NoCnt
  Cnts = {c1}
  Handlers = {h1}
  MaxFaults = 0
  MaxCrashes = 1
INVARIANT ReapedIsReported
CHECK_DEADLOCK FALSE
