SPECIFICATION Spec
CONSTANTS
  p1 = p1
  h1 = h1
  h2 = h2
  NoPod = NoPod
  Pods = {p1}
  Handlers = {h1, h2}
  NetMode = "L3"
  KubeletWaits = TRUE
  MaxFaults = 0
  MaxCrashes = 0
PROPERTY DestroyAfterDel
CHECK_DEADLOCK FALSE
