SPECIFICATION LiveSpec
CONSTANTS
  p1 = p1
  h1 = h1
  h2 = h2
  h3 = h3
  NoPod = NoPod
  Pods = {p1}
  Handlers = {h1, h2, h3}
  NetMode = "netns"
  KubeletWaits = TRUE
  MaxFaults = 2
  MaxCrashes = 2
INVARIANT AnsweredKeepsNetwork
INVARIANT RunningHasNetwork
INVARIANT PodHasRoot
PROPERTY LeaseProperty
PROPERTY RemovalSucceeds
\* Ids are drawn once: when all are drawn and none was answered or listed, the
\* kubelet has nothing left to ask for.
CHECK_DEADLOCK FALSE
