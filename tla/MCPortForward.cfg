SPECIFICATION Spec
CONSTANTS
  s1 = s1
  s2 = s2
  t1 = t1
  t2 = t2
  Host = Host
  NoNet = NoNet
  NoThread = NoThread
  Sessions = {s1, s2}
  Threads = {t1, t2}
  MaxData <- MCMaxData
  Modes <- MCModes
  MaxFaults = 1
INVARIANT FreeThreadsAtHome
INVARIANT ConnInPod
INVARIANT ResponseDelivered
PROPERTY NothingLeft
PROPERTY PodEndsSession
\* A session ends, or waits for its two ends.
CHECK_DEADLOCK FALSE
