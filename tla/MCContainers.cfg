SPECIFICATION Spec
CONSTANTS
  c1 = c1
  h1 = h1
  h2 = h2
  h3 = h3
  NoCnt = NoCnt
  Cnts = {c1}
  Handlers = {h1, h2, h3}
  MaxFaults = 1
  MaxCrashes = 1
SYMMETRY Symmetry
INVARIANT KnownIsComplete
INVARIANT RemovedIsGone
INVARIANT ContainerHasDir
INVARIANT StartedHasRun
PROPERTY ReapsOnlyExited
PROPERTY LifeProperty
\* An id is drawn once: a creation that fails leaves the kubelet nothing to ask.
CHECK_DEADLOCK FALSE
