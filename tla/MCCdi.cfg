\* One call; every root with at most two of four symlinks, two mounts, two kinds.
SPECIFICATION LiveSpec
CONSTANTS
  Jobs <- MCJobs
  Names <- MCNames
  Kinds <- MCKinds
  Devices <- MCDevices
  NoDevice = NoDevice
  MaxSymlinks = 3
  MaxFaults = 2
  MaxCrashes = 1
INVARIANTS
  TargetsAreNoLinks
  OneMountPerTarget
  VolumesHandedOver
  HooksInOrder
  EditsAsRequested
  ResolvesAsInRoot
PROPERTIES
  NearerTheEnd
  CreateEnds
CHECK_DEADLOCK FALSE
