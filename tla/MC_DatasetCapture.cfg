CONSTANTS
  Sources = {go2, realsense}
  QueueSize = 2
  ScanLimit = 2
  MaxSamples = 3
  MaxStarts = 2
  MaxCrashes = 2
  MaxFaults = 2
  go2 = go2
  realsense = realsense
SPECIFICATION Spec
CHECK_DEADLOCK FALSE
INVARIANTS
  CrashIsRecoverable
  CompletedIsDrained
  InactiveHoldsNoCamera
PROPERTY
  StopEnds
