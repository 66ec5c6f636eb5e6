\* A source of three frames of any kind, through channels of one place.
SPECIFICATION PlaybackSpec
CONSTANTS
  PushCap = 1
  PipeCap = 1
  ShowCap = 1
  TargetDelay = 1
  JumpReset = 2
  LastFrame = 3
  MaxFaults = 1
  MaxTime = 1
CHECK_DEADLOCK FALSE
INVARIANT PacedRight
PROPERTY StopEnds
