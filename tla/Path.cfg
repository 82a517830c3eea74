SPECIFICATION PathLive
CONSTANTS
  Speeds <- GuidanceSpeeds
  Leds <- NoLeds
  QueueCap = 2
  MaxFaults = 1
  Iterations = 2
  Width <- Widths
  Rest = 140
  Ramp = 80
  MaxThrust = 200
  Interval = 1
  Target = 3
  Seconds = 2
  SampleCap = 1
INVARIANTS
  Followed
PROPERTIES
  StopReaches
CHECK_DEADLOCK FALSE
