SPECIFICATION Spec
CONSTANTS
  Iterations = 2
  Width <- Widths
  Rest = 140
  Ramp = 10
  MaxThrust = 300
  Interval = 5
  Target = 1
  Seconds = 6
  SampleCap = 1
  SpeedCap = 1
  MayLose = FALSE
INVARIANTS
  ThrustAllowed
CHECK_DEADLOCK FALSE
