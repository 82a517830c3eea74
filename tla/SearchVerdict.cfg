SPECIFICATION Spec
CONSTANTS
  Iterations = 3
  Width <- Widths
  Rest = 140
  Ramp = 80
  MaxThrust = 290
  Interval = 2
  Target = 5
  Seconds = 3
  SampleCap = 2
  SpeedCap = 2
  MayLose = FALSE
INVARIANTS
  VerdictTrue
CHECK_DEADLOCK FALSE
