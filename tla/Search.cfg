SPECIFICATION LiveSpec
CONSTANTS
  Iterations = 3
  Width <- Widths
  Rest = 140
  Ramp = 80
  MaxThrust = 220
  Interval = 2
  Target = 5
  Seconds = 8
  SampleCap = 2
  SpeedCap = 2
  MayLose = TRUE
INVARIANTS
  Bisection
  HonestResult
PROPERTIES
  SearchEnds
CHECK_DEADLOCK FALSE
