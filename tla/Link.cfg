SPECIFICATION LiveSysSpec
CONSTANTS
  Conns = {c1, c2}
  NoConn = NoConn
  MaxFds = 2
  MaxEvents = 1
  Backlog = 2
  SndBuf = 1
  MaxFrame = 3
  Monitors = {m1, m2}
  MayQuit = {m1, m2}
INVARIANTS
  OwnConnection
  DeadConnectionsComeFromQuits
PROPERTIES
  LossIsShown
  MonitorsReconnect
  DataKeepsComing
  TickCompletes
  HangupReleased
  QueueDrains
  FrameArrives
