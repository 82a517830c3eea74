SPECIFICATION Spec
CONSTANTS
  Conns = {c1, c2, c3, c4}
  NoConn = NoConn
  MaxFds = 3
  MaxEvents = 2
  Backlog = 2
  SndBuf = 2
  MaxFrame = 4
SYMMETRY ConnSymmetry
INVARIANTS
  TypeOK
  DescriptorsAgree
  EventsStayTrue
  LockStep
  StreamIntact
  SeenHangupNotServed
  RestartSucceeds
PROPERTIES
  StreamSpec
