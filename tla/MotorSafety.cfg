SPECIFICATION Spec
CONSTANTS
  Speeds <- AllSpeeds
  Leds <- Lights
  QueueCap = 1
  MaxFaults = 2
INVARIANTS
  InForce
  TornBounded
PROPERTIES
  ChannelsApart
