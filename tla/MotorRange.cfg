SPECIFICATION Spec
CONSTANTS
  Speeds <- LegalSpeeds
  Leds <- NoLeds
  QueueCap = 1
  MaxFaults = 0
INVARIANTS
  PulseInRange
