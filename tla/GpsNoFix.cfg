SPECIFICATION Spec
CONSTANTS
  MaxFix = 3
  NoFix = {2}
  Overlap = 1
INVARIANT LossOfFixIsStored
