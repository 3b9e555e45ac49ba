CONSTANTS
  Slots = {s1}
  Period = 2
  Threshold = 2
  Suppression = 4
  Early = 2
  MaxQueue = 3
  MaxStops = 2
SPECIFICATION Spec
INVARIANT TypeOK
PROPERTY LateIsFlagged
