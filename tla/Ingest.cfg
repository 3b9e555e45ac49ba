CONSTANTS
  i1 = i1
  b1 = b1
  b2 = b2
  Items = {i1}
  Blends = {b1, b2}
  Source <- MCSource
  Cells <- MCCells
  Edited <- MCEdited
  CommitOrder <- MCCommitOrder
  None = None
  Blank = Blank
  Malformed = Malformed
  MaxEvents = 3
  MaxEdits = 1
SPECIFICATION Spec
INVARIANTS
  TypeOK
  PressOnlyReleased
  OncePerTrigger
  HandledIsPlaced
CHECK_DEADLOCK FALSE
