CONSTANTS
  Writes = {w1, w2, w3, w4}
  GsSlots = {o1}
  NxSlots = {o2}
  NoSlot = NoSlot
SPECIFICATION FairSpec
INVARIANTS
  TypeOK
  PreexistingKept
  NexiuumAfterGraySpace
  SuccessIsComplete
  FailureIsAccounted
  EditsAreRecorded
PROPERTIES
  ImplementsSaga
  Returns
