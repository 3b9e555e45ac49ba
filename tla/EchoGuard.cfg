SPECIFICATION Spec
CONSTANTS
  Items = {a, b, c}
  OldItems = {a, b}
  Columns = {x, y}
  NoColumn = NoColumn
  Ttl = 2
  MaxEntries = 1
  MaxTime = 5
  MaxWrites = 4
CHECK_DEADLOCK FALSE
INVARIANTS TypeOK DroppedInOneBurst EchoesCaught Bounded
