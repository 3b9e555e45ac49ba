SPECIFICATION Spec
CONSTANTS
  Day = 4
  Machines <- MCLateMachines
  Recipes <- MCRecipes
  Orders <- MCOrders
  None = None
  SplitMin = 4
  SplitMax = 2
  RoundTo = 3
  MaxTime = 2
  MaxEdits = 1
CHECK_DEADLOCK FALSE
PROPERTY RefusedForCause
