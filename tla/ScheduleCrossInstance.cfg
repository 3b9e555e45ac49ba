CONSTANTS
  press = press
  pack = pack
  packNx = packNx
  j1 = j1
  v1 = v1
  v2 = v2
  Slots = {press, packNx}
  Jobs = {j1}
  Stages = {"press", "coat", "pkg"}
  PackagingStages = {"pkg"}
  Recipes = {v1, v2}
  RecipeStages <- MCRecipeStages
  JobOf <- MCJobOf
  StageOf <- MCStageOf
  InstanceOf <- MCInstanceOf
  DependsOn <- MCDependsOn
  InitialSlots <- MCInitialSlots
  InitialProcesses <- MCInitialProcesses
  NoTime = NoTime
  NoJob = NoJob
  NoRecipe = NoRecipe
  Handoff = 1
  Threshold = 1
  Suppression = 2
  EditTimes = {0, 3}
  MaxTime = 3
  MaxReports = 1
  MaxQueue = 1
  MaxEdits = 1
SPECIFICATION Spec
PROPERTY CrossInstanceBaton
CHECK_DEADLOCK FALSE
