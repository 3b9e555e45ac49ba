----------------------------- MODULE MCSchedule -----------------------------
(***************************************************************************)
(* One /commit order: a press slot, a packaging slot on the order's own    *)
(* account and one on the other.  A step of time stands for 15 minutes in  *)
(* Threshold and Handoff; Suppression is shortened to two steps.  The      *)
(* order was placed under v1, by which packaging waits for the press; by   *)
(* v2 a coating comes in between.                                          *)
(***************************************************************************)
EXTENDS Schedule

CONSTANTS press, pack, packNx, j1, v1, v2

MCJobOf      == [s \in Slots |-> j1]
MCStageOf    == [s \in Slots |-> IF s = press THEN "press" ELSE "pkg"]
MCInstanceOf == [s \in Slots |-> IF s = packNx THEN "nexiuum" ELSE "gray_space"]
MCRecipeStages == [r \in Recipes |-> IF r = v1 THEN {"press"} ELSE {"press", "coat"}]
MCDependsOn ==
  [r \in Recipes |-> [st \in RecipeStages[r] |-> IF st = "coat" THEN {"press"} ELSE {}]]
MCInitialProcesses == {Recipes, {v2}}
MCInitialSlots ==
  [s \in Slots |->
     [status |-> "Queued", manual |-> FALSE,
      planned_start |-> IF s = press THEN 0 ELSE 1,
      planned_end   |-> IF s = press THEN 1 ELSE 2,
      actual_start |-> NoTime, actual_end |-> NoTime, drift_stamp |-> NoTime,
      recipe |-> v1]]
=============================================================================
