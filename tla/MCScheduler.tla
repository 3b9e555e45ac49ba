---------------------------- MODULE MCScheduler ----------------------------
(***************************************************************************)
(* Three presses, one of them for dual-sided tablets and one for small     *)
(* jobs and strong tablets, and two bottle lines, one of which works all   *)
(* day.  A day has four steps; the others work in the two around noon.     *)
(***************************************************************************)
EXTENDS Scheduler

Row(group, from, to, rate, last) ==
  [group |-> group, from |-> from, to |-> to, changeover |-> 1, rate |-> rate,
   last |-> last, dual |-> FALSE, max_job |-> None, above_mg |-> None]
MCMachines ==
  <<Row("Bottle", 1, 3, 1, 0), Row("Bottle", 0, 4, 2, 1),
    Row("Pressing", 1, 3, 2, 1),
    [Row("Pressing", 0, 4, 1, 2) EXCEPT !.dual = TRUE],
    [Row("Pressing", 1, 3, 1, 2) EXCEPT !.max_job = 2, !.above_mg = 80]>>
\* A bottle line that works from noon to midnight.
MCLateMachines == [MCMachines EXCEPT ![1].from = 2, ![1].to = 4]

Stage(id, deps) == [id |-> id, group |-> "Pressing", deps |-> deps]
MCRecipes ==
  [simple |-> [active |-> TRUE, stages |-> <<Stage("press", {})>>],
   coated |-> [active |-> TRUE,
               stages |-> <<Stage("coat", {"press"}), Stage("press", {})>>],
   old    |-> [active |-> FALSE, stages |-> <<Stage("press", {})>>]]

Order(recipe, quantity, mg, slices) ==
  [recipe |-> recipe, quantity |-> quantity, active_mg |-> mg, dual |-> FALSE,
   press |-> TRUE, slices |-> slices]
Slice(quantity, items) == [group |-> "Bottle", quantity |-> quantity, items |-> items]
MCOrders ==
  [packed  |-> Order("coated", 2, None, <<Slice(1, 1), Slice(7, 2)>>),
   strong  |-> Order("simple", 3, 90, <<>>),
   sided   |-> [Order("simple", 1, 90, <<>>) EXCEPT !.dual = TRUE],
   kitting |-> [Order("simple", 2, 90, <<Slice(4, 1)>>) EXCEPT !.press = FALSE],
   retired |-> Order("old", 1, None, <<>>)]
=============================================================================
