----------------------------- MODULE Scheduler -----------------------------
(***************************************************************************)
(* New orders on the machines: plan_for_new_order (engine/core/scheduler.  *)
(* py) with routing (engine/core/routing.py) and placement, order after    *)
(* order, while slots are worked off, blocked and moved and machines go    *)
(* down and come back.  Planning and writing are one step: what is said of *)
(* a plan is said of the snapshot that it was made from.                   *)
(*                                                                         *)
(* The tables of the boards and of the orders are constants.  Machines are *)
(* listed in the order of their names, stages in the order of their ids.   *)
(* Times are rounded up to whole steps.  A machine without hours a day has *)
(* rate 0, too.                                                            *)
(***************************************************************************)
EXTENDS Placement, Sequences, FiniteSets

CONSTANTS
  Machines,     \* sequence of Capacity Engine rows
  Recipes,      \* recipe -> active, and its sequence of stages
  Orders,       \* order -> what /commit or ingest made of it
  None,
  SplitMin, SplitMax, RoundTo,   \* settings of the split
  MaxTime, MaxEdits              \* bounds

\* Quantities, rates and rounding are positive where the code divides by them
\* (settings.split_* are validated, SpecSheet refuses an order of nothing,
\* is_available asks for a capacity); stage ids are unique in a recipe, and the
\* id of packaging is none of them (_topological_order keeps stages by id, and
\* packaging has a prefix of its own).
ASSUME SchedulerAssumption ==
  /\ Machines \in Seq([group : STRING, from : Nat, to : Nat, changeover : Nat,
                       rate : Nat, last : Int, dual : BOOLEAN,
                       max_job : Nat \cup {None}, above_mg : Int \cup {None}])
  /\ \A r \in DOMAIN Recipes :
       LET stages == Recipes[r].stages IN
       /\ stages \in Seq([id : STRING \ {"pkg"}, group : STRING, deps : SUBSET STRING])
       /\ \A j, k \in DOMAIN stages : stages[j].id = stages[k].id => j = k
  /\ \A o \in DOMAIN Orders :
       /\ Orders[o].recipe \in DOMAIN Recipes
       /\ Orders[o].quantity \in Nat \ {0}
       /\ Orders[o].dual \in BOOLEAN /\ Orders[o].press \in BOOLEAN
       /\ Orders[o].slices \in Seq([group : STRING, quantity : Nat \ {0}, items : Nat \ {0}])
  /\ SplitMin \in Nat /\ SplitMax \in Nat \ {0} /\ RoundTo \in Nat \ {0}
  /\ MaxTime \in Nat /\ MaxEdits \in Nat

Rows     == DOMAIN Machines
Statuses == {"Queued", "Running", "Done", "Blocked"}

VARIABLES
  slots,     \* the slots placed so far
  down,      \* machines that are Down
  clock,
  waiting,   \* orders still to come
  refused,   \* orders that were not placed
  edits      \* changes from outside so far

vars == <<slots, down, clock, waiting, refused, edits>>
-----------------------------------------------------------------------------
(***************************************************************************)
(* routing.py                                                              *)
(***************************************************************************)
Available(i) == i \notin down /\ Machines[i].rate > 0

FitsSize(i, o) == Machines[i].max_job = None \/ Orders[o].quantity <= Machines[i].max_job
\* _matches_force_route, of the rules that the boards have: active_mg > n.
Forced(i, o) ==
  /\ Orders[o].active_mg # None /\ Machines[i].above_mg # None
  /\ Orders[o].active_mg > Machines[i].above_mg

\* eligible_machines, as a set ...
Eligible(o, group) ==
  LET sized  == {i \in Rows : /\ Machines[i].group = group /\ Available(i)
                              /\ Machines[i].dual = Orders[o].dual
                              /\ Orders[o].dual \/ FitsSize(i, o)}
      forced == {i \in sized : ~Orders[o].dual /\ Forced(i, o)}
  IN IF forced # {} THEN forced ELSE sized

\* ... and its order, best first: by name for dual-sided tablets and where the
\* strength forces the machine, else machines for small jobs first.
\* _round_robin_order: never used first, then the one idle longest.
RoundRobin(i, j) ==
  \/ Machines[i].last < Machines[j].last
  \/ Machines[i].last = Machines[j].last /\ i < j
Preferred(o, i, j) ==
  LET Small(n) == Machines[n].max_job # None IN
  IF Orders[o].dual \/ Forced(i, o) THEN i < j
  ELSE IF Small(i) = Small(j) THEN RoundRobin(i, j) ELSE Small(i)
-----------------------------------------------------------------------------
(***************************************************************************)
(* scheduler.py: the stages of an order                                    *)
(***************************************************************************)
Ids(stages) == {stages[k].id : k \in DOMAIN stages}

\* _topological_order: the first stage, by id, whose dependencies are out.  It
\* leaves out stages on a cycle.
WithNext(out, stages) ==
  LET ready == {k \in DOMAIN stages : /\ stages[k].id \notin Ids(out)
                                      /\ stages[k].deps \subseteq Ids(out)}
  IN IF ready = {} THEN out ELSE Append(out, stages[Min(ready)])
TopologicalOrder(stages) ==
  LET out[n \in 0 .. Len(stages)] ==
        IF n = 0 THEN <<>> ELSE WithNext(out[n - 1], stages)
  IN out[Len(stages)]

\* _build_stage_specs: the recipe's stages, without pressing for a kitting
\* order, then the packaging slices, which wait for the last of the others.
\* A stage keeps its number when one before it is dropped.
Stages == [o \in DOMAIN Orders |-> TopologicalOrder(Recipes[Orders[o].recipe].stages)]
Kept(o) ==
  {k \in DOMAIN Stages[o] : Orders[o].press \/ Stages[o][k].group # "Pressing"}
KeptIds(o) == {Stages[o][k].id : k \in Kept(o)}
Terminal_first(o) ==
  IF Kept(o) = {} THEN {} ELSE {Stages[o][Min(Kept(o))].id}
Terminal(o) == {id \in KeptIds(o) : \A k \in Kept(o) : id \notin Stages[o][k].deps}

LastStage(o) == Len(Stages[o]) + Len(Orders[o].slices)
SpecsOf(o) ==
  LET RecipeSpec(s) == [id |-> s.id, group |-> s.group, items |-> 1,
                        deps |-> s.deps \cap KeptIds(o),
                        quantity |-> Orders[o].quantity]
      SliceSpec(p) == [id |-> "pkg", group |-> p.group, items |-> p.items,
                       deps |-> Terminal(o), quantity |-> p.quantity]
      slice == Len(Stages[o]) + 1 .. LastStage(o)
  IN [k \in Kept(o) \cup slice |->
        IF k \in slice THEN SliceSpec(Orders[o].slices[k - Len(Stages[o])])
        ELSE RecipeSpec(Stages[o][k])]
StageSpecs == [o \in DOMAIN Orders |-> SpecsOf(o)]
-----------------------------------------------------------------------------
(***************************************************************************)
(* scheduler.py: placing the stages, one after the other.  A chunk is what *)
(* a machine gets of a stage; a plan is a set of chunks.                   *)
(***************************************************************************)
Packaging == {"Sachet", "Blister", "Clamshell", "Bottle"}

\* _duration_hours: packaging machines count containers.
Duration(i, spec, q) ==
  LET rate == IF Machines[i].group \in Packaging
              THEN Machines[i].rate * spec.items ELSE Machines[i].rate
  IN (q + rate - 1) \div rate

\* _queue_for_machine: slots in flight on the board, and the plan so far.
Active(s) == s.status \in {"Queued", "Running"}
Ends_board(i, plan) == {s.end : s \in {t \in slots : t.machine = i /\ Active(t)}}
Ends(i, plan) ==
  {s.end : s \in {t \in slots : t.machine = i /\ Active(t)}
                   \cup {t \in plan : t.machine = i}}
Start(i, spec, q, plan, allowed) ==
  FindEarliestStart(Machines[i], Duration(i, spec, q), allowed, Ends(i, plan), clock)

Chunk(k, i, spec, q, plan, allowed) ==
  LET t == Start(i, spec, q, plan, allowed) IN
  [stage |-> k, machine |-> i, quantity |-> q,
   start |-> t, end |-> t + Duration(i, spec, q)]

\* _place_on_single_machine: the first candidate that can start earliest.
SingleChunk(k, o, spec, candidates, plan, allowed) ==
  LET Whole(i) == Start(i, spec, spec.quantity, plan, allowed)
      best == CHOOSE i \in candidates : \A j \in candidates \ {i} :
                Whole(i) < Whole(j) \/ (Whole(i) = Whole(j) /\ Preferred(o, i, j))
  IN {Chunk(k, best, spec, spec.quantity, plan, allowed)}

\* _proportional_chunks: shares in proportion to the weights, rounded down to
\* RoundTo; what that leaves goes to the largest remainders, the rest of it to
\* the heaviest.
Total(w) ==
  LET upto[n \in 0 .. Len(w)] == IF n = 0 THEN 0 ELSE upto[n - 1] + w[n]
  IN upto[Len(w)]
Floored(total, w) ==
  [n \in DOMAIN w |-> ((w[n] * total) \div (Total(w) * RoundTo)) * RoundTo]
Shares_rounded(total, w) == Floored(total, w)
Shares(total, w) ==
  LET floored == Floored(total, w)
      leftover == total - Total(floored)
      Lost(n) == w[n] * total - floored[n] * Total(w)
      Before(n, l) == \/ Lost(n) > Lost(l)
                      \/ Lost(n) = Lost(l) /\ (w[n] > w[l] \/ (w[n] = w[l] /\ n < l))
      bumped == {n \in DOMAIN w : Cardinality({l \in DOMAIN w : Before(l, n)})
                                    < leftover \div RoundTo}
      heaviest == CHOOSE n \in DOMAIN w : \A l \in DOMAIN w :
                    w[n] > w[l] \/ (w[n] = w[l] /\ n <= l)
  IN [n \in DOMAIN w |-> floored[n] + (IF n \in bumped THEN RoundTo ELSE 0)
                           + (IF n = heaviest THEN leftover % RoundTo ELSE 0)]

Used_all(share) == DOMAIN share
Used(share)     == {n \in DOMAIN share : share[n] > 0}

\* _split_stage_across_machines: the SplitMax machines that could start the
\* whole earliest share it; a share of nothing is left out.
SplitChunks(k, spec, candidates, plan, allowed) ==
  LET Whole(i) == Start(i, spec, spec.quantity, plan, allowed)
      Sooner(i, j) == Whole(i) < Whole(j) \/ (Whole(i) = Whole(j) /\ i < j)
      Rank(i) == Cardinality({j \in candidates : Sooner(j, i)}) + 1
      chosen == [r \in 1 .. Min({Cardinality(candidates), SplitMax}) |->
                   CHOOSE i \in candidates : Rank(i) = r]
      share == Shares(spec.quantity, [r \in DOMAIN chosen |-> Machines[chosen[r]].rate])
  IN {Chunk(k, chosen[r], spec, share[r], plan, allowed) : r \in Used(share)}

\* _place_stages
Allowed(spec, specs, plan) ==
  Max({clock} \cup {c.end : c \in {d \in plan : specs[d.stage].id \in spec.deps}})
ChunksOf(k, specs, o, plan) ==
  LET spec == specs[k]
      candidates == Eligible(o, spec.group)
      allowed == Allowed(spec, specs, plan)
  IN IF /\ spec.group \in Packaging /\ Cardinality(candidates) >= 2
        /\ spec.quantity >= SplitMin
     THEN SplitChunks(k, spec, candidates, plan, allowed)
     ELSE SingleChunk(k, o, spec, candidates, plan, allowed)
PlaceStages(o) ==
  LET specs == StageSpecs[o]
      plan[k \in 0 .. LastStage(o)] ==
        IF k = 0 THEN {}
        ELSE plan[k - 1] \cup (IF k \in DOMAIN specs
                               THEN ChunksOf(k, specs, o, plan[k - 1]) ELSE {})
  IN plan[LastStage(o)]

\* A stage without a machine, or with one whose window cannot be placed in.
Routable(o, specs) ==
  \A k \in DOMAIN specs :
    LET candidates == Eligible(o, specs[k].group) IN
    candidates # {} /\ \A i \in candidates : ~Unplaceable(Machines[i])

\* plan_for_new_order raises instead of making a plan.
Raises(o) ==
  LET recipe == Recipes[Orders[o].recipe] IN
  \/ ~recipe.active
  \/ Len(Stages[o]) # Len(recipe.stages)
  \/ ~Routable(o, StageSpecs[o])
Plan(o) == IF Raises(o) THEN {} ELSE PlaceStages(o)
-----------------------------------------------------------------------------
Init ==
  /\ slots = {} /\ down = {} /\ clock = 0
  /\ waiting = DOMAIN Orders /\ refused = {} /\ edits = 0

\* The worker comes to the order and its plan is written, or fails and is
\* taken back.
Place(o) ==
  /\ waiting' = waiting \ {o}
  /\ LET plan == Plan(o)
         new == {[stage |-> c.stage, machine |-> c.machine, quantity |-> c.quantity,
                  start |-> c.start, end |-> c.end, order |-> o, status |-> "Queued"]
                   : c \in plan}
     IN \/ /\ plan # {}
           /\ slots' = slots \cup new /\ UNCHANGED refused
        \/ slots' = slots /\ refused' = refused \cup {o}
  /\ UNCHANGED <<down, clock, edits>>

Tick ==
  /\ clock < MaxTime /\ clock' = clock + 1
  /\ UNCHANGED <<slots, down, waiting, refused, edits>>

\* Operators and later events change a slot, or move it (a baton-pass does so
\* without a look at the machine).
Edit(s) ==
  /\ edits < MaxEdits /\ edits' = edits + 1
  /\ \E t \in (IF s.status = "Done" THEN {}
               ELSE {[s EXCEPT !.status = st] : st \in Statuses}
                      \cup {[s EXCEPT !.start = @ + 1, !.end = @ + 1]}) \ {s} :
       slots' = (slots \ {s}) \cup {t}
  /\ UNCHANGED <<down, clock, waiting, refused>>

\* A machine goes down or comes back.
Toggle(i) ==
  /\ edits < MaxEdits /\ edits' = edits + 1
  /\ down' = IF i \in down THEN down \ {i} ELSE down \cup {i}
  /\ UNCHANGED <<slots, clock, waiting, refused>>

Next ==
  \/ Tick
  \/ \E o \in waiting : Place(o)
  \/ \E s \in slots : Edit(s)
  \/ \E i \in Rows : Toggle(i)

Spec == Init /\ [][Next]_vars
-----------------------------------------------------------------------------
(***************************************************************************)
(* Properties.  New is what the step that places an order put on the board *)
(* (nothing, in any other step).                                           *)
(***************************************************************************)
SlotType ==
  [stage : Nat, machine : Rows, quantity : Nat \ {0}, start : Nat, end : Nat,
   order : DOMAIN Orders, status : Statuses]

\* Slots have a machine, times and a positive quantity, and no order is lost.
TypeOK ==
  /\ slots \subseteq SlotType
  /\ down \subseteq Rows
  /\ clock \in 0 .. MaxTime /\ edits \in 0 .. MaxEdits
  /\ waiting \subseteq DOMAIN Orders
  /\ refused \subseteq DOMAIN Orders \ waiting

New     == IF waiting' = waiting THEN {} ELSE slots' \ slots
SpecOf(s) == StageSpecs[s.order][s.stage]

\* Whatever is planned goes after every slot in flight on its machine, and the
\* slots of one plan keep clear of each other, with time to change over.
KeepsClear ==
  [][\A n \in New, s \in slots \cup New :
       s # n /\ s.machine = n.machine /\ Active(s) =>
         \/ n.start >= s.end + Machines[n.machine].changeover
         \/ s \in New /\ s.start >= n.end + Machines[n.machine].changeover]_vars

\* No stage starts before all of those it depends on have ended, chunk by
\* chunk, and packaging not before the whole recipe.
StagesInOrder ==
  [][\A n, s \in New :
       /\ SpecOf(n).id = "pkg" => SpecOf(s).id = "pkg" \/ n.start >= s.end
       /\ SpecOf(n).id # "pkg" =>
            LET stages == Recipes[Orders[n.order].recipe].stages IN
            (\E k \in DOMAIN stages : /\ stages[k].id = SpecOf(n).id
                                      /\ SpecOf(s).id \in stages[k].deps)
              => n.start >= s.end]_vars

\* Each chunk is on a machine that is up and may run the order (and on one
\* that must, if there is one), starts and ends inside its window, and could
\* not start earlier: at no step of time before, after what the stage waits
\* for and the slots the plan found on the machine, would it fit.  A stage
\* that is not split could not have started earlier on any other machine that
\* the rules allow, either.
MayRun(i, o, group) ==
  /\ i \notin down /\ Machines[i].group = group /\ Machines[i].rate > 0
  /\ Machines[i].dual = Orders[o].dual
  /\ Orders[o].dual \/ FitsSize(i, o)
MustRun(i, o, group) ==
  MayRun(i, o, group) /\ ~Orders[o].dual /\ Forced(i, o)
FreeFrom(n, i, t) ==
  /\ t >= clock
  /\ \A s \in slots : s.machine = i /\ Active(s) => t >= s.end + Machines[i].changeover
  /\ \A s \in New : s.stage < n.stage =>
       /\ s.machine = i => t >= s.end + Machines[i].changeover
       /\ SpecOf(s).id \in SpecOf(n).deps => t >= s.end
Split(n) ==
  LET spec == SpecOf(n) IN
  /\ spec.group \in Packaging /\ spec.quantity >= SplitMin
  /\ Cardinality({i \in Rows : MayRun(i, n.order, spec.group)}) >= 2
Allows(n) ==
  /\ MayRun(n.machine, n.order, SpecOf(n).group)
  /\ (\E i \in Rows : MustRun(i, n.order, SpecOf(n).group)) =>
       MustRun(n.machine, n.order, SpecOf(n).group)
AsEarlyAsPossible ==
  [][/\ \A n \in New : Allows(n) /\ Fits(Machines[n.machine], n.end - n.start, n.start)
     /\ \A n \in New, i \in Rows, t \in 0 .. 4 * Day :
       /\ t < n.start /\ FreeFrom(n, i, t)
       /\ IF Split(n) THEN i = n.machine ELSE
            /\ MayRun(i, n.order, SpecOf(n).group)
            /\ MustRun(n.machine, n.order, SpecOf(n).group) =>
                 MustRun(i, n.order, SpecOf(n).group)
       => ~Fits(Machines[i], Duration(i, SpecOf(n), n.quantity), t)]_vars

\* An order is placed whole: the chunks of a stage add up to the quantity that
\* the order asks of it, and no stage is missing.
WholeQuantity ==
  [][New # {} =>
       \E o \in waiting : \A k \in DOMAIN StageSpecs[o] :
         LET parts == {n \in New : n.order = o /\ n.stage = k} IN
         MapThenSumSet(LAMBDA n : n.quantity, parts)
           = IF StageSpecs[o][k].id = "pkg"
             THEN Orders[o].slices[k - Len(Stages[o])].quantity
             ELSE Orders[o].quantity]_vars

\* models.py:97: working_window_end is an "hour-of-day 0..24 (24 = midnight next
\* day)", so an order is refused only for its recipe or for want of a machine.
RefusedForCause ==
  [][\A o \in waiting \ waiting' :
       /\ Recipes[Orders[o].recipe].active
       /\ DOMAIN StageSpecs[o] # {}
       /\ \A k \in DOMAIN StageSpecs[o] : Eligible(o, StageSpecs[o][k].group) # {}
       => Plan(o) # {}]_vars
=============================================================================
