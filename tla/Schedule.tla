------------------------------ MODULE Schedule ------------------------------
(***************************************************************************)
(* The slots of the two Schedule boards over time: what the floor reports  *)
(* (engine/routes/webhook.py), what the worker makes of a report           *)
(* (engine/core/actuals.py) or of a drift event (engine/core/drift.py),    *)
(* the polling sweep (engine/io/sweep.py), and operators who edit the      *)
(* boards meanwhile.  The worker reads a snapshot, plans, and writes later *)
(* (process_event in engine/io/worker.py): the boards may change between.  *)
(*                                                                         *)
(* The slots are those of orders placed by /commit, whose job reference is *)
(* their Blend Record; a slot carries it only on its order's own account   *)
(* (apply.py:115-120).  Time counts in steps of a quarter of an hour.      *)
(***************************************************************************)
EXTENDS Naturals, Sequences, FiniteSets, SequencesExt

CONSTANTS
  Slots, Jobs, Stages,
  PackagingStages,              \* the stages called pkg_*
  JobOf, StageOf, InstanceOf,   \* functions on Slots
  Recipes,                      \* recipe versions
  RecipeStages, DependsOn,      \* per recipe: its stages, and their deps
  NoTime, NoJob, NoRecipe,      \* None
  Handoff, Threshold, Suppression,   \* settings, in steps
  InitialSlots,                 \* the boards as the scheduler left them
  InitialProcesses,             \* bound: what the Processes boards may hold then
  EditTimes,                    \* planned starts an operator may choose
  MaxTime, MaxReports, MaxQueue, MaxEdits   \* bounds

Statuses == {"Queued", "Running", "Done", "Blocked"}
Boards   == {"gray_space", "nexiuum"}
Time     == 0 .. MaxTime
Origin   == "gray_space"

\* The columns of a slot.
SlotType ==
  [status : Statuses, manual : BOOLEAN,
   planned_start : Nat \cup {NoTime}, planned_end : Nat \cup {NoTime},
   actual_start : Nat \cup {NoTime}, actual_end : Nat \cup {NoTime},
   drift_stamp : Nat \cup {NoTime}, recipe : Recipes \cup {NoRecipe}]

\* Only a recipe without a cycle is scheduled (_topological_order); reports
\* come for the press only.
ASSUME ScheduleAssumption ==
  /\ IsFiniteSet(Slots) /\ StageOf \in [Slots -> Stages]
  /\ \A r \in Recipes : \A st \in RecipeStages[r] : st \notin DependsOn[r][st]
  /\ "press" \notin PackagingStages
  /\ NoTime \notin Nat /\ NoJob \notin Jobs /\ NoRecipe \notin Recipes
  /\ {Handoff, Threshold, Suppression, MaxTime, MaxEdits} \subseteq Nat
  /\ EditTimes \subseteq Nat /\ InitialSlots \in [Slots -> SlotType]
  /\ InitialProcesses \subseteq SUBSET Recipes

VARIABLES
  slots,      \* the two Schedule boards: slot -> its columns
  processes,  \* the recipe versions on the Processes boards
  clock,
  reports,    \* status changes of Blend Records, any of which Monday may
              \* deliver late, often, or never
  queue,      \* events the worker has not taken
  writes,     \* the slot writes of the event in hand, not yet on the boards
  event,      \* that event
  late,       \* writes of a batch given up on that Monday may still run
  edits,      \* operator edits and late writes so far
  edited,     \* what an operator changed while an event is in hand: slots,
              \* and whether it was the pinning of recipes
  overrun     \* slots a late write changed while an event is in hand

vars == <<slots, processes, clock, reports, queue, writes, event, late, edits, edited,
          overrun>>

Pinning == "pinning"
NoEvent == [kind |-> "none"]
Report  == [kind : {"start", "end"}, job : Jobs, stage : {"press"}, at : Time]
Drift   == [kind : {"late_start", "late_end"}, slot : Slots]
Idle    == event = NoEvent
touched == edited \cup overrun

\* The job reference a slot reads back with: the link to the source board
\* exists only on the order's own account.
JobRef(s) == IF InstanceOf[s] = Origin THEN JobOf[s] ELSE NoJob
-----------------------------------------------------------------------------
(***************************************************************************)
(* actuals.py                                                              *)
(***************************************************************************)
MatchingSlots(e) == {s \in Slots : JobRef(s) = e.job /\ StageOf[s] = e.stage}

StartWrite_untimed(s, e) == [kind |-> "start", slot |-> s, at |-> NoTime, end |-> NoTime]
StartWrite(s, e) == [kind |-> "start", slot |-> s, at |-> e.at, end |-> NoTime]
EndWrite(s, e)   == [kind |-> "end", slot |-> s, at |-> e.at, end |-> NoTime]

\* plan_for_actual_start
MayStart_by_status(s) == slots[s].status \notin {"Running", "Done"}
MayStart_unless_running(s) ==
  slots[s].actual_start = NoTime /\ slots[s].status # "Running"
MayStart(s) ==
  slots[s].actual_start = NoTime /\ slots[s].status \notin {"Running", "Done"}
PlanForStart(e) == {StartWrite(s, e) : s \in {t \in MatchingSlots(e) : MayStart(t)}}

\* The recipe pinned on the finishing slots: that of the first one that pins
\* any, in the order of the boards.
PinnedRecipe(e) ==
  LET pinning == {s \in MatchingSlots(e) : slots[s].recipe # NoRecipe}
  IN IF pinning = {} THEN NoRecipe ELSE slots[CHOOSE s \in pinning : TRUE].recipe

\* Stages that wait for a finished stage: those that name it in depends_on,
\* and the packaging slices, which hang off the recipe's last stages.
Terminal(st, r) ==
  st \in RecipeStages[r] /\ \A t \in RecipeStages[r] : st \notin DependsOn[r][t]
DependentStages_recipe_only(st, r) == {t \in RecipeStages[r] : st \in DependsOn[r][t]}
DependentStages(st, r) ==
  {t \in RecipeStages[r] : st \in DependsOn[r][t]}
    \cup (IF Terminal(st, r) THEN PackagingStages ELSE {})

IsImmovable_by_status(s) == slots[s].status \in {"Running", "Done"}
IsImmovable(s) == slots[s].manual \/ slots[s].status \in {"Running", "Done"}

\* The baton-pass: a movable dependent planned before the handoff is pushed
\* to it and keeps its length; one with a blank date keeps its planned_end.
PlannedBefore_any(s, t) == slots[s].planned_start # t
PlannedBefore(s, t) ==
  slots[s].planned_start # NoTime => slots[s].planned_start < t
NewEnd(c, t) ==
  IF NoTime \notin {c.planned_start, c.planned_end} /\ c.planned_end # c.planned_start
  THEN t + (c.planned_end - c.planned_start) ELSE c.planned_end
PushWrite(s, t) ==
  [kind |-> "push", slot |-> s, at |-> t, end |-> NewEnd(slots[s], t)]

\* No pass without a recipe: none pinned, or one the snapshot does not have.
PushesOf(e, r) ==
  LET t == e.at + Handoff IN
  {PushWrite(s, t) : s \in {d \in Slots :
     /\ r \in processes
     /\ JobRef(d) = e.job /\ StageOf[d] \in DependentStages(e.stage, r)
     /\ ~IsImmovable(d) /\ PlannedBefore(d, t)}}

\* plan_for_actual_end: the pass runs whenever the stage has slots, those
\* already finished included.
PlanForEnd(e) ==
  {EndWrite(s, e) : s \in {f \in MatchingSlots(e) :
     slots[f].actual_end = NoTime /\ slots[f].status # "Done"}}
    \cup PushesOf(e, PinnedRecipe(e))

(***************************************************************************)
(* drift.py                                                                *)
(***************************************************************************)
IsLateStart(s) ==
  LET c == slots[s] IN
  /\ c.status = "Queued" /\ c.actual_start = NoTime
  /\ c.planned_start # NoTime /\ c.planned_start + Threshold < clock
IsLateEnd(s) ==
  LET c == slots[s] IN
  /\ c.status = "Running" /\ c.actual_end = NoTime
  /\ c.planned_end # NoTime /\ c.planned_end + Threshold < clock
IsLate(s, kind) == IF kind = "late_start" THEN IsLateStart(s) ELSE IsLateEnd(s)

IsSuppressed(s) ==
  slots[s].drift_stamp # NoTime /\ clock - slots[s].drift_stamp < Suppression
Unmanaged(s) == slots[s].manual \/ slots[s].status \in {"Blocked", "Done"}

\* find_drift_candidates: one event per late slot, in snapshot order.
Candidates == {s \in Slots : /\ ~Unmanaged(s) /\ ~IsSuppressed(s)
                             /\ IsLateStart(s) \/ IsLateEnd(s)}
DriftOf(s) == [kind |-> IF IsLateStart(s) THEN "late_start" ELSE "late_end",
               slot |-> s]

\* plan_for_drift judges again, on the worker's own snapshot.
StillDrifts_unsuppressed(e) == ~Unmanaged(e.slot) /\ IsLate(e.slot, e.kind)
StillDrifts_as_swept(e) == ~Unmanaged(e.slot) /\ ~IsSuppressed(e.slot)
StillDrifts(e) ==
  ~Unmanaged(e.slot) /\ ~IsSuppressed(e.slot) /\ IsLate(e.slot, e.kind)
PlanForDrift(e) ==
  IF StillDrifts(e)
  THEN {[kind |-> "stamp", slot |-> e.slot, at |-> clock, end |-> NoTime]} ELSE {}
-----------------------------------------------------------------------------
(***************************************************************************)
(* The floor, Monday's webhooks, the sweep and the operators.              *)
(***************************************************************************)
Init ==
  /\ slots = InitialSlots /\ clock = 0
  /\ processes \in InitialProcesses
  /\ reports = {} /\ queue = <<>>
  /\ writes = {} /\ event = NoEvent
  /\ late = {} /\ edits = 0 /\ edited = {} /\ overrun = {}

Tick ==
  /\ clock < MaxTime /\ clock' = clock + 1
  /\ UNCHANGED <<slots, processes, reports, queue, writes, event, late, edits, edited,
                 overrun>>

\* A Blend Record's status is set to Pressing or Done; Monday notes when.
\* Nothing keeps the floor from repeating or reversing the two.
FloorSets(kind, j) ==
  /\ Cardinality(reports) < MaxReports
  /\ reports' = reports \cup
       {[kind |-> kind, job |-> j, stage |-> "press", at |-> clock]}
  /\ UNCHANGED <<slots, processes, clock, queue, writes, event, late, edits, edited, overrun>>

\* webhook_monday enqueues the event and answers 200.
Deliver(r) ==
  /\ Len(queue) < MaxQueue
  /\ queue' = Append(queue, r)
  /\ UNCHANGED <<slots, processes, clock, reports, writes, event, late, edits, edited, overrun>>

\* sweep_once
Sweep ==
  /\ Candidates # {} /\ Len(queue) < MaxQueue
  /\ queue' = queue \o SetToSeq({DriftOf(s) : s \in Candidates})
  /\ UNCHANGED <<slots, processes, clock, reports, writes, event, late, edits, edited, overrun>>

\* An operator changes one column of a slot that is not finished.
OperatorEdits(s) ==
  /\ edits < MaxEdits /\ slots[s].status # "Done"
  /\ \/ slots' = [slots EXCEPT ![s].manual = ~@]
     \/ \E st \in Statuses : slots' = [slots EXCEPT ![s].status = st]
     \/ \E t \in EditTimes : slots' = [slots EXCEPT ![s].planned_start = t,
                                               ![s].planned_end = t + 1]
     \/ slots' = [slots EXCEPT ![s].planned_start = NoTime]
  /\ slots' # slots
  /\ edits' = edits + 1 /\ edited' = IF Idle THEN {} ELSE edited \cup {s}
  /\ UNCHANGED <<processes, clock, reports, queue, writes, event, late, overrun>>

\* Operators also pin another recipe on a slot, or none, and take recipe
\* versions off the Processes boards or put them there.
EditRecipes ==
  /\ edits < MaxEdits
  /\ \/ /\ \E s \in Slots, r \in Recipes \cup {NoRecipe} :
              slots' = [slots EXCEPT ![s].recipe = r]
        /\ slots' # slots /\ UNCHANGED processes
     \/ /\ \E r \in Recipes : processes' \in {processes \cup {r}, processes \ {r}}
        /\ processes' # processes /\ UNCHANGED slots
  /\ edits' = edits + 1 /\ edited' = IF Idle THEN {} ELSE edited \cup {Pinning}
  /\ UNCHANGED <<clock, reports, queue, writes, event, late, overrun>>

(***************************************************************************)
(* The worker: process_event and the writing half of apply_plan.           *)
(***************************************************************************)
PlanFor(e) == CASE e.kind = "start" -> PlanForStart(e)
                [] e.kind = "end"   -> PlanForEnd(e)
                [] OTHER            -> PlanForDrift(e)

\* Take the next event, read the boards, plan.  An empty plan ends it.
Take ==
  /\ Idle /\ queue # <<>>
  /\ queue' = Tail(queue)
  /\ LET plan == PlanFor(Head(queue)) IN
     /\ writes' = plan
     /\ event' = IF plan = {} THEN NoEvent ELSE Head(queue)
  /\ UNCHANGED <<slots, processes, clock, reports, late, edits, edited, overrun>>

\* The columns a write sets; every other column keeps what Monday has.
Patch(c, w) ==
  CASE w.kind = "start" -> [c EXCEPT !.actual_start = w.at, !.status = "Running"]
    [] w.kind = "end"   -> [c EXCEPT !.actual_end = w.at, !.status = "Done"]
    [] w.kind = "push"  -> [c EXCEPT !.planned_start = w.at, !.planned_end = w.end]
    [] w.kind = "stamp" -> [c EXCEPT !.drift_stamp = w.at]
WritesOn(b)    == {w \in writes : InstanceOf[w.slot] = b}
Written(cur, W) == [s \in Slots |->
  IF \E w \in W : w.slot = s
  THEN Patch(cur[s], CHOOSE w \in W : w.slot = s) ELSE cur[s]]

\* One account's batch, Gray Space first.  Monday grants some of it; unless
\* it grants all and says so, the event fails: the rest is never written,
\* and updates are not taken back.  If no answer comes, one of the batch may
\* land after the worker has given it up.
WriteBatch ==
  LET b == IF WritesOn("gray_space") # {} THEN "gray_space" ELSE "nexiuum" IN
  /\ ~Idle
  /\ \E granted \in SUBSET WritesOn(b), known \in BOOLEAN :
       LET ok == known /\ granted = WritesOn(b) IN
       /\ slots' = Written(slots, granted)
       /\ writes' = IF ok THEN writes \ granted ELSE {}
       /\ event' = IF ok /\ writes # granted THEN event ELSE NoEvent
       /\ \/ UNCHANGED <<late, edits>>
          \/ /\ ~known /\ edits < MaxEdits
             /\ \E w \in WritesOn(b) \ granted : late' = {w}
             /\ edits' = edits + 1
  /\ edited' = IF event' = NoEvent THEN {} ELSE edited
  /\ overrun' = IF event' = NoEvent THEN {} ELSE overrun
  /\ UNCHANGED <<processes, clock, reports, queue>>

\* It lands, over whatever the slot holds by then.
LandLate(w) ==
  /\ slots' = Written(slots, {w})
  /\ late' = {} /\ overrun' = IF Idle THEN {} ELSE overrun \cup {w.slot}
  /\ UNCHANGED <<processes, clock, reports, queue, writes, event, edits, edited>>

\* The service stops or restarts: the queue is in memory only.
Restart ==
  /\ ~Idle \/ queue # <<>>
  /\ writes' = {} /\ event' = NoEvent /\ queue' = <<>>
  /\ edited' = {} /\ overrun' = {}
  /\ UNCHANGED <<slots, processes, clock, reports, late, edits>>

Worker == Take \/ WriteBatch

Next ==
  \/ Tick \/ Sweep \/ EditRecipes \/ Take \/ WriteBatch \/ Restart
  \/ \E kind \in {"start", "end"}, j \in Jobs : FloorSets(kind, j)
  \/ \E r \in reports : Deliver(r)
  \/ \E s \in Slots : OperatorEdits(s)
  \/ \E w \in late : LandLate(w)

Spec == Init /\ [][Next]_vars
-----------------------------------------------------------------------------
(***************************************************************************)
(* Properties.                                                             *)
(***************************************************************************)

\* The shape of the slot writes.
WriteType ==
  [kind : {"start", "end", "push", "stamp"}, slot : Slots,
   at : Nat, end : Nat \cup {NoTime}]
TypeOK ==
  /\ slots \in [Slots -> SlotType]
  /\ processes \subseteq Recipes
  /\ clock \in Time /\ edits \in 0 .. MaxEdits
  /\ reports \subseteq Report
  /\ queue \in Seq(Report \cup Drift)
  /\ writes \subseteq WriteType /\ late \subseteq WriteType
  /\ event \in Report \cup Drift \cup {NoEvent}
  /\ edited \subseteq Slots \cup {Pinning} /\ overrun \subseteq Slots

\* An actual that the worker found on the board is never replaced by it,
\* whatever reports are repeated, delayed or reordered: the first one
\* delivered stands.  (A slot that a late write changed after the worker read
\* it is out of its reach; operators do not edit actuals.)
ActualsWriteOnce ==
  [][Worker => \A s \in Slots \ overrun :
       /\ slots[s].actual_start # NoTime =>
            slots'[s].actual_start = slots[s].actual_start
       /\ slots[s].actual_end # NoTime =>
            slots'[s].actual_end = slots[s].actual_end]_vars

\* A finished slot stays finished: a Pressing report that comes after Done,
\* or is delivered again, does not reopen it.  (Slots that an operator or a
\* late write changed after the worker read them are excepted, here and below.)
DoneIsFinal ==
  [][Worker => \A s \in Slots \ touched :
       slots[s].status = "Done" => slots'[s].status = "Done"]_vars

\* ADR-0002: the worker moves a planned start later, never earlier.
PushOnly ==
  [][Worker => \A s \in Slots \ touched :
       slots'[s].planned_start # slots[s].planned_start =>
         \/ slots[s].planned_start = NoTime
         \/ slots'[s].planned_start > slots[s].planned_start]_vars

\* The worker leaves the plan of a slot that is manually placed, running or
\* done as it is.
ImmovableKeepsPlan ==
  [][Worker => \A s \in Slots \ touched :
       slots[s].manual \/ slots[s].status \in {"Running", "Done"} =>
         /\ slots'[s].planned_start = slots[s].planned_start
         /\ slots'[s].planned_end = slots[s].planned_end]_vars

\* When a Done report has been written without an error, no movable slot of
\* a stage that waits for the finished one, in the same order and on the same
\* account, is planned to start before the handoff.  By which recipe it waits
\* is what the finished slots pin: without a pin, or if the Processes boards
\* do not have the recipe, the report is written and no baton is passed
\* (tests/test_actuals.py:510).  A Blocked slot is movable to the code
\* (is_immovable), though CONTEXT.md:108 calls it Immovable.
WaitsFor(t, st, r) ==
  /\ st \in RecipeStages[r]
  /\ \/ t \in RecipeStages[r] /\ st \in DependsOn[r][t]
     \/ t \in PackagingStages /\ \A u \in RecipeStages[r] : st \notin DependsOn[r][u]
HandedOver(s, r) ==
  WaitsFor(StageOf[s], event.stage, r) /\ ~IsImmovable(s) =>
    slots'[s].planned_start # NoTime /\ slots'[s].planned_start >= event.at + Handoff
Pinned(r) ==
  /\ r \in processes /\ Pinning \notin edited
  /\ {slots[s].recipe : s \in MatchingSlots(event)} \ {NoRecipe} = {r}
EndWritten ==
  event.kind = "end" /\ WriteBatch /\ slots' = Written(slots, writes)
BatonPassed ==
  [][EndWritten => \A r \in Recipes : Pinned(r) =>
       \A s \in Slots \ touched : JobRef(s) = event.job => HandedOver(s, r)]_vars

\* Two drift stamps on a slot are a suppression window apart, although two
\* sweeps may queue the same drift twice before the worker comes to it.
StampsApart ==
  [][Worker => \A s \in Slots \ overrun :
       slots'[s].drift_stamp # slots[s].drift_stamp =>
         \/ slots[s].drift_stamp = NoTime
         \/ slots'[s].drift_stamp >= slots[s].drift_stamp + Suppression]_vars

\* A stamp tells the truth when it lands: the slot is late for the event's
\* kind and still the engine's to watch, however old the sweep's event is.
\* A stale stamp would suppress the next real one.
StampMeansLate ==
  [][Worker => \A s \in Slots \ touched :
       slots'[s].drift_stamp # slots[s].drift_stamp =>
         IsLate(s, event.kind) /\ ~Unmanaged(s)]_vars

\* CONTEXT.md:90 on the baton-pass: "Cross-instance baton-passes route naturally
\* through the per-instance write router".  Refuted.
CrossInstanceBaton ==
  [][EndWritten => \A r \in Recipes : Pinned(r) =>
       \A s \in Slots \ touched : JobOf[s] = event.job => HandedOver(s, r)]_vars
=============================================================================
