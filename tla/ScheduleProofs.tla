--------------------------- MODULE ScheduleProofs ---------------------------
(***************************************************************************)
(* Theorems about Schedule, for any slots, orders, recipes, settings and   *)
(* bounds, and any boards to begin with.                                   *)
(***************************************************************************)
EXTENDS Schedule, FiniteSetTheorems, SequenceTheorems, TLAPS

\* What a write in hand is made for, whatever became of its slot.
OfEvent(w) ==
  /\ w.kind = "start" => event.kind = "start"
  /\ w.kind = "end"   => event.kind = "end" /\ StageOf[w.slot] = event.stage
  /\ w.kind = "push"  => event.kind = "end" /\ w.at = event.at + Handoff
  /\ w.kind = "stamp" => event.kind \in {"late_start", "late_end"} /\ w.slot = event.slot

\* What it finds in the columns that operators leave alone, and in the others.
ActualsAsRead(w) ==
  /\ w.kind = "start" => slots[w.slot].actual_start = NoTime
  /\ w.kind = "end"   => slots[w.slot].actual_end = NoTime
  /\ w.kind = "stamp" => \/ slots[w.slot].drift_stamp = NoTime
                         \/ w.at >= slots[w.slot].drift_stamp + Suppression
PlanAsRead(w) ==
  /\ w.kind = "start" => slots[w.slot].status \notin {"Running", "Done"}
  /\ w.kind = "push"  => ~IsImmovable(w.slot) /\ PlannedBefore(w.slot, w.at)
  /\ w.kind = "stamp" => ~Unmanaged(w.slot) /\ IsLate(w.slot, event.kind)

\* The writes in hand fit the boards, but for the slots that changed meanwhile.
WritesFit ==
  \A w \in writes :
    /\ OfEvent(w)
    /\ w.slot \notin overrun => ActualsAsRead(w)
    /\ w.slot \notin touched => PlanAsRead(w)

\* A slot that the baton-pass has to push is pushed, or still to be.
Owed(s, r) ==
  /\ JobRef(s) = event.job /\ StageOf[s] \in DependentStages(event.stage, r)
  /\ ~IsImmovable(s) /\ PlannedBefore(s, event.at + Handoff)
PushesInHand ==
  event.kind = "end" =>
    \A r \in Recipes : Pinned(r) =>
      \A s \in Slots \ touched :
        Owed(s, r) => \E w \in writes : w.kind = "push" /\ w.slot = s

IInv == TypeOK /\ (Idle => writes = {}) /\ WritesFit /\ PushesInHand
-----------------------------------------------------------------------------
(***************************************************************************)
(* Plans and writes.                                                       *)
(***************************************************************************)
LEMMA Constants ==
  /\ Handoff \in Nat /\ Threshold \in Nat /\ Suppression \in Nat
  /\ MaxTime \in Nat /\ MaxEdits \in Nat /\ NoTime \notin Nat
BY ScheduleAssumption

LEMMA EventKinds ==
  ASSUME NEW e \in Report \cup Drift \cup {NoEvent}
  PROVE  /\ e.kind \in {"start", "end"} <=> e \in Report
         /\ e.kind \in {"late_start", "late_end"} <=> e \in Drift
         /\ e \in Report => e.job \in Jobs /\ e.stage = "press" /\ e.at \in Nat
         /\ e \in Drift => e.slot \in Slots
         /\ e # NoEvent <=> e \in Report \cup Drift
<1>1. ASSUME NEW r \in Report
      PROVE  r.kind \in {"start", "end"} /\ r.job \in Jobs /\ r.stage = "press" /\ r.at \in Nat
  BY Constants DEF Report, Time
<1>2. ASSUME NEW d \in Drift
      PROVE  d.kind \in {"late_start", "late_end"} /\ d.slot \in Slots
  BY DEF Drift
<1>3. NoEvent.kind = "none"
  BY DEF NoEvent
<1> QED
  BY <1>1, <1>2, <1>3

\* A pushed slot does not end before it did.
LEMMA NewEndType ==
  ASSUME NEW c \in SlotType, NEW t \in Nat,
         c.planned_start # NoTime => c.planned_start < t
  PROVE  NewEnd(c, t) \in Nat \cup {NoTime}
<1>1. c.planned_start \in Nat \cup {NoTime} /\ c.planned_end \in Nat \cup {NoTime}
  BY DEF SlotType
<1>2. CASE NoTime \in {c.planned_start, c.planned_end}
  BY <1>1, <1>2 DEF NewEnd
<1>3. CASE NoTime \notin {c.planned_start, c.planned_end}
  <2>1. c.planned_start \in Nat /\ c.planned_end \in Nat /\ c.planned_start < t
    BY <1>1, <1>3
  <2> QED
    BY <2>1 DEF NewEnd
<1> QED
  BY <1>2, <1>3

LEMMA PlanType ==
  ASSUME TypeOK, NEW e \in Report \cup Drift
  PROVE  PlanFor(e) \subseteq WriteType
<1>1. CASE e.kind = "start"
  <2>1. e.at \in Nat
    BY <1>1, EventKinds
  <2>2. \A s \in Slots : StartWrite(s, e) \in WriteType
    BY <2>1 DEF StartWrite, WriteType
  <2> QED
    BY <1>1, <2>2 DEF PlanFor, PlanForStart, MatchingSlots
<1>2. CASE e.kind = "end"
  <2>1. e.at \in Nat /\ e.at + Handoff \in Nat
    BY <1>2, EventKinds, Constants
  <2>2. \A s \in Slots : EndWrite(s, e) \in WriteType
    BY <2>1 DEF EndWrite, WriteType
  <2>3. ASSUME NEW s \in Slots, PlannedBefore(s, e.at + Handoff)
        PROVE  PushWrite(s, e.at + Handoff) \in WriteType
    <3>1. slots[s] \in SlotType
      BY DEF TypeOK
    <3>2. NewEnd(slots[s], e.at + Handoff) \in Nat \cup {NoTime}
      BY <2>1, <2>3, <3>1, NewEndType DEF PlannedBefore
    <3> QED
      BY <2>1, <3>2 DEF PushWrite, WriteType
  <2> QED
    BY <1>2, <2>2, <2>3 DEF PlanFor, PlanForEnd, PushesOf, MatchingSlots
<1>3. CASE e.kind \notin {"start", "end"}
  <2>1. e.slot \in Slots
    BY <1>3, EventKinds
  <2>2. clock \in Nat
    BY Constants DEF TypeOK, Time
  <2> QED
    BY <1>3, <2>1, <2>2 DEF PlanFor, PlanForDrift, WriteType
<1> QED
  BY <1>1, <1>2, <1>3

\* What each planner may write, and when.
LEMMA PlanStart ==
  ASSUME NEW e, e.kind = "start", NEW w \in PlanFor(e)
  PROVE  w.kind = "start" /\ MayStart(w.slot)
BY DEF PlanFor, PlanForStart, StartWrite

LEMMA PlanEnd ==
  ASSUME NEW e, e.kind = "end", NEW w \in PlanFor(e)
  PROVE  \/ /\ w.kind = "end" /\ StageOf[w.slot] = e.stage
            /\ slots[w.slot].actual_end = NoTime
         \/ /\ w.kind = "push" /\ w.at = e.at + Handoff
            /\ ~IsImmovable(w.slot) /\ PlannedBefore(w.slot, w.at)
BY DEF PlanFor, PlanForEnd, PushesOf, EndWrite, PushWrite, MatchingSlots

LEMMA PlanDrift ==
  ASSUME NEW e, e.kind \notin {"start", "end"}, NEW w \in PlanFor(e)
  PROVE  w.kind = "stamp" /\ w.slot = e.slot /\ w.at = clock /\ StillDrifts(e)
BY DEF PlanFor, PlanForDrift

\* The recipe that the finished slots pin is found.
LEMMA PinnedFound ==
  ASSUME NEW e, NEW r, {slots[s].recipe : s \in MatchingSlots(e)} \ {NoRecipe} = {r}
  PROVE  PinnedRecipe(e) = r
<1> DEFINE pinning == {s \in MatchingSlots(e) : slots[s].recipe # NoRecipe}
<1>1. \A s \in pinning : slots[s].recipe = r
  OBVIOUS
<1>2. r \in {slots[s].recipe : s \in MatchingSlots(e)} /\ r # NoRecipe
  OBVIOUS
<1>3. pinning # {}
  BY <1>2
<1>4. PICK c : c = CHOOSE s \in pinning : TRUE
  OBVIOUS
<1>5. c \in pinning /\ slots[c].recipe = r
  BY <1>1, <1>3, <1>4
<1>6. PinnedRecipe(e) = slots[c].recipe
  BY <1>3, <1>4 DEF PinnedRecipe
<1> QED
  BY <1>5, <1>6

\* The baton-pass forgets no slot.
LEMMA PlanPushes ==
  ASSUME NEW e, e.kind = "end", NEW s \in Slots, NEW r \in processes, PinnedRecipe(e) = r,
         JobRef(s) = e.job, StageOf[s] \in DependentStages(e.stage, r),
         ~IsImmovable(s), PlannedBefore(s, e.at + Handoff)
  PROVE  \E w \in PlanFor(e) : w.kind = "push" /\ w.slot = s
<1>2. PushWrite(s, e.at + Handoff) \in PlanFor(e)
  BY DEF PlanFor, PlanForEnd, PushesOf
<1>3. PushWrite(s, e.at + Handoff).kind = "push" /\ PushWrite(s, e.at + Handoff).slot = s
  BY DEF PushWrite
<1> QED
  BY <1>2, <1>3

\* What a write leaves in the columns of a slot.
LEMMA PatchFacts ==
  ASSUME NEW c \in SlotType, NEW w \in WriteType
  PROVE  /\ Patch(c, w) \in SlotType
         /\ Patch(c, w).manual = c.manual /\ Patch(c, w).recipe = c.recipe
         /\ w.kind = "start" =>
              /\ Patch(c, w).actual_start = w.at /\ Patch(c, w).status = "Running"
              /\ Patch(c, w).actual_end = c.actual_end /\ Patch(c, w).drift_stamp = c.drift_stamp
         /\ w.kind = "end" =>
              /\ Patch(c, w).actual_end = w.at /\ Patch(c, w).status = "Done"
              /\ Patch(c, w).actual_start = c.actual_start /\ Patch(c, w).drift_stamp = c.drift_stamp
         /\ w.kind = "push" =>
              /\ Patch(c, w).planned_start = w.at /\ Patch(c, w).status = c.status
              /\ Patch(c, w).actual_start = c.actual_start /\ Patch(c, w).actual_end = c.actual_end
              /\ Patch(c, w).drift_stamp = c.drift_stamp
         /\ w.kind = "stamp" =>
              /\ Patch(c, w).drift_stamp = w.at /\ Patch(c, w).status = c.status
              /\ Patch(c, w).actual_start = c.actual_start /\ Patch(c, w).actual_end = c.actual_end
         /\ w.kind # "push" => /\ Patch(c, w).planned_start = c.planned_start
                               /\ Patch(c, w).planned_end = c.planned_end
<1>1. CASE w.kind = "start"
  BY <1>1 DEF Patch, SlotType, WriteType, Statuses
<1>2. CASE w.kind = "end"
  BY <1>2 DEF Patch, SlotType, WriteType, Statuses
<1>3. CASE w.kind = "push"
  BY <1>3 DEF Patch, SlotType, WriteType, Statuses
<1>4. CASE w.kind = "stamp"
  BY <1>4 DEF Patch, SlotType, WriteType, Statuses
<1> QED
  BY <1>1, <1>2, <1>3, <1>4 DEF WriteType

LEMMA WrittenFacts ==
  ASSUME NEW cur \in [Slots -> SlotType], NEW W \in SUBSET WriteType
  PROVE  /\ Written(cur, W) \in [Slots -> SlotType]
         /\ \A s \in Slots :
              \/ /\ Written(cur, W)[s] = cur[s] /\ \A w \in W : w.slot # s
              \/ \E w \in W : w.slot = s /\ Written(cur, W)[s] = Patch(cur[s], w)
<1>1. ASSUME NEW s \in Slots
      PROVE  /\ Written(cur, W)[s] \in SlotType
             /\ \/ /\ Written(cur, W)[s] = cur[s] /\ \A w \in W : w.slot # s
                \/ \E w \in W : w.slot = s /\ Written(cur, W)[s] = Patch(cur[s], w)
  <2>1. CASE \E w \in W : w.slot = s
    <3>1. PICK w : w = CHOOSE x \in W : x.slot = s
      OBVIOUS
    <3>2. w \in W /\ w.slot = s
      BY <2>1, <3>1
    <3>3. Written(cur, W)[s] = Patch(cur[s], w)
      BY <2>1, <3>1 DEF Written
    <3> QED
      BY <3>2, <3>3, PatchFacts
  <2>2. CASE ~ \E w \in W : w.slot = s
    BY <2>2 DEF Written
  <2> QED
    BY <2>1, <2>2
<1>2. Written(cur, W) = [s \in Slots |-> Written(cur, W)[s]]
  BY DEF Written
<1> QED
  BY <1>1, <1>2

\* No write touches the pinning.
LEMMA WrittenPins ==
  ASSUME NEW cur \in [Slots -> SlotType], NEW W \in SUBSET WriteType, NEW s \in Slots
  PROVE  Written(cur, W)[s].recipe = cur[s].recipe
BY WrittenFacts, PatchFacts

LEMMA EnumerationType ==
  ASSUME NEW S, IsFiniteSet(S)
  PROVE  SetToSeq(S) \in Seq(S)
<1> DEFINE n == Cardinality(S)
<1>1. n \in Nat /\ ExistsBijection(1 .. n, S)
  BY FS_CardinalityType
<1>2. PICK f : f \in Bijection(1 .. n, S)
  BY <1>1 DEF ExistsBijection
<1>3. f \in [1 .. n -> S] /\ IsInjective(f)
  BY <1>2 DEF Bijection, Injection, IsInjective
<1>4. SetToSeq(S) \in [1 .. n -> S]
  BY <1>3 DEF SetToSeq
<1> QED
  BY <1>1, <1>4, SeqDef

\* A slot with another recipe is a slot (EditRecipes).
LEMMA RepinType ==
  ASSUME NEW c \in SlotType, NEW r \in Recipes \cup {NoRecipe}
  PROVE  [c EXCEPT !.recipe = r] \in SlotType
  BY DEF SlotType

-----------------------------------------------------------------------------
(***************************************************************************)
(* Type correctness.                                                       *)
(***************************************************************************)
LEMMA InitType == Init => TypeOK
<1> SUFFICES ASSUME Init PROVE TypeOK
  OBVIOUS
<1>1. clock \in Time /\ edits \in 0 .. MaxEdits
  BY Constants DEF Init, Time
<1>2. queue \in Seq(Report \cup Drift)
  BY EmptySeq DEF Init
<1> QED
  BY <1>1, <1>2, ScheduleAssumption DEF Init, TypeOK

LEMMA TypeKeeps ==
  ASSUME TypeOK, [Next]_vars
  PROVE  TypeOK'
<1> USE DEF TypeOK
<1>1. CASE Tick
  BY <1>1, Constants DEF Tick, Time
<1>2. CASE Sweep
  <2>1. \A s \in Slots : DriftOf(s) \in Drift
    BY DEF DriftOf, Drift
  <2>2. IsFiniteSet(Candidates)
    <3>1. Candidates \subseteq Slots
      BY DEF Candidates
    <3> QED
      BY <3>1, ScheduleAssumption, FS_Subset
  <2>3. IsFiniteSet({DriftOf(s) : s \in Candidates})
    <3> DEFINE F == {DriftOf(s) : s \in Candidates}
    <3>1. [s \in Candidates |-> DriftOf(s)] \in Surjection(Candidates, F)
      BY DEF Surjection
    <3> HIDE DEF F
    <3>2. IsFiniteSet(F)
      BY <2>2, <3>1, FS_Surjection
    <3> QED
      BY <3>2 DEF F
  <2>4. SetToSeq({DriftOf(s) : s \in Candidates}) \in Seq(Report \cup Drift)
    <3> DEFINE F == {DriftOf(s) : s \in Candidates}
    <3>1. F \subseteq Report \cup Drift
      BY <2>1 DEF Candidates
    <3> HIDE DEF F
    <3>2. SetToSeq(F) \in Seq(F)
      BY <2>3, EnumerationType DEF F
    <3>3. SetToSeq(F) \in Seq(Report \cup Drift)
      BY <3>1, <3>2, SeqDef
    <3> QED
      BY <3>3 DEF F
  <2>5. queue' \in Seq(Report \cup Drift)
    BY <1>2, <2>4, ConcatProperties DEF Sweep
  <2> QED
    BY <1>2, <2>5 DEF Sweep
<1>3. CASE Take
  <2>1. /\ queue \in Seq(Report \cup Drift) /\ queue # <<>>
        /\ queue' = Tail(queue)
        /\ writes' = PlanFor(Head(queue))
        /\ event' = IF writes' = {} THEN NoEvent ELSE Head(queue)
    BY <1>3 DEF Take
  <2>2. Head(queue) \in Report \cup Drift /\ queue' \in Seq(Report \cup Drift)
    BY <2>1, HeadTailProperties
  <2>3. writes' \subseteq WriteType
    BY <2>1, <2>2, PlanType
  <2> QED
    BY <1>3, <2>1, <2>2, <2>3 DEF Take
<1>4. CASE WriteBatch
  <2> PICK b : b = IF WritesOn("gray_space") # {} THEN "gray_space" ELSE "nexiuum"
    OBVIOUS
  <2>1. PICK granted \in SUBSET WritesOn(b), known \in BOOLEAN :
          /\ slots' = Written(slots, granted)
          /\ writes' \in {writes \ granted, {}}
          /\ event' \in {event, NoEvent}
          /\ \/ UNCHANGED <<late, edits>>
             \/ /\ edits < MaxEdits /\ edits' = edits + 1
                /\ \E w \in WritesOn(b) \ granted : late' = {w}
    BY <1>4 DEF WriteBatch
  <2>2. granted \in SUBSET WriteType /\ WritesOn(b) \subseteq WriteType
    BY <2>1 DEF WritesOn
  <2>3. slots' \in [Slots -> SlotType]
    BY <2>1, <2>2, WrittenFacts
  <2>4. late' \subseteq WriteType /\ edits' \in 0 .. MaxEdits
    BY <2>1, <2>2, Constants
  <2>5. writes' \subseteq WriteType /\ event' \in Report \cup Drift \cup {NoEvent}
    BY <2>1
  <2>6. edited' \subseteq Slots \cup {Pinning} /\ overrun' \subseteq Slots
    BY <1>4 DEF WriteBatch
  <2> QED
    BY <1>4, <2>3, <2>4, <2>5, <2>6 DEF WriteBatch
<1>5. CASE Restart
  BY <1>5, EmptySeq DEF Restart
<1>6. ASSUME NEW kind \in {"start", "end"}, NEW j \in Jobs, FloorSets(kind, j)
      PROVE  TypeOK'
  BY <1>6 DEF FloorSets, Report
<1>7. ASSUME NEW r \in reports, Deliver(r)
      PROVE  TypeOK'
  <2>1. queue' \in Seq(Report \cup Drift)
    BY <1>7, AppendProperties DEF Deliver
  <2> QED
    BY <1>7, <2>1 DEF Deliver
<1>8. ASSUME NEW s \in Slots, OperatorEdits(s)
      PROVE  TypeOK'
  <2>1. slots[s] \in SlotType
    OBVIOUS
  <2>2. \E c \in SlotType : slots' = [slots EXCEPT ![s] = c]
    <3>1. CASE slots' = [slots EXCEPT ![s].manual = ~@]
      <4>1. [slots[s] EXCEPT !.manual = ~@] \in SlotType
        BY <2>1 DEF SlotType
      <4> QED
        BY <3>1, <4>1
    <3>2. CASE \E st \in Statuses : slots' = [slots EXCEPT ![s].status = st]
      <4>1. \A st \in Statuses : [slots[s] EXCEPT !.status = st] \in SlotType
        BY <2>1 DEF SlotType
      <4> QED
        BY <3>2, <4>1
    <3>3. CASE \E t \in EditTimes : slots' = [slots EXCEPT ![s].planned_start = t,
                                                         ![s].planned_end = t + 1]
      <4>1. PICK t \in EditTimes :
              slots' = [slots EXCEPT ![s].planned_start = t, ![s].planned_end = t + 1]
        BY <3>3
      <4>2. [slots[s] EXCEPT !.planned_start = t, !.planned_end = t + 1] \in SlotType
        <5>1. t \in Nat /\ t + 1 \in Nat
          BY ScheduleAssumption
        <5> QED
          BY <2>1, <5>1 DEF SlotType
      <4>3. slots' = [slots EXCEPT ![s] = [slots[s] EXCEPT !.planned_start = t,
                                                           !.planned_end = t + 1]]
        BY <4>1
      <4> QED
        BY <4>2, <4>3
    <3>4. CASE slots' = [slots EXCEPT ![s].planned_start = NoTime]
      <4>1. [slots[s] EXCEPT !.planned_start = NoTime] \in SlotType
        BY <2>1 DEF SlotType
      <4> QED
        BY <3>4, <4>1
    <3> QED
      BY <1>8, <3>1, <3>2, <3>3, <3>4 DEF OperatorEdits
  <2>3. slots' \in [Slots -> SlotType]
    BY <2>2
  <2>4. edits' \in 0 .. MaxEdits /\ edited' \subseteq Slots \cup {Pinning}
    BY <1>8, Constants DEF OperatorEdits
  <2> QED
    BY <1>8, <2>3, <2>4 DEF OperatorEdits
<1>9. ASSUME NEW w \in late, LandLate(w)
      PROVE  TypeOK'
  <2>1. w \in WriteType /\ w.slot \in Slots
    BY DEF WriteType
  <2>2. slots' \in [Slots -> SlotType]
    BY <1>9, <2>1, WrittenFacts DEF LandLate
  <2> QED
    BY <1>9, <2>1, <2>2 DEF LandLate
<1>10. CASE EditRecipes
  <2>1. slots' \in [Slots -> SlotType]
    <3>1. ASSUME NEW s \in Slots, NEW r \in Recipes \cup {NoRecipe},
                 slots' = [slots EXCEPT ![s].recipe = r]
          PROVE  slots' \in [Slots -> SlotType]
      <4>1. [slots[s] EXCEPT !.recipe = r] \in SlotType
        BY RepinType
      <4> QED
        BY <3>1, <4>1
    <3>2. UNCHANGED slots \/ \E s \in Slots, r \in Recipes \cup {NoRecipe} :
                               slots' = [slots EXCEPT ![s].recipe = r]
      BY <1>10 DEF EditRecipes
    <3> HIDE DEF TypeOK
    <3> QED
      BY <3>1, <3>2 DEF TypeOK
  <2>2. processes' \subseteq Recipes
    BY <1>10 DEF EditRecipes
  <2>3. edits' \in 0 .. MaxEdits /\ edited' \subseteq Slots \cup {Pinning}
    BY <1>10, Constants DEF EditRecipes
  <2> QED
    BY <1>10, <2>1, <2>2, <2>3 DEF EditRecipes
<1>11. CASE UNCHANGED vars
  BY <1>11 DEF vars
<1> QED
  BY <1>1, <1>2, <1>3, <1>4, <1>5, <1>6, <1>7, <1>8, <1>9, <1>10, <1>11 DEF Next

-----------------------------------------------------------------------------
(***************************************************************************)
(* The writes in hand fit the boards.                                      *)
(***************************************************************************)
HandOK == /\ Idle => writes = {}
          /\ WritesFit /\ PushesInHand

\* Nobody touched what the recipe lookup of the event in hand goes by.
SamePins ==
  /\ processes' = processes
  /\ \A s \in Slots : slots'[s].recipe = slots[s].recipe

LEMMA PinsKept ==
  ASSUME event' = event, edited \subseteq edited', Pinning \notin edited' => SamePins,
         NEW r \in Recipes, Pinned(r)'
  PROVE  Pinned(r)
<1>1. MatchingSlots(event)' = MatchingSlots(event)
  BY DEF MatchingSlots, JobRef
<1>2. SamePins /\ Pinning \notin edited /\ r \in processes
  BY DEF Pinned, SamePins
<1>3. {slots'[s].recipe : s \in MatchingSlots(event)} = {slots[s].recipe : s \in MatchingSlots(event)}
  BY <1>2 DEF SamePins, MatchingSlots
<1> QED
  BY <1>1, <1>2, <1>3 DEF Pinned

LEMMA EmptyHand ==
  ASSUME writes' = {}, event' = NoEvent
  PROVE  HandOK'
BY DEF HandOK, WritesFit, PushesInHand, NoEvent

SameActuals(s) ==
  /\ slots'[s].actual_start = slots[s].actual_start
  /\ slots'[s].actual_end = slots[s].actual_end
  /\ slots'[s].drift_stamp = slots[s].drift_stamp
SamePlan(s) ==
  /\ slots'[s].status = slots[s].status /\ slots'[s].manual = slots[s].manual
  /\ slots'[s].planned_start = slots[s].planned_start
  /\ slots'[s].planned_end = slots[s].planned_end

\* Whoever else changes a slot while an event is in hand is noted, and what is
\* late stays late.
LEMMA HandKept ==
  ASSUME IInv, TypeOK', UNCHANGED <<writes, event>>,
         clock' >= clock, edited \subseteq edited', overrun \subseteq overrun',
         \A s \in Slots \ overrun' : SameActuals(s),
         \A s \in Slots \ (edited' \cup overrun') : SamePlan(s),
         Pinning \notin edited' => SamePins
  PROVE  HandOK'
<1>1. ASSUME NEW s \in Slots \ (edited' \cup overrun')
      PROVE  /\ slots'[s].status = slots[s].status /\ s \notin touched
             /\ IsImmovable(s)' <=> IsImmovable(s)
             /\ Unmanaged(s)' <=> Unmanaged(s)
             /\ \A t : PlannedBefore(s, t)' <=> PlannedBefore(s, t)
             /\ \A kind : IsLate(s, kind) => IsLate(s, kind)'
  <2>1. SamePlan(s) /\ SameActuals(s) /\ s \notin touched
    BY DEF touched
  <2>2. ASSUME NEW kind, IsLate(s, kind) PROVE IsLate(s, kind)'
    <3>1. clock \in Nat /\ clock' \in Nat /\ slots[s] \in SlotType
      BY Constants DEF IInv, TypeOK, Time
    <3>2. slots[s].planned_start \in Nat \cup {NoTime} /\ slots[s].planned_end \in Nat \cup {NoTime}
      BY <3>1 DEF SlotType
    <3> QED
      BY <2>1, <2>2, <3>1, <3>2, Constants
      DEF IsLate, IsLateStart, IsLateEnd, SamePlan, SameActuals
  <2> QED
    BY <2>1, <2>2 DEF SamePlan, IsImmovable, Unmanaged, PlannedBefore
<1>2. ASSUME NEW w \in writes
      PROVE  /\ OfEvent(w)'
             /\ w.slot \notin overrun' => ActualsAsRead(w)'
             /\ w.slot \notin touched' => PlanAsRead(w)'
  <2>1. w.slot \in Slots /\ OfEvent(w)
    BY DEF IInv, TypeOK, WriteType, WritesFit
  <2>2. OfEvent(w)'
    BY <2>1 DEF OfEvent
  <2>3. ASSUME w.slot \notin overrun' PROVE ActualsAsRead(w)'
    <3>1. ActualsAsRead(w)
      BY <2>3 DEF IInv, WritesFit
    <3> QED
      BY <2>1, <2>3, <3>1 DEF ActualsAsRead, SameActuals
  <2>4. ASSUME w.slot \notin touched' PROVE PlanAsRead(w)'
    <3>1. w.slot \in Slots \ (edited' \cup overrun')
      BY <2>1, <2>4 DEF touched
    <3>2. PlanAsRead(w)
      BY <1>1, <3>1 DEF IInv, WritesFit
    <3>3. w.kind = "start" => slots'[w.slot].status \notin {"Running", "Done"}
      BY <1>1, <3>1, <3>2 DEF PlanAsRead
    <3>4. w.kind = "push" => ~IsImmovable(w.slot)' /\ PlannedBefore(w.slot, w.at)'
      BY <1>1, <3>1, <3>2 DEF PlanAsRead
    <3>5. w.kind = "stamp" => ~Unmanaged(w.slot)' /\ IsLate(w.slot, event.kind)'
      <4>1. PICK kind : kind = event.kind
        OBVIOUS
      <4>2. w.kind = "stamp" => ~Unmanaged(w.slot)' /\ IsLate(w.slot, kind)'
        BY <1>1, <3>1, <3>2, <4>1 DEF PlanAsRead
      <4>3. IsLate(w.slot, kind)' => IsLate(w.slot, event.kind)'
        BY <4>1 DEF IsLate, IsLateStart, IsLateEnd
      <4> QED
        BY <4>2, <4>3
    <3> QED
      BY <3>3, <3>4, <3>5 DEF PlanAsRead
  <2> QED
    BY <2>2, <2>3, <2>4
<1>3. PushesInHand'
  <2> SUFFICES ASSUME event.kind = "end", NEW r \in Recipes, Pinned(r)',
                      NEW s \in Slots \ touched', Owed(s, r)'
               PROVE  \E w \in writes' : w.kind = "push" /\ w.slot = s
    BY DEF PushesInHand
  <2>1. s \in Slots \ (edited' \cup overrun')
    BY DEF touched
  <2>2. Owed(s, r) /\ s \notin touched
    <3>1. JobRef(s) = event.job /\ StageOf[s] \in DependentStages(event.stage, r)
      BY DEF Owed, JobRef, DependentStages, Terminal
    <3>2. PICK t : t = event.at + Handoff
      OBVIOUS
    <3>3. ~IsImmovable(s)' /\ PlannedBefore(s, t)'
      BY <3>2 DEF Owed, PlannedBefore
    <3> QED
      BY <1>1, <2>1, <3>1, <3>2, <3>3 DEF Owed
  <2>3. Pinned(r)
    BY PinsKept
  <2> QED
    BY <2>2, <2>3 DEF IInv, PushesInHand
<1> QED
  <2>1. WritesFit'
    BY <1>2 DEF WritesFit
  <2>2. Idle' => writes' = {}
    BY DEF IInv, Idle
  <2> QED
    BY <1>3, <2>1, <2>2 DEF HandOK

LEMMA TakeHand ==
  ASSUME IInv, Take
  PROVE  HandOK'
<1> PICK e : e = Head(queue)
  OBVIOUS
<1>1. /\ e \in Report \cup Drift
      /\ writes' = PlanFor(e) /\ event' = (IF PlanFor(e) = {} THEN NoEvent ELSE e)
      /\ UNCHANGED <<slots, processes, clock, edited, overrun>>
  <2>1. queue \in Seq(Report \cup Drift) /\ queue # <<>>
    BY DEF IInv, TypeOK, Take
  <2> QED
    BY <2>1, HeadTailProperties DEF Take
<1>2. CASE PlanFor(e) = {}
  <2>1. writes' = {} /\ event' = NoEvent
    BY <1>1, <1>2
  <2> QED
    BY <2>1, EmptyHand
<1>3. CASE PlanFor(e) # {}
  <2>1. event' = e /\ e # NoEvent
    BY <1>1, <1>3, EventKinds
  <2>2. ASSUME NEW w \in PlanFor(e)
        PROVE  OfEvent(w)' /\ ActualsAsRead(w)' /\ PlanAsRead(w)'
    <3>1. CASE e.kind = "start"
      <4>1. w.kind = "start" /\ MayStart(w.slot)
        BY <3>1, PlanStart
      <4> QED
        BY <1>1, <2>1, <3>1, <4>1 DEF OfEvent, ActualsAsRead, PlanAsRead, MayStart
    <3>2. CASE e.kind = "end"
      <4>1. CASE /\ w.kind = "end" /\ StageOf[w.slot] = e.stage
                 /\ slots[w.slot].actual_end = NoTime
        BY <1>1, <2>1, <3>2, <4>1 DEF OfEvent, ActualsAsRead, PlanAsRead
      <4>2. CASE /\ w.kind = "push" /\ w.at = e.at + Handoff
                 /\ ~IsImmovable(w.slot) /\ PlannedBefore(w.slot, w.at)
        BY <1>1, <2>1, <3>2, <4>2
        DEF OfEvent, ActualsAsRead, PlanAsRead, IsImmovable, PlannedBefore
      <4> QED
        BY <3>2, <4>1, <4>2, PlanEnd
    <3>3. CASE e.kind \notin {"start", "end"}
      <4>1. w.kind = "stamp" /\ w.slot = e.slot /\ w.at = clock /\ StillDrifts(e)
        BY <3>3, PlanDrift
      <4>2. e.kind \in {"late_start", "late_end"} /\ w.slot \in Slots
        BY <1>1, <3>3, <4>1, EventKinds
      <4>3. OfEvent(w)'
        BY <2>1, <4>1, <4>2 DEF OfEvent
      <4>4. PlanAsRead(w)'
        BY <1>1, <2>1, <4>1
        DEF PlanAsRead, StillDrifts, Unmanaged, IsLate, IsLateStart, IsLateEnd
      <4>5. ActualsAsRead(w)'
        <5>1. slots[w.slot] \in SlotType /\ clock \in Nat
          BY <4>2, Constants DEF IInv, TypeOK, Time
        <5>2. slots[w.slot].drift_stamp \in Nat \cup {NoTime}
          BY <5>1 DEF SlotType
        <5>3. slots[w.slot].drift_stamp = NoTime
                \/ clock - slots[w.slot].drift_stamp >= Suppression
          BY <4>1, <5>1, <5>2, Constants DEF StillDrifts, IsSuppressed
        <5>4. slots[w.slot].drift_stamp = NoTime
                \/ clock >= slots[w.slot].drift_stamp + Suppression
          BY <5>1, <5>2, <5>3, Constants
        <5> QED
          BY <1>1, <4>1, <5>4 DEF ActualsAsRead
      <4> QED
        BY <4>3, <4>4, <4>5
    <3> QED
      BY <3>1, <3>2, <3>3
  <2>3. PushesInHand'
    <3> SUFFICES ASSUME e.kind = "end", NEW r \in Recipes, Pinned(r)',
                        NEW s \in Slots, Owed(s, r)'
                 PROVE  \E w \in PlanFor(e) : w.kind = "push" /\ w.slot = s
      BY <1>1, <2>1 DEF PushesInHand
    <3>1. /\ JobRef(s) = e.job /\ StageOf[s] \in DependentStages(e.stage, r)
          /\ ~IsImmovable(s) /\ PlannedBefore(s, e.at + Handoff)
      BY <1>1, <2>1 DEF Owed, JobRef, DependentStages, Terminal, IsImmovable, PlannedBefore
    <3>2. r \in processes /\ {slots[x].recipe : x \in MatchingSlots(e)} \ {NoRecipe} = {r}
      BY <1>1, <2>1 DEF Pinned, MatchingSlots, JobRef
    <3>3. PinnedRecipe(e) = r
      BY <3>2, PinnedFound
    <3> QED
      BY <3>1, <3>2, <3>3, PlanPushes
  <2>4. WritesFit'
    BY <1>1, <2>2 DEF WritesFit
  <2>5. ~Idle'
    BY <2>1 DEF Idle
  <2> QED
    BY <2>3, <2>4, <2>5 DEF HandOK
<1> QED
  BY <1>2, <1>3

\* The other account's writes are not touched by a batch.
LEMMA BatchHand ==
  ASSUME IInv, TypeOK', WriteBatch
  PROVE  HandOK'
<1> PICK b : b = IF WritesOn("gray_space") # {} THEN "gray_space" ELSE "nexiuum"
  OBVIOUS
<1>1. PICK granted \in SUBSET WritesOn(b), ok \in BOOLEAN :
        /\ slots' = Written(slots, granted)
        /\ ok => granted = WritesOn(b)
        /\ writes' = IF ok THEN writes \ granted ELSE {}
        /\ event' = IF ok /\ writes # granted THEN event ELSE NoEvent
        /\ edited' = IF event' = NoEvent THEN {} ELSE edited
        /\ overrun' = IF event' = NoEvent THEN {} ELSE overrun
        /\ UNCHANGED <<clock, processes>>
  <2>1. PICK granted \in SUBSET WritesOn(b), known \in BOOLEAN :
          LET ok == known /\ granted = WritesOn(b) IN
          /\ slots' = Written(slots, granted)
          /\ writes' = IF ok THEN writes \ granted ELSE {}
          /\ event' = IF ok /\ writes # granted THEN event ELSE NoEvent
    BY DEF WriteBatch
  <2>2. PICK ok \in BOOLEAN : ok <=> known /\ granted = WritesOn(b)
    OBVIOUS
  <2> QED
    BY <2>1, <2>2 DEF WriteBatch
<1>2. ~Idle /\ event # NoEvent
  BY DEF WriteBatch, Idle
<1>3. CASE ~(ok /\ writes # granted)
  <2>1. writes' = {} /\ event' = NoEvent
    BY <1>1, <1>3
  <2> QED
    BY <2>1, EmptyHand
<1>4. CASE ok /\ writes # granted
  <2>1. /\ granted = WritesOn(b) /\ writes' = writes \ granted
        /\ UNCHANGED <<event, edited, overrun, clock, processes>>
    BY <1>1, <1>2, <1>4
  <2>2. slots \in [Slots -> SlotType] /\ granted \in SUBSET WriteType /\ slots' \in [Slots -> SlotType]
    BY <1>1 DEF IInv, TypeOK, WritesOn
  <2>3. \A s \in Slots :
          \/ /\ slots'[s] = slots[s] /\ \A w \in granted : w.slot # s
          \/ \E w \in granted : w.slot = s /\ slots'[s] = Patch(slots[s], w)
    BY <1>1, <2>2, WrittenFacts
  <2>4. ASSUME NEW w \in writes'
        PROVE  w \in writes /\ w.slot \in Slots /\ slots'[w.slot] = slots[w.slot]
    <3>1. w \in writes /\ w.slot \in Slots /\ InstanceOf[w.slot] # b
      BY <2>1 DEF WritesOn, IInv, TypeOK, WriteType
    <3>2. \A x \in granted : InstanceOf[x.slot] = b
      BY <2>1 DEF WritesOn
    <3> QED
      BY <2>3, <3>1, <3>2
  <2>5. ASSUME NEW w \in writes'
        PROVE  /\ OfEvent(w)'
               /\ w.slot \notin overrun' => ActualsAsRead(w)'
               /\ w.slot \notin touched' => PlanAsRead(w)'
    <3>1. /\ OfEvent(w)
          /\ w.slot \notin overrun => ActualsAsRead(w)
          /\ w.slot \notin touched => PlanAsRead(w)
      BY <2>4 DEF IInv, WritesFit
    <3>2. OfEvent(w)'
      BY <2>1, <3>1 DEF OfEvent
    <3>3. ActualsAsRead(w) => ActualsAsRead(w)'
      BY <2>1, <2>4 DEF ActualsAsRead
    <3>4. PlanAsRead(w) => PlanAsRead(w)'
      BY <2>1, <2>4
      DEF PlanAsRead, IsImmovable, PlannedBefore, Unmanaged, IsLate, IsLateStart, IsLateEnd
    <3>5. touched' = touched
      BY <2>1 DEF touched
    <3> QED
      BY <2>1, <3>1, <3>2, <3>3, <3>4, <3>5
  <2>6. PushesInHand'
    <3> SUFFICES ASSUME event.kind = "end", NEW r \in Recipes, Pinned(r)',
                        NEW s \in Slots \ touched', Owed(s, r)'
                 PROVE  \E w \in writes' : w.kind = "push" /\ w.slot = s
      BY <2>1 DEF PushesInHand
    <3> PICK t : t = event.at + Handoff
      OBVIOUS
    <3>1. t \in Nat
      BY EventKinds, Constants DEF IInv, TypeOK
    <3>2. /\ JobRef(s) = event.job /\ StageOf[s] \in DependentStages(event.stage, r)
          /\ ~IsImmovable(s)' /\ PlannedBefore(s, t)'
      BY <2>1 DEF Owed, JobRef, DependentStages, Terminal, PlannedBefore
    <3>3. ASSUME NEW x \in granted, x.slot = s, slots'[s] = Patch(slots[s], x)
          PROVE  FALSE
      <4>1. x \in WriteType /\ OfEvent(x) /\ slots[s] \in SlotType
        BY <1>1, <2>2 DEF WritesOn, IInv, WritesFit
      <4>2. x.kind \in {"end", "push"}
        BY <4>1 DEF OfEvent, WriteType
      <4>3. CASE x.kind = "end"
        BY <3>2, <3>3, <4>1, <4>3, PatchFacts DEF IsImmovable
      <4>4. CASE x.kind = "push"
        <5>1. slots'[s].planned_start = t
          BY <3>3, <4>1, <4>4, PatchFacts DEF OfEvent
        <5> QED
          BY <3>1, <3>2, <5>1, Constants DEF PlannedBefore
      <4> QED
        BY <4>2, <4>3, <4>4
    <3>4. slots'[s] = slots[s] /\ \A w \in granted : w.slot # s
      BY <2>3, <3>3
    <3>5. Owed(s, r) /\ s \notin touched
      BY <2>1, <3>2, <3>4 DEF Owed, touched, IsImmovable, PlannedBefore
    <3>6. Pinned(r)
      <4>1. \A q \in Slots : slots'[q].recipe = slots[q].recipe
        BY <1>1, <2>2, WrittenPins
      <4> QED
        BY <2>1, <4>1, PinsKept DEF SamePins
    <3>7. \E w \in writes : w.kind = "push" /\ w.slot = s
      BY <3>5, <3>6 DEF IInv, PushesInHand
    <3> QED
      BY <2>1, <3>4, <3>7
  <2>7. WritesFit'
    BY <2>5 DEF WritesFit
  <2>8. ~Idle'
    BY <1>2, <2>1 DEF Idle
  <2> QED
    BY <2>6, <2>7, <2>8 DEF HandOK
<1> QED
  BY <1>3, <1>4

LEMMA InitInv == Init => IInv
BY InitType DEF IInv, Init, WritesFit, PushesInHand, NoEvent

\* Every step preserves the invariant.
LEMMA StepInv ==
  ASSUME IInv, [Next]_vars
  PROVE  IInv'
<1>1. TypeOK /\ TypeOK'
  BY TypeKeeps DEF IInv
<1>2. clock \in Nat /\ clock' \in Nat
  BY <1>1, Constants DEF TypeOK, Time
<1>3. HandOK'
  <2>1. CASE Take
    BY <2>1, TakeHand
  <2>2. CASE WriteBatch
    BY <1>1, <2>2, BatchHand
  <2>3. CASE Restart
    BY <2>3, EmptyHand DEF Restart
  <2>4. CASE Idle /\ UNCHANGED <<writes, event>>
    <3>1. writes' = {} /\ event' = NoEvent
      BY <2>4 DEF IInv, Idle
    <3> QED
      BY <3>1, EmptyHand
  <2>5. CASE \/ Tick \/ Sweep \/ UNCHANGED vars
             \/ \E kind \in {"start", "end"}, j \in Jobs : FloorSets(kind, j)
             \/ \E r \in reports : Deliver(r)
    <3>1. /\ UNCHANGED <<writes, event, slots, processes, edited, overrun>>
          /\ clock' = clock \/ clock' = clock + 1
      BY <2>5 DEF Tick, Sweep, vars, FloorSets, Deliver
    <3> QED
      BY <1>1, <1>2, <3>1, HandKept DEF SamePins, SamePlan, SameActuals
  <2>6. ASSUME ~Idle, NEW s \in Slots, OperatorEdits(s)
        PROVE  HandOK'
    <3>1. /\ UNCHANGED <<writes, event, processes, clock, overrun>>
          /\ edited' = edited \cup {s}
          /\ \A q \in Slots \ {s} : slots'[q] = slots[q]
          /\ slots'[s].actual_start = slots[s].actual_start
          /\ slots'[s].actual_end = slots[s].actual_end
          /\ slots'[s].drift_stamp = slots[s].drift_stamp
          /\ slots'[s].recipe = slots[s].recipe
      <4>1. UNCHANGED <<writes, event, processes, clock, overrun>>
            /\ edited' = edited \cup {s}
        BY <2>6 DEF OperatorEdits
      <4>2. slots \in [Slots -> SlotType] /\ slots[s] \in SlotType
        BY <1>1 DEF TypeOK
      <4>3. PICK c : /\ slots' = [slots EXCEPT ![s] = c]
                     /\ c.actual_start = slots[s].actual_start
                     /\ c.actual_end = slots[s].actual_end
                     /\ c.drift_stamp = slots[s].drift_stamp /\ c.recipe = slots[s].recipe
        <5>1. CASE slots' = [slots EXCEPT ![s].manual = ~@]
          <6>1. PICK c : c = [slots[s] EXCEPT !.manual = ~@]
            OBVIOUS
          <6>2. slots' = [slots EXCEPT ![s] = c]
            BY <4>2, <5>1, <6>1
          <6>3. /\ c.actual_start = slots[s].actual_start /\ c.actual_end = slots[s].actual_end
                /\ c.drift_stamp = slots[s].drift_stamp /\ c.recipe = slots[s].recipe
            BY <4>2, <6>1 DEF SlotType
          <6> QED
            BY <6>2, <6>3
        <5>2. CASE \E st \in Statuses : slots' = [slots EXCEPT ![s].status = st]
          <6>1. PICK st \in Statuses : slots' = [slots EXCEPT ![s].status = st]
            BY <5>2
          <6>2. PICK c : c = [slots[s] EXCEPT !.status = st]
            OBVIOUS
          <6>3. slots' = [slots EXCEPT ![s] = c]
            BY <4>2, <6>1, <6>2
          <6>4. /\ c.actual_start = slots[s].actual_start /\ c.actual_end = slots[s].actual_end
                /\ c.drift_stamp = slots[s].drift_stamp /\ c.recipe = slots[s].recipe
            BY <4>2, <6>2 DEF SlotType
          <6> QED
            BY <6>3, <6>4
        <5>3. CASE \E t \in EditTimes : slots' = [slots EXCEPT ![s].planned_start = t,
                                                             ![s].planned_end = t + 1]
          <6>1. PICK t \in EditTimes :
                  slots' = [slots EXCEPT ![s].planned_start = t, ![s].planned_end = t + 1]
            BY <5>3
          <6>2. PICK c : c = [slots[s] EXCEPT !.planned_start = t, !.planned_end = t + 1]
            OBVIOUS
          <6>3. slots' = [slots EXCEPT ![s] = c]
            BY <6>1, <6>2
          <6>4. /\ c.actual_start = slots[s].actual_start /\ c.actual_end = slots[s].actual_end
                /\ c.drift_stamp = slots[s].drift_stamp /\ c.recipe = slots[s].recipe
            BY <4>2, <6>2 DEF SlotType
          <6> QED
            BY <6>3, <6>4
        <5>4. CASE slots' = [slots EXCEPT ![s].planned_start = NoTime]
          <6>1. PICK c : c = [slots[s] EXCEPT !.planned_start = NoTime]
            OBVIOUS
          <6>2. slots' = [slots EXCEPT ![s] = c]
            BY <4>2, <5>4, <6>1
          <6>3. /\ c.actual_start = slots[s].actual_start /\ c.actual_end = slots[s].actual_end
                /\ c.drift_stamp = slots[s].drift_stamp /\ c.recipe = slots[s].recipe
            BY <4>2, <6>1 DEF SlotType
          <6> QED
            BY <6>2, <6>3
        <5> QED
          BY <2>6, <5>1, <5>2, <5>3, <5>4 DEF OperatorEdits
      <4> QED
        BY <4>1, <4>2, <4>3
    <3>2. /\ \A q \in Slots \ overrun' : SameActuals(q)
          /\ \A q \in Slots \ (edited' \cup overrun') : SamePlan(q)
      BY <3>1 DEF SameActuals, SamePlan
    <3>3. SamePins
      BY <3>1 DEF SamePins
    <3> QED
      BY <1>1, <1>2, <3>1, <3>2, <3>3, HandKept
  <2>7. ASSUME ~Idle, NEW w \in late, LandLate(w)
        PROVE  HandOK'
    <3>1. slots \in [Slots -> SlotType] /\ {w} \in SUBSET WriteType
      BY <1>1 DEF TypeOK
    <3>2. \A q \in Slots \ {w.slot} : slots'[q] = slots[q]
      BY <2>7, <3>1, WrittenFacts DEF LandLate
    <3>3. UNCHANGED <<writes, event, processes, clock, edited>>
          /\ overrun' = overrun \cup {w.slot}
      BY <2>7 DEF LandLate
    <3>4. SamePins
      BY <2>7, <3>1, WrittenPins DEF SamePins, LandLate
    <3>5. /\ \A q \in Slots \ overrun' : SameActuals(q)
          /\ \A q \in Slots \ (edited' \cup overrun') : SamePlan(q)
      BY <3>2, <3>3 DEF SameActuals, SamePlan
    <3> QED
      BY <1>1, <1>2, <3>3, <3>4, <3>5, HandKept
  <2>8. CASE ~Idle /\ EditRecipes
    <3>1. UNCHANGED <<writes, event, clock, overrun>> /\ edited' = edited \cup {Pinning}
      BY <2>8 DEF EditRecipes
    <3>2. \A q \in Slots : SameActuals(q) /\ SamePlan(q)
      <4>1. slots \in [Slots -> SlotType]
        BY <1>1 DEF TypeOK
      <4>2. ASSUME NEW s \in Slots, NEW r, slots' = [slots EXCEPT ![s].recipe = r],
                   NEW q \in Slots
            PROVE  SameActuals(q) /\ SamePlan(q)
        <5>1. slots[q] \in SlotType
          BY <4>1
        <5>2. slots'[q] = slots[q] \/ slots'[q] = [slots[q] EXCEPT !.recipe = r]
          BY <4>1, <4>2
        <5> QED
          BY <5>1, <5>2 DEF SlotType, SameActuals, SamePlan
      <4>3. CASE UNCHANGED slots
        BY <4>3 DEF SameActuals, SamePlan
      <4> QED
        BY <2>8, <4>2, <4>3 DEF EditRecipes
    <3> QED
      BY <1>1, <1>2, <3>1, <3>2, HandKept
  <2>9. CASE \/ \E s \in Slots : OperatorEdits(s)
             \/ \E w \in late : LandLate(w)
             \/ EditRecipes
    BY <2>4, <2>6, <2>7, <2>8, <2>9 DEF OperatorEdits, LandLate, EditRecipes
  <2> QED
    BY <2>1, <2>2, <2>3, <2>5, <2>9 DEF Next
<1> QED
  BY <1>1, <1>3 DEF IInv, HandOK

-----------------------------------------------------------------------------
(***************************************************************************)
(* Theorems.                                                               *)
(***************************************************************************)
\* A step of the worker changes a slot only by a write in hand that fits it.
LEMMA WorkerWrites ==
  ASSUME IInv, Worker, NEW s \in Slots, slots'[s] # slots[s]
  PROVE  \E w \in writes :
           /\ w \in WriteType /\ w.slot = s /\ slots'[s] = Patch(slots[s], w)
           /\ OfEvent(w)
           /\ s \notin overrun => ActualsAsRead(w)
           /\ s \notin touched => PlanAsRead(w)
<1>1. CASE Take
  BY <1>1 DEF Take
<1>2. CASE WriteBatch
  <2> PICK b : b = IF WritesOn("gray_space") # {} THEN "gray_space" ELSE "nexiuum"
    OBVIOUS
  <2>1. PICK granted \in SUBSET WritesOn(b) : slots' = Written(slots, granted)
    BY <1>2 DEF WriteBatch
  <2>2. slots \in [Slots -> SlotType] /\ granted \in SUBSET WriteType
        /\ granted \subseteq writes
    BY <2>1 DEF IInv, TypeOK, WritesOn
  <2>3. PICK w \in granted : w.slot = s /\ slots'[s] = Patch(slots[s], w)
    BY <2>1, <2>2, WrittenFacts
  <2> QED
    BY <2>2, <2>3 DEF IInv, WritesFit
<1> QED
  BY <1>1, <1>2 DEF Worker

\* What the step does to the columns of the slot.
LEMMA WorkerColumns ==
  ASSUME IInv, Worker, NEW s \in Slots
  PROVE  /\ s \notin overrun =>
              /\ slots[s].actual_start # NoTime => slots'[s].actual_start = slots[s].actual_start
              /\ slots[s].actual_end # NoTime => slots'[s].actual_end = slots[s].actual_end
              /\ slots'[s].drift_stamp # slots[s].drift_stamp =>
                   \/ slots[s].drift_stamp = NoTime
                   \/ slots'[s].drift_stamp >= slots[s].drift_stamp + Suppression
         /\ s \notin touched =>
              /\ slots[s].status = "Done" => slots'[s].status = "Done"
              /\ slots'[s].planned_start # slots[s].planned_start =>
                   \/ slots[s].planned_start = NoTime
                   \/ slots'[s].planned_start > slots[s].planned_start
              /\ IsImmovable(s) => /\ slots'[s].planned_start = slots[s].planned_start
                                   /\ slots'[s].planned_end = slots[s].planned_end
              /\ slots'[s].drift_stamp # slots[s].drift_stamp =>
                   IsLate(s, event.kind) /\ ~Unmanaged(s)
<1>1. CASE slots'[s] = slots[s]
  BY <1>1
<1>2. CASE slots'[s] # slots[s]
  <2>1. PICK w \in writes :
           /\ w \in WriteType /\ w.slot = s /\ slots'[s] = Patch(slots[s], w)
           /\ s \notin overrun => ActualsAsRead(w)
           /\ s \notin touched => PlanAsRead(w)
    BY <1>2, WorkerWrites
  <2>2. slots[s] \in SlotType
    BY DEF IInv, TypeOK
  <2>3. slots[s].planned_start \in Nat \cup {NoTime} /\ slots[s].drift_stamp \in Nat \cup {NoTime}
        /\ w.at \in Nat
    BY <2>1, <2>2 DEF SlotType, WriteType
  <2>4. CASE w.kind = "start"
    BY <2>1, <2>2, <2>4, PatchFacts DEF ActualsAsRead, PlanAsRead
  <2>5. CASE w.kind = "end"
    BY <2>1, <2>2, <2>5, PatchFacts DEF ActualsAsRead
  <2>6. CASE w.kind = "push"
    <3>1. /\ slots'[s].planned_start = w.at /\ slots'[s].status = slots[s].status
          /\ slots'[s].actual_start = slots[s].actual_start
          /\ slots'[s].actual_end = slots[s].actual_end
          /\ slots'[s].drift_stamp = slots[s].drift_stamp
      BY <2>1, <2>2, <2>6, PatchFacts
    <3>2. s \notin touched => ~IsImmovable(s) /\ PlannedBefore(s, w.at)
      BY <2>1, <2>6 DEF PlanAsRead
    <3> QED
      BY <2>3, <3>1, <3>2 DEF PlannedBefore
  <2>7. CASE w.kind = "stamp"
    BY <2>1, <2>2, <2>7, PatchFacts DEF ActualsAsRead, PlanAsRead
  <2> QED
    BY <2>1, <2>4, <2>5, <2>6, <2>7 DEF WriteType
<1> QED
  BY <1>1, <1>2

\* After the batch that completes a Done report, nothing is owed.
LEMMA EndHandsOver ==
  ASSUME IInv, EndWritten, NEW r \in Recipes, Pinned(r),
         NEW s \in Slots \ touched, JobRef(s) = event.job
  PROVE  HandedOver(s, r)
<1> SUFFICES ASSUME WaitsFor(StageOf[s], event.stage, r), ~IsImmovable(s)
             PROVE  /\ slots'[s].planned_start # NoTime
                    /\ slots'[s].planned_start >= event.at + Handoff
  BY DEF HandedOver
<1> PICK t : t = event.at + Handoff
  OBVIOUS
<1>1. /\ event.kind = "end" /\ WriteBatch /\ slots' = Written(slots, writes)
      /\ event.stage = "press"
      /\ t \in Nat /\ slots \in [Slots -> SlotType] /\ writes \in SUBSET WriteType
  BY EventKinds, Constants DEF EndWritten, IInv, TypeOK
<1>2. StageOf[s] \in DependentStages(event.stage, r) /\ StageOf[s] # event.stage
  BY <1>1, ScheduleAssumption DEF WaitsFor, DependentStages, Terminal
<1>3. slots[s] \in SlotType /\ slots[s].planned_start \in Nat \cup {NoTime}
  BY <1>1 DEF SlotType
<1>4. \/ slots'[s] = slots[s] /\ \A w \in writes : w.slot # s
      \/ \E w \in writes : w.slot = s /\ slots'[s] = Patch(slots[s], w)
  BY <1>1, WrittenFacts
<1>5. CASE \E w \in writes : w.slot = s /\ slots'[s] = Patch(slots[s], w)
  <2>1. PICK w \in writes : w.slot = s /\ slots'[s] = Patch(slots[s], w)
    BY <1>5
  <2>2. w \in WriteType /\ OfEvent(w)
    BY <1>1 DEF IInv, WritesFit
  <2>3. w.kind = "push" /\ w.at = t
    BY <1>1, <1>2, <2>1, <2>2 DEF OfEvent, WriteType
  <2>4. slots'[s].planned_start = t
    BY <1>3, <2>1, <2>2, <2>3, PatchFacts
  <2> QED
    BY <1>1, <2>4, Constants
<1>6. CASE slots'[s] = slots[s] /\ \A w \in writes : w.slot # s
  <2>1. ~Owed(s, r)
    BY <1>1, <1>6 DEF IInv, PushesInHand
  <2>2. ~PlannedBefore(s, t)
    BY <1>2, <2>1 DEF Owed
  <2> QED
    BY <1>1, <1>3, <1>6, <2>2 DEF PlannedBefore
<1> QED
  BY <1>4, <1>5, <1>6

\* The invariant the properties follow from: between the worker's read and its
\* last write, what it plans to write fits the boards, but for slots that an
\* operator or a late write changed meanwhile.
THEOREM Invariance == Spec => []IInv
<1>1. Init => IInv
  BY InitInv
<1>2. IInv /\ [Next]_vars => IInv'
  BY StepInv
<1> QED
  BY <1>1, <1>2, PTL DEF Spec

\* Type correctness, for whatever boards the scheduler left and whatever is
\* reported, edited, lost or repeated: no planned end gets before time zero.
THEOREM TypeCorrect == Spec => []TypeOK
<1>1. IInv => TypeOK
  BY DEF IInv
<1> QED
  BY <1>1, Invariance, PTL

\* An actual found on the board is never replaced by actuals.py, whatever
\* reports are repeated, delayed or reordered.
THEOREM ActualsWriteOnceAlways == Spec => ActualsWriteOnce
<1>1. IInv /\ [Next]_vars => [Worker => \A s \in Slots \ overrun :
       /\ slots[s].actual_start # NoTime => slots'[s].actual_start = slots[s].actual_start
       /\ slots[s].actual_end # NoTime => slots'[s].actual_end = slots[s].actual_end]_vars
  BY WorkerColumns
<1> QED
  BY <1>1, Invariance, PTL DEF Spec, ActualsWriteOnce

\* A finished slot is not reopened by a Pressing report that comes after Done.
THEOREM DoneIsFinalAlways == Spec => DoneIsFinal
<1>1. IInv /\ [Next]_vars => [Worker => \A s \in Slots \ touched :
       slots[s].status = "Done" => slots'[s].status = "Done"]_vars
  BY WorkerColumns
<1> QED
  BY <1>1, Invariance, PTL DEF Spec, DoneIsFinal

\* ADR-0002: the worker moves a planned start later, never earlier.
THEOREM PushOnlyAlways == Spec => PushOnly
<1>1. IInv /\ [Next]_vars => [Worker => \A s \in Slots \ touched :
       slots'[s].planned_start # slots[s].planned_start =>
         \/ slots[s].planned_start = NoTime
         \/ slots'[s].planned_start > slots[s].planned_start]_vars
  BY WorkerColumns
<1> QED
  BY <1>1, Invariance, PTL DEF Spec, PushOnly

\* is_immovable: the plan of a slot that is manually placed, running or done is
\* left as it is.
THEOREM ImmovableKeepsPlanAlways == Spec => ImmovableKeepsPlan
<1>1. IInv /\ [Next]_vars => [Worker => \A s \in Slots \ touched :
       slots[s].manual \/ slots[s].status \in {"Running", "Done"} =>
         /\ slots'[s].planned_start = slots[s].planned_start
         /\ slots'[s].planned_end = slots[s].planned_end]_vars
  BY WorkerColumns DEF IsImmovable
<1> QED
  BY <1>1, Invariance, PTL DEF Spec, ImmovableKeepsPlan

\* plan_for_actual_end: once a Done report is written, no movable slot that
\* waits for the finished stage by the recipe the finished slots pin is planned
\* before the handoff, if the Processes boards have that recipe: for any recipes
\* without a stage that waits for itself, any number of slots of a stage and any
\* earlier plan.
THEOREM BatonPassedAlways == Spec => BatonPassed
<1>1. IInv /\ [Next]_vars => [EndWritten => \A r \in Recipes : Pinned(r) =>
                                \A s \in Slots \ touched :
                                  JobRef(s) = event.job => HandedOver(s, r)]_vars
  BY EndHandsOver
<1> QED
  BY <1>1, Invariance, PTL DEF Spec, BatonPassed

\* Two drift stamps of a slot are a suppression window apart, although the same
\* drift may be queued more than once.
THEOREM StampsApartAlways == Spec => StampsApart
<1>1. IInv /\ [Next]_vars => [Worker => \A s \in Slots \ overrun :
       slots'[s].drift_stamp # slots[s].drift_stamp =>
         \/ slots[s].drift_stamp = NoTime
         \/ slots'[s].drift_stamp >= slots[s].drift_stamp + Suppression]_vars
  BY WorkerColumns
<1> QED
  BY <1>1, Invariance, PTL DEF Spec, StampsApart

\* A stamp is true when it lands, however old the sweep's event is.
THEOREM StampMeansLateAlways == Spec => StampMeansLate
<1>1. IInv /\ [Next]_vars => [Worker => \A s \in Slots \ touched :
       slots'[s].drift_stamp # slots[s].drift_stamp =>
         IsLate(s, event.kind) /\ ~Unmanaged(s)]_vars
  BY WorkerColumns
<1> QED
  BY <1>1, Invariance, PTL DEF Spec, StampMeansLate
=============================================================================
