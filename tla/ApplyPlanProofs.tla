--------------------------- MODULE ApplyPlanProofs --------------------------
(***************************************************************************)
(* Proofs about ApplyPlan for every set of writes and slots.               *)
(***************************************************************************)
EXTENDS ApplyPlan, TLAPS

\* The writes whose batch is out and whose answer is still awaited.
Awaited == IF pc = "await" THEN WritesOn(First(todo)) ELSE {}

\* Only the batch awaited, or one whose answer is lost, is in Monday's hands.
InHand == inflight \subseteq Awaited \cup lost

\* What the result calls created, and what is new on a board, Monday granted.
CreatesGranted ==
  /\ created \subseteq CreatesOf(ids)
  /\ items \ OldSlots \subseteq CreatesOf(ids)

\* A new item on a board is known to the result, lost, or awaited.
NewItemsKnown ==
  items \ OldSlots \subseteq (created \ rolledBack) \cup lost \cup Awaited

\* Before the first batch nothing has happened; before the rollback nothing
\* is rolled back or being deleted; a batch is awaited only while there is no error, and
\* only an error leads to the rollback.
Stages ==
  /\ pc = "start" => /\ inflight = {} /\ ids = {} /\ lost = {}
                     /\ items = OldSlots /\ created = {} /\ updated = {}
                     /\ ~errors
  /\ pc \in {"start", "apply", "await"} => rolledBack = {} /\ doomed = {}
  /\ doomed # {} => errors
  /\ pc = "await" => todo # {} /\ ~errors
  /\ pc = "rollback" => errors

\* While Gray Space is still to be visited Nexiuum has seen nothing.
GraySpaceFirst ==
  pc \in {"apply", "await"} /\ "gray_space" \in todo =>
    (inflight \cup ids) \cap WritesOn("nexiuum") = {}

\* As long as there is no error, the accounts left behind are complete.
Answered == {w \in DOMAIN plan : plan[w].instance \notin todo}
AnsweredComplete ==
  pc \in {"apply", "await"} /\ ~errors =>
    /\ Answered \subseteq ids /\ lost = {}
    /\ created = CreatesOf(Answered) /\ updated = UpdatesOf(Answered)
    /\ items = OldSlots \cup CreatesOf(ids)
SuccessIsAnswered == Succeeded => SuccessIsComplete /\ lost = {}

\* The updates Monday still holds are recorded already.
HeldUpdatesRecorded == UpdatesOf(inflight) \subseteq recorded

IInv ==
  /\ TypeOK
  /\ InHand
  /\ CreatesGranted /\ NewItemsKnown /\ PreexistingKept
  /\ Stages
  /\ GraySpaceFirst /\ NexiuumAfterGraySpace
  /\ AnsweredComplete /\ SuccessIsAnswered
  /\ HeldUpdatesRecorded /\ EditsAreRecorded
-----------------------------------------------------------------------------
(***************************************************************************)
(* Facts about the operators of ApplyPlan.                                 *)
(***************************************************************************)

\* The account visited next is one of those still to visit.
LEMMA FirstInTodo ==
  ASSUME NEW S, S \subseteq Boards, S # {}
  PROVE  First(S) \in S
BY DEF First, Boards

\* A plan writes to indices of its own and targets slots of the two boards.
LEMMA PlanShape ==
  ASSUME plan \in Plans
  PROVE  /\ DOMAIN plan \subseteq Writes
         /\ \A w \in DOMAIN plan :
              /\ plan[w].instance \in Boards
              /\ plan[w].slot_id \in OldSlots \cup {NoSlot}
<1>1. PICK W \in SUBSET Writes : plan \in [W -> SlotWrite]
  BY DEF Plans
<1>2. DOMAIN plan = W
  BY <1>1
<1>3. ASSUME NEW w \in W
      PROVE  /\ plan[w].instance \in Boards
             /\ plan[w].slot_id \in OldSlots \cup {NoSlot}
  <2>1. plan[w] \in SlotWrite
    BY <1>1
  <2>2. QED
    BY <2>1 DEF SlotWrite, OldSlots, Boards
<1>4. QED
  BY <1>2, <1>3

\* A create targets the item named after it, which no slot was before; an
\* update targets a slot that was there.
LEMMA Targets ==
  ASSUME plan \in Plans, NEW W \in SUBSET (DOMAIN plan)
  PROVE  /\ CreatesOf(W) \subseteq W
         /\ CreatesOf(W) \cap OldSlots = {}
         /\ UpdatesOf(W) \subseteq OldSlots
<1>1. DOMAIN plan \subseteq Writes
  BY PlanShape
<1>2. CreatesOf(W) \subseteq W
  BY DEF CreatesOf
<1>3. CreatesOf(W) \cap OldSlots = {}
  BY <1>1, <1>2, IdsDistinct
<1>4. UpdatesOf(W) \subseteq OldSlots
  <2>1. ASSUME NEW w \in W \ CreatesOf(W)
        PROVE  Target(w) \in OldSlots
    BY <2>1, PlanShape DEF CreatesOf, Target, IsCreate
  <2>2. QED
    BY <2>1 DEF UpdatesOf
<1>5. QED
  BY <1>2, <1>3, <1>4

\* What is deleted on an account was created by this call.
LEMMA CreatedOnCreated == \A b : CreatedOn(b) \subseteq created
BY DEF CreatedOn
-----------------------------------------------------------------------------
\* No step takes a variable out of its shape.
LEMMA TypeStep == TypeOK /\ [Next]_vars => TypeOK'
<1> SUFFICES ASSUME TypeOK, [Next]_vars
             PROVE  TypeOK'
  OBVIOUS
<1> USE DEF TypeOK
<1>0. WritesOn(First(todo)) \subseteq DOMAIN plan /\ DOMAIN plan \subseteq Writes
  BY PlanShape DEF WritesOn
<1>1. CASE Preflight
  BY <1>1 DEF Preflight, monday
<1>2. CASE Dispatch
  <2>1. inflight' \subseteq DOMAIN plan
    BY <1>0, <1>2 DEF Dispatch
  <2>2. recorded' \subseteq Items
    BY <1>0, <1>2, Targets DEF Dispatch, RegisterSent, Items
  <2>3. QED
    BY <1>2, <2>1, <2>2 DEF Dispatch, Visited
<1>3. CASE Receive
  <2> DEFINE got == WritesOn(First(todo)) \cap ids
  <2>1. got \in SUBSET (DOMAIN plan)
    BY <1>0
  <2>2. CreatesOf(got) \subseteq Items /\ UpdatesOf(got) \subseteq OldSlots
    BY <1>0, <2>1, Targets DEF Items
  <2>3. errors' \in BOOLEAN
    BY <1>3 DEF Receive, MissingIsError
  <2>4. QED
    BY <1>3, <2>2, <2>3
    DEF Receive, CreatedIn, RegisterReplied, Visited, monday, Items
<1>4. CASE TransportError
  BY <1>0, <1>4 DEF TransportError, Visited
<1>5. CASE Conclude
  BY <1>5 DEF Conclude, monday, result
<1>6. CASE Delete
  BY <1>6, CreatedOnCreated DEF Delete, Confirmed, Visited
<1>7. CASE RollbackDone
  BY <1>7 DEF RollbackDone, monday, result
<1>8. CASE Cancel
  BY <1>0, <1>8, CreatedOnCreated DEF Cancel, result
<1>9. ASSUME NEW w \in Writes, Execute(w)
      PROVE  TypeOK'
  <2>1. {w} \in SUBSET (DOMAIN plan)
    BY <1>9 DEF Execute
  <2>2. CreatesOf({w}) \subseteq Items /\ UpdatesOf({w}) \subseteq OldSlots
    BY <2>1, Targets DEF Items
  <2>3. QED
    BY <1>9, <2>1, <2>2 DEF Execute, result
<1>10. ASSUME NEW w \in Writes, DeleteLate(w)
       PROVE  TypeOK'
  BY <1>10 DEF DeleteLate, result
<1>11. CASE UNCHANGED vars
  BY <1>11 DEF vars, monday, result
<1>12. QED
  BY <1>1, <1>2, <1>3, <1>4, <1>5, <1>6, <1>7, <1>8, <1>9, <1>10, <1>11
  DEF Next, Returned

\* Every variable keeps its shape, for any number of writes and slots.
THEOREM TypeCorrect == Spec => []TypeOK
<1>1. Init => TypeOK
  BY DEF Init, TypeOK, Items
<1>2. QED
  BY <1>1, TypeStep, PTL DEF Spec
-----------------------------------------------------------------------------
(***************************************************************************)
(* The inductive invariant, action by action.                              *)
(***************************************************************************)

\* The initial states satisfy it.
LEMMA InitIInv == Init => IInv
<1> SUFFICES ASSUME Init PROVE IInv
  OBVIOUS
<1> USE DEF Init
<1>1. TypeOK
  BY DEF TypeOK, Items
<1>2. UpdatesOf(inflight) = {}
  BY DEF UpdatesOf, CreatesOf
<1>3. QED
  BY <1>1, <1>2 DEF IInv, InHand, CreatesGranted, NewItemsKnown,
     PreexistingKept, Stages, GraySpaceFirst, NexiuumAfterGraySpace,
     AnsweredComplete, SuccessIsAnswered, Succeeded, HeldUpdatesRecorded,
     EditsAreRecorded

\* Preflight returns at once or fixes the accounts to visit.
LEMMA PreflightStep == IInv /\ Preflight => IInv'
<1> SUFFICES ASSUME IInv, Preflight PROVE IInv'
  OBVIOUS
<1> USE DEF IInv, Preflight, monday
<1>1. TypeOK'
  BY TypeStep DEF Next
<1>2. InHand' /\ CreatesGranted' /\ NewItemsKnown' /\ PreexistingKept'
  BY DEF InHand, CreatesGranted, NewItemsKnown, PreexistingKept, Stages,
     CreatesOf, IsCreate, Awaited
<1>3. Stages'
  BY DEF Stages
<1>4. GraySpaceFirst' /\ NexiuumAfterGraySpace'
  BY DEF GraySpaceFirst, NexiuumAfterGraySpace, Stages
<1>5. AnsweredComplete'
  <2>1. CASE pc' = "apply"
    <3>1. Answered' = {}
      BY <2>1, PlanShape DEF Answered, WritesOn, TypeOK
    <3>2. QED
      BY <2>1, <3>1 DEF AnsweredComplete, Stages, CreatesOf, UpdatesOf
  <2>2. QED
    BY <2>1 DEF AnsweredComplete
<1>6. SuccessIsAnswered'
  <2>1. CASE DOMAIN plan = {}
    BY <2>1 DEF SuccessIsAnswered, SuccessIsComplete, Succeeded, Stages,
       CreatesOf, UpdatesOf
  <2>2. QED
    BY <2>1 DEF SuccessIsAnswered, Succeeded, Stages
<1>7. HeldUpdatesRecorded' /\ EditsAreRecorded'
  BY DEF HeldUpdatesRecorded, EditsAreRecorded, UpdatesOf, CreatesOf,
     IsCreate, Target
<1>8. QED
  BY <1>1, <1>2, <1>3, <1>4, <1>5, <1>6, <1>7

\* Dispatch records a batch's updates and hands the batch to Monday.
LEMMA DispatchStep == IInv /\ Dispatch => IInv'
<1> SUFFICES ASSUME IInv, Dispatch PROVE IInv'
  OBVIOUS
<1> USE DEF IInv, Dispatch
<1>0. First(todo) \in todo /\ plan' = plan
  BY FirstInTodo DEF TypeOK
<1>1. TypeOK'
  BY TypeStep DEF Next
<1>2. InHand' /\ NewItemsKnown' /\ PreexistingKept'
  BY DEF InHand, NewItemsKnown, PreexistingKept, Awaited, WritesOn
<1>3. CreatesGranted'
  BY DEF CreatesGranted, CreatesOf, IsCreate
<1>4. Stages'
  BY DEF Stages, MayContinue
<1>5. GraySpaceFirst' /\ NexiuumAfterGraySpace'
  <2>1. CASE First(todo) \in configured
    <3>1. CASE "gray_space" \in todo
      BY <2>1, <3>1 DEF GraySpaceFirst, NexiuumAfterGraySpace, First, WritesOn
    <3>2. CASE "gray_space" \notin todo
      <4>1. WritesOn("gray_space") \subseteq ids \ lost
        BY <3>2 DEF AnsweredComplete, Answered, WritesOn, MayContinue
      <4>2. QED
        BY <2>1, <3>2, <4>1 DEF GraySpaceFirst, NexiuumAfterGraySpace, WritesOn
    <3>3. QED
      BY <3>1, <3>2
  <2>2. CASE First(todo) \notin configured
    BY <2>2 DEF GraySpaceFirst, NexiuumAfterGraySpace, WritesOn, Visited
  <2>3. QED
    BY <2>1, <2>2
<1>6. AnsweredComplete' /\ SuccessIsAnswered'
  BY DEF AnsweredComplete, Answered, CreatesOf, UpdatesOf, IsCreate, Target,
     MayContinue, SuccessIsAnswered, Succeeded
<1>7. HeldUpdatesRecorded' /\ EditsAreRecorded'
  BY DEF HeldUpdatesRecorded, EditsAreRecorded, RegisterSent, UpdatesOf,
     CreatesOf, IsCreate, Target
<1>8. QED
  BY <1>1, <1>2, <1>3, <1>4, <1>5, <1>6, <1>7

\* Monday grants or refuses one alias.
LEMMA ExecuteStep ==
  ASSUME IInv, NEW w \in Writes, Execute(w)
  PROVE  IInv'
<1> USE DEF IInv, Execute, result
<1>0. /\ w \in DOMAIN plan /\ plan' = plan
      /\ UpdatesOf({w}) \subseteq recorded
  BY DEF TypeOK, HeldUpdatesRecorded, UpdatesOf, CreatesOf
<1>1. TypeOK'
  BY TypeStep DEF Next
<1>2. InHand'
  BY DEF InHand, Awaited, WritesOn
<1>3. CreatesGranted'
  BY DEF CreatesGranted, CreatesOf, IsCreate
<1>4. NewItemsKnown'
  BY DEF NewItemsKnown, InHand, Awaited, WritesOn, CreatesOf
<1>5. PreexistingKept'
  BY DEF PreexistingKept
<1>6. Stages'
  BY DEF Stages
<1>7. GraySpaceFirst' /\ NexiuumAfterGraySpace'
  BY DEF GraySpaceFirst, NexiuumAfterGraySpace, WritesOn
<1>8. AnsweredComplete'
  BY DEF AnsweredComplete, Answered, CreatesOf, UpdatesOf, IsCreate, Target
<1>9. SuccessIsAnswered'
  BY DEF SuccessIsAnswered, Succeeded, InHand, Awaited
<1>10. HeldUpdatesRecorded' /\ EditsAreRecorded'
  BY <1>0 DEF HeldUpdatesRecorded, EditsAreRecorded, UpdatesOf, CreatesOf,
     IsCreate, Target
<1>11. QED
  BY <1>1, <1>2, <1>3, <1>4, <1>5, <1>6, <1>7, <1>8, <1>9, <1>10

\* The reply to a batch is read into the result.
LEMMA ReceiveStep == IInv /\ Receive => IInv'
<1> SUFFICES ASSUME IInv, Receive PROVE IInv'
  OBVIOUS
<1> USE DEF IInv
<1> DEFINE b == First(todo)
           got == WritesOn(b) \cap ids
<1>0. /\ b \in todo /\ plan' = plan /\ pc = "await" /\ pc' = "apply"
      /\ todo' = todo \ {b} /\ inflight = {} /\ inflight' = {}
      /\ created' = created \cup CreatesOf(got)
      /\ updated' = updated \cup UpdatesOf(got)
      /\ recorded' = recorded \cup CreatesOf(got)
      /\ doomed' = doomed /\ ids' = ids /\ items' = items /\ edited' = edited
      /\ rolledBack' = rolledBack /\ lost' = lost
      /\ ~errors
      /\ ~errors' => WritesOn(b) \subseteq ids
  BY FirstInTodo DEF TypeOK, Receive, CreatedIn, RegisterReplied,
     Visited, monday, Stages, MissingIsError
<1>1. TypeOK'
  BY TypeStep DEF Next
<1>2. InHand' /\ PreexistingKept'
  BY <1>0 DEF InHand, PreexistingKept
<1>3. CreatesGranted'
  BY <1>0 DEF CreatesGranted, CreatesOf, IsCreate
<1>4. NewItemsKnown'
  BY <1>0 DEF NewItemsKnown, CreatesGranted, Awaited, Stages, CreatesOf
<1>5. Stages'
  BY <1>0 DEF Stages
<1>6. GraySpaceFirst' /\ NexiuumAfterGraySpace'
  BY <1>0 DEF GraySpaceFirst, NexiuumAfterGraySpace, WritesOn
<1>7. AnsweredComplete'
  <2> SUFFICES ASSUME ~errors' PROVE AnsweredComplete'
    BY DEF AnsweredComplete
  <2>1. got = WritesOn(b)
    BY <1>0
  <2>2. Answered' = Answered \cup WritesOn(b)
    BY <1>0 DEF Answered, WritesOn
  <2>3. /\ created' = CreatesOf(Answered \cup WritesOn(b))
        /\ updated' = UpdatesOf(Answered \cup WritesOn(b))
    BY <1>0, <2>1 DEF AnsweredComplete, CreatesOf, UpdatesOf
  <2>4. QED
    BY <1>0, <2>1, <2>2, <2>3
    DEF AnsweredComplete, CreatesOf, UpdatesOf, IsCreate, Target
<1>8. SuccessIsAnswered'
  BY <1>0 DEF SuccessIsAnswered, Succeeded
<1>9. HeldUpdatesRecorded' /\ EditsAreRecorded'
  BY <1>0 DEF HeldUpdatesRecorded, EditsAreRecorded, UpdatesOf, CreatesOf
<1>10. QED
  BY <1>1, <1>2, <1>3, <1>4, <1>5, <1>6, <1>7, <1>8, <1>9

\* The reply to a batch is lost.
LEMMA TransportErrorStep == IInv /\ TransportError => IInv'
<1> SUFFICES ASSUME IInv, TransportError PROVE IInv'
  OBVIOUS
<1> USE DEF IInv, TransportError
<1>0. First(todo) \in todo /\ plan' = plan
  BY FirstInTodo DEF TypeOK, Stages
<1>1. TypeOK'
  BY TypeStep DEF Next
<1>2. InHand' /\ NewItemsKnown' /\ PreexistingKept'
  BY DEF InHand, NewItemsKnown, PreexistingKept, Awaited
<1>3. CreatesGranted'
  BY DEF CreatesGranted, CreatesOf, IsCreate
<1>4. Stages' /\ AnsweredComplete' /\ SuccessIsAnswered'
  BY DEF Stages, AnsweredComplete, SuccessIsAnswered, Succeeded
<1>5. GraySpaceFirst' /\ NexiuumAfterGraySpace'
  BY <1>0 DEF GraySpaceFirst, NexiuumAfterGraySpace, WritesOn, Visited, First
<1>6. HeldUpdatesRecorded' /\ EditsAreRecorded'
  BY DEF HeldUpdatesRecorded, EditsAreRecorded, UpdatesOf, CreatesOf,
     IsCreate, Target
<1>7. QED
  BY <1>1, <1>2, <1>3, <1>4, <1>5, <1>6

\* The visit ends, well or with an error to roll back.
LEMMA ConcludeStep == IInv /\ Conclude => IInv'
<1> SUFFICES ASSUME IInv, Conclude PROVE IInv'
  OBVIOUS
<1> USE DEF IInv, Conclude, monday, result
<1>1. TypeOK'
  BY TypeStep DEF Next
<1>2. InHand' /\ NewItemsKnown' /\ PreexistingKept'
  BY DEF InHand, NewItemsKnown, PreexistingKept, Awaited
<1>3. CreatesGranted'
  BY DEF CreatesGranted, CreatesOf, IsCreate
<1>4. Stages' /\ AnsweredComplete' /\ GraySpaceFirst'
  BY DEF Stages, AnsweredComplete, GraySpaceFirst
<1>5. NexiuumAfterGraySpace'
  BY DEF NexiuumAfterGraySpace, WritesOn
<1>6. SuccessIsAnswered'
  <2>1. CASE ~errors
    <3>1. todo = {} /\ Answered = DOMAIN plan
      BY <2>1 DEF MayContinue, Answered
    <3>2. ids = DOMAIN plan
      BY <2>1, <3>1 DEF AnsweredComplete, TypeOK
    <3>3. QED
      BY <2>1, <3>1, <3>2 DEF AnsweredComplete, SuccessIsAnswered,
         SuccessIsComplete, Succeeded, CreatesOf, UpdatesOf, IsCreate, Target
  <2>2. QED
    BY <2>1 DEF SuccessIsAnswered, Succeeded
<1>7. HeldUpdatesRecorded' /\ EditsAreRecorded'
  BY DEF HeldUpdatesRecorded, EditsAreRecorded, UpdatesOf, CreatesOf,
     IsCreate, Target
<1>8. QED
  BY <1>1, <1>2, <1>3, <1>4, <1>5, <1>6, <1>7

\* Taking away items of this call's making leaves nothing unknown.
LEMMA FewerItems ==
  ASSUME IInv, NEW gone \in SUBSET created,
         items' = items \ gone,
         rolledBack' \in {rolledBack, rolledBack \cup gone},
         pc \notin {"start", "apply", "await"}, pc' # "await",
         UNCHANGED <<plan, ids, created, lost>>
  PROVE  CreatesGranted' /\ NewItemsKnown' /\ PreexistingKept'
<1> USE DEF IInv
<1>1. gone \cap OldSlots = {}
  BY Targets DEF CreatesGranted, TypeOK
<1>2. CreatesGranted'
  BY DEF CreatesGranted, CreatesOf, IsCreate
<1>3. NewItemsKnown'
  BY DEF NewItemsKnown, Awaited
<1>4. QED
  BY <1>1, <1>2, <1>3 DEF PreexistingKept

\* A rollback delete takes away some of what this call created.
LEMMA DeleteStep == IInv /\ Delete => IInv'
<1> SUFFICES ASSUME IInv, Delete PROVE IInv'
  OBVIOUS
<1> USE DEF IInv
<1>1. PICK gone \in SUBSET created :
        /\ items' = items \ gone
        /\ rolledBack' \in {rolledBack, rolledBack \cup gone}
        /\ pc = "rollback" /\ pc' = "rollback"
        /\ UNCHANGED <<plan, inflight, ids, edited, recorded, created, errors,
                       lost>>
  BY CreatedOnCreated DEF Delete, Confirmed
<1>2. TypeOK'
  BY TypeStep DEF Next
<1>3. CreatesGranted' /\ NewItemsKnown' /\ PreexistingKept'
  BY <1>1, FewerItems
<1>4. InHand' /\ Stages' /\ AnsweredComplete' /\ GraySpaceFirst'
      /\ SuccessIsAnswered'
  BY <1>1 DEF Stages, AnsweredComplete, GraySpaceFirst, SuccessIsAnswered,
     Succeeded, InHand, Awaited
<1>5. NexiuumAfterGraySpace'
  BY <1>1 DEF NexiuumAfterGraySpace, WritesOn
<1>6. HeldUpdatesRecorded' /\ EditsAreRecorded'
  BY <1>1 DEF HeldUpdatesRecorded, EditsAreRecorded, UpdatesOf, CreatesOf,
     IsCreate, Target
<1>7. QED
  BY <1>2, <1>3, <1>4, <1>5, <1>6

\* Monday comes to a delete late.
LEMMA DeleteLateStep ==
  ASSUME IInv, NEW w \in Writes, DeleteLate(w)
  PROVE  IInv'
<1> USE DEF IInv
<1>1. PICK gone \in SUBSET created :
        /\ items' = items \ gone
        /\ doomed' \subseteq doomed /\ doomed # {}
        /\ UNCHANGED <<plan, pc, todo, inflight, ids, edited, recorded, created,
                       updated, rolledBack, errors, lost>>
  <2>1. items \ items' \in SUBSET created /\ items' = items \ (items \ items')
    BY DEF DeleteLate, TypeOK
  <2>2. QED
    BY <2>1 DEF DeleteLate, result
<1>2. TypeOK'
  BY TypeStep DEF Next
<1>3. CreatesGranted' /\ NewItemsKnown' /\ PreexistingKept'
  BY <1>1, FewerItems DEF Stages
<1>4. InHand' /\ Stages' /\ AnsweredComplete' /\ GraySpaceFirst'
      /\ SuccessIsAnswered'
  BY <1>1 DEF Stages, AnsweredComplete, GraySpaceFirst, SuccessIsAnswered,
     Succeeded, InHand, Awaited, WritesOn
<1>5. NexiuumAfterGraySpace'
  BY <1>1 DEF NexiuumAfterGraySpace, WritesOn
<1>6. HeldUpdatesRecorded' /\ EditsAreRecorded'
  BY <1>1 DEF HeldUpdatesRecorded, EditsAreRecorded, UpdatesOf, CreatesOf,
     IsCreate, Target
<1>7. QED
  BY <1>2, <1>3, <1>4, <1>5, <1>6

\* The rollback is over.
LEMMA RollbackDoneStep == IInv /\ RollbackDone => IInv'
<1> SUFFICES ASSUME IInv, RollbackDone PROVE IInv'
  OBVIOUS
<1> USE DEF IInv, RollbackDone, monday, result
<1>1. TypeOK'
  BY TypeStep DEF Next
<1>2. InHand' /\ NewItemsKnown' /\ PreexistingKept'
  BY DEF InHand, NewItemsKnown, PreexistingKept, Awaited
<1>3. CreatesGranted'
  BY DEF CreatesGranted, CreatesOf, IsCreate
<1>4. Stages' /\ AnsweredComplete' /\ GraySpaceFirst' /\ SuccessIsAnswered'
  BY DEF Stages, AnsweredComplete, GraySpaceFirst, SuccessIsAnswered, Succeeded
<1>5. NexiuumAfterGraySpace'
  BY DEF NexiuumAfterGraySpace, WritesOn
<1>6. HeldUpdatesRecorded' /\ EditsAreRecorded'
  BY DEF HeldUpdatesRecorded, EditsAreRecorded, UpdatesOf, CreatesOf,
     IsCreate, Target
<1>7. QED
  BY <1>1, <1>2, <1>3, <1>4, <1>5, <1>6

\* The call is cut off at an await.
LEMMA CancelStep == IInv /\ Cancel => IInv'
<1> SUFFICES ASSUME IInv, Cancel PROVE IInv'
  OBVIOUS
<1> USE DEF IInv
<1>0. /\ pc' = "cancelled"
      /\ UNCHANGED <<plan, todo, inflight, ids, items, edited, recorded,
                     created, updated, rolledBack, errors>>
      /\ \/ /\ pc = "await" /\ doomed' = doomed
            /\ lost' = lost \cup WritesOn(First(todo))
         \/ pc = "rollback" /\ lost' = lost
  BY DEF Cancel, result
<1>1. TypeOK'
  BY TypeStep DEF Next
<1>2. InHand' /\ NewItemsKnown' /\ PreexistingKept'
  BY <1>0 DEF InHand, NewItemsKnown, PreexistingKept, Awaited
<1>3. CreatesGranted'
  BY <1>0 DEF CreatesGranted, CreatesOf, IsCreate
<1>4. Stages' /\ AnsweredComplete' /\ GraySpaceFirst' /\ SuccessIsAnswered'
  BY <1>0 DEF Stages, AnsweredComplete, GraySpaceFirst, SuccessIsAnswered,
     Succeeded
<1>5. NexiuumAfterGraySpace'
  <2>1. CASE pc = "await"
    BY <1>0, <2>1, FirstInTodo DEF NexiuumAfterGraySpace, GraySpaceFirst,
       Stages, First, WritesOn, TypeOK
  <2>2. CASE pc = "rollback"
    BY <1>0, <2>2 DEF NexiuumAfterGraySpace, WritesOn
  <2>3. QED
    BY <1>0, <2>1, <2>2
<1>6. HeldUpdatesRecorded' /\ EditsAreRecorded'
  BY <1>0 DEF HeldUpdatesRecorded, EditsAreRecorded, UpdatesOf, CreatesOf,
     IsCreate, Target
<1>7. QED
  BY <1>1, <1>2, <1>3, <1>4, <1>5, <1>6

\* A step that changes no variable.
LEMMA StutterStep == IInv /\ UNCHANGED vars => IInv'
BY DEF vars, monday, result, IInv, TypeOK, InHand, CreatesGranted,
   NewItemsKnown, PreexistingKept, Stages, GraySpaceFirst,
   NexiuumAfterGraySpace, AnsweredComplete, Answered, SuccessIsAnswered,
   Succeeded, SuccessIsComplete, HeldUpdatesRecorded, EditsAreRecorded,
   Awaited, WritesOn, CreatesOf, UpdatesOf, IsCreate, Target

\* The invariant holds in every reachable state.
THEOREM Invariance == Spec => []IInv
<1>1. IInv /\ [Next]_vars => IInv'
  <2> SUFFICES ASSUME IInv, [Next]_vars PROVE IInv'
    OBVIOUS
  <2>1. ASSUME NEW w \in Writes, Execute(w) \/ DeleteLate(w)
        PROVE  IInv'
    BY <2>1, ExecuteStep, DeleteLateStep
  <2>2. CASE UNCHANGED vars
    BY <2>2, StutterStep
  <2>3. CASE Preflight \/ Dispatch \/ Receive \/ TransportError
    BY <2>3, PreflightStep, DispatchStep, ReceiveStep, TransportErrorStep
  <2>4. CASE Conclude \/ Delete \/ RollbackDone \/ Cancel
    BY <2>4, ConcludeStep, DeleteStep, RollbackDoneStep, CancelStep
  <2>5. QED
    BY <2>1, <2>2, <2>3, <2>4 DEF Next, Returned
<1>2. QED
  BY <1>1, InitIInv, PTL DEF Spec
-----------------------------------------------------------------------------
(***************************************************************************)
(* What the runs check, for every plan and all slots.                      *)
(***************************************************************************)

\* No slot that was on the boards before the call is deleted by it.
THEOREM PreexistingKeptAlways == Spec => []PreexistingKept
<1>1. IInv => PreexistingKept
  BY DEF IInv
<1>2. QED
  BY <1>1, Invariance, PTL

\* Nexiuum hears nothing before all of Gray Space was granted and answered.
THEOREM NexiuumAfterGraySpaceAlways == Spec => []NexiuumAfterGraySpace
<1>1. IInv => NexiuumAfterGraySpace
  BY DEF IInv
<1>2. QED
  BY <1>1, Invariance, PTL

\* Success leaves no write of the plan undone or unnamed.
THEOREM SuccessIsCompleteAlways == Spec => []SuccessIsComplete
<1>1. IInv => SuccessIsComplete
  BY DEF IInv, SuccessIsAnswered, SuccessIsComplete
<1>2. QED
  BY <1>1, Invariance, PTL

\* Failure leaves no slot behind unnamed, unless its answer was lost.
THEOREM FailureIsAccountedAlways == Spec => []FailureIsAccounted
<1>1. IInv => FailureIsAccounted
  BY DEF IInv, NewItemsKnown, FailureIsAccounted, Failed, Awaited, Orphans
<1>2. QED
  BY <1>1, Invariance, PTL

\* No update takes effect before its slot is in the echo registry.
THEOREM EditsAreRecordedAlways == Spec => []EditsAreRecorded
<1>1. IInv => EditsAreRecorded
  BY DEF IInv
<1>2. QED
  BY <1>1, Invariance, PTL
-----------------------------------------------------------------------------
(***************************************************************************)
(* The refinement of PlanSaga.                                             *)
(***************************************************************************)

\* A write to Monday that the engine has no answer for is lost; every other
\* write in Monday's hands belongs to an open plan.
LEMMA ExecuteInserts ==
  ASSUME IInv, NEW w \in Writes, Execute(w)
  PROVE  Saga!Insert
<1> USE DEF IInv, Execute, result
<1>0. plan' = plan /\ pc' = pc /\ w \in DOMAIN plan /\ ids' \subseteq DOMAIN plan
  BY DEF TypeOK
<1>1. items' \ OldSlots \subseteq CreatesOf(DOMAIN plan)
  BY <1>0 DEF CreatesGranted, CreatesOf, TypeOK
<1>2. items \ OldSlots \subseteq items' \ OldSlots
  OBVIOUS
<1>3. CASE pc \in {"done", "cancelled"}
  <2>1. w \in lost /\ ~Succeeded
    BY <1>3 DEF InHand, Awaited, SuccessIsAnswered, Succeeded
  <2>2. (items' \ OldSlots) \ (items \ OldSlots) \subseteq CreatesOf(lost)
    BY <2>1 DEF CreatesOf
  <2>3. QED
    BY <1>0, <1>1, <1>2, <2>2
    DEF Saga!Insert, CreatesOf, IsCreate, Succeeded, Failed, Orphans
<1>4. CASE pc \notin {"done", "cancelled"}
  BY <1>0, <1>1, <1>2, <1>4
  DEF Saga!Insert, CreatesOf, IsCreate, Succeeded, Failed, Orphans
<1>5. QED
  BY <1>3, <1>4

\* A lost reply, or a cancellation while one is awaited, loses track.
LEMMA LossesLoseTrack ==
  ASSUME IInv, TransportError \/ Cancel
  PROVE  Saga!LoseTrack
<1> USE DEF IInv
<1>1. plan' = plan /\ lost \subseteq lost' /\ lost' \subseteq DOMAIN plan
  BY TypeStep DEF TransportError, Cancel, TypeOK, Next, result
<1>2. items' \subseteq items
  BY DEF TransportError, Cancel
<1>3. pc \in {"await", "rollback"} /\ pc' \in {"apply", "cancelled"}
  BY DEF TransportError, Cancel
<1>4. QED
  BY <1>1, <1>2, <1>3
  DEF Saga!LoseTrack, CreatesOf, IsCreate, Succeeded, Failed

\* The call returns: applied with everything there, failed with the rest named.
LEMMA ReturnsClose ==
  ASSUME IInv, pc' = "done", pc \notin {"done", "cancelled"},
         UNCHANGED <<plan, items, lost, created, rolledBack>>,
         SuccessIsAnswered', FailureIsAccounted', TypeOK', CreatesGranted'
  PROVE  Saga!CloseApplied \/ Saga!CloseFailed
<1>1. CASE ~errors'
  <2>1. /\ items' = OldSlots \cup CreatesOf(DOMAIN plan)
        /\ lost' = {}
    BY <1>1 DEF SuccessIsAnswered, SuccessIsComplete, Succeeded, CreatesOf,
       IsCreate
  <2>2. CreatesOf(DOMAIN plan) \cap OldSlots = {}
    BY Targets DEF IInv, TypeOK
  <2>3. QED
    BY <1>1, <2>1, <2>2
    DEF Saga!CloseApplied, CreatesOf, IsCreate, Succeeded, Failed, Orphans
<1>2. CASE errors'
  <2>1. created' \subseteq CreatesOf(DOMAIN plan)
    BY DEF IInv, CreatesGranted, CreatesOf, TypeOK
  <2>2. items \ OldSlots \subseteq (created \ rolledBack) \cup CreatesOf(lost)
    BY <1>2 DEF FailureIsAccounted, Failed, Orphans, IInv, CreatesGranted,
       CreatesOf
  <2>3. QED
    BY <1>2, <2>1, <2>2
    DEF Saga!CloseFailed, CreatesOf, IsCreate, Succeeded, Failed, Orphans
<1>3. QED
  BY <1>1, <1>2 DEF TypeOK

\* apply_plan keeps the contract its callers rely on: every behaviour of the
\* batches, replies and deletes is one of the plan saga.
THEOREM RefinesSaga == Spec => ImplementsSaga
<1>1. Init => Saga!SagaInit
  BY DEF Init, Saga!SagaInit, CreatesOf, Succeeded, Failed
<1>2. IInv /\ IInv' /\ [Next]_vars => [Saga!SagaNext]_(Saga!sagaVars)
  <2> SUFFICES ASSUME IInv, IInv', [Next]_vars
               PROVE  [Saga!SagaNext]_(Saga!sagaVars)
    OBVIOUS
  <2> USE DEF Saga!SagaNext
  <2>0. FailureIsAccounted'
    BY DEF IInv, NewItemsKnown, FailureIsAccounted, Failed, Awaited, Orphans
  <2>1. ASSUME NEW w \in Writes, Execute(w)
        PROVE  Saga!SagaNext
    BY <2>1, ExecuteInserts
  <2>2. CASE TransportError \/ Cancel
    BY <2>2, LossesLoseTrack
  <2>3. CASE pc' = "done" /\ (Preflight \/ Conclude \/ RollbackDone)
    BY <2>0, <2>3, ReturnsClose
    DEF Preflight, Conclude, RollbackDone, monday, result, IInv
  <2>4. CASE Delete
    <3>1. /\ items' \subseteq items /\ plan' = plan /\ lost' = lost
          /\ pc = "rollback" /\ pc' = "rollback"
      BY <2>4 DEF Delete, Confirmed
    <3>2. QED
      BY <3>1 DEF Saga!TakeBack, CreatesOf, IsCreate, Succeeded, Failed
  <2>5. CASE pc' # "done" /\ (Preflight \/ Conclude \/ RollbackDone)
    <3>1. /\ UNCHANGED <<plan, items, lost>>
          /\ pc \notin {"done", "cancelled"} /\ pc' \notin {"done", "cancelled"}
      BY <2>5 DEF Preflight, Conclude, RollbackDone, monday, result
    <3>2. QED
      BY <3>1 DEF Saga!sagaVars, CreatesOf, IsCreate, Succeeded, Failed
  <2>6. CASE Dispatch \/ Receive
    <3>1. /\ UNCHANGED <<plan, items, lost>>
          /\ pc \notin {"done", "cancelled"} /\ pc' \notin {"done", "cancelled"}
      BY <2>6 DEF Dispatch, Receive, monday
    <3>2. QED
      BY <3>1 DEF Saga!sagaVars, CreatesOf, IsCreate, Succeeded, Failed
  <2>7. CASE UNCHANGED vars
    BY <2>7 DEF vars, monday, result, Saga!sagaVars, CreatesOf, IsCreate,
       Succeeded, Failed, Orphans
  <2>8. ASSUME NEW w \in Writes, DeleteLate(w)
        PROVE  Saga!SagaNext
    <3>1. /\ items' \subseteq items
          /\ UNCHANGED <<plan, lost, pc, errors, created, rolledBack>>
          /\ ~Succeeded
      BY <2>8 DEF DeleteLate, result, IInv, Stages, Succeeded
    <3>2. QED
      BY <3>1 DEF Saga!TakeBack, CreatesOf, IsCreate, Succeeded, Failed, Orphans
  <2>9. QED
    BY <2>1, <2>2, <2>3, <2>4, <2>5, <2>6, <2>7, <2>8 DEF Next, Returned
<1>3. QED
  BY <1>1, <1>2, Invariance, PTL DEF Spec, ImplementsSaga, Saga!SagaSpec
=============================================================================
