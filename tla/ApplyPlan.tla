----------------------------- MODULE ApplyPlan ------------------------------
(***************************************************************************)
(* One call of apply_plan (engine/io/apply.py): a Plan's slot writes are   *)
(* grouped by Monday account and sent as one batched mutation per account, *)
(* Gray Space first; a failure anywhere deletes what this call created.    *)
(* Monday runs the aliases of a batch one by one, each may be refused, and *)
(* the reply to a batch or to a rollback delete may be lost.  The caller,  *)
(* the worker task, can be cancelled at any await.                         *)
(*                                                                         *)
(* An item created for the write w is named w itself: Monday's fresh id.   *)
(***************************************************************************)
EXTENDS FiniteSets

CONSTANTS
  Writes,        \* indices into Plan.slot_writes
  GsSlots,       \* slots already on the Gray Space Schedule board
  NxSlots,       \* slots already on the Nexiuum Schedule board
  NoSlot         \* SlotWrite.slot_id = None: a create

OldSlots == GsSlots \cup NxSlots
Boards   == {"gray_space", "nexiuum"}
Items    == OldSlots \cup Writes

ASSUME IdsDistinct ==
  /\ Writes \cap OldSlots = {} /\ GsSlots \cap NxSlots = {}
  /\ NoSlot \notin Writes \cup OldSlots

VARIABLES
  plan,          \* index -> SlotWrite: the instance and the slot id
  configured,    \* the accounts whose Schedule board is configured
  pc,            \* where apply_plan stands
  todo,          \* the accounts it has still to visit, in First's order
  inflight,      \* writes sent that Monday has not come to yet
  doomed,        \* deletes sent that Monday has not come to yet
  ids,           \* writes whose alias returned an id: they took effect
  items,         \* items on Monday's two Schedule boards
  edited,        \* existing slots that an update has changed
  recorded,      \* ids in the echo registry (recent_writes)
  created, updated, rolledBack, errors,   \* the aggregate ApplyResult
  lost           \* (history) writes whose reply the engine never read

result == <<created, updated, rolledBack, errors>>
monday == <<inflight, doomed, ids, items, edited>>
vars   == <<plan, configured, pc, todo, monday, recorded, result, lost>>

\* A create may go to either board; an update goes to its slot's own board.
SlotWrite ==
  [instance : Boards, slot_id : {NoSlot}]
    \cup [instance : {"gray_space"}, slot_id : GsSlots]
    \cup [instance : {"nexiuum"}, slot_id : NxSlots]
Plans == UNION {[W -> SlotWrite] : W \in SUBSET Writes}

IsCreate(w)  == plan[w].slot_id = NoSlot
Target(w)    == IF IsCreate(w) THEN w ELSE plan[w].slot_id
WritesOn(b)  == {w \in DOMAIN plan : plan[w].instance = b}
CreatesOf(W) == {w \in W : IsCreate(w)}
UpdatesOf_any(W) == {Target(w) : w \in W}
UpdatesOf(W) == {Target(w) : w \in W \ CreatesOf(W)}
CreatedOn(b) == created \cap {Target(w) : w \in WritesOn(b)}
Visited_again(b) == todo
Visited(b)   == todo \ {b}
First(S)     == IF "gray_space" \in S THEN "gray_space" ELSE "nexiuum"

Succeeded == pc = "done" /\ ~errors
Failed    == pc = "done" /\ errors

\* ApplyResult.orphaned_slot_ids
Orphans == IF errors THEN created \ rolledBack ELSE {}
-----------------------------------------------------------------------------
Init ==
  /\ plan \in Plans /\ configured \in SUBSET Boards
  /\ pc = "start" /\ todo = {}
  /\ inflight = {} /\ doomed = {} /\ ids = {} /\ items = OldSlots /\ edited = {}
  /\ recorded = {}
  /\ created = {} /\ updated = {} /\ rolledBack = {} /\ errors = FALSE
  /\ lost = {}

\* The empty plan returns at once; Nexiuum writes without Nexiuum
\* configuration are refused before anything is written.
Preflight ==
  LET refused == WritesOn("nexiuum") # {} /\ "nexiuum" \notin configured IN
  /\ pc = "start"
  /\ IF DOMAIN plan = {} \/ refused
     THEN pc' = "done" /\ errors' = refused /\ UNCHANGED todo
     ELSE /\ pc' = "apply" /\ UNCHANGED errors
          /\ todo' = {b \in Boards : WritesOn(b) # {}}
  /\ UNCHANGED <<plan, configured, monday, recorded,
                 created, updated, rolledBack, lost>>

\* Send the next account's batch.  Its updates enter the echo registry
\* before the mutation leaves.  An unconfigured board sends nothing.
RegisterSent_not(W) == UNCHANGED recorded
RegisterSent(W) == recorded' = recorded \cup UpdatesOf(W)
RegisterReplied(W) == recorded' = recorded \cup CreatesOf(W)

MayContinue_always == TRUE
MayContinue == ~errors

Dispatch ==
  LET b == First(todo) IN
  /\ pc = "apply" /\ todo # {} /\ MayContinue
  /\ IF b \in configured
     THEN /\ pc' = "await" /\ inflight' = WritesOn(b)
          /\ RegisterSent(WritesOn(b))
          /\ UNCHANGED <<todo, errors>>
     ELSE /\ errors' = TRUE /\ todo' = Visited(b)
          /\ UNCHANGED <<pc, inflight, recorded>>
  /\ UNCHANGED <<plan, configured, doomed, ids, items, edited,
                 created, updated, rolledBack, lost>>

\* Monday comes to one alias of a batch it holds: it grants or refuses it.
\* It does so whether or not anybody still waits for the answer.
Execute(w) ==
  /\ w \in inflight
  /\ inflight' = inflight \ {w}
  /\ \/ /\ ids' = ids \cup {w}
        /\ items' = items \cup CreatesOf({w})
        /\ edited' = edited \cup UpdatesOf({w})
     \/ UNCHANGED <<ids, items, edited>>
  /\ UNCHANGED <<plan, configured, pc, todo, doomed, recorded, result, lost>>

\* _run reads the reply: an alias with an id was written, one without is an
\* error, and Monday may co-return errors with an id or for the whole batch.
MissingIsError_ignored(sent, got) == FALSE
MissingIsError(sent, got) == got # sent
CreatedIn_any(got) == CreatesOf(got) \cup UpdatesOf(got)
CreatedIn(got) == CreatesOf(got)

Receive ==
  LET sent == WritesOn(First(todo))
      got  == sent \cap ids
  IN
  /\ pc = "await" /\ inflight = {}
  /\ created' = created \cup CreatedIn(got)
  /\ updated' = updated \cup UpdatesOf(got)
  /\ RegisterReplied(got)
  /\ \E coReturned \in BOOLEAN : errors' = (coReturned \/ MissingIsError(sent, got))
  /\ pc' = "apply" /\ todo' = Visited(First(todo))
  /\ UNCHANGED <<plan, configured, monday, rolledBack, lost>>

\* httpx raises (timeout, broken connection, non-2xx) or the reply has no
\* data: nothing is known of the batch, which Monday may have run, be running
\* or never see.
TransportError ==
  /\ pc = "await"
  /\ errors' = TRUE
  /\ lost' = lost \cup WritesOn(First(todo))
  /\ pc' = "apply" /\ todo' = Visited(First(todo))
  /\ \/ UNCHANGED inflight
     \/ inflight' = {}                        \* the rest never arrived
  /\ UNCHANGED <<plan, configured, doomed, ids, items, edited, recorded,
                 created, updated, rolledBack>>

\* Every account answered without error, or the first error stops the visit.
Conclude ==
  /\ pc = "apply" /\ (todo = {} \/ ~MayContinue)
  /\ IF errors
     THEN /\ pc' = "rollback"
          /\ todo' = {b \in Boards : CreatedOn(b) # {}}
     ELSE pc' = "done" /\ UNCHANGED todo
  /\ UNCHANGED <<plan, configured, monday, recorded, result, lost>>

\* _rollback: delete this call's creates, one account at a time.  The ids
\* Monday returns are gone.  If the reply is lost, some are gone, some may
\* still go, and none is noted as rolled back.
Confirmed_all(gone, asked) == asked
Confirmed(gone, asked) == gone

Delete ==
  LET asked == CreatedOn(First(todo)) IN
  /\ pc = "rollback" /\ todo # {}
  /\ \E gone \in SUBSET asked :
       /\ items' = items \ gone
       /\ \/ /\ rolledBack' = rolledBack \cup Confirmed(gone, asked)
             /\ UNCHANGED doomed
          \/ /\ doomed' \in {doomed, doomed \cup (asked \ gone)}
             /\ UNCHANGED rolledBack
  /\ todo' = Visited(First(todo))
  /\ UNCHANGED <<plan, configured, pc, inflight, ids, edited, recorded,
                 created, updated, errors, lost>>

\* Monday comes to a delete whose answer nobody reads any more.
DeleteLate(i) ==
  /\ i \in doomed
  /\ doomed' = doomed \ {i}
  /\ items' \in {items, items \ {i}}
  /\ UNCHANGED <<plan, configured, pc, todo, inflight, ids, edited, recorded,
                 result, lost>>

RollbackDone ==
  /\ pc = "rollback" /\ todo = {}
  /\ pc' = "done"
  /\ UNCHANGED <<plan, configured, todo, monday, recorded, result, lost>>

\* stop_worker cancels the task at an await: nothing in apply.py catches
\* CancelledError, so neither the rest of the plan nor a rollback runs.
Cancel ==
  /\ \/ /\ pc = "await"
        /\ lost' = lost \cup WritesOn(First(todo))
        /\ UNCHANGED <<doomed, items>>
     \/ /\ pc = "rollback" /\ todo # {}
        /\ doomed' \in {doomed, doomed \cup CreatedOn(First(todo))}
        /\ UNCHANGED <<items, lost>>
  /\ pc' = "cancelled"
  /\ UNCHANGED <<plan, configured, todo, inflight, ids, edited, recorded, result>>

\* The call is over and Monday holds nothing of it any more.
Returned ==
  /\ pc \in {"done", "cancelled"} /\ inflight = {} /\ doomed = {}
  /\ UNCHANGED vars

Next ==
  \/ Preflight \/ Dispatch \/ Receive \/ TransportError
  \/ Conclude \/ Delete \/ RollbackDone \/ Cancel \/ Returned
  \/ \E w \in Writes : Execute(w) \/ DeleteLate(w)

Spec == Init /\ [][Next]_vars

\* The worker task runs on, and httpx gives up on a reply after 30 seconds.
Engine == \/ Preflight \/ Dispatch \/ Receive \/ TransportError
          \/ Conclude \/ Delete \/ RollbackDone
FairSpec == Spec /\ WF_vars(Engine)
-----------------------------------------------------------------------------
(***************************************************************************)
(* Properties.                                                             *)
(***************************************************************************)

\* Every variable keeps the shape the dataclasses of models.py and apply.py
\* give it.
TypeOK ==
  /\ plan \in Plans /\ configured \subseteq Boards
  /\ pc \in {"start", "apply", "await", "rollback", "done", "cancelled"}
  /\ todo \subseteq Boards
  /\ inflight \subseteq DOMAIN plan /\ ids \subseteq DOMAIN plan
  /\ lost \subseteq DOMAIN plan
  /\ items \subseteq Items /\ edited \subseteq OldSlots
  /\ recorded \subseteq Items /\ doomed \subseteq created
  /\ created \subseteq Items /\ updated \subseteq OldSlots
  /\ rolledBack \subseteq Items
  /\ errors \in BOOLEAN

\* However a call fails and whatever its deletes do, a slot that was on the
\* boards before it is never deleted (_rollback: "pre-existing/updated
\* slots are never touched").
PreexistingKept == OldSlots \subseteq items

\* Nothing is sent to Nexiuum unless every Gray Space write of the plan was
\* granted and its answer read: no packaging slot without its press slot.
NexiuumAfterGraySpace ==
  (inflight \cup ids) \cap WritesOn("nexiuum") # {} =>
     WritesOn("gray_space") \subseteq ids \ lost

\* Success is complete: every write of the plan took effect, every create is
\* on its board, and the result names all of them.
SuccessIsComplete ==
  Succeeded =>
     /\ ids = DOMAIN plan
     /\ items = OldSlots \cup created
     /\ created = CreatesOf(DOMAIN plan) /\ updated = UpdatesOf(DOMAIN plan)

\* Failure is accounted for: a slot the call leaves behind is named in
\* orphaned_slot_ids, unless the answer to its creation was lost.
FailureIsAccounted == Failed => items \ OldSlots \subseteq Orphans \cup lost

\* The echo registry is ahead of Monday for updates: when an update takes
\* effect, and Monday may call the webhook, its slot is already recorded.
EditsAreRecorded == edited \subseteq recorded

\* Whatever Monday refuses, loses or delays, apply_plan returns: the worker,
\* which runs one event at a time, is not held up for ever.
Returns == <>(pc \in {"done", "cancelled"})

\* apply_plan implements the contract of PlanSaga.
Saga == INSTANCE PlanSaga WITH
  wanted    <- CreatesOf(DOMAIN plan),
  present   <- items \ OldSlots,
  uncertain <- CreatesOf(lost),
  reported  <- IF pc = "done" THEN Orphans ELSE {},
  verdict   <- IF Succeeded THEN "applied" ELSE
               IF Failed THEN "failed" ELSE
               IF pc = "cancelled" THEN "abandoned" ELSE "open"

\* Every behaviour of apply_plan is, seen from its caller, one of PlanSaga.
ImplementsSaga == Saga!SagaSpec
=============================================================================
