------------------------------- MODULE Ingest -------------------------------
(***************************************************************************)
(* Which event places an order, and which slots a report finds: Monday's   *)
(* notifications and /commit (engine/routes/webhook.py, commit.py), the    *)
(* queue, and process_event (engine/io/worker.py) with the reads of a      *)
(* Blend Record and of a spec sheet.  A pressing order waits for its Blend *)
(* Record to be set to Blending (ADR-0004), a kitting order does not.      *)
(***************************************************************************)
EXTENDS SpecSheet, FiniteSets

CONSTANTS
  Items,       \* items of the Production Schedule board
  Blends,      \* items of the Blend Records board
  Source,      \* the item a Blend Record's source-item column names, or None
  Cells,       \* what a spec sheet cell may hold
  Edited,      \* bound: those of them that an edit may leave
  CommitOrder, \* the order a planner posts to /commit
  None,
  MaxEvents,   \* bound: events accepted by the queue
  MaxEdits     \* bound: edits of spec sheets

ASSUME IngestAssumption ==
  /\ Items \cap Blends = {} /\ None \notin Items \cup Blends
  /\ Source \in [Blends -> Items \cup {None}]
  /\ MaxEvents \in Nat /\ MaxEdits \in Nat

\* A cell that exists has two texts; what a planner commits is an order.
ASSUME InputsAssumption ==
  /\ Cells \subseteq [text : Sheets, value : Sheets] /\ None \notin Cells
  /\ Edited \subseteq Cells
  /\ CommitOrder \in Orders

Refs   == Items \cup Blends
Labels == {"Blending", "Pressing", "Done"}   \* the actionable ones

VARIABLES
  cell,        \* the spec sheet cell of each item, None before it is created
  released,    \* the Blend Records whose status was ever set to Blending
  queue,       \* the worker's queue of events [kind, subject, awaited]
  pc,          \* where process_event is
  event,       \* the event it processes
  ref,         \* the job reference of the order it builds
  order,       \* the order it builds
  board,       \* slots [ref, stage, chain, actual]
  served,      \* the Blend Records whose /commit was answered with slots
  gaveUp,      \* (history) those whose /commit was answered 504
  triggers,    \* (history) per job reference, accepted events that ask for an order
  handled,     \* (history) events process_event returned from: kind, subject, and
               \* "done", or "not_found" where Monday did not show the item
  count,       \* (history) events accepted
  edits        \* (history) edits of spec sheets

monday  == <<cell, released, edits>>
callers == <<served, gaveUp>>
work    == <<pc, event, ref, order>>
log     == <<triggers, count>>
vars == <<monday, callers, work, log, queue, board, handled>>

NoEvent == [kind |-> "none", subject |-> None, awaited |-> FALSE]
SlotsOf(r, c) == {s \in board : s.ref = r /\ s.chain = c}
ChainsOf(r)   == {s.chain : s \in {t \in board : t.ref = r}}

\* Whose order an event asks for: None if it asks for none, or its Blend
\* Record is not linked.
AsksFor(kind, subject) ==
  CASE kind \in {"order", "ready"} -> subject
    [] kind = "blending"           -> Source[subject]
    [] OTHER                       -> None
-----------------------------------------------------------------------------
(***************************************************************************)
(* What people and forms do on the boards.                                 *)
(***************************************************************************)
Init ==
  /\ cell = [i \in Items |-> None]
  /\ released = {} /\ edits = 0
  /\ queue = <<>>
  /\ pc = "idle" /\ event = NoEvent /\ ref = None /\ order = None
  /\ board = {}
  /\ served = {} /\ gaveUp = {}
  /\ triggers = [r \in Refs |-> 0] /\ count = 0 /\ handled = {}

CreateItem(i, c) ==
  /\ cell[i] = None
  /\ cell' = [cell EXCEPT ![i] = c]
  /\ UNCHANGED <<released, edits, callers, work, log, queue, board, handled>>

EditSheet(i, c) ==
  /\ cell[i] \notin {None, c} /\ edits < MaxEdits
  /\ cell' = [cell EXCEPT ![i] = c]
  /\ edits' = edits + 1
  /\ UNCHANGED <<released, callers, work, log, queue, board, handled>>

\* A linked Blend Record is made by the intake of its item.
SetBlending(b) ==
  /\ b \notin released
  /\ Source[b] # None => cell[Source[b]] # None
  /\ released' = released \cup {b}
  /\ UNCHANGED <<cell, edits, callers, work, log, queue, board, handled>>
-----------------------------------------------------------------------------
(***************************************************************************)
(* Events: notifications that Monday delivers never, once or often and in  *)
(* any order, each carrying the label it was sent for, and /commit.  While *)
(* no worker runs a notification is dropped, so it is not delivered here.  *)
(***************************************************************************)
Hooks ==
  [board : {"items"}, pulse : Items, label : {"none"}]
    \cup [board : {"blends"}, pulse : Blends, label : Labels]
    \cup [board : {"capacity"}, pulse : {None}, label : {"none"}]

\* A notification has a cause; people report and change capacity at any time.
Sent(h) ==
  /\ h.board = "items"    => cell[h.pulse] # None
  /\ h.label = "Blending" => h.pulse \in released

\* webhook_monday and webhook_monday_spec_sheet: the kind of event that a
\* notification becomes.  Only a capacity board's, an item's and an
\* actionable status do; the engine writes none of these boards, so its echo
\* registry has none of them.
KindOf(h) ==
  CASE h.board = "items"    -> "ready"
    [] h.board = "capacity" -> "capacity"
    [] h.board = "blends" /\ h.label = "Blending" -> "blending"
    [] h.board = "blends" /\ h.label = "Pressing" -> "start"
    [] h.board = "blends" /\ h.label = "Done"     -> "end"
    [] OTHER                -> "none"

Accept(kind, subject) ==
  /\ count < MaxEvents
  /\ count' = count + 1
  /\ triggers' = [r \in Refs |-> IF r = AsksFor(kind, subject)
                                 THEN triggers[r] + 1 ELSE triggers[r]]

\* submit_event awaits the event's future, enqueue_event does not.
Put_twice(kind, subject, awaited) ==
  LET e == [kind |-> kind, subject |-> subject, awaited |-> awaited]
  IN queue' = queue \o <<e, [e EXCEPT !.awaited = FALSE]>>
Put(kind, subject, awaited) ==
  queue' = Append(queue, [kind |-> kind, subject |-> subject, awaited |-> awaited])

Deliver(h) ==
  /\ Sent(h)
  /\ Accept(KindOf(h), h.pulse)
  /\ Put(KindOf(h), h.pulse, FALSE)
  /\ UNCHANGED <<monday, callers, work, board, handled>>

\* /commit, for the first time or again after an error.
Awaits(e, b) == e.awaited /\ e.subject = b
Waiting(b) == Awaits(event, b) \/ \E k \in DOMAIN queue : Awaits(queue[k], b)

Commit(b) ==
  /\ ~Waiting(b) /\ b \notin served
  /\ Accept("order", b)
  /\ Put("order", b, TRUE)
  /\ UNCHANGED <<monday, callers, work, board, handled>>

\* 504: the future is cancelled, the order stays in the queue.
GiveUp(b) ==
  /\ Waiting(b)
  /\ LET Cancelled(e) == IF Awaits(e, b) THEN [e EXCEPT !.awaited = FALSE] ELSE e
     IN /\ event' = Cancelled(event)
        /\ queue' = [k \in DOMAIN queue |-> Cancelled(queue[k])]
  /\ gaveUp' = gaveUp \cup {b}
  /\ UNCHANGED <<monday, served, pc, ref, order, log, board, handled>>
-----------------------------------------------------------------------------
(***************************************************************************)
(* process_event.                                                          *)
(***************************************************************************)
\* The event leaves the worker; whoever awaits it is answered: by an error, as
\* if process_event raised, where no slot was made.
Leave == pc' = "idle" /\ event' = NoEvent /\ ref' = None /\ order' = None
Return ==
  /\ Leave
  /\ handled' = handled \cup {<<event.kind, event.subject, "done">>}
  /\ served' = IF event.awaited /\ Chain(order) # {}
               THEN served \cup {event.subject} ELSE served
  /\ UNCHANGED gaveUp
\* Monday answers, but shows no such item (it is deleted, or the token cannot
\* see its board), or there is no token: logged, and no error of the event.
NotFound ==
  /\ Leave
  /\ handled' = handled \cup {<<event.kind, event.subject, "not_found">>}
  /\ UNCHANGED callers
Raise  == Leave /\ UNCHANGED <<handled, callers>>

\* The step an event begins with, once the snapshot is read.
FirstStep == [order |-> "apply", ready |-> "sheet", blending |-> "link",
              start |-> "report", end |-> "report", capacity |-> "stub"]

Take ==
  /\ pc = "idle" /\ queue # <<>>
  /\ event' = Head(queue) /\ queue' = Tail(queue)
  /\ pc' = FirstStep[event'.kind]
  /\ ref' = IF event'.kind \in {"order", "ready"} THEN event'.subject ELSE None
  /\ order' = IF event'.kind = "order" THEN CommitOrder ELSE None
  /\ UNCHANGED <<monday, callers, log, board, handled>>

\* CapacityChanged has no handler yet.
Stub ==
  /\ pc = "stub"
  /\ Return
  /\ UNCHANGED <<monday, log, queue, board>>

\* read_blend_record_ps_item_id: a record without a link is skipped.
ReadLink ==
  /\ pc = "link"
  /\ LET i == Source[event.subject]
     IN \/ NotFound
        \/ i = None /\ Return
        \/ /\ i # None
           /\ pc' = "sheet" /\ ref' = i
           /\ UNCHANGED <<event, order, callers, handled>>
  /\ UNCHANGED <<monday, log, queue, board>>

\* _build_order_from_ps_item: every refusal is logged, but for a packaging
\* type it does not know.  At create_item a pressing order is deferred.
Deferred_never(o) == FALSE
Deferred(o) == event.kind = "ready" /\ o.press

ReadSheet ==
  /\ pc = "sheet"
  /\ LET sheet == PayloadText(cell[ref])
         o     == BuildScheduleOrder(sheet)
     IN \/ NotFound
        \/ Accepted(sheet) /\ Deferred(o) /\ Return
        \/ /\ Accepted(sheet) /\ ~Deferred(o)
           /\ pc' = "apply" /\ order' = o
           /\ UNCHANGED <<event, ref, callers, handled>>
        \/ /\ ~Accepted(sheet)
           /\ IF Refusal(sheet) = "UnknownPackagingType" THEN Raise ELSE Return
  /\ UNCHANGED <<monday, log, queue, board>>

NewChain(part) ==
  LET c == Cardinality(ChainsOf(ref)) + 1
  IN {[ref |-> ref, stage |-> st, chain |-> c, actual |-> "none"] : st \in part}

\* _apply_or_noop, for the plan of an order; an empty one is not applied.
Apply ==
  /\ pc = "apply"
  /\ board' = board \cup NewChain(Chain(order))
  /\ Return
  /\ UNCHANGED <<monday, log, queue>>

\* apply_plan fails or raises; some slots may stay (see ApplyPlan).
ApplyFails ==
  /\ pc = "apply"
  /\ \E part \in SUBSET Chain(order) : board' = board \cup NewChain(part)
  /\ Raise
  /\ UNCHANGED <<monday, log, queue>>

\* The snapshot or another read of Monday raises, or the order cannot be
\* planned.
ReadFails ==
  /\ pc # "idle"
  /\ Raise
  /\ UNCHANGED <<monday, log, queue, board>>

\* plan_for_actual_start and plan_for_actual_end, in outline (see Schedule):
\* the press slots under the job reference that the report carries.
Reported(s) ==
  /\ s.ref = event.subject /\ s.stage = PressStage
  /\ IF event.kind = "start" THEN s.actual = "none" ELSE s.actual # "done"
Stamped(s) == [s EXCEPT !.actual = IF event.kind = "start" THEN "started" ELSE "done"]

Report ==
  /\ pc = "report"
  /\ board' = {IF Reported(s) THEN Stamped(s) ELSE s : s \in board}
  /\ Return
  /\ UNCHANGED <<monday, log, queue>>

\* The process ends and comes back: queue and event in hand are gone, their
\* callers get an error, of a chain being applied some slots may stay.
Restart ==
  /\ pc # "idle" \/ queue # <<>>
  /\ IF pc = "apply"
     THEN \E part \in SUBSET Chain(order) : board' = board \cup NewChain(part)
     ELSE UNCHANGED board
  /\ queue' = <<>>
  /\ Raise
  /\ UNCHANGED <<monday, log>>

Next ==
  \/ \E i \in Items, c \in Cells : CreateItem(i, c)
  \/ \E i \in Items, c \in Edited : EditSheet(i, c)
  \/ \E h \in Hooks : Deliver(h)
  \/ \E b \in Blends : SetBlending(b) \/ Commit(b) \/ GiveUp(b)
  \/ Take \/ Stub \/ ReadLink \/ ReadSheet \/ Apply \/ ApplyFails \/ Report
  \/ ReadFails \/ Restart

Spec == Init /\ [][Next]_vars
-----------------------------------------------------------------------------
(***************************************************************************)
(* Properties.                                                             *)
(***************************************************************************)
Stages == {PressStage} \cup (Nat \X DOMAIN Spellings)

Events == [kind : DOMAIN FirstStep, subject : Refs \cup {None}, awaited : BOOLEAN]

\* Type invariant; an order is in hand exactly while it is applied, and never
\* without a job reference; only a /commit is awaited, once per record.
TypeOK ==
  /\ cell \in [Items -> Cells \cup {None}]
  /\ released \subseteq Blends /\ served \subseteq Blends /\ gaveUp \subseteq Blends
  /\ queue \in Seq(Events)
  /\ pc \in {"idle", "apply", "sheet", "link", "report", "stub"}
  /\ IF pc = "idle" THEN event = NoEvent ELSE event \in Events
  /\ IF pc = "apply" THEN order \in Orders /\ ref \in Refs ELSE order = None
  /\ board \in SUBSET [ref : Refs, stage : Stages, chain : 1 .. MaxEvents,
                       actual : {"none", "started", "done"}]
  /\ \A k \in DOMAIN queue : queue[k].awaited => queue[k].kind = "order"
  /\ \A j, k \in DOMAIN queue :
       queue[j].awaited /\ Awaits(queue[k], queue[j].subject) => j = k
  /\ triggers \in [Refs -> 0 .. count] /\ count \in 0 .. MaxEvents

\* ADR-0004: nothing of an item is on a press before one of the Blend Records
\* made from it was set to Blending, whatever the events and their order.
PressOnlyReleased ==
  \A s \in board :
    s.stage = PressStage /\ s.ref \in Items =>
      \E b \in Blends : Source[b] = s.ref /\ b \in released

\* No event places more than one chain, however often reads and applications
\* fail and the process restarts: an order that is on the board twice was
\* asked for twice.
OncePerTrigger ==
  \A r \in Refs : Cardinality(ChainsOf(r)) <= triggers[r]

\* The slots a sheet calls for, read from the form's side: a press unless the
\* route is Kitting Only, a slot per entry of the flavor's breakdown.
CallsFor(sheet, stages) ==
  /\ PressStage \in stages <=> sheet.route # "Kitting Only"
  /\ LET flavor == sheet.flavors[sheet.index]
     IN /\ \A k \in DOMAIN flavor :
             \E g \in DOMAIN Spellings : flavor[k] \in Spellings[g] /\ <<k, g>> \in stages
        /\ Cardinality(stages \ {PressStage}) = Len(flavor)
Schedulable(sheet) == Accepted(sheet) /\ sheet.route # "Samples"

\* An event that was handled without an error did its work: the item that was
\* created, or released, has a complete chain under its own id, unless its
\* sheet is not to be scheduled, it still waits for Blending, or Monday did not
\* show the item or its Blend Record when it was read (which the worker logs and
\* lets pass, so that nothing is placed).
HandledIsPlaced ==
  edits = 0 =>
    \A i \in Items :
      LET kinds == {e[1] : e \in {f \in handled : AsksFor(f[1], f[2]) = i /\ f[3] = "done"}}
          sheet == PayloadText(cell[i])
      IN /\ kinds # {} /\ Schedulable(sheet)
         /\ "blending" \notin kinds => sheet.route = "Kitting Only"
         /\ sheet.route = "Kitting Only" => sheet.flavors[sheet.index] # <<>>
         => \E c \in ChainsOf(i) : CallsFor(sheet, {s.stage : s \in SlotsOf(i, c)})

\* tests/test_commit_http.py:187: after a 504 "the HTTP caller can retry without
\* producing duplicate work because the engine is idempotent on the upstream
\* Blend Records id".  Refuted.
Complete(b, c) == {s.stage : s \in SlotsOf(b, c)} = Chain(CommitOrder)
RetryIsIdempotent ==
  \A b \in gaveUp : Cardinality({c \in ChainsOf(b) : Complete(b, c)}) <= 1

\* io/blend_records_io.py:5: the engine resolves "Blend Record -> PS Order through
\* this column on every Blend Records status event", the actuals' included: a
\* report that is handled stamps the press slots of the record's order.  Refuted.
ReportsFindTheirSlot ==
  [][\A s \in board :
       /\ Report /\ event.kind = "start"
       /\ s.ref = Source[event.subject] /\ s.stage = PressStage
       => [s EXCEPT !.actual = "none"] \notin board']_vars
=============================================================================
