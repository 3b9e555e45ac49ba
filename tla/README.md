# Verification of the Nexiuum scheduling engine

TLA+ models of the engine under `engine/`, the TLC runs that check them and the
TLAPS proofs about them. `PROJECT.json` maps every definition to the lines it
models and lists the runs, the mutants, the hazards and the findings.

## The system

The engine keeps the production schedule of two monday.com accounts, *Gray
Space* (presses, and packaging of its own) and *Nexiuum* (packaging). Monday is
the system of record: the engine holds no schedule of its own, reads a fresh
snapshot for every event and writes back slots. What it does hold in memory is
a queue of events, one worker task, a sweep task and a registry of its own
recent writes.

| Component | State | Operations | Hard because |
|---|---|---|---|
| `io/worker.py` | queue, worker task, one future per submission | submit, enqueue, worker loop, start, stop | futures are settled by the worker, by the caller's timeout and by the shutdown; events are dropped by a restart |
| `io/apply.py`, `io/monday.py` | none of its own; items on two boards | one batched mutation per account, rollback by delete | aliases of a batch are granted one by one; replies and deletes get lost; nothing is atomic across accounts; the caller is cancelled at an await |
| `core/actuals.py` | none (pure) | stamp actual start and end; baton-pass | reports are repeated, delayed and reordered by Monday and by people |
| `core/drift.py`, `io/sweep.py` | the sweep task | find late slots, queue drift events, stamp | events are judged on a snapshot older than the one they are applied to |
| `io/recent_writes.py` | registry of written (board, item, columns) with deadlines | record, is_engine_echo, prune | expiry, merging of entries, a size bound; races with Monday's webhooks |
| `routes/webhook.py` | none | webhook to event | echo filter; delivery at least once and in any order |
| `core/scheduler.py`, `core/routing.py`, `core/placement.py` | none (pure) | turn an order into a chain of slots | windows, day boundaries, dependencies between stages |
| `core/spec_sheet.py`, `io/spec_sheet_io.py`, `io/blend_records_io.py` | none | read an item, build an order | an order is released by a status change, which may be repeated |
| `routes/commit.py` | none | place an order and wait for the result | a 504 leaves the order in the queue |
| `io/snapshot.py` | none | read the boards of both accounts into one snapshot | the boards are read one after the other, page by page, while they change |
| `routes/view.py` | the page's snapshot, pinned slot and popout | `/schedule.json`; poll, draw, hover, pin, dismiss, zoom | polls overlap and are drawn as they arrive; the popout outlives the drawing it belongs to |
| `main.py` | none | start of worker and sweep, stop in reverse | the last sweep's events are discarded |
| `routes/simulate.py` | none | a dry run of the scheduler | |

How they interact: webhooks, the sweep and `/commit` put events on one FIFO
queue. The worker takes one at a time, reads a snapshot, asks the pure core for
a Plan and hands it to `apply_plan`, which writes to Monday. Between snapshot
and write the boards may change under the worker, by an operator or by a write
of an earlier event that Monday runs late. Monday turns the engine's own writes
into webhooks again; the registry filters those.

What makes the components correct:

* **apply_plan**: success means every write was done; failure means what was
  created is deleted or named; no older slot is ever deleted; Nexiuum hears of a
  plan only after all of Gray Space was granted; it always returns.
* **worker**: one event at a time in the order of acceptance, none twice; every
  future is settled exactly once, and truthfully.
* **actuals**: the first report stands, a finished slot stays finished, a
  handoff moves slots later and never earlier, and reaches everything that waits.
* **drift**: one stamp per window, and only for a slot that is late when judged;
  what stays late is stamped in the end.
* **echo registry**: an engine write is known before Monday can report it; an
  operator's edit is not swallowed for longer than the deadline.
* **ingest**: an event places at most one chain, a pressing order none before it is
  released, and an event that was handled did its work.
* **new orders**: an order is placed whole, on machines that can run it, inside
  their windows, no stage before those it depends on.
* **snapshot and view**: what a snapshot says of a slot was true during the read;
  the page catches up with the boards, its popout with the page.

## Modules

| Module | Models | Notes |
|---|---|---|
| `PlanSaga` | what a caller of `apply_plan` may rely on | abstract specification, no boards, batches or replies |
| `ApplyPlan` | `apply_plan`, `_apply_for_instance`, `_rollback`, `_merge_results`, `delete_items`; Monday as executor of aliases | implements `PlanSaga` |
| `ApplyPlanProofs` | the theorems about `ApplyPlan` | TLAPS |
| `Worker` | `worker.py`'s queue, loop and lifecycle; the waiting half of `/commit` | |
| `WorkerProofs` | the theorems about `Worker` | TLAPS |
| `EchoGuard` | `recent_writes.py` and who records in it | |
| `EchoGuardProofs` | the theorems about `EchoGuard` | TLAPS |
| `Placement` | `placement.py`, as operators | |
| `Scheduler` | `scheduler.py` and `routing.py`, orders arriving on a live schedule | extends `Placement`; `MCScheduler` instantiates it |
| `SchedulerProofs` | the theorems about `Placement` and `Scheduler` | TLAPS |
| `SpecSheet` | `spec_sheet.py` and the text of its cell, as operators | |
| `Ingest` | what the webhooks, `/commit`, the queue and `process_event` make of an order | extends `SpecSheet`; `MCIngest` instantiates it |
| `IngestProofs` | the theorems about `SpecSheet` and `Ingest` | TLAPS |
| `Sweep` | `sweep.py`, `drift.py` and the lifespan, over unending time | |
| `SweepProofs` | its type invariant | TLAPS |
| `View` | `view.py`, server and page, over `read_snapshot` and `fetch_board_items` | |
| `ViewProofs` | the theorems about `View` | TLAPS |
| `Schedule` | `actuals.py`, `drift.py`, `sweep_once`, the Blend Records branch of the webhook, and the writing of their plans | `MCSchedule` instantiates it |
| `ScheduleProofs` | the theorems about `Schedule` | TLAPS |

A definition whose name carries a suffix (`Confirmed_all` beside `Confirmed`) is
a mutant: a version with a plausible bug that the property named for it in
`PROJECT.json` must reject. No specification uses it.

### ApplyPlan

A state is one call. `plan`, `configured` are its input, chosen by `Init`: every
plan over the given writes, in every configuration. `pc` and `todo` follow the
control of `apply_plan` (pre-flight, Gray Space, Nexiuum, rollback). `inflight`,
`doomed`, `ids`, `items`, `edited` are Monday's: aliases and deletes it has not
come to yet, aliases that took effect, items on the boards, slots an update
changed. `created`, `updated`, `rolledBack`, `errors` are the `ApplyResult`.
`lost` is history: the writes whose reply was never read.

A batch is sent by `Dispatch`, run by Monday alias by alias (`Execute`, granted
or refused) and read by `Receive`; `TransportError` is the timeout or broken
connection at any moment in between, after which Monday may still run the rest,
also after the call has returned. Deletes are the same with `Delete` and
`DeleteLate`. `Cancel` is the `CancelledError` of `stop_worker`. A created item is
called after the index of its write, which stands for Monday's fresh id. An
error is a Boolean: no decision in the code depends on more. `machine_writes`
raise before anything happens, and no planner produces any; they are left out.

### Worker

Submissions are model values, those of `Commits` with a caller that waits.
`process_event` is one step that ends with slots, without any or with an exception
(`Endings`), and `/commit` answers the last two with an error; what it does is the
business of the other modules. `task.cancel()` and the end of the task are two
steps (`StopWorker`, `CancelWorker`), because events are still accepted in between:
`is_worker_alive` only asks whether the task is done. `Drain` is the rest of
`stop_worker`, which does not wait. `start_worker` is not called between the two:
the application's lifespan calls them one after the other.

### Schedule

The slots of one `/commit` order, whose job reference is a Blend Record, with the
columns the planners read. A slot on the other account reads back without job
reference (`JobRef`), because `_build_column_values` leaves the link out there.
The floor reports Pressing and Done in any order and number; Monday delivers a
report never, once or often, at any time (`Deliver`). The worker's `Take` is
snapshot and plan, `WriteBatch` the batch of one account, of which Monday may grant
a part; of a batch given up on, one write may land later (`LandLate`). Operators
change a column of any unfinished slot at any time. `Restart` empties the queue
and forgets the event in hand. `edited` and `overrun` name the slots that an
operator, or a late write, changed after the worker's snapshot: the worker cannot
know better about those, and the properties leave them out, for one event only
(`ActualsWriteOnce` and `StampsApart` leave out the overrun ones alone). What the
code does to those slots is its weak spot, since it writes what it planned: an edit
made between snapshot and write is overwritten, and no property here catches it.

Which slots wait for a finished one depends on a recipe. Slots pin the version they
were placed under (`recipe`), `processes` holds the versions on the Processes boards,
and the baton-pass looks the one up in the other (`PinnedRecipe`, `PushesOf`). Where
no finished slot pins a recipe, or the boards do not have it, the end is written and no
baton passed. People pin another recipe, none, or add and remove versions
(`EditRecipes`); while an event is in hand that is noted in `edited` as `Pinning`. What
the stages of a version are, and what each depends on, does not change, and a stage
occurs once in a recipe. Blocked slots are movable, as in `Slot.is_immovable` (and not as in
CONTEXT.md, see the findings).

### EchoGuard

`entries` is `_entries`, an item standing for its (board, pulse) pair and a creation
entry for all columns. The actions are those of the engine that lead to a
`record_write`: an update is recorded as it is sent, a creation when the reply
with its id is read, which may be never. The lock makes each call one step, the
clock is monotonic. A webhook reads the registry and changes nothing, and may come
at any moment for any column, so there is no action for it: the properties
quantify over what it would be answered. `log` is history: the engine's writes,
without those that a restart or the bound made the registry forget. Which of
several entries with the same deadline the bound evicts is left open.

### Placement and Scheduler

`Placement` has the arithmetic of working windows, on whole steps of time with
`Day` steps a day; `Fits` is what a start has to satisfy, stated apart from how the
code finds one. `Scheduler` has `plan_for_new_order` as a pure operator `Plan(o)`:
stages in topological order, kitting and packaging slices, candidates, the single
machine or the split, the queue of a machine with what the same plan has already put
on it. A plan is a set of chunks (stage, machine, quantity, start, end), built stage
after stage (`PlaceStages`); the list of candidates in the code is a set (`Eligible`)
and its order (`Preferred`), which decides between equal starts. Recursion is a
function over the steps done, so that the operators can be proved about. `Place(o)` is the worker coming to an order: snapshot,
plan and write in one step, or a failure that leaves nothing. In between time
passes, slots are worked off, blocked and moved (`Edit`; a baton-pass is such a
move), machines go down and come back (`Toggle`). Machines are a sequence in the
order of their names, which is also the boards' order here; durations are rounded
up to whole steps, and shares are computed in integers where the code has floats,
which may break a tie differently. Daylight saving is left out.

What a plan promises is promised for the snapshot it was made from: the action
properties speak of the slots that the step adds (`New`). `AsEarlyAsPossible` is
the reference definition of placement: the machine is an allowed one, the slot is
inside its window, and no earlier start would have fit, on the machine or on any
other one allowed; it speaks of the machine alone where a stage is split.

### SpecSheet and Ingest

`SpecSheet` has the decisions of `spec_sheet.py` in the order they are made: which
route is scheduled and presses, what is refused and how, which group a packaging
type belongs to whatever its spelling. A sheet is a record of the four fields these
decisions read; a cell has a text and a value, one of them empty. `Chain` is which
stages the order gets, under a recipe with one press stage; where and when they are
placed is the business of `Scheduler`.

`Ingest` follows an event from its cause to the board. People create items, edit
sheets and release Blend Records; Monday delivers a notification of that never, once
or often (`Deliver`), with the label it was sent for. `Commit` and `GiveUp` are the
two halves of `/commit` and its 504; the future that is awaited is a flag of the
event. The worker's steps are those of `process_event` between two awaits: the
link (`ReadLink`), the sheet (`ReadSheet`), the application (`Apply`, or `ApplyFails`
with any part of the chain left behind, as `ApplyPlan` allows), the actuals in
outline (`Report`). `ReadFails` is a read at any of them that raises. A read may
also be answered without the item or the Blend Record, which is deleted or hidden
from the token, or not be made for want of a token (`NotFound`): the code logs that
and lets the event return, with nothing placed. `Restart` is the loss of queue and
event. While no worker runs, notifications are acknowledged and
dropped, which is a notification never delivered. A chain carries a number, so that
two placements of one order can be told apart; `triggers`, `handled` and `gaveUp`
are history.

### Sweep

The sweep as the lifespan starts and stops it, for ever: `Schedule` has its steps on a
clock that stops, which is enough for safety and useless for liveness. Here only
distances are kept: how far a slot is behind the instant its next report is planned
for, and how old its stamp is, both capped where no decision depends on more. A
pass (`Pass`) queues what drifts on the snapshot; the worker judges it again
(`Handle`). People and planners may change a slot at any time, endlessly (`Change`).

### View

`polls` are the requests for `/schedule.json` in flight. A poll is a sequence of
queries: the machines of an account, the slots of it page by page behind a cursor, the
same for the other account, and the Blend Records for the labels. Between any two
the boards may change (`Edit`): a slot comes, goes or changes, a machine comes or
goes, the token loses or regains an account, a label changes. `held` is history: the
worlds a poll has seen. Slots are numbers in the order in which Monday lists them; a
cursor is the last one delivered, which is the weakest thing a cursor may be: what
comes or goes behind it is not noticed. The recipe boards are read in between and not
shown; they are left out.

The page is what `fetchSnap`, `render` and the event listeners change: the snapshot,
the feed indicator, `pinnedSlotId` and the popout. The popout's position and the
plot's geometry are left out, but not which slots get a bar, for only a bar can be
hovered or pinned.

## Runs

| Run | Bounds | What it shows |
|---|---|---|
| `apply_plan` | 4 writes, 1 old slot per account | the six invariants, the refinement of `PlanSaga` and termination |
| `worker` | 2 waiting callers, 1 post | order, truth and single settling of answers; nobody waits for ever |
| `schedule` | 2 slots on one account, 2 recipe versions, both or one of them on the boards, 2 reports, 4 instants, 1 edit or late write, queue of 1 and what a sweep adds to it | the seven action properties of the planners |
| `echo_guard` | 3 items, 2 of them old, 2 columns, bound of 1 entry, TTL of 2, 4 writes, 5 instants | what the registry answers: echoes caught, edits dropped only in a burst, the bound |
| `scheduler` | 5 orders, 5 machines, day of 4 steps, 3 instants, 1 edit | type, clearance, order of stages, earliest start on an allowed machine inside its window, whole quantity |
| `ingest` | 1 item with its Blend Record and 1 record without an item, 12 cells, 3 events, 1 edit | who places an order, when, and how often |
| `sweep` | 1 slot, period 2, threshold 2, suppression 4, 2 stops, no bound on time | type; what stays late is flagged |
| `view` | 3 slots on 2 accounts, pages of 1, 2 polls, 1 change, 1 failure | regular snapshots, a truthful popout, a page that catches up |
| `scheduler_midnight` | as `scheduler`, one machine with another window | finding, below |
| `schedule_cross_instance`, `ingest_retry`, `ingest_reports` | the same or smaller | findings, below |

Why these bounds are enough: the control of `apply_plan` distinguishes accounts,
creates and updates, granted and refused; two writes per account have every mix
of them, and the proofs below remove the bound. In `Worker` one submission is in
hand while another is queued and a third arrives or times out; more only lengthen
the queue. In `Schedule` one slot finishes and one waits, a report can be
repeated, late or reversed against another, and a drift event can be queued twice
(one in hand, one behind). By one of the two recipes packaging waits for the press, by
the other it does not; the slots pin the first, which may be missing, be re-pinned,
come or go. `Threshold` and `Handoff` are one step, `Suppression`
two, so that a stamp, its window and the time after it all occur. In `EchoGuard`
four writes are enough for an entry to be merged twice and another item to push
it out, five instants for one burst to end and another to begin. In `Scheduler` each
order stands for a kind: two dependent presses with two slices of one class, one
of them split; a tablet that is forced onto a machine which is too small for it;
a dual-sided one; kitting; a retired recipe. Jobs shorter than, as long as and
longer than a window occur, and all orders of arrival. In `Ingest` the cells have one
sheet for every way the code can take, the two Blend Records are one with and one
without an item, and three events are a creation and a release with either repeated,
or a `/commit`, its retry and a report. In `Sweep` slots meet only in the queue, which
is bounded by what a pass may add; suppression is two periods, so a pass falls into
it and another one after it; a manually placed slot, which the engine watches no more
than a blocked one, is not told from it there. In `View` two slots on one account with pages of one make
a snapshot of three pages, two polls are enough for an old answer to overtake a new
one, and one change can fall between any two queries of both. More than one change
adds worlds to choose from and no new order of steps.

Fairness. `ApplyPlan`: weak fairness of the engine's own steps. The worker task is
runnable whenever a reply or a timeout is there, and httpx gives up on a reply
after 30 seconds; nothing is assumed of Monday. `Worker`: weak fairness of taking,
completing, ending after a cancellation, draining and waking a caller, all of
which the event loop runs when ready; nobody is assumed to start, stop, submit or
time out. `Schedule` checks safety only and assumes no fairness; it may stop when
time is up, so deadlock is not checked there. The same holds for `EchoGuard`,
`Scheduler` and `Ingest`, which stop at their bounds. `Sweep`: weak fairness of time, of
the tasks that the lifespan starts and stops, and of the start itself, for the
container is restarted by its supervisor; strong fairness of a pass and of handling an
event, for Monday may refuse either now and then but not whenever it is asked. Nobody
is assumed to change a slot, and shutdowns are finitely many (`MaxStops`): a service
that is stopped for good flags nothing. `View`: weak fairness of a new poll (the
timer of the page is never cleared), of the steps of a poll and of its arrival (every
query has a timeout of 30 seconds). Failures and changes are finitely many, since a
page cannot catch up with boards that never rest.

## Findings

Each is a run that TLC refutes, a disagreement between the code and its text:

* `CrossInstanceBaton`: CONTEXT.md and a comment say a press finishing on one
  account pushes packaging on the other; those slots carry no job reference and
  are never found. On one account the baton is passed (`BatonPassed`).
* `RefusedForCause`: windows may end at 24 by the comment in `models.py`; unless they
  begin at 0, `placement.py` asks for hour 24 of a day and raises. A blank end of a
  window is read as 24 (`snapshot.py`), so one filled-in start is enough.
* `RetryIsIdempotent`: a test says a `/commit` that was answered 504 can be sent again
  without duplicate work; nothing compares job references and the order is placed
  twice. What does hold is `OncePerTrigger`.
* `ReportsFindTheirSlot`: the docstring of `blend_records_io.py` says every status event
  of a Blend Record is resolved to its item; Pressing and Done are not, so the slots of
  an order placed through Blending are never stamped. `Schedule` therefore follows
  `/commit` orders, whose job reference is the Blend Record.

Met while modelling and not made a run:

* The docstring of `orphaned_slot_ids` promises that remaining orphans stay loud; after
  a lost reply they are silent. `FailureIsAccounted` says what holds.
* CONTEXT.md says no engine-driven Plan writes to a manually placed slot; actuals are
  written to it. Its plan is left alone (`ImmovableKeepsPlan`).
* The docstring of `plan_for_actual_end` says a report for finished slots gives an empty
  plan; the baton-pass runs all the same.
* The docstring of `recent_writes.py` says an event is dropped only when it matches a
  write inside the TTL window; merged entries prolong each other. `DroppedInOneBurst`
  says what holds.
* `blend_records_io.py:36` says callers fall back to the Blend Record's own id when it has
  no link; `BlendingStarted` is skipped then.
* `build_packaging_breakdown` says an order without a breakdown is handled upstream by
  its header's packaging type; nothing reads that field. A kitting order without a
  breakdown gets an empty plan and is never placed (`HandledIsPlaced` excepts it).
* `main.py` says the sweep stops first "so the worker is still draining when the last
  sweep batch lands"; `stop_worker` follows at once and discards the queue. The next
  life's sweep finds the slots again (`LateIsFlagged`).
* `simulate.py` says a refused order is a 400 with its kind; a `ValueError` of the core is
  not among those it catches.
* ADR-0004 has deferred orders shown in a backlog lane of `/view`; there is none.
* `snapshot.py` says partial snapshots are never returned; a board the token cannot see
  reads as an empty one, without an error. `SnapshotIsRegular` counts its slots as
  missing then.
* `src/CONTEXT.md:108` says under *SlotStatus* that the engine treats Blocked slots as
  Immovable; under *Immovable* (line 114) it leaves them out, and so does
  `Slot.is_immovable` (`models.py:191`). The baton-pass moves their plan, as `BatonPassed`
  says; drift detection leaves them alone.
* The plan documents have a slot with a dangling recipe become Blocked
  (`gray-space-scheduling-plan.md:21`, `resolutions-v2-to-v3.md:207`); the baton-pass skips
  it with a note, as `tests/test_actuals.py:510` expects.
* An item or Blend Record that Monday does not show, and a missing token, are logged and
  count as handled: the order is not placed and `/health` knows nothing of it
  (`HandledIsPlaced` excepts these events).
* A popout that only hovers is neither filled again nor hidden by a new drawing.

## Proofs

`ApplyPlanProofs` proves, for every set of writes and of slots on the two boards,
from the single assumption `IdsDistinct` (Monday's new ids are fresh, a slot is on
one board):

* `TypeCorrect`: the type invariant.
* `Invariance`: the inductive invariant `IInv`.
* `PreexistingKeptAlways`, `NexiuumAfterGraySpaceAlways`, `SuccessIsCompleteAlways`,
  `FailureIsAccountedAlways`, `EditsAreRecordedAlways`: the invariants of the run.
* `RefinesSaga`: every behaviour of `ApplyPlan` is one of `PlanSaga`.

None of the properties is inductive: whether a failed call has named all it left
behind depends on what Monday still has in hand. `IInv` adds that (`InHand`: an
alias not yet run belongs to the batch awaited or to a lost one), where each new
item is known (`NewItemsKnown`: to the result, as lost, or awaited), that the
accounts already visited without error are complete (`AnsweredComplete`), that
Nexiuum is untouched while Gray Space is to be visited (`GraySpaceFirst`), and that
the updates Monday holds are recorded (`HeldUpdatesRecorded`). There is one lemma
per action. The refinement uses `IInv` in both states of a step: `Execute` is an
`Insert`, lost replies and cancellation a `LoseTrack`, deletes a `TakeBack`, the
returns a `CloseApplied` or `CloseFailed`, everything else a stutter.

`EchoGuardProofs` proves, for every set of items and columns, TTL and bound, from the
assumption that these are naturals and the old items are items:

* `RegistryInvariant`: the inductive invariant; `RegistryTypeCorrect`: the type invariant.
* `DroppedInOneBurstAlways`, `EchoesCaughtAlways`, `BoundedAlways`.

The inductive invariant relates entries and history: no write lies in the future
(`Past`), each column of an entry goes back to a write from which on writes follow
each other within a TTL up to the entry's deadline (`Burst`), and every live write
that is remembered is in its item's entry, which expires no sooner than a TTL after
the write (`Remembered`). The properties speak of the clock and are lost in the next
tick without these. `Size` is the bound. Only `RecordWrite` needs an argument; the
other steps move the clock or forget.

`ViewProofs` proves, for every finite set of slots with ids above zero, page size,
number of polls and bound on edits and failures, from the assumptions in `View`:

* `Invariance`: the inductive invariant `IInv`.
* `SnapshotIsRegularAlways` and `PinnedIsShownAlways`: the invariants of the run.

`SnapshotIsRegular` speaks of an answered poll; `IInv` speaks of one under way: each
slot the cursor has passed stood as read in some world since the request, each other is
blank (`RowsTrue`), likewise for machines and label, and the present world is one of
those held. The step that matters is `ReadSlots`: whatever lies at or below the new
cursor and is not in the page was not on the board (`PageFacts`, from the least and
greatest element of a finite set, `Extremes`). `PinnedIsShown` is inductive itself.

`WorkerProofs` proves, for any submissions with and without a caller, from
`SubsDistinct` (the two kinds are different, and neither is `None`):

* `TypeCorrect`, `FifoOnceAlways`, `AnswerIsTrueAlways`: the invariants of the run.
* `SettledOnceAlways`: the action property.

What a caller is told is true because of what its future says and when it can be
settled at all. `IInv` adds that a submission is in hand once, in the queue or
with the worker (`InHandOnce`), that while it is it has no outcome yet, and none before
it is submitted (`Untouched`), and what each way of settling a future means
(`FutureTells`): a cancelled one was cut off, discarded or given up by its caller.

`IngestProofs` proves, for any items, Blend Records, links between them, cells and
bounds, from `IngestAssumption` (the two kinds of ids are different) and
`InputsAssumption` (a cell has two texts, what is posted is an order):

* `TypeCorrect`, `PressOnlyReleasedAlways`, `OncePerTriggerAlways`,
  `HandledIsPlacedAlways`: the invariants of the run.

`OncePerTrigger` counts chains, and is kept only because each event still in the queue
or in hand can pay for at most one more (`Paid`) and chains are numbered through
(`Numbered`). `HandledIsPlaced` needs what the worker holds at each of its awaits
(`InHand`: the reference asked for, the order built from the present cell), and
`PressOnlyReleased` that a release event was caused by a release (`AllCaused`). The
`SpecSheet` lemmas say what an accepted sheet is and which stages it makes.

`ScheduleProofs` proves, for any finite set of slots, jobs, recipes without a stage
that waits for itself, settings and initial boards, from `ScheduleAssumption`:

* `TypeCorrect`: the type invariant.
* `ActualsWriteOnceAlways`, `DoneIsFinalAlways`, `PushOnlyAlways`,
  `ImmovableKeepsPlanAlways`, `BatonPassedAlways`, `StampsApartAlways`,
  `StampMeansLateAlways`: the seven action properties of the run.

All seven are about a write, and what makes it right was decided when the plan was
made, some steps before. `IInv` carries that over: the writes in hand belong to the
event in hand, and unless an operator or a late write changed their slot since, they
still fit the columns as read (`WritesFit`); every slot that the baton-pass owes a push,
by the recipe that was pinned and found, is pushed already or by a write in hand
(`PushesInHand`), which is what `BatonPassed` is after. That the pinned recipe is still
the one the plan was made by holds because the worker itself never writes that column
(`PinsKept`). `WrittenFacts` reduces a batch to what it does to one slot.

`SchedulerProofs` proves, for any rows of machines, recipes, orders and settings, from
`SchedulerAssumption` (the shapes of the rows, positive quantities and settings,
stage ids that are unique in a recipe) and `DayAssumption`:

* `TypeCorrect`: the type invariant, and with it that every `CHOOSE`, division and
  index in routing, split and placement is defined where it is used.
* `KeepsClearAlways`, `StagesInOrderAlways`: two of the action properties.
* `AsEarlyAsPossibleAlways`: the third, for machines whose window ends after it begins
  (`Windows`). Nothing in the code refuses another; it has no notion of a window
  over midnight, and places such a job outside of it. That part of the property
  which says no earlier start would fit does not need it.

The invariant over time is small (`IInv`: orders on the board wait no longer, so that
`New` is the plan and nothing else; the board is finite). The argument is in the plan.
`EarliestIsFirst` proves the arithmetic of windows: the instant that
`find_earliest_start` reaches fits, and is the least that does. `StartRight` joins it
with the queue of a machine and `EligibleRight` with routing; `PreferredIsOrder` says
that the order of candidates has no ties, so there is a best one. `IsPlanOf` is the
invariant of the loop over stages: every chunk is what its stage makes of the chunks of
earlier stages, no machine has two chunks of a stage, and no stage is without a chunk.
The last is what packaging hangs on, and rests on `SharesRight`: whatever the rounding,
somebody gets a share. `PackagingLast` then goes along the stages: of those with a
chunk that ends late, the last has none that depends on it, so packaging waits for it.

Loops over stages and sums are recursive functions. The library's induction theorems
take an operator and cannot be instantiated here; `Recursion` (such a function exists)
and `Stepwise` (what each step keeps holds at the end) are proved once by least
counterexample, with sets in the place of predicates, and used for `TopologicalOrder`,
`Total` and `PlaceStages`.

`SweepProofs` proves the type invariant, from `SweepAssumption` (settings are
positive): timer, queue and clocks keep within their bounds.

Every inductive invariant was checked by TLC on the instance of its run before it was
proved.

Only model-checked: liveness (`Returns`, `EveryFutureSettles`, `TimedOutStillLeaves`,
`LateIsFlagged`, `CatchesUp`), which is outside the prover, and `WholeQuantity`: it adds
up quantities over a set with a fold, and asks how many shares are bumped, which needs
induction over that set and exact bounds on what rounding loses. `RefusedForCause`,
`CrossInstanceBaton`, `RetryIsIdempotent` and `ReportsFindTheirSlot` are the findings.

## Plan

Done: all modules above, with proofs of every safety property that a passing run
checks, except `WholeQuantity`. Next, in this order:

1. `WholeQuantity`: that `Shares` adds up, by `Stepwise`, and from there the fold.
2. `Engine`: new orders, actuals and machines composed: what repeated handoffs do to the
   other slots of a machine, and what a Blocked slot that resumes finds there.

## Not modelled

* `/simulate` and `/health` read and answer; they change nothing and meet nobody. The
  arithmetic of the first is `Scheduler`'s.
* `config.py`, `core/labels.py`, `core/timezone.py`, `io/engine_identity.py`: settings,
  names and formats. Settings that decide something are constants of the modules.
* Parsing and formatting of columns (`snapshot.py`, `apply.py`): what a row says is the input of
  the modules. Daylight saving is left out with it.
* Authentication, the challenge handshake and malformed payloads of the webhooks, which
  end a request before anything happens.
* The scripts, run by hand against live boards, outside the service.
