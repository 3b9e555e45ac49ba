------------------------------- MODULE View -------------------------------
(***************************************************************************)
(* GET /schedule.json and the page at /view (src/engine/routes/view.py),   *)
(* over read_snapshot (src/engine/io/snapshot.py) and the client's paging. *)
(*                                                                         *)
(* A snapshot is not atomic: it is read board after board, page after      *)
(* page, while operators and the engine edit.  The page polls on a timer   *)
(* that does not wait for the poll before, draws what arrives last, and    *)
(* keeps a popout open over its re-renders.                                *)
(*                                                                         *)
(* Left out: the recipe boards, which are read between machines and slots  *)
(* and not shown, geometry, wording, and escaping.                         *)
(***************************************************************************)
EXTENDS Naturals, FiniteSets, FiniteSetsExt

CONSTANTS
    Slots,             \* the ids of the Schedule items, in the order Monday lists them
    Nexiuum,           \* those of them on the Nexiuum board; the others are Gray Space's
    NexiuumEnabled,    \* settings.nexiuum_enabled
    PageSize,          \* page_size of fetch_board_items
    Labels,            \* what the order's Blend Record can show (PO number, client, ...)
    Rows,              \* subset of {"plotted", "unlinked", "undated", "past"}: what a row holds
    Polls,             \* bound: polls in flight
    MaxEdits,          \* bound: changes to the boards
    MaxFails,          \* bound: polls that fail for a reason outside the model
    Gone,              \* "no such slot"
    NoSlot,            \* null in pinnedSlotId
    NoSnap,            \* null in state.snap
    NoLabel            \* no enrichment

\* Ids are above the cursor that stands for none.
ASSUME SlotsAssumption ==
    /\ Slots \in SUBSET (Nat \ {0}) /\ IsFiniteSet(Slots)
    /\ Nexiuum \subseteq Slots
ASSUME PageAssumption == PageSize \in Nat \ {0} /\ NexiuumEnabled \in BOOLEAN
ASSUME LabelAssumption == NoLabel \notin Labels
ASSUME BoundsAssumption == MaxEdits \in Nat /\ MaxFails \in Nat

VARIABLES
    world,     \* the boards, as they are
    polls,     \* the requests for /schedule.json in flight
    snap,      \* state.snap of the page
    feed,      \* the feed indicator: "live" or "stale"
    pinned,    \* state.pinnedSlotId
    tip,       \* the popout
    edits,     \* changes so far
    fails      \* failures so far

ui == <<pinned, tip>>
vars == <<world, polls, snap, feed, ui, edits, fails>>

-----------------------------------------------------------------------------
(* The boards.  A row is in the plot, or links no machine, or has no dates, *)
(* or ended before the look-back.  Each account has one machine: machines   *)
(* are those on their board, hidden the accounts whose boards the token     *)
(* cannot see.                                                              *)

Accounts == IF NexiuumEnabled THEN {"gray_space", "nexiuum"} ELSE {"gray_space"}
AccountOf(s) == IF s \in Nexiuum THEN "nexiuum" ELSE "gray_space"

\* What a reader is shown of a world.
RowIn(w, s) == IF AccountOf(s) \in Accounts \ w.hidden THEN w.rows[s] ELSE Gone
MachinesIn(w) == w.machines \ w.hidden

-----------------------------------------------------------------------------
(* A poll: the boards in the order read_snapshot reads them, then the       *)
(* Blend Records.  `held` are the worlds since the poll was sent.           *)

Reads == IF NexiuumEnabled
         THEN <<<<"gray_space", "machines">>, <<"gray_space", "slots">>,
                <<"nexiuum", "machines">>, <<"nexiuum", "slots">>>>
         ELSE <<<<"gray_space", "machines">>, <<"gray_space", "slots">>>>

LastRead == IF NexiuumEnabled THEN 4 ELSE 2
EnrichStep == LastRead + 1
Answered == LastRead + 2
Idle == 0
Failed == LastRead + 3

IdlePoll == [step |-> Idle, cursor |-> 0, rows |-> [s \in Slots |-> Gone],
             machines |-> {}, label |-> NoLabel, held |-> {}]

FailedPoll == [IdlePoll EXCEPT !.step = Failed]

\* items_page and next_items_page: the items after the cursor, in order.
After(account, cursor) ==
    {s \in Slots : s > cursor /\ AccountOf(s) = account /\ world.rows[s] # Gone}

Page(account, cursor) ==
    {s \in After(account, cursor) :
        Cardinality({t \in After(account, cursor) : t < s}) < PageSize}

\* Mutant: only the first page is fetched.
NextCursor_none(account, cursor) == 0

\* The cursor Monday sends with a page, none after the last one.
NextCursor(account, cursor) ==
    LET page == Page(account, cursor) IN
    IF page = After(account, cursor) THEN 0
    ELSE CHOOSE s \in page : \A t \in page : t <= s

NextBoard(r) == [r EXCEPT !.step = @ + 1, !.cursor = 0]

Init ==
    /\ world \in [rows : [Slots -> {"plotted"}], machines : {Accounts}, hidden : {{}}, label : Labels]
    /\ polls = [p \in Polls |-> IdlePoll]
    /\ snap = NoSnap
    /\ feed = "stale"
    /\ pinned = NoSlot
    /\ tip = [on |-> FALSE, pinned |-> FALSE, shows |-> NoSnap]
    /\ edits = 0
    /\ fails = 0

\* Mutant: a failed poll ends the timer.
StartPoll_once_live(p) ==
    /\ polls[p].step = Idle
    /\ snap # NoSnap => feed = "live"
    /\ polls' = [polls EXCEPT ![p].step = 1, ![p].held = {world}]
    /\ UNCHANGED <<world, snap, feed, ui, edits, fails>>

\* The page loads, or its timer fires: fetchSnap.
StartPoll(p) ==
    /\ polls[p].step = Idle
    /\ polls' = [polls EXCEPT ![p].step = 1, ![p].held = {world}]
    /\ UNCHANGED <<world, snap, feed, ui, edits, fails>>

\* fetch_board_items for the machines: one page, or none of a board that the
\* token cannot see.
ReadMachines(p) ==
    LET r == polls[p] IN
    /\ r.step \in 1..LastRead
    /\ LET account == Reads[r.step][1] IN
       /\ Reads[r.step][2] = "machines"
       /\ polls' = [polls EXCEPT ![p] = [NextBoard(r) EXCEPT
                        !.machines = @ \cup (MachinesIn(world) \cap {account})]]
    /\ UNCHANGED <<world, snap, feed, ui, edits, fails>>

\* fetch_board_items for the slots, one query of it.  A board that cannot be
\* seen has no first page and ends the read without an error; one that is
\* hidden between two pages is an error.
ReadSlots(p) ==
    LET r == polls[p] IN
    /\ r.step \in 1..LastRead
    /\ Reads[r.step][2] = "slots"
    /\ LET account == Reads[r.step][1]
           page    == Page(account, r.cursor)
           next    == NextCursor(account, r.cursor)
           read    == [r EXCEPT !.cursor = next,
                            !.rows = [s \in Slots |-> IF s \in page THEN world.rows[s] ELSE @[s]]]
       IN  polls' = [polls EXCEPT ![p] =
               IF account \in world.hidden
               THEN IF r.cursor = 0 THEN NextBoard(r) ELSE FailedPoll
               ELSE IF next = 0 THEN NextBoard(read) ELSE read]
    /\ UNCHANGED <<world, snap, feed, ui, edits, fails>>

\* _fetch_blend_enrichment: one batched query, none if there are no jobs.
Enrich(p) ==
    LET r == polls[p] IN
    /\ r.step = EnrichStep
    /\ polls' = [polls EXCEPT ![p].step = Answered,
                    ![p].label = IF \A s \in Slots : r.rows[s] = Gone
                                 THEN NoLabel ELSE world.label]
    /\ UNCHANGED <<world, snap, feed, ui, edits, fails>>

\* Any query raises, the answer is a 500, or it never reaches the page.
PollFails(p) ==
    /\ polls[p].step \in 1..Answered
    /\ fails < MaxFails
    /\ fails' = fails + 1
    /\ polls' = [polls EXCEPT ![p] = FailedPoll]
    /\ UNCHANGED <<world, snap, feed, ui, edits>>

-----------------------------------------------------------------------------
(* The page. *)

\* schedule_json: the snapshot and the display fields, as one document.
Serialized(r) == [rows |-> r.rows, machines |-> r.machines, label |-> r.label]

\* A lane is a machine of the snapshot; a slot on no machine, or on one that
\* the snapshot lacks, has none.
HasLane(sn, s) == sn.rows[s] # "unlinked" /\ AccountOf(s) \in sn.machines

\* The time axis reaches to the last slot, and back to the first but for the
\* look-back of a week.
InDomain(row) == row # "past"

\* The slots that get a bar.
Drawn(sn) ==
    IF sn = NoSnap THEN {}
    ELSE {s \in Slots : /\ sn.rows[s] \notin {Gone, "undated"}
                        /\ HasLane(sn, s)
                        /\ InDomain(sn.rows[s])}

\* renderTip
Content(sn, s) == [slot |-> s, row |-> sn.rows[s], label |-> sn.label]

UnpinTip ==
    /\ pinned' = NoSlot
    /\ tip' = [on |-> FALSE, pinned |-> FALSE, shows |-> NoSnap]

\* Mutant: the popout is left alone when its slot is gone.
Render_kept(sn) ==
    \/ /\ pinned # NoSlot => sn.rows[pinned] = Gone
       /\ UNCHANGED ui
    \/ /\ pinned # NoSlot
       /\ sn.rows[pinned] # Gone
       /\ tip' = [tip EXCEPT !.on = TRUE, !.shows = Content(sn, pinned)]
       /\ UNCHANGED pinned

\* render, as far as it touches more than the plot: a pinned popout is
\* filled again from the new snapshot, or goes.
Render(sn) ==
    \/ /\ pinned = NoSlot
       /\ UNCHANGED ui
    \/ /\ pinned # NoSlot
       /\ sn.rows[pinned] # Gone
       /\ tip' = [tip EXCEPT !.on = TRUE, !.shows = Content(sn, pinned)]
       /\ UNCHANGED pinned
    \/ /\ pinned # NoSlot
       /\ sn.rows[pinned] = Gone
       /\ UnpinTip

\* fetchSnap goes on with a good answer, whichever poll it belongs to.
Arrive(p) ==
    LET r == polls[p] IN
    /\ r.step = Answered
    /\ snap' = Serialized(r)
    /\ feed' = "live"
    /\ Render(snap')
    /\ polls' = [polls EXCEPT ![p] = IdlePoll]
    /\ UNCHANGED <<world, edits, fails>>

\* fetchSnap's catch: the old snapshot stays on the page.
ArriveFailed(p) ==
    /\ polls[p].step = Failed
    /\ feed' = "stale"
    /\ polls' = [polls EXCEPT ![p] = IdlePoll]
    /\ UNCHANGED <<world, snap, ui, edits, fails>>

\* mouseenter of a bar, and mouseleave.  The bars are new after a render and
\* the mouse has then entered none of them: a popout that is not pinned stays
\* up, with what it showed, until the mouse comes to another bar.
Hover(s) ==
    /\ s \in Drawn(snap)
    /\ pinned = NoSlot
    /\ tip' = [on |-> TRUE, pinned |-> FALSE, shows |-> Content(snap, s)]
    /\ UNCHANGED <<world, polls, snap, feed, pinned, edits, fails>>

Leave ==
    /\ pinned = NoSlot
    /\ tip' = [tip EXCEPT !.on = FALSE, !.shows = NoSnap]
    /\ UNCHANGED <<world, polls, snap, feed, pinned, edits, fails>>

\* A click on a bar: pinTip
PinTip(s) ==
    /\ s \in Drawn(snap)
    /\ pinned' = s
    /\ tip' = [on |-> TRUE, pinned |-> TRUE, shows |-> Content(snap, s)]
    /\ UNCHANGED <<world, polls, snap, feed, edits, fails>>

\* A click outside the popout or on its close button
Dismiss ==
    /\ pinned # NoSlot
    /\ UnpinTip
    /\ UNCHANGED <<world, polls, snap, feed, edits, fails>>

\* Escape also hides a popout that is not pinned.
Escape ==
    /\ UnpinTip
    /\ UNCHANGED <<world, polls, snap, feed, edits, fails>>

\* The window is resized: only a render.
Resize ==
    /\ snap # NoSnap
    /\ Render(snap)
    /\ UNCHANGED <<world, polls, snap, feed, edits, fails>>

\* A zoom button: a render, and then the same click reaches the document,
\* outside the popout.
Zoom ==
    /\ snap # NoSnap
    /\ IF pinned = NoSlot THEN UNCHANGED <<pinned, tip>> ELSE UnpinTip
    /\ UNCHANGED <<world, polls, snap, feed, edits, fails>>

-----------------------------------------------------------------------------
(* Operators, administrators and the engine change the boards. *)

Edit(w) ==
    /\ edits < MaxEdits
    /\ w # world
    /\ world' = w
    /\ edits' = edits + 1
    /\ polls' = [p \in Polls |-> IF polls[p].step \in 1..EnrichStep
                                 THEN [polls[p] EXCEPT !.held = @ \cup {w}]
                                 ELSE polls[p]]
    /\ UNCHANGED <<snap, feed, ui, fails>>

EditSlot == \E s \in Slots, row \in Rows \cup {Gone} :
                Edit([world EXCEPT !.rows[s] = row])
EditMachines == \E a \in Accounts : Edit([world EXCEPT !.machines = SymDiff(@, {a})])
EditAccess == \E a \in Accounts : Edit([world EXCEPT !.hidden = SymDiff(@, {a})])
Relabel == \E l \in Labels : Edit([world EXCEPT !.label = l])

Next ==
    \/ \E p \in Polls : \/ StartPoll(p) \/ ReadMachines(p) \/ ReadSlots(p) \/ Enrich(p)
                        \/ PollFails(p) \/ Arrive(p) \/ ArriveFailed(p)
    \/ \E s \in Slots : Hover(s) \/ PinTip(s)
    \/ Leave \/ Dismiss \/ Escape \/ Resize \/ Zoom
    \/ EditSlot \/ EditMachines \/ EditAccess \/ Relabel

\* The timer keeps firing and every request ends: each query has a timeout.
Fairness == \A p \in Polls : /\ WF_vars(StartPoll(p))
                             /\ WF_vars(ReadMachines(p) \/ ReadSlots(p) \/ Enrich(p))
                             /\ WF_vars(Arrive(p) \/ ArriveFailed(p))

Spec == Init /\ [][Next]_vars /\ Fairness

-----------------------------------------------------------------------------
\* What read_snapshot returns is regular: each slot, machine and label in it
\* is as a reader could see it at some instant of the read, and one that is
\* missing was missing at some instant of it, however the boards changed
\* between its queries and pages.
SnapshotIsRegular ==
    \A p \in Polls : polls[p].step = Answered =>
        LET r == polls[p] IN
        /\ \A s \in Slots : \E w \in r.held : r.rows[s] = RowIn(w, s)
        /\ \A a \in Accounts : \E w \in r.held : a \in r.machines <=> a \in MachinesIn(w)
        /\ r.label # NoLabel => \E w \in r.held : r.label = w.label

\* A pinned popout is up and speaks of the snapshot that is drawn: after every
\* answer, in whatever order they arrive, zoom and resize, it shows the
\* pinned slot as that snapshot has it, and goes away with the slot.
PinnedIsShown ==
    pinned # NoSlot =>
        /\ snap.rows[pinned] # Gone
        /\ tip = [on |-> TRUE, pinned |-> TRUE, shows |-> Content(snap, pinned)]

UpToDate ==
    /\ snap # NoSnap
    /\ feed = "live"
    /\ \A s \in Slots : snap.rows[s] = RowIn(world, s)
    /\ snap.machines = MachinesIn(world)

\* Once the boards no longer change and polls no longer fail (MaxEdits,
\* MaxFails), the page comes to show them as they are and stays so: neither an
\* error nor an old answer that overtakes a new one leaves it behind for good.
CatchesUp == <>[]UpToDate
=============================================================================
