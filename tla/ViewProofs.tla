----------------------------- MODULE ViewProofs -----------------------------
(***************************************************************************)
(* Snapshots are regular and the pinned popout speaks of the snapshot that *)
(* is drawn, for every set of slots, page size and number of polls.        *)
(***************************************************************************)
EXTENDS View, FiniteSetTheorems, TLAPS

RowSet == Rows \cup {"plotted", Gone}
WorldSet == [rows : [Slots -> RowSet], machines : SUBSET Accounts,
             hidden : SUBSET Accounts, label : Labels]
PollSet == [step : 0 .. Failed, cursor : Nat, rows : [Slots -> RowSet],
            machines : SUBSET Accounts, label : Labels \cup {NoLabel},
            held : SUBSET WorldSet]

\* The shape of what the polls and the boards are.
Shape == world \in WorldSet /\ polls \in [Polls -> PollSet]

\* The steps at which an account's boards are read.
MachineStep(a) == IF a = "gray_space" THEN 1 ELSE 3
SlotStep(a)    == IF a = "gray_space" THEN 2 ELSE 4

\* The cursor of a poll has passed a slot.
Passed(r, s) ==
  \/ r.step > SlotStep(AccountOf(s))
  \/ r.step = SlotStep(AccountOf(s)) /\ s <= r.cursor

\* What a poll has passed was like that in a world it has seen, what it has
\* not passed is blank.
RowsTrue(r) ==
  \A s \in Slots :
    IF AccountOf(s) \in Accounts /\ Passed(r, s)
    THEN \E w \in r.held : r.rows[s] = RowIn(w, s)
    ELSE r.rows[s] = Gone
MachinesTrue(r) ==
  \A a \in Accounts :
    IF r.step > MachineStep(a)
    THEN \E w \in r.held : a \in r.machines <=> a \in MachinesIn(w)
    ELSE a \notin r.machines
LabelTrue(r) ==
  r.label # NoLabel =>
    r.step = Answered /\ \E w \in r.held : r.label = w.label

\* A poll under way has seen the world as it is; one at a page of slots is
\* behind a slot of that account.
PollTrue(r) ==
  /\ r.step = Idle => r = IdlePoll
  /\ r.step \in 1 .. Answered =>
       r.held # {} /\ RowsTrue(r) /\ MachinesTrue(r) /\ LabelTrue(r)
  /\ r.step \in 1 .. EnrichStep => world \in r.held
  /\ r.step \notin {2, 4} => r.cursor = 0

PollsTrue == \A p \in Polls : PollTrue(polls[p])
IInv == Shape /\ PollsTrue

USE DEF Idle
-----------------------------------------------------------------------------
(***************************************************************************)
(* Constants.                                                              *)
(***************************************************************************)
LEMMA Steps ==
  /\ LastRead \in {2, 4} /\ EnrichStep = LastRead + 1
  /\ Answered = LastRead + 2 /\ Failed = LastRead + 3
  /\ \A a \in Accounts : SlotStep(a) \in 1 .. LastRead /\ MachineStep(a) \in 1 .. LastRead
  /\ \A s \in Slots : AccountOf(s) \in {"gray_space", "nexiuum"}
  /\ \A k \in 1 .. LastRead :
       /\ Reads[k][1] \in Accounts
       /\ Reads[k][2] = "machines" => k = MachineStep(Reads[k][1])
       /\ Reads[k][2] = "slots"    => k = SlotStep(Reads[k][1])
<1>1. CASE NexiuumEnabled
  <2>1. LastRead = 4 /\ Accounts = {"gray_space", "nexiuum"}
    BY <1>1 DEF LastRead, Accounts
  <2>2. \A k \in 1 .. 4 : k = 1 \/ k = 2 \/ k = 3 \/ k = 4
    OBVIOUS
  <2>3. \A k \in 1 .. LastRead :
       /\ Reads[k][1] \in Accounts
       /\ Reads[k][2] = "machines" => k = MachineStep(Reads[k][1])
       /\ Reads[k][2] = "slots"    => k = SlotStep(Reads[k][1])
    BY <1>1, <2>1, <2>2 DEF Reads, MachineStep, SlotStep
  <2> QED
    BY <2>1, <2>3 DEF EnrichStep, Answered, Failed, SlotStep, MachineStep, AccountOf
<1>2. CASE ~NexiuumEnabled
  <2>1. LastRead = 2 /\ Accounts = {"gray_space"}
    BY <1>2 DEF LastRead, Accounts
  <2>2. \A k \in 1 .. 2 : k = 1 \/ k = 2
    OBVIOUS
  <2>3. \A k \in 1 .. LastRead :
       /\ Reads[k][1] \in Accounts
       /\ Reads[k][2] = "machines" => k = MachineStep(Reads[k][1])
       /\ Reads[k][2] = "slots"    => k = SlotStep(Reads[k][1])
    BY <1>2, <2>1, <2>2 DEF Reads, MachineStep, SlotStep
  <2> QED
    BY <2>1, <2>3 DEF EnrichStep, Answered, Failed, SlotStep, MachineStep, AccountOf
<1> QED
  BY <1>1, <1>2

\* A set of slots that is not empty has a first and a last one.
LEMMA Extremes ==
  ASSUME NEW T \in SUBSET Slots, T # {}
  PROVE  /\ \E x \in T : \A y \in T : x <= y
         /\ \E x \in T : \A y \in T : y <= x
<1>0. IsFiniteSet(T) /\ T \subseteq Nat
  BY SlotsAssumption, FS_Subset
<1>1. IsWellFoundedOn(StrictSubsetOrdering(T), SUBSET T)
  BY <1>0, FS_StrictSubsetOrderingWellFounded, FS_FiniteSubsetsOfFinite
<1>2. \E x \in T : \A y \in T : x <= y
  <2> DEFINE Below == {{y \in T : y < x} : x \in T}
  <2>1. PICK B \in Below : \A C \in Below : <<C, B>> \notin StrictSubsetOrdering(T)
    <3>1. Below \subseteq SUBSET T /\ Below # {}
      OBVIOUS
    <3> HIDE DEF Below
    <3> QED
      BY <1>1, <3>1, WFMin
  <2>2. PICK x \in T : B = {y \in T : y < x}
    BY <2>1
  <2> HIDE DEF Below
  <2>3. SUFFICES ASSUME NEW y \in T, y < x PROVE FALSE
    BY <1>0, <2>2
  <2>4. {z \in T : z < y} \in Below
    BY DEF Below
  <2>5. {z \in T : z < y} \subseteq B /\ y \in B /\ y \notin {z \in T : z < y}
    <3>1. x \in Nat /\ y \in Nat /\ \A z \in T : z \in Nat
      BY <1>0
    <3>2. ~(y < y) /\ \A z \in T : z < y => z < x
      BY <2>3, <3>1
    <3> QED
      BY <2>2, <2>3, <3>2, Zenon
  <2>6. <<{z \in T : z < y}, B>> \in StrictSubsetOrdering(T)
    BY <2>2, <2>5 DEF StrictSubsetOrdering
  <2> QED
    BY <2>1, <2>4, <2>6
<1>3. \E x \in T : \A y \in T : y <= x
  <2> DEFINE Above == {{y \in T : y > x} : x \in T}
  <2>1. PICK B \in Above : \A C \in Above : <<C, B>> \notin StrictSubsetOrdering(T)
    <3>1. Above \subseteq SUBSET T /\ Above # {}
      OBVIOUS
    <3> HIDE DEF Above
    <3> QED
      BY <1>1, <3>1, WFMin
  <2>2. PICK x \in T : B = {y \in T : y > x}
    BY <2>1
  <2> HIDE DEF Above
  <2>3. SUFFICES ASSUME NEW y \in T, y > x PROVE FALSE
    BY <1>0, <2>2
  <2>4. {z \in T : z > y} \in Above
    BY DEF Above
  <2>5. {z \in T : z > y} \subseteq B /\ y \in B /\ y \notin {z \in T : z > y}
    <3>1. x \in Nat /\ y \in Nat /\ \A z \in T : z \in Nat
      BY <1>0
    <3>2. ~(y > y) /\ \A z \in T : z > y => z > x
      BY <2>3, <3>1
    <3> QED
      BY <2>2, <2>3, <3>2, Zenon
  <2>6. <<{z \in T : z > y}, B>> \in StrictSubsetOrdering(T)
    BY <2>2, <2>5 DEF StrictSubsetOrdering
  <2> QED
    BY <2>1, <2>4, <2>6
<1> QED
  BY <1>2, <1>3

\* What a page leaves out lies behind the cursor it comes with.
LEMMA PageFacts ==
  ASSUME NEW account, NEW cursor \in Nat
  PROVE  /\ Page(account, cursor) \subseteq After(account, cursor)
         /\ NextCursor(account, cursor) \in Nat
         /\ NextCursor(account, cursor) # 0 =>
              /\ cursor < NextCursor(account, cursor)
              /\ \A s \in Page(account, cursor) : s <= NextCursor(account, cursor)
         /\ \A s \in After(account, cursor) \ Page(account, cursor) :
              NextCursor(account, cursor) # 0 /\ NextCursor(account, cursor) < s
<1> DEFINE A == After(account, cursor)
           P == Page(account, cursor)
           next == NextCursor(account, cursor)
<1>1. P \subseteq A /\ A \subseteq Slots /\ \A s \in A : s \in Nat /\ s > cursor
  BY SlotsAssumption DEF Page, After
<1>2. CASE P = A
  BY <1>2 DEF NextCursor
<1>3. CASE P # A
  <2>1. PICK x \in A : \A y \in A : x <= y
    <3>1. A # {}
      BY <1>1, <1>3
    <3> HIDE DEF A
    <3> QED
      BY <1>1, <3>1, Extremes
  <2>2. x \in P
    <3>1. {t \in A : t < x} = {}
      BY <1>1, <2>1
    <3>2. Cardinality({t \in A : t < x}) = 0
      BY <3>1, FS_EmptySet
    <3> QED
      BY <3>2, PageAssumption DEF Page
  <2>3. \E m \in P : \A t \in P : t <= m
    <3> HIDE DEF A, P
    <3> QED
      BY <1>1, <2>2, Extremes
  <2>4. next = CHOOSE s \in P : \A t \in P : t <= s
    BY <1>3 DEF NextCursor
  <2>5. next \in P /\ \A t \in P : t <= next
    <3> HIDE DEF P, next
    <3> QED
      BY <2>3, <2>4
  <2>6. next \in A /\ next \in Nat /\ cursor < next /\ next # 0
    BY <1>1, <2>5
  <2>7. ASSUME NEW s \in A \ P PROVE next < s
    <3>1. SUFFICES ASSUME s < next PROVE FALSE
      BY <1>1, <2>5, <2>6, <2>7
    <3>2. {t \in A : t < s} \subseteq {t \in A : t < next}
      BY <1>1, <2>6, <3>1
    <3>3. IsFiniteSet({t \in A : t < next})
      BY <1>1, SlotsAssumption, FS_Subset
    <3>4. /\ Cardinality({t \in A : t < s}) <= Cardinality({t \in A : t < next})
          /\ Cardinality({t \in A : t < s}) \in Nat
          /\ Cardinality({t \in A : t < next}) \in Nat
      BY <3>2, <3>3, FS_Subset, FS_CardinalityType
    <3>5. Cardinality({t \in A : t < next}) < PageSize
      BY <2>5 DEF Page
    <3>6. Cardinality({t \in A : t < s}) < PageSize
      BY <3>4, <3>5, PageAssumption
    <3> QED
      BY <2>7, <3>6 DEF Page
  <2> QED
    BY <2>5, <2>6, <2>7, <1>1
<1> QED
  BY <1>2, <1>3
-----------------------------------------------------------------------------
(***************************************************************************)
(* The inductive invariant.                                                *)
(***************************************************************************)
LEMMA IdleTrue == IdlePoll \in PollSet /\ PollTrue(IdlePoll)
<1>1. IdlePoll \in PollSet
  BY Steps DEF IdlePoll, PollSet, RowSet
<1>2. IdlePoll.step = 0 /\ IdlePoll.cursor = 0
  BY DEF IdlePoll
<1> QED
  BY <1>1, <1>2, Steps DEF PollTrue

LEMMA FailedTrue == FailedPoll \in PollSet /\ PollTrue(FailedPoll)
<1>1. FailedPoll \in PollSet
  BY Steps DEF IdlePoll, FailedPoll, PollSet, RowSet
<1>2. FailedPoll.step = Failed /\ FailedPoll.cursor = 0
  BY DEF FailedPoll, IdlePoll
<1> QED
  BY <1>1, <1>2, Steps DEF PollTrue

LEMMA InitInv == Init => IInv
<1> SUFFICES ASSUME Init PROVE IInv
  OBVIOUS
<1>1. world \in WorldSet
  BY DEF Init, WorldSet, RowSet
<1>2. \A p \in Polls : polls[p] = IdlePoll
  BY DEF Init
<1>3. polls \in [Polls -> PollSet]
  BY IdleTrue DEF Init
<1> QED
  BY <1>1, <1>2, <1>3, IdleTrue DEF IInv, Shape, PollsTrue

\* A step of one poll.
LEMMA OnePoll ==
  ASSUME IInv, NEW p \in Polls, UNCHANGED world,
         polls' = [polls EXCEPT ![p] = polls'[p]],
         polls'[p] \in PollSet, PollTrue(polls[p])'
  PROVE  IInv'
<1>1. Shape'
  BY DEF IInv, Shape
<1>2. ASSUME NEW q \in Polls PROVE PollTrue(polls[q])'
  <2>1. CASE q = p
    BY <2>1
  <2>2. CASE q # p
    <3>1. polls'[q] = polls[q]
      BY <2>2 DEF IInv, Shape
    <3>2. PollTrue(polls[q])
      BY DEF IInv, PollsTrue
    <3> QED
      BY <3>1, <3>2 DEF PollTrue, RowsTrue, MachinesTrue, LabelTrue
  <2> QED
    BY <2>1, <2>2
<1> QED
  BY <1>1, <1>2 DEF IInv, PollsTrue

LEMMA StartStep == ASSUME IInv, NEW p \in Polls, StartPoll(p) PROVE IInv'
<1> DEFINE q == polls'[p]
<1>1. polls[p] = IdlePoll /\ world \in WorldSet
  BY DEF IInv, Shape, PollsTrue, PollTrue, StartPoll
<1>2. q = [IdlePoll EXCEPT !.step = 1, !.held = {world}]
  BY <1>1 DEF StartPoll, IInv, Shape
<1>3. /\ q.step = 1 /\ q.cursor = 0 /\ q.rows = [s \in Slots |-> Gone]
      /\ q.machines = {} /\ q.label = NoLabel /\ q.held = {world}
  BY <1>2 DEF IdlePoll
<1>4. q \in PollSet
  <2>1. IdlePoll \in PollSet /\ 1 \in 0 .. Failed
    BY IdleTrue, Steps
  <2>2. {world} \in SUBSET WorldSet
    BY <1>1
  <2> HIDE DEF q, Idle
  <2> QED
    BY <1>2, <2>1, <2>2 DEF PollSet
<1>5. RowsTrue(q) /\ MachinesTrue(q) /\ LabelTrue(q)
  <2>1. \A s \in Slots : ~Passed(q, s)
    BY <1>3 DEF Passed, SlotStep
  <2>2. \A a \in Accounts : ~(q.step > MachineStep(a))
    BY <1>3 DEF MachineStep
  <2> QED
    BY <1>3, <2>1, <2>2 DEF RowsTrue, MachinesTrue, LabelTrue
<1>6. PollTrue(polls[p])'
  <2>1. PollTrue(q)
    <3>1. q.held # {} /\ world \in q.held /\ q.step # Idle /\ q.cursor = 0
      BY <1>3
    <3> HIDE DEF q
    <3> QED
      BY <1>5, <3>1 DEF PollTrue
  <2>2. world' = world
    BY DEF StartPoll
  <2> QED
    BY <2>1, <2>2 DEF PollTrue, RowsTrue, MachinesTrue, LabelTrue
<1>7. polls' = [polls EXCEPT ![p] = q]
  BY DEF StartPoll, IInv, Shape
<1> QED
  BY <1>4, <1>6, <1>7, OnePoll DEF StartPoll

LEMMA MachinesStep == ASSUME IInv, NEW p \in Polls, ReadMachines(p) PROVE IInv'
<1> DEFINE r == polls[p]
           q == polls'[p]
           account == Reads[r.step][1]
<1>1. /\ r \in PollSet /\ PollTrue(r) /\ r.step \in 1 .. LastRead
      /\ r.step = MachineStep(account) /\ account \in Accounts
      /\ world \in r.held
  BY Steps DEF IInv, Shape, PollsTrue, PollTrue, ReadMachines
<1>2. RowsTrue(r) /\ MachinesTrue(r) /\ LabelTrue(r) /\ r.label = NoLabel
  BY <1>1, Steps DEF PollTrue, LabelTrue
<1>3. q = [r EXCEPT !.step = @ + 1, !.cursor = 0,
                    !.machines = @ \cup (MachinesIn(world) \cap {account})]
  BY DEF ReadMachines, NextBoard, IInv, Shape, PollSet
<1>4. /\ q.step = r.step + 1 /\ q.cursor = 0 /\ q.rows = r.rows /\ q.held = r.held
      /\ q.machines = r.machines \cup (MachinesIn(world) \cap {account})
      /\ q.label = NoLabel
  BY <1>1, <1>2, <1>3 DEF PollSet
<1>5. q \in PollSet
  <2>1. r.step + 1 \in 0 .. Failed /\ 0 \in Nat
    BY <1>1, Steps
  <2>2. r.machines \cup (MachinesIn(world) \cap {account}) \in SUBSET Accounts
    BY <1>1 DEF PollSet
  <2> HIDE DEF account, r
  <2> QED
    BY <1>1, <1>3, <2>1, <2>2 DEF PollSet
<1>6. RowsTrue(q)
  <2>1. ASSUME NEW s \in Slots PROVE Passed(q, s) <=> Passed(r, s)
    <3>1. r.step \in {1, 3} /\ s \in Nat /\ s > 0
      BY <1>1, SlotsAssumption DEF MachineStep
    <3>2. SlotStep(AccountOf(s)) \in {2, 4}
      BY DEF SlotStep
    <3> HIDE DEF r, q
    <3> QED
      BY <1>4, <3>1, <3>2 DEF Passed
  <2> QED
    BY <1>2, <1>4, <2>1 DEF RowsTrue
<1>7. MachinesTrue(q)
  <2> SUFFICES ASSUME NEW a \in Accounts
               PROVE  IF q.step > MachineStep(a)
                      THEN \E w \in q.held : a \in q.machines <=> a \in MachinesIn(w)
                      ELSE a \notin q.machines
    BY DEF MachinesTrue
  <2>1. CASE a = account
    <3>1. a \notin r.machines
      BY <1>1, <1>2, <2>1, Steps DEF MachinesTrue
    <3> QED
      BY <1>1, <1>4, <2>1, <3>1, Steps
  <2>2. CASE a # account
    <3>1. q.step > MachineStep(a) <=> r.step > MachineStep(a)
      BY <1>1, <1>4, <2>2, Steps DEF MachineStep, Accounts
    <3> QED
      BY <1>2, <1>4, <2>2, <3>1 DEF MachinesTrue
  <2> QED
    BY <2>1, <2>2
<1>8. PollTrue(polls[p])'
  <2>1. PollTrue(q)
    BY <1>1, <1>2, <1>4, <1>6, <1>7, Steps DEF PollTrue, LabelTrue
  <2> QED
    BY <2>1 DEF PollTrue, ReadMachines, RowsTrue, MachinesTrue, LabelTrue
<1>9. polls' = [polls EXCEPT ![p] = q]
  BY DEF ReadMachines, IInv, Shape
<1> QED
  BY <1>5, <1>8, <1>9, OnePoll DEF ReadMachines

\* A step of a poll of slots to the next page or board.  It leaves machines,
\* label and worlds alone; the rows are the lemma's business.
LEMMA SlotsStep == ASSUME IInv, NEW p \in Polls, ReadSlots(p) PROVE IInv'
<1> DEFINE r == polls[p]
           q == polls'[p]
           account == Reads[r.step][1]
           page == Page(account, r.cursor)
           next == NextCursor(account, r.cursor)
           read == [r EXCEPT !.cursor = next,
                      !.rows = [s \in Slots |-> IF s \in page THEN world.rows[s] ELSE @[s]]]
<1>1. /\ r \in PollSet /\ PollTrue(r) /\ r.step \in 1 .. LastRead
      /\ r.step = SlotStep(account) /\ account \in Accounts
      /\ world \in r.held /\ world \in WorldSet
  BY Steps DEF IInv, Shape, PollsTrue, PollTrue, ReadSlots
<1>2. RowsTrue(r) /\ MachinesTrue(r) /\ LabelTrue(r) /\ r.label = NoLabel
  BY <1>1, Steps DEF PollTrue, LabelTrue
<1>3. /\ page \subseteq After(account, r.cursor)
      /\ next \in Nat
      /\ next # 0 => r.cursor < next /\ \A s \in page : s <= next
      /\ \A s \in After(account, r.cursor) \ page : next # 0 /\ next < s
  BY <1>1, PageFacts DEF PollSet
<1>4. q = IF account \in world.hidden
          THEN IF r.cursor = 0 THEN NextBoard(r) ELSE FailedPoll
          ELSE IF next = 0 THEN NextBoard(read) ELSE read
  BY DEF ReadSlots, IInv, Shape
<1>5. polls' = [polls EXCEPT ![p] = q] /\ world' = world
  BY DEF ReadSlots, IInv, Shape
<1>6. /\ r.step \in {2, 4} /\ r.step + 1 \in 1 .. EnrichStep /\ r.cursor \in Nat
      /\ r.step \in 1 .. EnrichStep
      /\ EnrichStep < Answered /\ Answered < Failed
  BY <1>1, Steps DEF SlotStep, PollSet
<1>7. read \in PollSet
  <2>1. [s \in Slots |-> IF s \in page THEN world.rows[s] ELSE r.rows[s]] \in [Slots -> RowSet]
    BY <1>1 DEF PollSet, WorldSet
  <2> HIDE DEF page, next
  <2> QED
    BY <1>1, <1>3, <2>1 DEF PollSet
<1>8. /\ read.step = r.step /\ read.cursor = next /\ read.held = r.held
      /\ read.machines = r.machines /\ read.label = r.label
      /\ \A s \in Slots : read.rows[s] = IF s \in page THEN world.rows[s] ELSE r.rows[s]
  BY <1>1 DEF PollSet
\* What holds of the next state of the poll, whichever it is.
<1>9. ASSUME NEW z, z \in PollSet, z.step = r.step \/ z.step = r.step + 1,
             z.machines = r.machines, z.label = r.label, z.held = r.held,
             z.step = r.step + 1 => z.cursor = 0, RowsTrue(z)
      PROVE  PollTrue(z)
  <2>1. MachinesTrue(z)
    <3>1. ASSUME NEW a \in Accounts
          PROVE  z.step > MachineStep(a) <=> r.step > MachineStep(a)
      <4>1. MachineStep(a) \in {1, 3}
        BY DEF MachineStep
      <4> HIDE DEF r
      <4> QED
        BY <1>6, <1>9, <4>1
    <3> QED
      BY <1>2, <1>9, <3>1 DEF MachinesTrue
  <2>2. LabelTrue(z)
    BY <1>2, <1>9 DEF LabelTrue
  <2>3. z.step # Idle /\ (z.step \notin {2, 4} => z.cursor = 0)
    BY <1>6, <1>9
  <2> HIDE DEF r
  <2> QED
    BY <1>1, <1>9, <2>1, <2>2, <2>3 DEF PollTrue
\* The rows of other accounts are left alone and stay passed, or not.
<1>10. ASSUME NEW z, z.step = r.step \/ z.step = r.step + 1,
              NEW s \in Slots, AccountOf(s) # account
       PROVE  (Passed(z, s) <=> Passed(r, s)) /\ s \notin page
  <2>1. SlotStep(AccountOf(s)) \in {2, 4} \ {r.step}
    BY <1>1, <1>10, Steps DEF SlotStep, Accounts
  <2>2. s \notin page
    BY <1>3, <1>10 DEF After
  <2> HIDE DEF r, page
  <2> QED
    BY <1>6, <1>10, <2>1, <2>2 DEF Passed
<1>11. ASSUME NEW s \in Slots, AccountOf(s) = account
       PROVE  /\ s \in Nat /\ 0 < s
              /\ Passed(r, s) <=> s <= r.cursor
              /\ Passed(read, s) <=> s <= next
              /\ Passed(NextBoard(r), s) /\ Passed(NextBoard(read), s)
              /\ s \in page => r.cursor < s
              /\ account \notin world.hidden => RowIn(world, s) = world.rows[s]
              /\ account \in world.hidden => RowIn(world, s) = Gone
              /\ s \in After(account, r.cursor) <=> r.cursor < s /\ world.rows[s] # Gone
  <2>1. s \in Nat /\ 0 < s
    BY SlotsAssumption
  <2>2. NextBoard(r).step = r.step + 1 /\ NextBoard(read).step = r.step + 1
    BY <1>1, <1>7, <1>8 DEF NextBoard, PollSet
  <2>3. s \in After(account, r.cursor) <=> r.cursor < s /\ world.rows[s] # Gone
    BY <1>6, <1>11, <2>1 DEF After
  <2>4. s \in page => r.cursor < s
    BY <1>3, <2>3
  <2>5. /\ account \notin world.hidden => RowIn(world, s) = world.rows[s]
        /\ account \in world.hidden => RowIn(world, s) = Gone
    BY <1>1, <1>11 DEF RowIn
  <2> HIDE DEF r, read, page, next, account
  <2> QED
    BY <1>1, <1>6, <1>8, <1>11, <2>1, <2>2, <2>3, <2>4, <2>5 DEF Passed
<1>12. ASSUME q \in PollSet, PollTrue(q) PROVE IInv'
  <2>1. PollTrue(polls[p])'
    BY <1>5, <1>12 DEF PollTrue, RowsTrue, MachinesTrue, LabelTrue
  <2> QED
    BY <1>5, <1>12, <2>1, OnePoll
<1>13. r.step + 1 \in 0 .. Failed
  BY <1>6, Steps
<1> HIDE DEF r, q, account, page, next, read
<1>14. CASE account \in world.hidden /\ r.cursor # 0
  BY <1>4, <1>12, <1>14, FailedTrue
<1>15. CASE account \in world.hidden /\ r.cursor = 0
  <2>1. /\ NextBoard(r).step = r.step + 1 /\ NextBoard(r).cursor = 0
        /\ NextBoard(r).rows = r.rows /\ NextBoard(r).held = r.held
        /\ NextBoard(r).machines = r.machines /\ NextBoard(r).label = r.label
        /\ NextBoard(r) \in PollSet
    BY <1>1, <1>13 DEF PollSet, NextBoard
  <2>2. ASSUME NEW s \in Slots
        PROVE  IF AccountOf(s) \in Accounts /\ Passed(NextBoard(r), s)
               THEN \E w \in r.held : r.rows[s] = RowIn(w, s)
               ELSE r.rows[s] = Gone
    <3>1. CASE AccountOf(s) = account
      <4>1. ~Passed(r, s)
        BY <1>11, <1>15, <3>1
      <4>2. r.rows[s] = Gone
        BY <1>2, <4>1 DEF RowsTrue
      <4> QED
        BY <1>1, <1>11, <1>15, <3>1, <4>2
    <3>2. CASE AccountOf(s) # account
      <4>1. Passed(NextBoard(r), s) <=> Passed(r, s)
        BY <1>10, <2>1, <3>2
      <4> QED
        BY <1>2, <4>1 DEF RowsTrue
    <3> QED
      BY <3>1, <3>2
  <2>3. RowsTrue(NextBoard(r))
    BY <2>1, <2>2 DEF RowsTrue
  <2> QED
    BY <1>4, <1>9, <1>12, <1>15, <2>1, <2>3
\* A page has been read: it ends the board or not.
<1>16. ASSUME account \notin world.hidden,
              NEW z, z.step = r.step \/ z.step = r.step + 1,
              z.rows = read.rows, z.held = r.held,
              \A s \in Slots : AccountOf(s) = account =>
                 (Passed(z, s) <=> next = 0 \/ s <= next)
       PROVE  RowsTrue(z)
  <2>1. ASSUME NEW s \in Slots
        PROVE  IF AccountOf(s) \in Accounts /\ Passed(z, s)
               THEN \E w \in r.held : read.rows[s] = RowIn(w, s)
               ELSE read.rows[s] = Gone
    <3>1. CASE AccountOf(s) = account
      <4>0. s \in Nat /\ AccountOf(s) \in Accounts
        BY <1>1, <1>11, <3>1
      <4>1. CASE s \in page
        <5>1. Passed(z, s)
          BY <1>3, <1>16, <3>1, <4>1
        <5>2. read.rows[s] = RowIn(world, s)
          BY <1>8, <1>11, <1>16, <3>1, <4>1
        <5> QED
          BY <1>1, <4>0, <5>1, <5>2
      <4>2. CASE s \notin page /\ r.cursor < s
        <5>1. ~Passed(r, s)
          BY <1>6, <1>11, <3>1, <4>0, <4>2
        <5>2. read.rows[s] = Gone
          BY <1>2, <1>8, <4>2, <5>1 DEF RowsTrue
        <5>3. Passed(z, s) => RowIn(world, s) = Gone
          <6>1. Passed(z, s) => ~(next # 0 /\ next < s)
            BY <1>3, <1>16, <3>1, <4>0
          <6>2. Passed(z, s) => s \notin After(account, r.cursor)
            BY <1>3, <4>2, <6>1
          <6> QED
            BY <1>11, <1>16, <3>1, <4>2, <6>2
        <5> QED
          BY <1>1, <5>2, <5>3
      <4>3. CASE s \notin page /\ ~(r.cursor < s)
        <5>1. Passed(r, s) /\ Passed(z, s)
          BY <1>3, <1>6, <1>11, <1>16, <3>1, <4>0, <4>3
        <5> QED
          BY <1>2, <1>8, <4>0, <4>3, <5>1 DEF RowsTrue
      <4> QED
        BY <4>1, <4>2, <4>3
    <3>2. CASE AccountOf(s) # account
      <4>1. (Passed(z, s) <=> Passed(r, s)) /\ s \notin page
        BY <1>10, <1>16, <3>2
      <4> QED
        BY <1>2, <1>8, <4>1 DEF RowsTrue
    <3> QED
      BY <3>1, <3>2
  <2> QED
    BY <1>16, <2>1 DEF RowsTrue
<1>17. CASE account \notin world.hidden /\ next = 0
  <2>1. /\ NextBoard(read).step = r.step + 1 /\ NextBoard(read).cursor = 0
        /\ NextBoard(read).rows = read.rows /\ NextBoard(read).held = r.held
        /\ NextBoard(read).machines = r.machines /\ NextBoard(read).label = r.label
        /\ NextBoard(read) \in PollSet
    BY <1>7, <1>8, <1>13 DEF PollSet, NextBoard
  <2>2. RowsTrue(NextBoard(read))
    BY <1>11, <1>16, <1>17, <2>1
  <2> QED
    BY <1>4, <1>9, <1>12, <1>17, <2>1, <2>2
<1>18. CASE account \notin world.hidden /\ next # 0
  <2>1. RowsTrue(read)
    BY <1>8, <1>11, <1>16, <1>18
  <2>2. read.step # r.step + 1
    BY <1>6, <1>8
  <2> QED
    BY <1>4, <1>7, <1>8, <1>9, <1>12, <1>18, <2>1, <2>2
<1> QED
  BY <1>14, <1>15, <1>17, <1>18

LEMMA EnrichStepInv == ASSUME IInv, NEW p \in Polls, Enrich(p) PROVE IInv'
<1> DEFINE r == polls[p]
           q == polls'[p]
           label == IF \A s \in Slots : r.rows[s] = Gone THEN NoLabel ELSE world.label
<1>1. /\ r \in PollSet /\ PollTrue(r) /\ r.step = EnrichStep
      /\ world \in r.held /\ world \in WorldSet
  BY Steps DEF IInv, Shape, PollsTrue, PollTrue, Enrich
<1>2. RowsTrue(r) /\ MachinesTrue(r) /\ r.cursor = 0 /\ r.held # {}
  BY <1>1, Steps DEF PollTrue
<1>3. polls' = [polls EXCEPT ![p] = q] /\ world' = world
      /\ q = [r EXCEPT !.step = Answered, !.label = label]
  BY DEF Enrich, IInv, Shape
<1>4. label \in Labels \cup {NoLabel} /\ (label # NoLabel => label = world.label)
  BY <1>1 DEF WorldSet
<1>5. PollTrue(q) => PollTrue(polls[p])'
  BY <1>3 DEF PollTrue, RowsTrue, MachinesTrue, LabelTrue
<1> HIDE DEF r, q, label
<1>6. /\ q \in PollSet /\ q.step = Answered /\ q.cursor = 0 /\ q.rows = r.rows
      /\ q.machines = r.machines /\ q.held = r.held /\ q.label = label
  <2>1. Answered \in 0 .. Failed
    BY Steps
  <2> QED
    BY <1>1, <1>2, <1>3, <1>4, <2>1 DEF PollSet
<1>7. RowsTrue(q)
  <2>1. ASSUME NEW s \in Slots, AccountOf(s) \in Accounts
        PROVE  Passed(q, s) /\ Passed(r, s)
    BY <1>1, <1>6, <2>1, Steps DEF Passed
  <2> QED
    BY <1>2, <1>6, <2>1 DEF RowsTrue
<1>8. MachinesTrue(q)
  <2>1. \A a \in Accounts : q.step > MachineStep(a) /\ r.step > MachineStep(a)
    BY <1>1, <1>6, Steps
  <2> QED
    BY <1>2, <1>6, <2>1 DEF MachinesTrue
<1>9. LabelTrue(q)
  BY <1>1, <1>4, <1>6 DEF LabelTrue
<1>10. PollTrue(q)
  BY <1>1, <1>2, <1>6, <1>7, <1>8, <1>9, Steps DEF PollTrue
<1> QED
  BY <1>3, <1>5, <1>6, <1>10, OnePoll DEF q

\* A poll that fails or ends is as good as new.
LEMMA EndSteps ==
  ASSUME IInv, NEW p \in Polls, PollFails(p) \/ Arrive(p) \/ ArriveFailed(p)
  PROVE  IInv'
<1>1. /\ polls'[p] \in {IdlePoll, FailedPoll} /\ world' = world
      /\ polls' = [polls EXCEPT ![p] = polls'[p]]
  BY DEF PollFails, Arrive, ArriveFailed, IInv, Shape
<1>2. PollTrue(polls[p])'
  BY <1>1, IdleTrue, FailedTrue DEF PollTrue, RowsTrue, MachinesTrue, LabelTrue
<1> QED
  BY <1>1, <1>2, IdleTrue, FailedTrue, OnePoll

\* A poll under way has seen every world since it was sent.
LEMMA EditInv == ASSUME IInv, NEW w \in WorldSet, Edit(w) PROVE IInv'
<1>1. world' = w /\ polls' = [p \in Polls |-> IF polls[p].step \in 1 .. EnrichStep
                                 THEN [polls[p] EXCEPT !.held = @ \cup {w}]
                                 ELSE polls[p]]
  BY DEF Edit
<1>2. ASSUME NEW p \in Polls PROVE polls'[p] \in PollSet /\ PollTrue(polls[p])'
  <2> DEFINE r == polls[p]
             q == polls'[p]
  <2>1. r \in PollSet /\ PollTrue(r)
    BY DEF IInv, Shape, PollsTrue
  <2>2. q = IF r.step \in 1 .. EnrichStep THEN [r EXCEPT !.held = @ \cup {w}] ELSE r
    BY <1>1
  <2>3. (PollTrue(q) /\ (q.step \in 1 .. EnrichStep => w \in q.held)) => PollTrue(polls[p])'
    BY <1>1 DEF PollTrue, RowsTrue, MachinesTrue, LabelTrue
  <2>4. (r.step \notin 1 .. EnrichStep) => PollTrue(polls[p])'
    BY <1>1, <2>1, <2>2 DEF PollTrue, RowsTrue, MachinesTrue, LabelTrue
  <2> HIDE DEF r, q
  <2>5. CASE r.step \in 1 .. EnrichStep
    <3>1. /\ q \in PollSet /\ q.step = r.step /\ q.cursor = r.cursor
          /\ q.rows = r.rows /\ q.machines = r.machines /\ q.label = r.label
          /\ q.held = r.held \cup {w}
      BY <2>1, <2>2, <2>5 DEF PollSet
    <3>2. r.step # Idle /\ r.step \in 1 .. Answered
      BY <2>5, Steps
    <3>3. /\ world \in r.held /\ RowsTrue(r) /\ MachinesTrue(r) /\ LabelTrue(r)
          /\ (r.step \notin {2, 4} => r.cursor = 0)
      BY <2>1, <2>5, <3>2 DEF PollTrue
    <3>4. RowsTrue(q)
      <4>1. \A s \in Slots : Passed(q, s) <=> Passed(r, s)
        BY <3>1 DEF Passed
      <4> QED
        BY <3>1, <3>3, <4>1 DEF RowsTrue
    <3>5. MachinesTrue(q)
      BY <3>1, <3>3 DEF MachinesTrue
    <3>6. LabelTrue(q)
      BY <3>1, <3>3 DEF LabelTrue
    <3>7. PollTrue(q)
      BY <3>1, <3>2, <3>3, <3>4, <3>5, <3>6 DEF PollTrue
    <3> QED
      BY <2>3, <3>1, <3>7 DEF q
  <2>6. CASE r.step \notin 1 .. EnrichStep
    BY <2>1, <2>2, <2>4, <2>6 DEF q
  <2> QED
    BY <2>5, <2>6
<1>3. Shape'
  BY <1>1, <1>2 DEF Shape
<1> QED
  BY <1>2, <1>3 DEF IInv, PollsTrue

\* The changes to the boards are changes from a world to a world.
LEMMA BoardSteps ==
  ASSUME IInv, EditSlot \/ EditMachines \/ EditAccess \/ Relabel PROVE IInv'
<1>0. world \in WorldSet
  BY DEF IInv, Shape
<1>1. ASSUME EditSlot PROVE IInv'
  <2>1. PICK s \in Slots, row \in Rows \cup {Gone} :
          Edit([world EXCEPT !.rows[s] = row])
    BY <1>1 DEF EditSlot
  <2>2. [world EXCEPT !.rows[s] = row] \in WorldSet
    BY <1>0 DEF WorldSet, RowSet
  <2> QED
    BY <2>1, <2>2, EditInv
<1>2. ASSUME EditMachines PROVE IInv'
  <2>1. PICK a \in Accounts : Edit([world EXCEPT !.machines = SymDiff(@, {a})])
    BY <1>2 DEF EditMachines
  <2>2. [world EXCEPT !.machines = SymDiff(@, {a})] \in WorldSet
    BY <1>0 DEF WorldSet, SymDiff
  <2> QED
    BY <2>1, <2>2, EditInv
<1>3. ASSUME EditAccess PROVE IInv'
  <2>1. PICK a \in Accounts : Edit([world EXCEPT !.hidden = SymDiff(@, {a})])
    BY <1>3 DEF EditAccess
  <2>2. [world EXCEPT !.hidden = SymDiff(@, {a})] \in WorldSet
    BY <1>0 DEF WorldSet, SymDiff
  <2> QED
    BY <2>1, <2>2, EditInv
<1>4. ASSUME Relabel PROVE IInv'
  <2>1. PICK l \in Labels : Edit([world EXCEPT !.label = l])
    BY <1>4 DEF Relabel
  <2>2. [world EXCEPT !.label = l] \in WorldSet
    BY <1>0 DEF WorldSet
  <2> QED
    BY <2>1, <2>2, EditInv
<1> QED
  BY <1>1, <1>2, <1>3, <1>4

LEMMA SameBoards == ASSUME IInv, UNCHANGED <<world, polls>> PROVE IInv'
BY DEF IInv, Shape, PollsTrue, PollTrue, RowsTrue, MachinesTrue, LabelTrue

LEMMA StepInv == ASSUME IInv, [Next]_vars PROVE IInv'
<1>1. ASSUME NEW p \in Polls, StartPoll(p) PROVE IInv'
  BY <1>1, StartStep
<1>2. ASSUME NEW p \in Polls, ReadMachines(p) PROVE IInv'
  BY <1>2, MachinesStep
<1>3. ASSUME NEW p \in Polls, ReadSlots(p) PROVE IInv'
  BY <1>3, SlotsStep
<1>4. ASSUME NEW p \in Polls, Enrich(p) PROVE IInv'
  BY <1>4, EnrichStepInv
<1>5. ASSUME NEW p \in Polls, PollFails(p) \/ Arrive(p) \/ ArriveFailed(p) PROVE IInv'
  BY <1>5, EndSteps
<1>6. ASSUME NEW s \in Slots, Hover(s) \/ PinTip(s) PROVE IInv'
  BY <1>6, SameBoards DEF Hover, PinTip
<1>7. ASSUME Leave \/ Dismiss \/ Escape \/ Resize \/ Zoom PROVE IInv'
  BY <1>7, SameBoards DEF Leave, Dismiss, Escape, Resize, Zoom
<1>8. ASSUME EditSlot \/ EditMachines \/ EditAccess \/ Relabel PROVE IInv'
  BY <1>8, BoardSteps
<1>9. CASE UNCHANGED vars
  BY <1>9, SameBoards DEF vars
<1> QED
  BY <1>1, <1>2, <1>3, <1>4, <1>5, <1>6, <1>7, <1>8, <1>9 DEF Next

\* What the polls have read is true of the worlds since they were sent, in
\* every reachable state.
THEOREM Invariance == Spec => []IInv
BY InitInv, StepInv, PTL DEF Spec

-----------------------------------------------------------------------------
\* An answer of /schedule.json is regular: every slot, machine and label of it
\* is as it stood at some instant of the read (read_snapshot and the client's
\* paging), for every board, page size and number of polls.
THEOREM SnapshotIsRegularAlways == Spec => []SnapshotIsRegular
<1>1. IInv => SnapshotIsRegular
  <2> SUFFICES ASSUME IInv, NEW p \in Polls, polls[p].step = Answered
               PROVE  LET r == polls[p] IN
                      /\ \A s \in Slots : \E w \in r.held : r.rows[s] = RowIn(w, s)
                      /\ \A a \in Accounts : \E w \in r.held : a \in r.machines <=> a \in MachinesIn(w)
                      /\ r.label # NoLabel => \E w \in r.held : r.label = w.label
    BY DEF SnapshotIsRegular
  <2> DEFINE r == polls[p]
  <2>1. PollTrue(r) /\ r.step = Answered
    BY DEF IInv, PollsTrue
  <2> HIDE DEF r
  <2>2. r.held # {} /\ RowsTrue(r) /\ MachinesTrue(r) /\ LabelTrue(r)
    BY <2>1, Steps DEF PollTrue
  <2>3. ASSUME NEW s \in Slots PROVE \E w \in r.held : r.rows[s] = RowIn(w, s)
    <3>1. CASE AccountOf(s) \in Accounts
      <4>1. Passed(r, s)
        BY <2>1, <3>1, Steps DEF Passed
      <4> QED
        BY <2>2, <3>1, <4>1 DEF RowsTrue
    <3>2. CASE AccountOf(s) \notin Accounts
      BY <2>2, <3>2 DEF RowsTrue, RowIn
    <3> QED
      BY <3>1, <3>2
  <2>4. ASSUME NEW a \in Accounts
        PROVE  \E w \in r.held : a \in r.machines <=> a \in MachinesIn(w)
    BY <2>1, <2>2, Steps DEF MachinesTrue
  <2> QED
    BY <2>2, <2>3, <2>4 DEF LabelTrue, r
<1> QED
  BY <1>1, Invariance, PTL

LEMMA RenderPins ==
  ASSUME PinnedIsShown, NEW sn, Render(sn), snap' = sn PROVE PinnedIsShown'
<1>1. CASE pinned = NoSlot /\ UNCHANGED ui
  BY <1>1 DEF PinnedIsShown, ui
<1>2. CASE /\ pinned # NoSlot /\ sn.rows[pinned] # Gone /\ UNCHANGED pinned
           /\ tip' = [tip EXCEPT !.on = TRUE, !.shows = Content(sn, pinned)]
  <2>1. tip = [on |-> TRUE, pinned |-> TRUE, shows |-> Content(snap, pinned)]
    BY <1>2 DEF PinnedIsShown
  <2>2. tip' = [on |-> TRUE, pinned |-> TRUE, shows |-> Content(sn, pinned)]
    BY <1>2, <2>1
  <2>3. Content(snap, pinned)' = Content(sn, pinned)
    BY <1>2 DEF Content
  <2> QED
    BY <1>2, <2>2, <2>3 DEF PinnedIsShown
<1>3. CASE UnpinTip
  BY <1>3 DEF UnpinTip, PinnedIsShown
<1> QED
  BY <1>1, <1>2, <1>3 DEF Render

\* The pinned popout is up and speaks of the snapshot that is drawn (render and
\* renderTip of the page), in whatever order answers, clicks and zooms come.
THEOREM PinnedIsShownAlways == Spec => []PinnedIsShown
<1>1. Init => PinnedIsShown
  BY DEF Init, PinnedIsShown
<1>2. ASSUME PinnedIsShown, [Next]_vars PROVE PinnedIsShown'
  <2>1. ASSUME UNCHANGED <<snap, pinned, tip>> PROVE PinnedIsShown'
    BY <1>2, <2>1 DEF PinnedIsShown, Content
  <2>2. ASSUME NEW p \in Polls, Arrive(p) PROVE PinnedIsShown'
    BY <1>2, <2>2, RenderPins DEF Arrive
  <2>3. ASSUME NEW s \in Slots, Hover(s) \/ PinTip(s) PROVE PinnedIsShown'
    BY <1>2, <2>3 DEF Hover, PinTip, Drawn, Content, PinnedIsShown
  <2>4. ASSUME Leave PROVE PinnedIsShown'
    BY <1>2, <2>4 DEF Leave, PinnedIsShown
  <2>5. ASSUME Dismiss \/ Escape PROVE PinnedIsShown'
    BY <2>5 DEF Dismiss, Escape, UnpinTip, PinnedIsShown
  <2>6. ASSUME Resize \/ Zoom PROVE PinnedIsShown'
    <3>1. CASE Resize
      BY <1>2, <3>1, RenderPins DEF Resize
    <3>2. CASE Zoom
      BY <3>2 DEF Zoom, UnpinTip, PinnedIsShown
    <3> QED
      BY <2>6, <3>1, <3>2
  <2>7. ASSUME NEW p \in Polls,
               StartPoll(p) \/ ReadMachines(p) \/ ReadSlots(p) \/ Enrich(p)
                 \/ PollFails(p) \/ ArriveFailed(p)
        PROVE  PinnedIsShown'
    BY <2>1, <2>7 DEF StartPoll, ReadMachines, ReadSlots, Enrich, PollFails, ArriveFailed, ui
  <2>8. ASSUME EditSlot \/ EditMachines \/ EditAccess \/ Relabel PROVE PinnedIsShown'
    BY <2>1, <2>8 DEF EditSlot, EditMachines, EditAccess, Relabel, Edit, ui
  <2>9. CASE UNCHANGED vars
    BY <2>1, <2>9 DEF vars, ui
  <2> QED
    BY <1>2, <2>2, <2>3, <2>4, <2>5, <2>6, <2>7, <2>8, <2>9 DEF Next
<1> QED
  BY <1>1, <1>2, PTL DEF Spec
=============================================================================
