---------------------------- MODULE IngestProofs ----------------------------
(***************************************************************************)
(* Theorems about Ingest, for any items, Blend Records, links between      *)
(* them, spec sheets and bounds.                                           *)
(***************************************************************************)
EXTENDS Ingest, FiniteSetTheorems, FunctionTheorems, SequenceTheorems, TLAPS

Asks(e, r) == AsksFor(e.kind, e.subject) = r
\* The positions in a queue of the events that ask for an order.
Asking(q, r) == {k \in DOMAIN q : Asks(q[k], r)}

\* What is behind an event that was accepted.
Caused(e) ==
  /\ e.awaited => e.kind = "order"
  /\ e.kind \in {"order", "blending", "start", "end"} => e.subject \in Blends
  /\ e.kind = "ready"    => e.subject \in Items /\ cell[e.subject] \in Cells
  /\ e.kind = "blending" => e.subject \in released
  /\ e.kind = "capacity" => e.subject = None

\* A Blend Record is made from an item that has a cell.
Linked == \A b \in released : Source[b] # None => cell[Source[b]] \in Cells

\* Where process_event is, and what it holds there.
OrderOf(i) == BuildScheduleOrder(PayloadText(cell[i]))
InHand ==
  /\ pc = "stub"   => event.kind = "capacity"
  /\ pc = "report" => event.kind \in {"start", "end"}
  /\ pc = "link"   => event.kind = "blending"
  /\ pc \in {"sheet", "apply"} => ref \in Refs /\ Asks(event, ref)
  /\ pc = "sheet"  => event.kind \in {"ready", "blending"}
  /\ pc = "apply"  =>
       /\ event.kind \in {"order", "ready", "blending"}
       /\ event.kind = "ready" => ~order.press
       /\ edits = 0 /\ event.kind # "order" => order = OrderOf(ref)

\* Chains of a reference are counted through, and paid for: the events that
\* are still to be processed can pay for one more each.
Numbered == \A r \in Refs : ChainsOf(r) = 1 .. Cardinality(ChainsOf(r))
Paid ==
  \A r \in Refs :
    Cardinality(ChainsOf(r)) + Cardinality(Asking(queue, r))
      + (IF pc # "idle" /\ Asks(event, r) THEN 1 ELSE 0) <= triggers[r]

\* A handled event that found its item has placed what that calls for.
StagesOf(r, c) == {s.stage : s \in SlotsOf(r, c)}
PlacedFor(h) ==
  LET i == AsksFor(h[1], h[2]) IN
  h[3] = "done" /\ i \in Items =>
    /\ cell[i] \in Cells
    /\ /\ Accepted(PayloadText(cell[i]))
       /\ ~(h[1] = "ready" /\ OrderOf(i).press)
       /\ Chain(OrderOf(i)) # {}
       => \E c \in ChainsOf(i) : StagesOf(i, c) = Chain(OrderOf(i))
Placed == edits = 0 => \A h \in handled : PlacedFor(h)

AllCaused == (pc # "idle" => Caused(event)) /\ \A k \in DOMAIN queue : Caused(queue[k])
Outcomes == {"done", "not_found"}
HistoryType ==
  edits \in Nat /\ handled \subseteq (DOMAIN FirstStep) \X (Refs \cup {None}) \X Outcomes

IInv == /\ TypeOK /\ AllCaused /\ Linked /\ InHand /\ Numbered /\ Paid
        /\ PressOnlyReleased /\ Placed /\ HistoryType
-----------------------------------------------------------------------------
(***************************************************************************)
(* Spec sheets and the chains made from them.                              *)
(***************************************************************************)
LEMMA SheetFacts ==
  ASSUME NEW sheet \in Sheets, Accepted(sheet)
  PROVE  /\ sheet \in [route : STRING, product : STRING, index : Nat, flavors : Seq(Seq(STRING))]
         /\ IncludePress(sheet) <=> sheet.route # "Kitting Only"
         /\ sheet.index \in DOMAIN sheet.flavors
         /\ sheet.flavors[sheet.index] \in Seq(STRING)
         /\ \A k \in DOMAIN sheet.flavors[sheet.index] :
              IsPackaging(sheet.flavors[sheet.index][k])
<1>1. /\ sheet # Blank /\ sheet # Malformed /\ ShouldSchedule(sheet)
      /\ sheet.index \in DOMAIN sheet.flavors
      /\ \A k \in DOMAIN sheet.flavors[sheet.index] :
           IsPackaging(sheet.flavors[sheet.index][k])
  BY DEF Accepted, Refusal
<1>2. sheet \in [route : STRING, product : STRING, index : Nat, flavors : Seq(Seq(STRING))]
  BY <1>1 DEF Sheets
<1>3. sheet.flavors[sheet.index] \in Seq(STRING)
  BY <1>1, <1>2, ElementOfSeq, LenProperties
<1>4. IncludePress(sheet) <=> sheet.route # "Kitting Only"
  BY <1>1 DEF IncludePress, ShouldSchedule, PressRoutes, NoPressRoutes, Route
<1> QED
  BY <1>1, <1>2, <1>3, <1>4

LEMMA GroupFacts ==
  ASSUME NEW name, IsPackaging(name)
  PROVE  Group(name) \in DOMAIN Spellings /\ name \in Spellings[Group(name)]
BY DEF IsPackaging, Group

LEMMA OrderType ==
  ASSUME NEW sheet \in Sheets, Accepted(sheet)
  PROVE  /\ BuildScheduleOrder(sheet) \in Orders
         /\ Len(BuildScheduleOrder(sheet).slices) = Len(sheet.flavors[sheet.index])
<1> DEFINE flavor == sheet.flavors[sheet.index]
<1>1. /\ flavor \in Seq(STRING) /\ Len(flavor) \in Nat /\ DOMAIN flavor = 1 .. Len(flavor)
      /\ \A k \in DOMAIN flavor : Group(flavor[k]) \in DOMAIN Spellings
  BY SheetFacts, GroupFacts, LenProperties
<1>2. BuildPackagingBreakdown(sheet) \in [1 .. Len(flavor) -> DOMAIN Spellings]
  BY <1>1 DEF BuildPackagingBreakdown
<1>3. BuildPackagingBreakdown(sheet) \in Seq(DOMAIN Spellings)
  BY <1>1, <1>2, SeqDef
<1>4. Len(BuildPackagingBreakdown(sheet)) = Len(flavor)
  BY <1>1, <1>2, <1>3
<1> QED
  BY <1>3, <1>4 DEF BuildScheduleOrder, Orders, IncludePress

LEMMA ChainFacts ==
  ASSUME NEW o \in Orders
  PROVE  /\ Chain(o) \subseteq Stages
         /\ PressStage \in Chain(o) <=> o.press
         /\ Chain(o) \ {PressStage} = {<<k, o.slices[k]>> : k \in DOMAIN o.slices}
<1>1. /\ o.slices \in Seq(DOMAIN Spellings) /\ Len(o.slices) \in Nat
      /\ DOMAIN o.slices = 1 .. Len(o.slices)
  BY LenProperties DEF Orders
<1>2. \A k \in DOMAIN o.slices : /\ k \in Nat /\ o.slices[k] \in DOMAIN Spellings
                                 /\ <<k, o.slices[k]>> # PressStage
  BY <1>1, ElementOfSeq DEF PressStage
<1> QED
  BY <1>2 DEF Chain, Stages

\* The stages of an order are those that its sheet calls for.
LEMMA ChainIsCalledFor ==
  ASSUME NEW sheet \in Sheets, Accepted(sheet)
  PROVE  CallsFor(sheet, Chain(BuildScheduleOrder(sheet)))
<1> DEFINE flavor == sheet.flavors[sheet.index]
           o == BuildScheduleOrder(sheet)
           slices == {<<k, o.slices[k]>> : k \in DOMAIN o.slices}
           n == Len(flavor)
<1>1. /\ o \in Orders /\ n \in Nat /\ DOMAIN flavor = 1 .. n
      /\ \A k \in DOMAIN flavor : IsPackaging(flavor[k])
  BY OrderType, SheetFacts, LenProperties
<1>2. PressStage \in Chain(o) <=> sheet.route # "Kitting Only"
  BY <1>1, ChainFacts, SheetFacts DEF BuildScheduleOrder
<1>3. /\ DOMAIN o.slices = 1 .. n
      /\ \A k \in 1 .. n : o.slices[k] = Group(flavor[k])
  BY <1>1 DEF BuildScheduleOrder, BuildPackagingBreakdown
<1>4. Chain(o) \ {PressStage} = slices
  BY <1>1, ChainFacts
<1>5. ASSUME NEW k \in DOMAIN flavor
      PROVE  \E g \in DOMAIN Spellings : flavor[k] \in Spellings[g] /\ <<k, g>> \in Chain(o)
  <2>1. <<k, o.slices[k]>> \in Chain(o)
    BY <1>1, <1>3, <1>4
  <2> QED
    BY <1>1, <1>3, <1>5, <2>1, GroupFacts
<1>6. Cardinality(slices) = n
  <2> DEFINE f == [k \in 1 .. n |-> <<k, o.slices[k]>>]
  <2>1. f \in Bijection(1 .. n, slices)
    <3>1. f \in [1 .. n -> slices]
      BY <1>3
    <3>2. \A j, k \in 1 .. n : f[j] = f[k] => j = k
      OBVIOUS
    <3>3. \A s \in slices : \E k \in 1 .. n : f[k] = s
      BY <1>3
    <3> HIDE DEF f, slices
    <3> QED
      BY <3>1, <3>2, <3>3, Fun_IsBij
  <2>2. IsFiniteSet(1 .. n) /\ Cardinality(1 .. n) = n
    BY <1>1, FS_Interval
  <2> HIDE DEF f, slices, n
  <2>3. ExistsBijection(1 .. n, slices)
    BY <2>1 DEF ExistsBijection
  <2> QED
    BY <2>2, <2>3, FS_Bijection
<1> QED
  BY <1>2, <1>4, <1>5, <1>6 DEF CallsFor

-----------------------------------------------------------------------------
(***************************************************************************)
(* Queues: how many events ask for an order.                               *)
(***************************************************************************)
LEMMA AskingFinite ==
  ASSUME NEW S, NEW q \in Seq(S), NEW r
  PROVE  IsFiniteSet(Asking(q, r)) /\ Cardinality(Asking(q, r)) \in Nat
<1>1. Asking(q, r) \subseteq 1 .. Len(q) /\ Len(q) \in Nat
  BY LenProperties DEF Asking
<1>2. IsFiniteSet(1 .. Len(q))
  BY <1>1, FS_Interval
<1>3. IsFiniteSet(Asking(q, r))
  BY <1>1, <1>2, FS_Subset
<1> QED
  BY <1>3, FS_CardinalityType

LEMMA AskAppend ==
  ASSUME NEW S, NEW q \in Seq(S), NEW e \in S, NEW r
  PROVE  Cardinality(Asking(Append(q, e), r))
           = Cardinality(Asking(q, r)) + (IF Asks(e, r) THEN 1 ELSE 0)
<1> DEFINE a == Append(q, e)
           last == Len(q) + 1
<1>1. /\ Len(q) \in Nat /\ DOMAIN q = 1 .. Len(q)
      /\ a \in Seq(S) /\ Len(a) = last /\ a[last] = e
      /\ \A k \in 1 .. Len(q) : a[k] = q[k]
  BY LenProperties, AppendProperties
<1>2. DOMAIN a = 1 .. last
  BY <1>1, LenProperties
<1>3. last \notin Asking(q, r)
  BY <1>1 DEF Asking
<1> HIDE DEF a
<1>4. Asking(a, r) = Asking(q, r) \cup (IF Asks(e, r) THEN {last} ELSE {})
  BY <1>1, <1>2 DEF Asking
<1>5. Cardinality(Asking(q, r) \cup {last}) = Cardinality(Asking(q, r)) + 1
  BY <1>3, AskingFinite, FS_AddElement
<1>6. Cardinality(Asking(q, r)) \in Nat
  BY AskingFinite
<1>7. CASE Asks(e, r)
  <2>1. Asking(a, r) = Asking(q, r) \cup {last}
    BY <1>4, <1>7
  <2> QED
    BY <1>5, <1>7, <2>1 DEF a
<1>8. CASE ~Asks(e, r)
  <2>1. Asking(a, r) = Asking(q, r)
    BY <1>4, <1>8
  <2> QED
    BY <1>6, <1>8, <2>1 DEF a
<1> QED
  BY <1>7, <1>8

LEMMA AskTail ==
  ASSUME NEW S, NEW q \in Seq(S), q # <<>>, NEW r
  PROVE  Cardinality(Asking(q, r))
           = Cardinality(Asking(Tail(q), r)) + (IF Asks(Head(q), r) THEN 1 ELSE 0)
<1> DEFINE t == Tail(q)
           Q == Asking(q, r) \ {1}
           T == Asking(t, r)
           f == [k \in T |-> k + 1]
<1>1. /\ Len(q) \in Nat \ {0} /\ DOMAIN q = 1 .. Len(q)
      /\ t \in Seq(S) /\ Len(t) = Len(q) - 1 /\ Head(q) = q[1]
      /\ \A k \in 1 .. Len(t) : t[k] = q[k + 1]
  BY LenProperties, EmptySeq, HeadTailProperties
<1>2. DOMAIN t = 1 .. Len(t)
  BY <1>1, LenProperties
<1> HIDE DEF t
<1>3. \A k \in T : k \in 1 .. Len(t) /\ k + 1 \in Q
  BY <1>1, <1>2 DEF Asking
<1>4. ASSUME NEW k \in Q PROVE k - 1 \in T /\ (k - 1) + 1 = k
  <2>1. k \in 1 .. Len(q) /\ k # 1 /\ Asks(q[k], r)
    BY <1>1 DEF Asking
  <2>2. k - 1 \in 1 .. Len(t) /\ (k - 1) + 1 = k
    BY <1>1, <2>1
  <2> QED
    BY <1>1, <1>2, <2>1, <2>2 DEF Asking
<1>5. f \in Bijection(T, Q)
  <2> HIDE DEF T, Q
  <2>1. f \in [T -> Q]
    BY <1>3
  <2>2. \A j, k \in T : f[j] = f[k] => j = k
    BY <1>3
  <2>3. \A k \in Q : \E j \in T : f[j] = k
    BY <1>4
  <2> HIDE DEF f
  <2> QED
    BY <2>1, <2>2, <2>3, Fun_IsBij
<1>6. IsFiniteSet(T) /\ IsFiniteSet(Asking(q, r)) /\ Cardinality(Asking(q, r)) \in Nat
  BY <1>1, AskingFinite
<1>7. Cardinality(Q) = Cardinality(T)
  <2> HIDE DEF T, Q, f
  <2>1. ExistsBijection(T, Q)
    BY <1>5 DEF ExistsBijection
  <2> QED
    BY <1>6, <2>1, FS_Bijection
<1>8. 1 \in Asking(q, r) <=> Asks(Head(q), r)
  BY <1>1 DEF Asking
<1>9. Cardinality(Q) = IF 1 \in Asking(q, r) THEN Cardinality(Asking(q, r)) - 1
                       ELSE Cardinality(Asking(q, r))
  BY <1>6, FS_RemoveElement
<1> HIDE DEF T, Q
<1> QED
  BY <1>6, <1>7, <1>8, <1>9 DEF T, t

-----------------------------------------------------------------------------
(***************************************************************************)
(* The chains on the board, and how a step may change them.                *)
(***************************************************************************)
LEMMA Counts ==
  ASSUME TypeOK, NEW r \in Refs
  PROVE  /\ IsFiniteSet(ChainsOf(r)) /\ Cardinality(ChainsOf(r)) \in Nat
         /\ Cardinality(Asking(queue, r)) \in Nat
         /\ triggers[r] \in 0 .. count /\ count \in 0 .. MaxEvents
<1>1. ChainsOf(r) \subseteq 1 .. MaxEvents
  BY DEF TypeOK, ChainsOf
<1>2. IsFiniteSet(1 .. MaxEvents)
  BY IngestAssumption, FS_Interval
<1>3. IsFiniteSet(ChainsOf(r))
  BY <1>1, <1>2, FS_Subset
<1>4. Cardinality(Asking(queue, r)) \in Nat
  BY AskingFinite DEF TypeOK
<1>5. Cardinality(ChainsOf(r)) \in Nat
  BY <1>3, FS_CardinalityType
<1> QED
  BY <1>3, <1>4, <1>5 DEF TypeOK

Slots == [ref : Refs, stage : Stages, chain : 1 .. MaxEvents,
          actual : {"none", "started", "done"}]

\* A step of process_event may place the next chain of the order in hand, and
\* leaves the stages of every other chain alone.
Grown ==
  /\ board' \in SUBSET Slots
  /\ Numbered'
  /\ \A r \in Refs :
       /\ Cardinality(ChainsOf(r)') \in Nat
       /\ Cardinality(ChainsOf(r)') <= Cardinality(ChainsOf(r))
                                         + (IF pc = "apply" /\ r = ref THEN 1 ELSE 0)
       /\ \A c \in ChainsOf(r) : c \in ChainsOf(r)' /\ StagesOf(r, c)' = StagesOf(r, c)
  /\ PressOnlyReleased'

\* The sheet that is read is that of an item.
LEMMA SheetInHand ==
  ASSUME IInv, pc = "sheet" \/ (pc = "apply" /\ event.kind # "order")
  PROVE  ref \in Items /\ cell[ref] \in Cells /\ AsksFor(event.kind, event.subject) = ref
<1>1. /\ Caused(event) /\ event.kind \in {"ready", "blending"}
      /\ ref \in Refs /\ AsksFor(event.kind, event.subject) = ref
  BY DEF IInv, AllCaused, InHand, Asks
<1>2. CASE event.kind = "ready"
  BY <1>1, <1>2 DEF Caused, AsksFor
<1>3. CASE event.kind = "blending"
  <2>1. event.subject \in released /\ event.subject \in Blends /\ Source[event.subject] = ref
    BY <1>1, <1>3 DEF Caused, AsksFor
  <2>2. ref # None
    BY <1>1, IngestAssumption DEF Refs
  <2> QED
    BY <1>1, <2>1, <2>2, IngestAssumption DEF IInv, Linked
<1> QED
  BY <1>1, <1>2, <1>3

\* An item's order with a press stage is in hand only once it was released.
LEMMA PressInHand ==
  ASSUME IInv, pc = "apply", order.press, ref \in Items
  PROVE  \E b \in Blends : Source[b] = ref /\ b \in released
<1>1. Caused(event) /\ Asks(event, ref) /\ event.kind \in {"order", "blending"}
  BY DEF IInv, AllCaused, InHand
<1>2. event.kind # "order"
  BY <1>1, IngestAssumption DEF Caused, Asks, AsksFor
<1> QED
  BY <1>1, <1>2 DEF Caused, Asks, AsksFor

LEMMA NewChainFacts ==
  ASSUME IInv, pc = "apply", NEW r \in Refs, r = ref, NEW part \in SUBSET Chain(order),
         board' = board \cup NewChain(part), UNCHANGED released
  PROVE  /\ Grown
         /\ part # {} => \E c \in ChainsOf(r)' : StagesOf(r, c)' = part
<1>1. order \in Orders /\ Asks(event, r)
  BY DEF IInv, TypeOK, InHand
<1> PICK n : n = Cardinality(ChainsOf(r))
  OBVIOUS
<1> PICK c : c = n + 1
  OBVIOUS
<1>2. n \in Nat /\ ChainsOf(r) = 1 .. n /\ c \in 1 .. MaxEvents /\ c \notin 1 .. n
  <2>1. Cardinality(ChainsOf(r)) + Cardinality(Asking(queue, r)) + 1 <= triggers[r]
    BY <1>1 DEF IInv, Paid
  <2>2. Cardinality(ChainsOf(r)) \in Nat /\ ChainsOf(r) = 1 .. Cardinality(ChainsOf(r))
    BY Counts DEF IInv, Numbered
  <2>3. /\ Cardinality(Asking(queue, r)) \in Nat
        /\ triggers[r] \in 0 .. count /\ count \in 0 .. MaxEvents
    BY Counts DEF IInv
  <2> QED
    BY <2>1, <2>2, <2>3, IngestAssumption
<1>3. NewChain(part) = {[ref |-> r, stage |-> st, chain |-> c, actual |-> "none"] : st \in part}
  BY DEF NewChain
<1>4. \A s \in NewChain(part) : s.ref = r /\ s.chain = c /\ s.stage \in part
  BY <1>3
<1>5. \A st \in part : \E s \in NewChain(part) : s.ref = r /\ s.chain = c /\ s.stage = st
  <2>1. ASSUME NEW st \in part
        PROVE  [ref |-> r, stage |-> st, chain |-> c, actual |-> "none"] \in NewChain(part)
    BY <1>3
  <2> QED
    BY <2>1
<1>6. board' \in SUBSET Slots
  <2>1. part \subseteq Stages
    BY <1>1, ChainFacts
  <2>2. ASSUME NEW st \in part
        PROVE  [ref |-> r, stage |-> st, chain |-> c, actual |-> "none"] \in Slots
    <3>1. st \in Stages /\ c \in 1 .. MaxEvents
      BY <1>2, <2>1
    <3> QED
      BY <3>1 DEF Slots
  <2>3. NewChain(part) \subseteq Slots
    BY <1>3, <2>2
  <2> QED
    BY <2>3 DEF IInv, TypeOK, Slots
<1>7. \A q \in Refs \ {r} : ChainsOf(q)' = ChainsOf(q)
  BY <1>4 DEF ChainsOf
<1>8. ChainsOf(r)' = ChainsOf(r) \cup (IF part = {} THEN {} ELSE {c})
  BY <1>4, <1>5 DEF ChainsOf
<1>9. ASSUME NEW q \in Refs, NEW d \in ChainsOf(q)
      PROVE  StagesOf(q, d)' = StagesOf(q, d)
  <2>1. q # r \/ d # c
    BY <1>2
  <2>2. SlotsOf(q, d)' = SlotsOf(q, d)
    BY <1>4, <2>1 DEF SlotsOf
  <2> QED
    BY <2>2 DEF StagesOf
<1>10. StagesOf(r, c)' = part
  <2>1. c \notin ChainsOf(r)
    BY <1>2
  <2>2. SlotsOf(r, c) = {}
    BY <2>1 DEF SlotsOf, ChainsOf
  <2>3. SlotsOf(r, c)' = NewChain(part)
    BY <1>4, <2>2 DEF SlotsOf
  <2> QED
    BY <1>4, <1>5, <2>3 DEF StagesOf
<1>11. ChainsOf(r)' = 1 .. Cardinality(ChainsOf(r)') /\ Cardinality(ChainsOf(r)') \in {n, c}
  <2>1. ChainsOf(r)' \in {1 .. n, 1 .. c}
    <3>1. (1 .. n) \cup {c} = 1 .. c
      BY <1>2
    <3> QED
      BY <1>2, <1>8, <3>1
  <2>2. Cardinality(1 .. n) = n /\ Cardinality(1 .. c) = c
    <3>1. 0 \in Int /\ 1 \in Int /\ n \in Int /\ c \in Int /\ n >= 0 /\ c >= 1
      BY <1>2, IngestAssumption
    <3> QED
      BY <3>1, FS_Interval
  <2> QED
    BY <2>1, <2>2
<1>12. Numbered'
  <2>1. \A q \in Refs \ {r} : ChainsOf(q)' = 1 .. Cardinality(ChainsOf(q)')
    BY <1>7 DEF IInv, Numbered
  <2> QED
    BY <1>11, <2>1 DEF Numbered
<1>13. ASSUME NEW s \in board', s.stage = PressStage, s.ref \in Items
       PROVE  \E b \in Blends : Source[b] = s.ref /\ b \in released'
  <2>1. CASE s \in board
    BY <1>13, <2>1 DEF IInv, PressOnlyReleased
  <2>2. CASE s \in NewChain(part)
    <3>1. s.ref = ref /\ s.stage \in part
      BY <1>4, <2>2
    <3>2. order.press
      BY <1>1, <1>13, <3>1, ChainFacts
    <3> QED
      BY <1>13, <3>1, <3>2, PressInHand
  <2> QED
    BY <2>1, <2>2
<1>14. ASSUME NEW q \in Refs
       PROVE  /\ Cardinality(ChainsOf(q)') \in Nat
              /\ Cardinality(ChainsOf(q)') <= Cardinality(ChainsOf(q))
                                       + (IF pc = "apply" /\ q = ref THEN 1 ELSE 0)
              /\ \A d \in ChainsOf(q) : d \in ChainsOf(q)' /\ StagesOf(q, d)' = StagesOf(q, d)
  <2>1. \A d \in ChainsOf(q) : d \in ChainsOf(q)' /\ StagesOf(q, d)' = StagesOf(q, d)
    BY <1>7, <1>8, <1>9
  <2>2. CASE q = r
    <3>1. /\ Cardinality(ChainsOf(q)') \in {n, n + 1} /\ n \in Nat
          /\ Cardinality(ChainsOf(q)) = n
      BY <1>2, <1>11, <2>2
    <3> QED
      BY <2>1, <2>2, <3>1
  <2>3. CASE q # r
    <3>1. Cardinality(ChainsOf(q)') = Cardinality(ChainsOf(q))
      BY <1>7, <2>3
    <3>2. Cardinality(ChainsOf(q)) \in Nat
      BY Counts DEF IInv
    <3> QED
      BY <2>1, <2>3, <3>1, <3>2
  <2> QED
    BY <2>2, <2>3
<1>15. Grown
  BY <1>6, <1>12, <1>13, <1>14 DEF Grown, PressOnlyReleased
<1> QED
  BY <1>8, <1>10, <1>15

\* A board whose slots keep their reference, stage and chain has grown by nothing.
LEMMA SameChains ==
  ASSUME IInv, UNCHANGED released,
         board' \in SUBSET Slots,
         \A s \in board' : \E t \in board : t.ref = s.ref /\ t.stage = s.stage /\ t.chain = s.chain,
         \A s \in board : \E t \in board' : t.ref = s.ref /\ t.stage = s.stage /\ t.chain = s.chain
  PROVE  Grown
<1>1. ASSUME NEW r
      PROVE  ChainsOf(r)' = ChainsOf(r) /\ \A c : StagesOf(r, c)' = StagesOf(r, c)
  BY DEF ChainsOf, StagesOf, SlotsOf
<1>2. Numbered'
  BY <1>1 DEF IInv, Numbered
<1>3. PressOnlyReleased'
  BY DEF IInv, PressOnlyReleased
<1>4. ASSUME NEW r \in Refs
      PROVE  /\ Cardinality(ChainsOf(r)') \in Nat
             /\ Cardinality(ChainsOf(r)') <= Cardinality(ChainsOf(r))
                                       + (IF pc = "apply" /\ r = ref THEN 1 ELSE 0)
             /\ \A c \in ChainsOf(r) : c \in ChainsOf(r)' /\ StagesOf(r, c)' = StagesOf(r, c)
  <2>1. Cardinality(ChainsOf(r)) \in Nat
    BY Counts DEF IInv
  <2>2. Cardinality(ChainsOf(r)') = Cardinality(ChainsOf(r))
    BY <1>1
  <2> QED
    BY <1>1, <2>1, <2>2
<1> QED
  BY <1>2, <1>3, <1>4 DEF Grown

-----------------------------------------------------------------------------
(***************************************************************************)
(* Steps that end the work on an event, and steps that bring a new one.    *)
(***************************************************************************)
LEMMA BoardStays ==
  ASSUME IInv, UNCHANGED <<released, board>>
  PROVE  Grown
<1>1. board' \in SUBSET Slots
  BY DEF IInv, TypeOK, Slots
<1> QED
  BY <1>1, SameChains

\* The event in hand leaves the worker, handled or not.
LEMMA LeaveKeeps ==
  ASSUME IInv, Leave, Grown, UNCHANGED <<monday, log, gaveUp>>,
         queue' \in {queue, <<>>}, served' \subseteq Blends,
         NEW new, handled' = handled \cup new,
         \A h \in new : /\ h \in (DOMAIN FirstStep) \X (Refs \cup {None}) \X Outcomes
                        /\ edits = 0 => PlacedFor(h)'
  PROVE  IInv'
<1> USE DEF Leave, monday, log
<1>1. TypeOK'
  <2>1. board' \in SUBSET Slots
    BY DEF Grown
  <2>2. /\ queue' \in Seq(Events)
        /\ \A k \in DOMAIN queue' : queue'[k].awaited => queue'[k].kind = "order"
        /\ \A j, k \in DOMAIN queue' :
             queue'[j].awaited /\ Awaits(queue'[k], queue'[j].subject) => j = k
    <3>1. CASE queue' = queue
      BY <3>1 DEF IInv, TypeOK
    <3>2. CASE queue' = <<>>
      BY <3>2, EmptySeq
    <3> QED
      BY <3>1, <3>2
  <2> QED
    BY <2>1, <2>2 DEF IInv, TypeOK, Slots, Awaits
<1>2. AllCaused'
  <2>1. \A k \in DOMAIN queue' : k \in DOMAIN queue /\ queue'[k] = queue[k]
    BY EmptySeq
  <2> QED
    BY <2>1 DEF IInv, AllCaused, Caused
<1>3. Linked'
  BY DEF IInv, Linked
<1>4. InHand'
  BY DEF InHand
<1>5. Paid'
  <2>1. ASSUME NEW r \in Refs
        PROVE  Cardinality(ChainsOf(r)') + Cardinality(Asking(queue, r)') <= triggers[r]
    <3>1. /\ Cardinality(ChainsOf(r)') \in Nat
          /\ Cardinality(ChainsOf(r)') <= Cardinality(ChainsOf(r))
                                       + (IF pc = "apply" /\ r = ref THEN 1 ELSE 0)
      BY DEF Grown
    <3>2. pc = "apply" /\ r = ref => pc # "idle" /\ Asks(event, r)
      BY DEF IInv, InHand
    <3>3. Cardinality(Asking(queue, r)') \in {0, Cardinality(Asking(queue, r))}
      <4>1. CASE queue' = <<>>
        <5>1. Asking(queue, r)' = {}
          BY <4>1, EmptySeq DEF Asking
        <5> QED
          BY <5>1, FS_EmptySet
      <4>2. CASE queue' = queue
        <5>1. Asking(queue, r)' = Asking(queue, r)
          BY <4>2 DEF Asking, Asks
        <5> QED
          BY <5>1
      <4> QED
        BY <4>1, <4>2
    <3>4. Cardinality(ChainsOf(r)) + Cardinality(Asking(queue, r))
            + (IF pc # "idle" /\ Asks(event, r) THEN 1 ELSE 0) <= triggers[r]
      BY DEF IInv, Paid
    <3>5. /\ Cardinality(ChainsOf(r)) \in Nat /\ Cardinality(Asking(queue, r)) \in Nat
          /\ triggers[r] \in Nat
      BY Counts DEF IInv
    <3> QED
      BY <3>1, <3>2, <3>3, <3>4, <3>5
  <2>2. ASSUME NEW r \in Refs
        PROVE  /\ Cardinality(ChainsOf(r)') \in Nat /\ Cardinality(Asking(queue, r)') \in Nat
    <3>1. Cardinality(ChainsOf(r)') \in Nat
      BY DEF Grown
    <3>2. queue' \in Seq(Events)
      BY <1>1 DEF TypeOK
    <3>3. Cardinality(Asking(queue', r)) \in Nat
      BY <3>2, AskingFinite
    <3> QED
      BY <3>1, <3>3 DEF Asking
  <2> QED
    BY <2>1, <2>2 DEF Paid
<1>6. Placed'
  <2>1. ASSUME NEW h \in handled, edits = 0
        PROVE  PlacedFor(h)'
    <3> DEFINE i == AsksFor(h[1], h[2])
    <3> SUFFICES ASSUME h[3] = "done", i \in Items
                 PROVE  PlacedFor(h)'
      BY DEF PlacedFor
    <3>1. PlacedFor(h)
      BY <2>1 DEF IInv, Placed
    <3>2. i \in Refs
      BY DEF Refs
    <3>3. \A c \in ChainsOf(i) : c \in ChainsOf(i)' /\ StagesOf(i, c)' = StagesOf(i, c)
      BY <3>2 DEF Grown
    <3>4. OrderOf(i)' = OrderOf(i)
      BY DEF OrderOf
    <3> HIDE DEF i
    <3> QED
      BY <3>1, <3>3, <3>4 DEF PlacedFor, i
  <2> QED
    BY <2>1 DEF Placed
<1>7. HistoryType'
  BY DEF IInv, HistoryType
<1> QED
  BY <1>1, <1>2, <1>3, <1>4, <1>5, <1>6, <1>7 DEF IInv, Grown

LEMMA RaiseKeeps ==
  ASSUME IInv, Raise, Grown, UNCHANGED <<monday, log>>, queue' \in {queue, <<>>}
  PROVE  IInv'
<1> PICK new : new = {}
  OBVIOUS
<1>1. Leave /\ UNCHANGED <<monday, log, gaveUp>>
  BY DEF Raise, callers
<1>2. handled' = handled \cup new /\ served' \subseteq Blends
  BY DEF Raise, callers, IInv, TypeOK
<1>3. \A h \in new : /\ h \in (DOMAIN FirstStep) \X (Refs \cup {None}) \X Outcomes
                     /\ edits = 0 => PlacedFor(h)'
  OBVIOUS
<1> QED
  BY <1>1, <1>2, <1>3, LeaveKeeps

LEMMA ReturnKeeps ==
  ASSUME IInv, pc # "idle", Return, Grown, UNCHANGED <<monday, log, queue>>,
         NEW h, h = <<event.kind, event.subject, "done">>, edits = 0 => PlacedFor(h)'
  PROVE  IInv'
<1> PICK new : new = {h}
  OBVIOUS
<1>1. event \in Events /\ Caused(event)
  BY DEF IInv, TypeOK, AllCaused
<1>2. h \in (DOMAIN FirstStep) \X (Refs \cup {None}) \X Outcomes
  <2>1. event.kind \in DOMAIN FirstStep /\ event.subject \in Refs \cup {None}
    BY <1>1 DEF Events
  <2> QED
    BY <2>1 DEF Outcomes
<1>3. Leave /\ UNCHANGED <<monday, log, gaveUp>>
  BY DEF Return
<1>4. handled' = handled \cup new /\ served' \subseteq Blends
  BY <1>1 DEF Return, IInv, TypeOK, Caused
<1>5. \A g \in new : /\ g \in (DOMAIN FirstStep) \X (Refs \cup {None}) \X Outcomes
                     /\ edits = 0 => PlacedFor(g)'
  BY <1>2
<1>6. queue' \in {queue, <<>>} /\ UNCHANGED <<monday, log>>
  OBVIOUS
<1> QED
  BY <1>3, <1>4, <1>5, <1>6, LeaveKeeps

LEMMA NotFoundKeeps ==
  ASSUME IInv, pc # "idle", NotFound, Grown, UNCHANGED <<monday, log, queue>>
  PROVE  IInv'
<1> PICK new : new = {<<event.kind, event.subject, "not_found">>}
  OBVIOUS
<1>1. event.kind \in DOMAIN FirstStep /\ event.subject \in Refs \cup {None}
  BY DEF IInv, TypeOK, Events
<1>2. Leave /\ UNCHANGED <<monday, log, gaveUp>>
  BY DEF NotFound, callers
<1>3. handled' = handled \cup new /\ served' \subseteq Blends
  BY DEF NotFound, callers, IInv, TypeOK
<1>4. \A h \in new : /\ h \in (DOMAIN FirstStep) \X (Refs \cup {None}) \X Outcomes
                     /\ edits = 0 => PlacedFor(h)'
  BY <1>1 DEF PlacedFor, Outcomes
<1>5. queue' \in {queue, <<>>}
  OBVIOUS
<1> QED
  BY <1>2, <1>3, <1>4, <1>5, LeaveKeeps

-----------------------------------------------------------------------------
(***************************************************************************)
(* Every step preserves the invariant.                                     *)
(***************************************************************************)
\* An event the queue accepts, whoever sends it.
LEMMA PutKeeps ==
  ASSUME IInv, NEW kind \in DOMAIN FirstStep, NEW subject \in Refs \cup {None},
         NEW awaited \in BOOLEAN,
         Caused([kind |-> kind, subject |-> subject, awaited |-> awaited]),
         awaited => ~Waiting(subject),
         Accept(kind, subject), Put(kind, subject, awaited),
         UNCHANGED <<monday, callers, work, board, handled>>
  PROVE  IInv'
<1> USE DEF monday, callers, work
<1> PICK e : e = [kind |-> kind, subject |-> subject, awaited |-> awaited]
  OBVIOUS
<1>1. /\ e \in Events /\ Caused(e) /\ queue' = Append(queue, e)
      /\ e.kind = kind /\ e.subject = subject /\ e.awaited = awaited
      /\ queue \in Seq(Events)
  BY DEF Put, Events, IInv, TypeOK
<1>2. /\ queue' \in Seq(Events) /\ Len(queue) \in Nat
      /\ DOMAIN queue = 1 .. Len(queue) /\ DOMAIN queue' = 1 .. Len(queue) + 1
      /\ \A k \in DOMAIN queue : k \in DOMAIN queue' /\ queue'[k] = queue[k]
      /\ queue'[Len(queue) + 1] = e
  BY <1>1, LenProperties, AppendProperties
<1>3. \A k \in DOMAIN queue' \ DOMAIN queue : k = Len(queue) + 1
  BY <1>2
<1>4. count' \in 0 .. MaxEvents /\ triggers' \in [Refs -> 0 .. count']
  <2>1. count \in Nat /\ count < MaxEvents /\ count' = count + 1 /\ MaxEvents \in Nat
    BY IngestAssumption DEF Accept, IInv, TypeOK
  <2>2. ASSUME NEW r \in Refs
        PROVE  (IF r = AsksFor(kind, subject) THEN triggers[r] + 1 ELSE triggers[r])
                 \in 0 .. count'
    <3>1. triggers[r] \in 0 .. count
      BY Counts DEF IInv
    <3> QED
      BY <2>1, <3>1
  <2> QED
    BY <2>1, <2>2 DEF Accept
<1>5. TypeOK'
  <2>1. \A k \in DOMAIN queue' : queue'[k].awaited => queue'[k].kind = "order"
    BY <1>1, <1>2, <1>3 DEF IInv, TypeOK, Caused
  <2>2. ASSUME NEW j \in DOMAIN queue', NEW k \in DOMAIN queue',
               queue'[j].awaited, Awaits(queue'[k], queue'[j].subject)
        PROVE  j = k
    <3>1. CASE j \in DOMAIN queue /\ k \in DOMAIN queue
      BY <1>2, <2>2, <3>1 DEF IInv, TypeOK
    <3>2. CASE j \in DOMAIN queue /\ k \notin DOMAIN queue
      <4>1. awaited /\ Awaits(queue[j], subject)
        BY <1>1, <1>2, <1>3, <2>2, <3>2 DEF Awaits
      <4> QED
        BY <3>2, <4>1 DEF Waiting
    <3>3. CASE j \notin DOMAIN queue /\ k \in DOMAIN queue
      <4>1. awaited /\ Awaits(queue[k], subject)
        BY <1>1, <1>2, <1>3, <2>2, <3>3 DEF Awaits
      <4> QED
        BY <3>3, <4>1 DEF Waiting
    <3>4. CASE j \notin DOMAIN queue /\ k \notin DOMAIN queue
      BY <1>3, <3>4
    <3> QED
      BY <3>1, <3>2, <3>3, <3>4
  <2>3. \A j, k \in DOMAIN queue' :
          queue'[j].awaited /\ Awaits(queue'[k], queue'[j].subject) => j = k
    BY <2>2
  <2>4. \A j, k \in DOMAIN queue' :
          queue'[j].awaited /\ Awaits(queue[k], queue[j].subject)' => j = k
    BY <2>3 DEF Awaits
  <2> QED
    BY <1>2, <1>4, <2>1, <2>4 DEF IInv, TypeOK
<1>6. AllCaused'
  BY <1>1, <1>2, <1>3 DEF IInv, AllCaused, Caused
<1>7. Linked' /\ InHand' /\ Numbered' /\ PressOnlyReleased' /\ HistoryType'
  <2>1. Linked'
    BY DEF IInv, Linked
  <2>2. InHand'
    BY DEF IInv, InHand, Asks, OrderOf
  <2>3. Numbered' /\ PressOnlyReleased' /\ HistoryType'
    BY DEF IInv, Numbered, ChainsOf, PressOnlyReleased, HistoryType
  <2> QED
    BY <2>1, <2>2, <2>3
<1>8. Paid'
  <2>1. ASSUME NEW r \in Refs
        PROVE  Cardinality(ChainsOf(r)') + Cardinality(Asking(queue, r)')
                 + (IF pc # "idle" /\ Asks(event, r) THEN 1 ELSE 0) <= triggers'[r]
    <3>1. Cardinality(ChainsOf(r)') = Cardinality(ChainsOf(r))
      BY DEF ChainsOf
    <3>2. Asking(queue, r)' = Asking(Append(queue, e), r)
      BY <1>1 DEF Asking, Asks
    <3>3. Cardinality(Asking(Append(queue, e), r))
            = Cardinality(Asking(queue, r)) + (IF Asks(e, r) THEN 1 ELSE 0)
      BY <1>1, AskAppend
    <3>4. triggers'[r] = triggers[r] + (IF Asks(e, r) THEN 1 ELSE 0)
      <4>1. triggers'[r] = IF r = AsksFor(kind, subject) THEN triggers[r] + 1 ELSE triggers[r]
        BY DEF Accept
      <4>2. Asks(e, r) <=> r = AsksFor(kind, subject)
        BY <1>1 DEF Asks
      <4>3. triggers[r] \in Nat
        BY Counts DEF IInv
      <4> QED
        BY <4>1, <4>2, <4>3
    <3>5. /\ Cardinality(ChainsOf(r)) \in Nat /\ Cardinality(Asking(queue, r)) \in Nat
          /\ triggers[r] \in Nat
      BY Counts DEF IInv
    <3>6. Cardinality(ChainsOf(r)) + Cardinality(Asking(queue, r))
            + (IF pc # "idle" /\ Asks(event, r) THEN 1 ELSE 0) <= triggers[r]
      BY DEF IInv, Paid
    <3> QED
      BY <3>1, <3>2, <3>3, <3>4, <3>5, <3>6
  <2> QED
    BY <2>1 DEF Paid, Asks
<1>9. Placed'
  BY DEF IInv, Placed, PlacedFor, ChainsOf, StagesOf, SlotsOf, OrderOf
<1> QED
  BY <1>5, <1>6, <1>7, <1>8, <1>9 DEF IInv

LEMMA DeliverKeeps ==
  ASSUME IInv, NEW h \in Hooks, Deliver(h)
  PROVE  IInv'
<1>1. Caused([kind |-> KindOf(h), subject |-> h.pulse, awaited |-> FALSE])
  <2>1. CASE h.board = "items"
    BY <2>1 DEF Hooks, KindOf, Caused, Deliver, Sent, IInv, TypeOK
  <2>2. CASE h.board = "blends"
    BY <2>2 DEF Hooks, KindOf, Caused, Deliver, Sent, Labels
  <2>3. CASE h.board = "capacity"
    BY <2>3 DEF Hooks, KindOf, Caused
  <2> QED
    BY <2>1, <2>2, <2>3 DEF Hooks
<1>2. KindOf(h) \in DOMAIN FirstStep
  BY DEF Hooks, KindOf, FirstStep, Labels
<1>3. h.pulse \in Refs \cup {None}
  BY DEF Hooks, Refs
<1>4. Accept(KindOf(h), h.pulse) /\ Put(KindOf(h), h.pulse, FALSE)
      /\ UNCHANGED <<monday, callers, work, board, handled>>
  BY DEF Deliver
<1> QED
  BY <1>1, <1>2, <1>3, <1>4, PutKeeps

LEMMA CommitKeeps ==
  ASSUME IInv, NEW b \in Blends, Commit(b)
  PROVE  IInv'
<1>1. Caused([kind |-> "order", subject |-> b, awaited |-> TRUE])
  BY DEF Caused
<1>2. "order" \in DOMAIN FirstStep /\ b \in Refs \cup {None}
  BY DEF FirstStep, Refs
<1> QED
  BY <1>1, <1>2, PutKeeps DEF Commit

LEMMA TakeKeeps ==
  ASSUME IInv, Take
  PROVE  IInv'
<1> USE DEF monday, callers, log
<1>1. /\ queue \in Seq(Events) /\ queue # <<>> /\ event' = Head(queue) /\ queue' = Tail(queue)
      /\ pc = "idle" /\ pc' = FirstStep[event'.kind]
      /\ ref' = (IF event'.kind \in {"order", "ready"} THEN event'.subject ELSE None)
      /\ order' = (IF event'.kind = "order" THEN CommitOrder ELSE None)
  BY DEF Take, IInv, TypeOK
<1>2. /\ Len(queue) \in Nat \ {0} /\ DOMAIN queue = 1 .. Len(queue)
      /\ queue' \in Seq(Events) /\ event' \in Events /\ event' = queue[1]
      /\ DOMAIN queue' = 1 .. Len(queue) - 1
      /\ \A k \in DOMAIN queue' : k + 1 \in DOMAIN queue /\ queue'[k] = queue[k + 1]
      /\ 1 \in DOMAIN queue
  BY <1>1, LenProperties, EmptySeq, HeadTailProperties, ElementOfSeq
<1>3. event'.kind \in DOMAIN FirstStep /\ event'.subject \in Refs \cup {None}
      /\ event'.awaited \in BOOLEAN
  BY <1>2 DEF Events
<1>4. Caused(event)' /\ \A k \in DOMAIN queue' : Caused(queue[k])'
  <2>1. \A k \in DOMAIN queue : Caused(queue[k])
    BY DEF IInv, AllCaused
  <2> QED
    BY <1>2, <2>1 DEF Caused, Take
<1>5. /\ pc' = "apply"  <=> event'.kind = "order"
      /\ pc' = "sheet"  <=> event'.kind = "ready"
      /\ pc' = "link"   <=> event'.kind = "blending"
      /\ pc' = "report" <=> event'.kind \in {"start", "end"}
      /\ pc' = "stub"   <=> event'.kind = "capacity"
      /\ pc' \in {"apply", "sheet", "link", "report", "stub"}
  BY <1>1, <1>3 DEF FirstStep
<1>6. event'.kind \in {"order", "ready"} => ref' \in Refs /\ Asks(event, ref)'
  BY <1>1, <1>4 DEF Caused, Asks, AsksFor, Refs
<1>7. TypeOK'
  <2>1. \A k \in DOMAIN queue' : queue'[k].awaited => queue'[k].kind = "order"
    BY <1>2 DEF IInv, TypeOK
  <2>2. ASSUME NEW j \in DOMAIN queue', NEW k \in DOMAIN queue',
               queue'[j].awaited, Awaits(queue[k], queue[j].subject)'
        PROVE  j = k
    <3>1. queue[j + 1].awaited /\ Awaits(queue[k + 1], queue[j + 1].subject)
      BY <1>2, <2>2 DEF Awaits
    <3>2. j + 1 = k + 1
      BY <1>2, <3>1 DEF IInv, TypeOK
    <3> QED
      BY <1>2, <3>2
  <2>3. IF pc' = "apply" THEN order' \in Orders /\ ref' \in Refs ELSE order' = None
    BY <1>1, <1>5, <1>6, InputsAssumption
  <2>4. IF pc' = "idle" THEN event' = NoEvent ELSE event' \in Events
    BY <1>2, <1>5
  <2>5. /\ cell' \in [Items -> Cells \cup {None}]
        /\ released' \subseteq Blends /\ served' \subseteq Blends /\ gaveUp' \subseteq Blends
        /\ board' \in SUBSET Slots
        /\ triggers' \in [Refs -> 0 .. count'] /\ count' \in 0 .. MaxEvents
    BY DEF Take, IInv, TypeOK, Slots
  <2>6. pc' \in {"idle", "apply", "sheet", "link", "report", "stub"}
    BY <1>5
  <2> QED
    BY <1>2, <2>1, <2>2, <2>3, <2>4, <2>5, <2>6 DEF TypeOK, Slots
<1>8. AllCaused'
  BY <1>4 DEF AllCaused
<1>9. InHand'
  BY <1>5, <1>6 DEF InHand
<1>10. Paid'
  <2>1. ASSUME NEW r \in Refs
        PROVE  Cardinality(ChainsOf(r)') + Cardinality(Asking(queue, r)')
                 + (IF Asks(event, r)' THEN 1 ELSE 0) <= triggers'[r]
    <3>1. Cardinality(ChainsOf(r)') = Cardinality(ChainsOf(r)) /\ triggers'[r] = triggers[r]
      BY DEF Take, ChainsOf
    <3>2. Asking(queue, r)' = Asking(Tail(queue), r)
      BY <1>1 DEF Asking, Asks
    <3>3. Cardinality(Asking(queue, r))
            = Cardinality(Asking(Tail(queue), r)) + (IF Asks(Head(queue), r) THEN 1 ELSE 0)
      BY <1>1, AskTail
    <3>4. Asks(event, r)' <=> Asks(Head(queue), r)
      BY <1>1 DEF Asks
    <3>5. Cardinality(ChainsOf(r)) + Cardinality(Asking(queue, r)) <= triggers[r]
      <4>1. Cardinality(ChainsOf(r)) + Cardinality(Asking(queue, r)) + 0 <= triggers[r]
        BY <1>1 DEF IInv, Paid
      <4> QED
        BY <4>1, Counts DEF IInv
    <3>6. /\ Cardinality(ChainsOf(r)) \in Nat /\ Cardinality(Asking(queue, r)) \in Nat
          /\ triggers[r] \in Nat
      BY Counts DEF IInv
    <3>7. Cardinality(Asking(Tail(queue), r)) \in Nat
      <4>1. Tail(queue) \in Seq(Events)
        BY <1>1, <1>2
      <4> QED
        BY <4>1, AskingFinite
    <3> QED
      BY <3>1, <3>2, <3>3, <3>4, <3>5, <3>6, <3>7
  <2>2. pc' # "idle"
    BY <1>5
  <2> QED
    BY <2>1, <2>2 DEF Paid, Asks
<1>11. Linked' /\ Numbered' /\ PressOnlyReleased' /\ HistoryType'
  BY DEF Take, IInv, Linked, Numbered, ChainsOf, PressOnlyReleased, HistoryType
<1>12. Placed'
  BY DEF Take, IInv, Placed, PlacedFor, ChainsOf, StagesOf, SlotsOf, OrderOf
<1> QED
  BY <1>7, <1>8, <1>9, <1>10, <1>11, <1>12 DEF IInv

\* A caller that gives up leaves the order where it is.
LEMMA GiveUpKeeps ==
  ASSUME IInv, NEW b \in Blends, GiveUp(b)
  PROVE  IInv'
<1> USE DEF monday, log
<1> DEFINE C(e) == IF Awaits(e, b) THEN [e EXCEPT !.awaited = FALSE] ELSE e
<1>1. event' = C(event) /\ queue' = [k \in DOMAIN queue |-> C(queue[k])]
  BY DEF GiveUp
<1>2. ASSUME NEW e \in Events
      PROVE  /\ C(e) \in Events /\ C(e).kind = e.kind /\ C(e).subject = e.subject
             /\ C(e).awaited => C(e) = e
             /\ \A x : Awaits(C(e), x) => Awaits(e, x)
  BY DEF Awaits, Events
<1>3. C(NoEvent) = NoEvent
  BY DEF Awaits, NoEvent
<1> HIDE DEF C
<1>4. /\ queue \in Seq(Events) /\ queue' \in Seq(Events) /\ DOMAIN queue' = DOMAIN queue
      /\ \A k \in DOMAIN queue : queue[k] \in Events /\ queue'[k] = C(queue[k])
  <2>1. queue \in Seq(Events) /\ Len(queue) \in Nat /\ DOMAIN queue = 1 .. Len(queue)
    BY LenProperties DEF IInv, TypeOK
  <2>2. \A k \in DOMAIN queue : queue[k] \in Events
    BY <2>1, ElementOfSeq
  <2>3. queue' \in [1 .. Len(queue) -> Events]
    BY <1>1, <1>2, <2>1, <2>2
  <2>4. queue' \in Seq(Events)
    BY <2>1, <2>3, SeqDef
  <2> QED
    BY <1>1, <2>1, <2>2, <2>4
<1>5. /\ event'.kind = event.kind /\ event'.subject = event.subject
      /\ IF pc = "idle" THEN event' = NoEvent ELSE event' \in Events
      /\ pc # "idle" /\ event'.awaited => event' = event
  <2>1. CASE pc = "idle"
    BY <1>1, <1>3, <2>1 DEF IInv, TypeOK
  <2>2. CASE pc # "idle"
    BY <1>1, <1>2, <2>2 DEF IInv, TypeOK
  <2> QED
    BY <2>1, <2>2
<1>6. TypeOK'
  <2>1. \A k \in DOMAIN queue' : queue'[k].awaited => queue'[k].kind = "order"
    BY <1>2, <1>4 DEF IInv, TypeOK
  <2>2. ASSUME NEW j \in DOMAIN queue', NEW k \in DOMAIN queue',
               queue'[j].awaited, Awaits(queue[k], queue[j].subject)'
        PROVE  j = k
    <3>1. Awaits(C(queue[k]), C(queue[j]).subject) /\ C(queue[j]).awaited
      BY <1>4, <2>2 DEF Awaits
    <3>2. queue[j].awaited /\ Awaits(queue[k], queue[j].subject)
      BY <1>2, <1>4, <3>1
    <3> QED
      BY <1>4, <3>2 DEF IInv, TypeOK
  <2>3. /\ cell' \in [Items -> Cells \cup {None}]
        /\ released' \subseteq Blends /\ served' \subseteq Blends /\ gaveUp' \subseteq Blends
        /\ pc' \in {"idle", "apply", "sheet", "link", "report", "stub"}
        /\ IF pc' = "apply" THEN order' \in Orders /\ ref' \in Refs ELSE order' = None
        /\ board' \in SUBSET Slots
        /\ triggers' \in [Refs -> 0 .. count'] /\ count' \in 0 .. MaxEvents
    BY DEF GiveUp, IInv, TypeOK, Slots
  <2>4. IF pc' = "idle" THEN event' = NoEvent ELSE event' \in Events
    BY <1>5 DEF GiveUp
  <2> QED
    BY <1>4, <2>1, <2>2, <2>3, <2>4 DEF TypeOK, Slots
<1>7. AllCaused'
  <2>1. ASSUME NEW k \in DOMAIN queue PROVE Caused(queue[k])'
    <3>1. Caused(queue[k])
      BY DEF IInv, AllCaused
    <3>2. /\ queue'[k].kind = queue[k].kind /\ queue'[k].subject = queue[k].subject
          /\ queue'[k].awaited => queue[k].awaited
      BY <1>2, <1>4
    <3> QED
      BY <3>1, <3>2 DEF Caused, GiveUp
  <2>2. ASSUME pc # "idle" PROVE Caused(event)'
    <3>1. Caused(event)
      BY <2>2 DEF IInv, AllCaused
    <3> QED
      BY <1>5, <2>2, <3>1 DEF Caused, GiveUp
  <2> QED
    BY <1>4, <2>1, <2>2 DEF AllCaused, GiveUp
<1>8. InHand'
  BY <1>5 DEF IInv, InHand, GiveUp, Asks, OrderOf
<1>9. Paid'
  <2>1. ASSUME NEW r PROVE Asking(queue, r)' = Asking(queue, r) /\ (Asks(event, r)' <=> Asks(event, r))
    BY <1>2, <1>4, <1>5 DEF Asking, Asks
  <2> QED
    BY <2>1 DEF IInv, Paid, ChainsOf, GiveUp
<1>10. Linked' /\ Numbered' /\ PressOnlyReleased' /\ HistoryType'
  BY DEF GiveUp, IInv, Linked, Numbered, ChainsOf, PressOnlyReleased, HistoryType
<1>11. Placed'
  BY DEF GiveUp, IInv, Placed, PlacedFor, ChainsOf, StagesOf, SlotsOf, OrderOf
<1> QED
  BY <1>6, <1>7, <1>8, <1>9, <1>10, <1>11 DEF IInv

\* What people and forms do on the boards.
LEMMA CreateItemKeeps ==
  ASSUME IInv, NEW i \in Items, NEW c \in Cells, CreateItem(i, c)
  PROVE  IInv'
<1> USE DEF callers, work, log
<1>1. /\ cell' \in [Items -> Cells \cup {None}]
      /\ \A j \in Items : cell[j] \in Cells => cell'[j] = cell[j]
  BY InputsAssumption DEF CreateItem, IInv, TypeOK
<1>2. TypeOK'
  BY <1>1 DEF CreateItem, IInv, TypeOK, Awaits
<1>3. AllCaused'
  <2>1. ASSUME NEW e, Caused(e) PROVE Caused(e)'
    BY <1>1, <2>1 DEF Caused, CreateItem
  <2>2. ASSUME NEW k \in DOMAIN queue PROVE Caused(queue[k])'
    <3>1. PICK e : e = queue[k]
      OBVIOUS
    <3>2. Caused(e)
      BY <3>1 DEF IInv, AllCaused
    <3>3. Caused(e)'
      BY <2>1, <3>2
    <3> QED
      BY <3>1, <3>3 DEF CreateItem, Caused
  <2>3. ASSUME pc # "idle" PROVE Caused(event)'
    <3>1. PICK e : e = event
      OBVIOUS
    <3>2. Caused(e)'
      BY <2>1, <2>3, <3>1 DEF IInv, AllCaused
    <3> QED
      BY <3>1, <3>2 DEF CreateItem, Caused
  <2> QED
    BY <2>2, <2>3 DEF AllCaused, CreateItem
<1>4. Linked'
  <2>1. \A b \in released : Source[b] # None => Source[b] \in Items
    BY IngestAssumption DEF IInv, TypeOK
  <2> QED
    BY <1>1, <2>1 DEF IInv, Linked, CreateItem
<1>5. InHand'
  <2>1. ASSUME pc = "apply", edits = 0, event.kind # "order"
        PROVE  order = OrderOf(ref)'
    <3>1. ref \in Items /\ cell[ref] \in Cells
      BY <2>1, SheetInHand
    <3>2. cell'[ref] = cell[ref] /\ ref' = ref
      BY <1>1, <3>1 DEF CreateItem
    <3>3. order = OrderOf(ref)
      BY <2>1 DEF IInv, InHand
    <3> QED
      BY <3>2, <3>3 DEF OrderOf
  <2> QED
    BY <2>1 DEF IInv, InHand, CreateItem, Asks
<1>6. Numbered' /\ Paid' /\ PressOnlyReleased' /\ HistoryType'
  BY DEF CreateItem, IInv, Numbered, Paid, ChainsOf, Asking, Asks, PressOnlyReleased, HistoryType
<1>7. Placed'
  <2>1. ASSUME edits = 0, NEW h \in handled
        PROVE  PlacedFor(h)'
    <3> DEFINE j == AsksFor(h[1], h[2])
    <3> SUFFICES ASSUME h[3] = "done", j \in Items
                 PROVE  PlacedFor(h)'
      BY DEF PlacedFor
    <3>1. PlacedFor(h)
      BY <2>1 DEF IInv, Placed
    <3>2. cell[j] \in Cells /\ cell'[j] = cell[j]
      BY <1>1, <3>1 DEF PlacedFor
    <3>3. OrderOf(j)' = OrderOf(j)
      BY <3>2 DEF OrderOf
    <3>4. \A d : ChainsOf(j)' = ChainsOf(j) /\ StagesOf(j, d)' = StagesOf(j, d)
      BY DEF CreateItem, ChainsOf, StagesOf, SlotsOf
    <3> HIDE DEF j
    <3> QED
      BY <3>1, <3>2, <3>3, <3>4 DEF PlacedFor, j
  <2> QED
    BY <2>1 DEF Placed, CreateItem
<1> QED
  BY <1>2, <1>3, <1>4, <1>5, <1>6, <1>7 DEF IInv

LEMMA EditSheetKeeps ==
  ASSUME IInv, NEW i \in Items, NEW c \in Edited, EditSheet(i, c)
  PROVE  IInv'
<1> USE DEF callers, work, log
<1>1. /\ cell' \in [Items -> Cells \cup {None}]
      /\ \A j \in Items : cell[j] \in Cells => cell'[j] \in Cells
  BY InputsAssumption DEF EditSheet, IInv, TypeOK
<1>2. edits' \in Nat /\ edits' # 0
  BY DEF EditSheet, IInv, HistoryType
<1>3. TypeOK'
  BY <1>1 DEF EditSheet, IInv, TypeOK, Awaits
<1>4. AllCaused'
  BY <1>1 DEF EditSheet, IInv, AllCaused, Caused
<1>5. Linked'
  <2>1. \A b \in released : Source[b] # None => Source[b] \in Items
    BY IngestAssumption DEF IInv, TypeOK
  <2> QED
    BY <1>1, <2>1 DEF IInv, Linked, EditSheet
<1>6. InHand'
  BY <1>2 DEF IInv, InHand, EditSheet, Asks
<1>7. Numbered' /\ Paid' /\ PressOnlyReleased' /\ HistoryType' /\ Placed'
  BY <1>2 DEF EditSheet, IInv, Numbered, Paid, ChainsOf, Asking, Asks, PressOnlyReleased,
              HistoryType, Placed
<1> QED
  BY <1>3, <1>4, <1>5, <1>6, <1>7 DEF IInv

LEMMA SetBlendingKeeps ==
  ASSUME IInv, NEW b \in Blends, SetBlending(b)
  PROVE  IInv'
<1> USE DEF callers, work, log
<1>1. released' = released \cup {b}
  BY DEF SetBlending
<1>2. TypeOK'
  BY DEF SetBlending, IInv, TypeOK, Awaits
<1>3. AllCaused'
  BY <1>1 DEF SetBlending, IInv, AllCaused, Caused
<1>4. Linked'
  <2>1. Source[b] # None => cell[Source[b]] \in Cells
    BY IngestAssumption DEF SetBlending, IInv, TypeOK
  <2> QED
    BY <2>1 DEF SetBlending, IInv, Linked
<1>5. InHand'
  BY DEF SetBlending, IInv, InHand, Asks, OrderOf
<1>6. Numbered' /\ Paid' /\ PressOnlyReleased' /\ HistoryType'
  BY DEF SetBlending, IInv, Numbered, Paid, ChainsOf, Asking, Asks, PressOnlyReleased, HistoryType
<1>7. Placed'
  BY DEF SetBlending, IInv, Placed, PlacedFor, ChainsOf, StagesOf, SlotsOf, OrderOf
<1> QED
  BY <1>2, <1>3, <1>4, <1>5, <1>6, <1>7 DEF IInv

\* An event that asks for no order has nothing to place.
LEMMA NothingToPlace ==
  ASSUME NEW h, AsksFor(h[1], h[2]) \notin Items
  PROVE  PlacedFor(h)'
BY DEF PlacedFor

LEMMA StubKeeps ==
  ASSUME IInv, Stub
  PROVE  IInv'
<1> PICK h : h = <<event.kind, event.subject, "done">>
  OBVIOUS
<1>1. AsksFor(h[1], h[2]) \notin Items
  BY IngestAssumption DEF Stub, IInv, InHand, AsksFor
<1>2. Grown
  BY BoardStays DEF Stub, monday
<1> QED
  BY <1>1, <1>2, NothingToPlace, ReturnKeeps DEF Stub

LEMMA ReadLinkKeeps ==
  ASSUME IInv, ReadLink
  PROVE  IInv'
<1>1. /\ pc = "link" /\ event.kind = "blending" /\ event \in Events
      /\ Caused(event) /\ UNCHANGED <<monday, log, queue, board>>
  BY DEF ReadLink, IInv, TypeOK, InHand, AllCaused
<1>2. event.subject \in Blends /\ event.subject \in released
  BY <1>1 DEF Caused
<1>3. Grown
  BY <1>1, BoardStays DEF monday
<1>4. CASE NotFound
  BY <1>1, <1>3, <1>4, NotFoundKeeps
<1>5. CASE Source[event.subject] = None /\ Return
  <2> PICK h : h = <<event.kind, event.subject, "done">>
    OBVIOUS
  <2>1. AsksFor(h[1], h[2]) \notin Items
    BY <1>1, <1>5, IngestAssumption DEF AsksFor
  <2> QED
    BY <1>1, <1>3, <1>5, <2>1, NothingToPlace, ReturnKeeps
<1>6. CASE /\ Source[event.subject] # None
           /\ pc' = "sheet" /\ ref' = Source[event.subject]
           /\ UNCHANGED <<event, order, callers, handled>>
  <2> USE DEF monday, log, callers
  <2>1. /\ pc' = "sheet" /\ ref' = Source[event.subject]
        /\ UNCHANGED <<event, order, callers, handled>>
    BY <1>6
  <2>2. ref' \in Items /\ Asks(event, ref')
    BY <1>1, <1>2, <1>6, IngestAssumption DEF Asks, AsksFor
  <2>3. TypeOK'
    BY <1>1, <2>1 DEF IInv, TypeOK, Awaits
  <2>4. AllCaused' /\ Linked'
    BY <1>1, <2>1 DEF IInv, AllCaused, Caused, Linked
  <2>5. InHand'
    BY <1>1, <2>1, <2>2 DEF InHand, Asks, Refs
  <2>6. Numbered' /\ PressOnlyReleased' /\ HistoryType'
    BY <1>1, <2>1 DEF IInv, Numbered, ChainsOf, PressOnlyReleased, HistoryType
  <2>7. Paid'
    BY <1>1, <2>1 DEF IInv, Paid, ChainsOf, Asking, Asks
  <2>8. Placed'
    BY <1>1, <2>1 DEF IInv, Placed, PlacedFor, ChainsOf, StagesOf, SlotsOf, OrderOf
  <2> QED
    BY <2>3, <2>4, <2>5, <2>6, <2>7, <2>8 DEF IInv
<1> QED
  BY <1>4, <1>5, <1>6 DEF ReadLink

LEMMA ReadSheetKeeps ==
  ASSUME IInv, ReadSheet
  PROVE  IInv'
<1> PICK r : r = ref
  OBVIOUS
<1> PICK sheet : sheet = PayloadText(cell[r])
  OBVIOUS
<1> PICK h : h = <<event.kind, event.subject, "done">>
  OBVIOUS
<1>1. /\ pc = "sheet" /\ event \in Events /\ event.kind \in {"ready", "blending"}
      /\ UNCHANGED <<monday, log, queue, board>>
  BY DEF ReadSheet, IInv, TypeOK, InHand
<1>2. r \in Items /\ cell[r] \in Cells /\ AsksFor(h[1], h[2]) = r
  BY <1>1, SheetInHand
<1>3. sheet \in Sheets
  BY <1>2, InputsAssumption DEF PayloadText
<1>4. Grown
  BY <1>1, BoardStays DEF monday
<1>5. CASE ~Accepted(sheet) /\ (Raise \/ Return)
  <2>1. PlacedFor(h)'
    BY <1>1, <1>2, <1>5 DEF PlacedFor, monday
  <2>2. Raise \/ Return
    BY <1>5
  <2>3. queue' \in {queue, <<>>} /\ UNCHANGED <<monday, log>> /\ pc # "idle"
    BY <1>1
  <2> QED
    BY <1>1, <1>4, <2>1, <2>2, <2>3, RaiseKeeps, ReturnKeeps
<1>6. CASE Accepted(sheet) /\ Deferred(BuildScheduleOrder(sheet)) /\ Return
  <2>1. PlacedFor(h)'
    BY <1>1, <1>2, <1>6 DEF PlacedFor, monday, Deferred, OrderOf
  <2>2. Return
    BY <1>6
  <2> QED
    BY <1>1, <1>4, <2>1, <2>2, ReturnKeeps
<1>7. CASE /\ Accepted(sheet) /\ ~Deferred(BuildScheduleOrder(sheet))
           /\ pc' = "apply" /\ order' = BuildScheduleOrder(sheet)
           /\ UNCHANGED <<event, ref, callers, handled>>
  <2> USE DEF monday, log, callers
  <2>1. /\ pc' = "apply" /\ order' = BuildScheduleOrder(sheet)
        /\ UNCHANGED <<event, ref, callers, handled>>
    BY <1>7
  <2>2. order' \in Orders /\ ref' \in Refs
    BY <1>2, <1>3, <1>7, <2>1, OrderType DEF Refs
  <2>3. TypeOK'
    BY <1>1, <2>1, <2>2 DEF IInv, TypeOK, Awaits
  <2>4. AllCaused' /\ Linked'
    BY <1>1, <2>1 DEF IInv, AllCaused, Caused, Linked
  <2>5. InHand'
    <3>1. order' = OrderOf(ref)'
      BY <1>1, <2>1 DEF OrderOf
    <3>2. event'.kind = "ready" => ~order'.press
      BY <1>7, <2>1 DEF Deferred
    <3>3. Asks(event, ref)'
      BY <1>1, <2>1 DEF IInv, InHand, Asks
    <3> QED
      BY <1>1, <2>1, <2>2, <3>1, <3>2, <3>3 DEF InHand
  <2>6. Numbered' /\ PressOnlyReleased' /\ HistoryType'
    BY <1>1, <2>1 DEF IInv, Numbered, ChainsOf, PressOnlyReleased, HistoryType
  <2>7. Paid'
    BY <1>1, <2>1 DEF IInv, Paid, ChainsOf, Asking, Asks
  <2>8. Placed'
    BY <1>1, <2>1 DEF IInv, Placed, PlacedFor, ChainsOf, StagesOf, SlotsOf, OrderOf
  <2> QED
    BY <2>3, <2>4, <2>5, <2>6, <2>7, <2>8 DEF IInv
<1>8. CASE NotFound
  BY <1>1, <1>4, <1>8, NotFoundKeeps
<1> QED
  BY <1>5, <1>6, <1>7, <1>8 DEF ReadSheet

LEMMA ApplyKeeps ==
  ASSUME IInv, Apply
  PROVE  IInv'
<1> PICK r : r = ref
  OBVIOUS
<1> PICK part : part = Chain(order)
  OBVIOUS
<1> PICK h : h = <<event.kind, event.subject, "done">>
  OBVIOUS
<1>1. /\ pc = "apply" /\ r \in Refs /\ board' = board \cup NewChain(part)
      /\ Return /\ UNCHANGED <<monday, log, queue>>
  BY DEF Apply, IInv, InHand
<1>2. Grown /\ (part # {} => \E c \in ChainsOf(r)' : StagesOf(r, c)' = part)
  <2>1. UNCHANGED released /\ part \in SUBSET Chain(order)
    BY <1>1 DEF monday
  <2> QED
    BY <1>1, <2>1, NewChainFacts
<1>3. ASSUME edits = 0 PROVE PlacedFor(h)'
  <2>1. CASE event.kind = "order"
    <3>1. event.subject \in Blends
      BY <1>1, <2>1 DEF IInv, AllCaused, Caused
    <3>2. AsksFor(h[1], h[2]) \notin Items
      BY <2>1, <3>1, IngestAssumption DEF AsksFor
    <3> QED
      BY <3>2, NothingToPlace
  <2>2. CASE event.kind # "order"
    <3>1. r \in Items /\ cell[r] \in Cells /\ AsksFor(h[1], h[2]) = r
      BY <1>1, <2>2, SheetInHand
    <3>2. part = Chain(OrderOf(r))
      BY <1>1, <1>3, <2>2 DEF IInv, InHand
    <3>3. cell' = cell /\ OrderOf(r)' = OrderOf(r)
      BY <1>1 DEF monday, OrderOf
    <3> QED
      BY <1>2, <3>1, <3>2, <3>3 DEF PlacedFor
  <2> QED
    BY <2>1, <2>2
<1> QED
  BY <1>1, <1>2, <1>3, ReturnKeeps

LEMMA ApplyFailsKeeps ==
  ASSUME IInv, pc = "apply", NEW part \in SUBSET Chain(order),
         board' = board \cup NewChain(part),
         Raise, UNCHANGED <<monday, log>>, queue' \in {queue, <<>>}
  PROVE  IInv'
<1> PICK r : r = ref
  OBVIOUS
<1>1. r \in Refs /\ UNCHANGED released
  BY DEF IInv, InHand, monday
<1>2. Grown
  BY <1>1, NewChainFacts
<1> QED
  BY <1>2, RaiseKeeps

LEMMA ReportKeeps ==
  ASSUME IInv, Report
  PROVE  IInv'
<1> PICK h : h = <<event.kind, event.subject, "done">>
  OBVIOUS
<1>1. AsksFor(h[1], h[2]) \notin Items
  BY IngestAssumption DEF Report, IInv, InHand, AsksFor
<1>2. board \subseteq Slots
  BY DEF IInv, TypeOK, Slots
<1>3. ASSUME NEW s \in board
      PROVE  /\ Stamped(s) \in Slots /\ Stamped(s).ref = s.ref
             /\ Stamped(s).stage = s.stage /\ Stamped(s).chain = s.chain
  BY <1>2 DEF Stamped, Slots
<1>4. board' = {IF Reported(s) THEN Stamped(s) ELSE s : s \in board}
  BY DEF Report
<1>5. board' \in SUBSET Slots
  BY <1>2, <1>3, <1>4
<1>6. ASSUME NEW s \in board
      PROVE  \E t \in board' : t.ref = s.ref /\ t.stage = s.stage /\ t.chain = s.chain
  <2>1. (IF Reported(s) THEN Stamped(s) ELSE s) \in board'
    BY <1>4
  <2> QED
    BY <1>3, <2>1
<1>7. ASSUME NEW s \in board'
      PROVE  \E t \in board : t.ref = s.ref /\ t.stage = s.stage /\ t.chain = s.chain
  <2>1. PICK t \in board : s = IF Reported(t) THEN Stamped(t) ELSE t
    BY <1>4, <1>7
  <2>2. t.ref = s.ref /\ t.stage = s.stage /\ t.chain = s.chain
    BY <1>3, <2>1
  <2> QED
    BY <2>2
<1>8. Grown
  <2>1. UNCHANGED released
    BY DEF Report, monday
  <2> QED
    BY <1>5, <1>6, <1>7, <2>1, SameChains
<1>9. pc # "idle" /\ Return /\ UNCHANGED <<monday, log, queue>>
  BY DEF Report
<1> QED
  BY <1>1, <1>8, <1>9, NothingToPlace, ReturnKeeps

LEMMA ReadFailsKeeps ==
  ASSUME IInv, ReadFails
  PROVE  IInv'
<1>1. Grown
  BY BoardStays DEF ReadFails, monday
<1> QED
  BY <1>1, RaiseKeeps DEF ReadFails

LEMMA RestartKeeps ==
  ASSUME IInv, Restart
  PROVE  IInv'
<1>1. Raise /\ UNCHANGED <<monday, log>> /\ queue' \in {queue, <<>>}
  BY DEF Restart
<1>2. CASE pc = "apply"
  <2>1. PICK part \in SUBSET Chain(order) : board' = board \cup NewChain(part)
    BY <1>2 DEF Restart
  <2> QED
    BY <1>1, <1>2, <2>1, ApplyFailsKeeps
<1>3. CASE pc # "apply"
  <2>1. Grown
    BY <1>3, BoardStays DEF Restart, monday
  <2> QED
    BY <1>1, <2>1, RaiseKeeps
<1> QED
  BY <1>2, <1>3

LEMMA InitInv == Init => IInv
<1> SUFFICES ASSUME Init PROVE IInv
  OBVIOUS
<1> USE DEF Init
<1>1. TypeOK
  <2>1. queue \in Seq(Events) /\ DOMAIN queue = {}
    BY EmptySeq
  <2>2. /\ cell \in [Items -> Cells \cup {None}]
        /\ triggers \in [Refs -> 0 .. count] /\ count \in 0 .. MaxEvents
    BY IngestAssumption
  <2> QED
    BY <2>1, <2>2 DEF TypeOK
<1>2. AllCaused
  <2>1. DOMAIN queue = {}
    BY EmptySeq
  <2> QED
    BY <2>1 DEF AllCaused
<1>3. \A r : ChainsOf(r) = {} /\ Asking(queue, r) = {}
  BY EmptySeq DEF ChainsOf, Asking
<1>4. Cardinality({}) = 0 /\ 1 .. 0 = {}
  BY FS_EmptySet
<1>5. Numbered /\ Paid
  <2>1. Numbered
    BY <1>3, <1>4 DEF Numbered
  <2>2. ASSUME NEW r \in Refs
        PROVE  Cardinality(ChainsOf(r)) + Cardinality(Asking(queue, r))
                 + (IF pc # "idle" /\ Asks(event, r) THEN 1 ELSE 0) <= triggers[r]
    <3>1. Cardinality(ChainsOf(r)) = 0 /\ Cardinality(Asking(queue, r)) = 0
      BY <1>3, <1>4
    <3>2. pc = "idle" /\ triggers[r] = 0
      OBVIOUS
    <3> QED
      BY <3>1, <3>2
  <2>3. Paid
    BY <2>2 DEF Paid
  <2> QED
    BY <2>1, <2>3
<1>6. Linked /\ InHand /\ PressOnlyReleased /\ Placed /\ HistoryType
  BY DEF Linked, InHand, PressOnlyReleased, Placed, HistoryType
<1> QED
  BY <1>1, <1>2, <1>5, <1>6 DEF IInv

LEMMA StepInv == IInv /\ [Next]_vars => IInv'
<1> SUFFICES ASSUME IInv, [Next]_vars PROVE IInv'
  OBVIOUS
<1>1. CASE \E i \in Items, c \in Cells : CreateItem(i, c)
  BY <1>1, CreateItemKeeps
<1>2. CASE \E i \in Items, c \in Edited : EditSheet(i, c)
  BY <1>2, EditSheetKeeps
<1>3. CASE \E h \in Hooks : Deliver(h)
  BY <1>3, DeliverKeeps
<1>4. CASE \E b \in Blends : SetBlending(b) \/ Commit(b) \/ GiveUp(b)
  BY <1>4, SetBlendingKeeps, CommitKeeps, GiveUpKeeps
<1>5. CASE Take
  BY <1>5, TakeKeeps
<1>6. CASE Stub
  BY <1>6, StubKeeps
<1>7. CASE ReadLink
  BY <1>7, ReadLinkKeeps
<1>8. CASE ReadSheet
  BY <1>8, ReadSheetKeeps
<1>9. CASE Apply
  BY <1>9, ApplyKeeps
<1>10. CASE ApplyFails
  <2>1. PICK part \in SUBSET Chain(order) : board' = board \cup NewChain(part)
    BY <1>10 DEF ApplyFails
  <2>2. pc = "apply" /\ Raise /\ UNCHANGED <<monday, log>> /\ queue' \in {queue, <<>>}
    BY <1>10 DEF ApplyFails
  <2> QED
    BY <2>1, <2>2, ApplyFailsKeeps
<1>11. CASE Report
  BY <1>11, ReportKeeps
<1>12. CASE ReadFails
  BY <1>12, ReadFailsKeeps
<1>13. CASE Restart
  BY <1>13, RestartKeeps
<1>14. CASE UNCHANGED vars
  <2> USE <1>14 DEF vars, monday, callers, work, log
  <2>1. TypeOK' /\ AllCaused' /\ Linked' /\ InHand'
    BY DEF IInv, TypeOK, AllCaused, Caused, Linked, InHand, Awaits, Asks, OrderOf
  <2>2. Numbered' /\ Paid' /\ PressOnlyReleased' /\ HistoryType'
    BY DEF IInv, Numbered, Paid, ChainsOf, Asking, Asks, PressOnlyReleased, HistoryType
  <2>3. Placed'
    BY DEF IInv, Placed, PlacedFor, ChainsOf, StagesOf, SlotsOf, OrderOf
  <2> QED
    BY <2>1, <2>2, <2>3 DEF IInv
<1> QED
  BY <1>1, <1>2, <1>3, <1>4, <1>5, <1>6, <1>7, <1>8, <1>9, <1>10, <1>11, <1>12,
     <1>13, <1>14 DEF Next

\* What the invariant says, in the words of the properties.
LEMMA PaidOnce == IInv => OncePerTrigger
<1> SUFFICES ASSUME IInv, NEW r \in Refs
             PROVE  Cardinality(ChainsOf(r)) <= triggers[r]
  BY DEF OncePerTrigger
<1>1. Cardinality(ChainsOf(r)) + Cardinality(Asking(queue, r))
        + (IF pc # "idle" /\ Asks(event, r) THEN 1 ELSE 0) <= triggers[r]
  BY DEF IInv, Paid
<1>2. /\ Cardinality(ChainsOf(r)) \in Nat /\ Cardinality(Asking(queue, r)) \in Nat
      /\ triggers[r] \in Nat
  BY Counts DEF IInv
<1> QED
  BY <1>1, <1>2

LEMMA HasFirst ==
  ASSUME NEW S, NEW s \in Seq(S), s # <<>>
  PROVE  1 \in DOMAIN s
<1>1. Len(s) \in Nat \ {0} /\ DOMAIN s = 1 .. Len(s)
  BY EmptySeq, LenProperties
<1> QED
  BY <1>1

LEMMA PlacedIsHandled == IInv => HandledIsPlaced
<1> SUFFICES ASSUME IInv, edits = 0, NEW i \in Items
             PROVE  LET kinds == {e[1] : e \in {f \in handled : AsksFor(f[1], f[2]) = i /\ f[3] = "done"}}
                        sheet == PayloadText(cell[i])
                    IN /\ kinds # {} /\ Schedulable(sheet)
                       /\ "blending" \notin kinds => sheet.route = "Kitting Only"
                       /\ sheet.route = "Kitting Only" => sheet.flavors[sheet.index] # <<>>
                       => \E c \in ChainsOf(i) : CallsFor(sheet, {s.stage : s \in SlotsOf(i, c)})
  BY DEF HandledIsPlaced
<1> DEFINE kinds == {e[1] : e \in {f \in handled : AsksFor(f[1], f[2]) = i /\ f[3] = "done"}}
           sheet == PayloadText(cell[i])
<1> SUFFICES ASSUME kinds # {}, Schedulable(sheet),
                    "blending" \notin kinds => sheet.route = "Kitting Only",
                    sheet.route = "Kitting Only" => sheet.flavors[sheet.index] # <<>>
             PROVE  \E c \in ChainsOf(i) : CallsFor(sheet, {s.stage : s \in SlotsOf(i, c)})
  OBVIOUS
<1>1. PICK h \in handled : /\ h[3] = "done" /\ AsksFor(h[1], h[2]) = i
                           /\ h[1] = "blending" \/ sheet.route = "Kitting Only"
  <2>1. CASE "blending" \in kinds
    <3>1. PICK h \in handled : h[3] = "done" /\ AsksFor(h[1], h[2]) = i /\ h[1] = "blending"
      BY <2>1
    <3> QED
      BY <3>1
  <2>2. CASE "blending" \notin kinds
    <3>1. PICK h \in handled : h[3] = "done" /\ AsksFor(h[1], h[2]) = i
      OBVIOUS
    <3>2. sheet.route = "Kitting Only"
      BY <2>2
    <3> QED
      BY <3>1, <3>2
  <2> QED
    BY <2>1, <2>2
<1>2. PlacedFor(h)
  BY DEF IInv, Placed
<1>3. cell[i] \in Cells /\ sheet \in Sheets /\ Accepted(sheet)
  <2>1. cell[i] \in Cells
    BY <1>1, <1>2 DEF PlacedFor
  <2>2. sheet \in Sheets
    BY <2>1, InputsAssumption DEF PayloadText
  <2> QED
    BY <2>1, <2>2 DEF Schedulable
<1> HIDE DEF sheet, kinds
<1>4. /\ BuildScheduleOrder(sheet) \in Orders
      /\ BuildScheduleOrder(sheet).press <=> sheet.route # "Kitting Only"
      /\ BuildScheduleOrder(sheet) = OrderOf(i)
  BY <1>3, OrderType, SheetFacts DEF BuildScheduleOrder, OrderOf, sheet
<1>5. CallsFor(sheet, Chain(OrderOf(i)))
  BY <1>3, <1>4, ChainIsCalledFor
<1>6. ~(h[1] = "ready" /\ OrderOf(i).press)
  BY <1>1, <1>4
<1>7. Chain(OrderOf(i)) # {}
  <2>1. CASE sheet.route = "Kitting Only"
    <3> PICK flavor : flavor = sheet.flavors[sheet.index]
      OBVIOUS
    <3>1. flavor \in Seq(STRING) /\ flavor # <<>>
      BY <1>3, <2>1, SheetFacts
    <3>2. 1 \in DOMAIN sheet.flavors[sheet.index]
      BY <3>1, HasFirst, Zenon
    <3> QED
      BY <1>5, <3>2 DEF CallsFor
  <2>2. CASE sheet.route # "Kitting Only"
    BY <1>5, <2>2 DEF CallsFor
  <2> QED
    BY <2>1, <2>2
<1>8. PICK c \in ChainsOf(i) : StagesOf(i, c) = Chain(OrderOf(i))
  BY <1>1, <1>2, <1>3, <1>6, <1>7 DEF PlacedFor, sheet
<1> QED
  BY <1>5, <1>8 DEF StagesOf
-----------------------------------------------------------------------------
(***************************************************************************)
(* Theorems.                                                               *)
(***************************************************************************)
\* The invariant the properties follow from: what a queued event was caused by,
\* what the worker holds at each of its steps, and that what is still to be
\* processed can pay for one chain each.
THEOREM Invariance == Spec => []IInv
<1>1. Init => IInv
  BY InitInv
<1>2. IInv /\ [Next]_vars => IInv'
  BY StepInv
<1> QED
  BY <1>1, <1>2, PTL DEF Spec

\* Type correctness, whatever forms, notifications, planners and failures do:
\* an order is in hand exactly while it is applied, and a caller waits for one
\* order at most.
THEOREM TypeCorrect == Spec => []TypeOK
<1>1. IInv => TypeOK
  BY DEF IInv
<1> QED
  BY <1>1, Invariance, PTL

\* ADR-0004: nothing of an item is on a press before one of its Blend Records
\* was set to Blending, for any boards and any order of the events.
THEOREM PressOnlyReleasedAlways == Spec => []PressOnlyReleased
<1>1. IInv => PressOnlyReleased
  BY DEF IInv
<1> QED
  BY <1>1, Invariance, PTL

\* process_event never places more chains of an order than events asked for it,
\* whatever fails between the read and the last write, and across restarts.
THEOREM OncePerTriggerAlways == Spec => []OncePerTrigger
<1>1. IInv => OncePerTrigger
  BY PaidOnce
<1> QED
  BY <1>1, Invariance, PTL

\* An event that process_event handled without an error placed the chain that
\* the item's sheet calls for, unless the item is not to be scheduled yet, or
\* Monday did not show it or its Blend Record to the worker.
THEOREM HandledIsPlacedAlways == Spec => []HandledIsPlaced
<1>1. IInv => HandledIsPlaced
  BY PlacedIsHandled
<1> QED
  BY <1>1, Invariance, PTL
=============================================================================
