---------------------------- MODULE SweepProofs ----------------------------
(***************************************************************************)
(* The sweep's bounds hold for any slots, period, threshold, suppression   *)
(* and length of the queue.                                                *)
(***************************************************************************)
EXTENDS Sweep, TLAPS

Events == [slot : Slots, kind : Kinds]

\* The settings are numbers, so the caps of both clocks are.
LEMMA Bounds ==
  /\ Period \in Nat /\ Threshold \in Nat /\ Suppression \in Nat /\ MaxQueue \in Nat
  /\ Period > 0 /\ Early \in Nat /\ MaxStops \in Nat /\ Cap \in Nat
BY SweepAssumption DEF Cap

LEMMA InitType == Init => TypeOK
BY Bounds DEF Init, TypeOK, Statuses, Never

\* Time: the clocks stop at their caps.
LEMMA TickKeeps ==
  ASSUME TypeOK, Tick
  PROVE  TypeOK'
<1>1. due' \in 0 .. Period
  BY Bounds DEF Tick, TypeOK
<1>2. \A s \in Slots : Least(behind[s] + 1, Cap) \in -Early .. Cap
  BY Bounds DEF TypeOK, Least
<1>3. behind' \in [Slots -> -Early .. Cap]
  BY <1>2 DEF Tick
<1>4. ASSUME NEW s \in Slots
      PROVE  (IF stamp[s] = Never THEN Never ELSE Least(stamp[s] + 1, Suppression))
               \in {Never} \cup 0 .. Suppression
  BY Bounds DEF TypeOK, Least, Never
<1>5. stamp' \in [Slots -> {Never} \cup 0 .. Suppression]
  BY <1>4 DEF Tick
<1> QED
  BY <1>1, <1>3, <1>5 DEF Tick, TypeOK

\* A pass queues what drifts, as far as the queue has room.
LEMMA PassKeeps ==
  ASSUME TypeOK, Pass
  PROVE  TypeOK'
<1>1. PICK batch \in UNION {[1 .. n -> Candidates] : n \in 0 .. MaxQueue} :
        Len(queue) + Len(batch) <= MaxQueue /\ queue' = queue \o batch
  BY DEF Pass
<1>a. PICK n \in 0 .. MaxQueue : batch \in [1 .. n -> Candidates]
  BY <1>1, Zenon
<1>2. Candidates \subseteq Events
  BY DEF Candidates, Events
<1>3. batch \in Seq(Events) /\ queue \in Seq(Events)
  <2>1. n \in Nat
    BY Bounds
  <2>2. batch \in Seq(Candidates)
    BY <1>a, <2>1
  <2>3. queue \in Seq(Events)
    BY DEF TypeOK, Events
  <2> QED
    BY <1>2, <2>2, <2>3
<1>4. queue' \in Seq(Events) /\ Len(queue') <= MaxQueue
  BY <1>1, <1>3
<1>5. due' \in 0 .. Period
  BY Bounds DEF Pass, Rearm
<1> QED
  BY <1>4, <1>5 DEF Pass, TypeOK, slots, Events

\* Taking the head of the queue leaves a shorter queue of events.
LEMMA TailType ==
  ASSUME TypeOK, queue # <<>>
  PROVE  /\ Head(queue) \in Events
         /\ Tail(queue) \in Seq(Events) /\ Len(Tail(queue)) <= MaxQueue
<1>1. queue \in Seq(Events) /\ Len(queue) <= MaxQueue
  BY DEF TypeOK, Events
<1> QED
  BY <1>1, Bounds

LEMMA HandleKeeps ==
  ASSUME TypeOK, NEW s \in Slots, Handle(s)
  PROVE  TypeOK'
<1>1. /\ Head(queue) \in Events
      /\ queue' \in Seq(Events) /\ Len(queue') <= MaxQueue
  BY TailType DEF Handle
<1>2. Head(queue).kind \in Kinds
  BY <1>1 DEF Events
<1>3. /\ stamp' \in [Slots -> {Never} \cup 0 .. Suppression]
      /\ flagged' \in [Slots -> Kinds \cup {"none"}]
  <2>1. 0 \in 0 .. Suppression
    BY Bounds
  <2> QED
    BY <1>2, <2>1 DEF Handle, TypeOK
<1> QED
  BY <1>1, <1>3 DEF Handle, TypeOK, Events

LEMMA ChangeKeeps ==
  ASSUME TypeOK, NEW s \in Slots, Change(s)
  PROVE  TypeOK'
BY DEF Change, TypeOK

\* The steps of the lifespan, and those that fail.
LEMMA OthersKeep ==
  ASSUME TypeOK,
         \/ StartWorker \/ StartSweep \/ StopSweep \/ StopWorker \/ Crash
         \/ PassFails \/ HandleFails \/ UNCHANGED vars
  PROVE  TypeOK'
<1>1. CASE StartWorker
  BY <1>1 DEF StartWorker, TypeOK, slots
<1>2. CASE StartSweep
  BY <1>2, Bounds DEF StartSweep, TypeOK, slots
<1>3. CASE StopSweep
  BY <1>3, Bounds DEF StopSweep, TypeOK, slots
<1>4. CASE StopWorker
  BY <1>4, Bounds DEF StopWorker, TypeOK, slots
<1>5. CASE Crash
  BY <1>5, Bounds DEF Crash, TypeOK, slots
<1>6. CASE PassFails
  BY <1>6, Bounds DEF PassFails, Rearm, TypeOK, slots
<1>7. CASE HandleFails
  <2>1. queue' \in Seq(Events) /\ Len(queue') <= MaxQueue
    BY <1>7, TailType DEF HandleFails
  <2> QED
    BY <1>7, <2>1 DEF HandleFails, TypeOK, slots, Events
<1>8. CASE UNCHANGED vars
  BY <1>8 DEF vars, slots, TypeOK
<1> QED
  BY <1>1, <1>2, <1>3, <1>4, <1>5, <1>6, <1>7, <1>8

\* For any settings the sweep's queue, timer and clocks keep within their
\* bounds, through stops and crashes.
THEOREM TypeCorrect == Spec => []TypeOK
<1>1. TypeOK /\ [Next]_vars => TypeOK'
  BY TickKeeps, PassKeeps, HandleKeeps, ChangeKeeps, OthersKeep DEF Next
<1> QED
  BY <1>1, InitType, PTL DEF Spec
=============================================================================
