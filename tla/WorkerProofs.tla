---------------------------- MODULE WorkerProofs ----------------------------
(***************************************************************************)
(* Theorems about Worker, for any sets of submissions.                     *)
(***************************************************************************)
EXTENDS Worker, SequenceTheorems, TLAPS

InHand(s) == s = active \/ s \in ToSet(queue)

\* A submission is in hand at most once, is not settled by the worker while it
\* is, and comes there only through Submit.
InHandOnce ==
  /\ active # None <=> worker = "busy"
  /\ \A j, k \in DOMAIN queue : queue[j] = queue[k] => j = k
  /\ active \notin ToSet(queue)
Untouched ==
  \A s \in Subs :
    /\ InHand(s) => outcome[s] = "none"
    /\ caller[s] = "idle" => ~InHand(s) /\ future[s] = "none" /\ outcome[s] = "none"

\* What a settled future says; the caller cancels it only by giving up.
FutureTells ==
  \A s \in Subs :
    /\ future[s] = "result"    => outcome[s] = "applied"
    /\ future[s] \in {"empty", "exception"} => outcome[s] \in {"empty", "failed"}
    /\ future[s] = "cancelled" => outcome[s] \in {"cut", "discarded"} \/ caller[s] = "timedout"

IInv == TypeOK /\ InHandOnce /\ Untouched /\ FutureTells /\ AnswerIsTrue
-----------------------------------------------------------------------------
\* Every step keeps the types.
LEMMA TypeStep == ASSUME TypeOK, active # None <=> worker = "busy", [Next]_vars PROVE TypeOK'
<1> USE DEF TypeOK
<1>1. CASE StartWorker
  BY <1>1 DEF StartWorker, history
<1>2. CASE Take
  <2>1. Head(queue) \in Subs /\ Tail(queue) \in Seq(Subs)
    BY <1>2, HeadTailProperties DEF Take
  <2> QED
    BY <1>2, <2>1 DEF Take, history
<1>3. CASE StopWorker
  BY <1>3 DEF StopWorker, history
<1>4. CASE CancelWorker
  <2>1. CASE worker = "busy"
    <3>1. active \in Subs
      BY <2>1
    <3>2. Append(finished, active) \in Seq(Subs)
      BY <3>1, AppendProperties
    <3> QED
      BY <1>4, <2>1, <3>1, <3>2 DEF CancelWorker, Abandon, Resolve
  <2>2. CASE worker # "busy"
    BY <1>4, <2>2 DEF CancelWorker
  <2> QED
    BY <2>1, <2>2
<1>5. CASE Drain
  <2>1. finished \o queue \in Seq(Subs) /\ <<>> \in Seq(Subs)
    BY ConcatProperties, EmptySeq
  <2> QED
    BY <1>5, <2>1 DEF Drain
<1>6. ASSUME NEW how \in Endings, Complete(how) PROVE TypeOK'
  <2>1. active \in Subs
    BY <1>6 DEF Complete
  <2>2. Append(finished, active) \in Seq(Subs)
    BY <2>1, AppendProperties
  <2> QED
    BY <1>6, <2>1, <2>2 DEF Complete, Resolve, Verdict, Endings
<1>7. ASSUME NEW s \in Subs, Submit(s) PROVE TypeOK'
  <2>1. Append(queue, s) \in Seq(Subs) /\ Append(accepted, s) \in Seq(Subs)
    BY AppendProperties
  <2> QED
    BY <1>7, <2>1 DEF Submit, Put
<1>8. ASSUME NEW s \in Subs, Reply(s) PROVE TypeOK'
  BY <1>8 DEF Reply, Answer, history
<1>9. ASSUME NEW s \in Subs, CommitTimeout(s) PROVE TypeOK'
  BY <1>9 DEF CommitTimeout, Resolve, Withdraw, history
<1>10. CASE UNCHANGED vars
  BY <1>10 DEF vars
<1> QED
  BY <1>1, <1>2, <1>3, <1>4, <1>5, <1>6, <1>7, <1>8, <1>9, <1>10 DEF Next

LEMMA InitInv == Init => IInv
<1> SUFFICES ASSUME Init PROVE IInv
  OBVIOUS
<1>1. TypeOK
  BY EmptySeq DEF Init, TypeOK
<1>2. ToSet(queue) = {}
  BY DEF Init, ToSet
<1> QED
  BY <1>1, <1>2, SubsDistinct DEF Init, IInv, InHandOnce, Untouched, FutureTells,
     AnswerIsTrue, InHand, Subs

-----------------------------------------------------------------------------
(***************************************************************************)
(* The queue, as a set: what Take, Put and Drain do to it.                 *)
(***************************************************************************)
LEMMA TakenOnce ==
  ASSUME TypeOK, queue # <<>>, \A j, k \in DOMAIN queue : queue[j] = queue[k] => j = k
  PROVE  /\ Head(queue) \in ToSet(queue)
         /\ ToSet(Tail(queue)) = ToSet(queue) \ {Head(queue)}
         /\ \A j, k \in DOMAIN Tail(queue) : Tail(queue)[j] = Tail(queue)[k] => j = k
<1> DEFINE q == queue
           t == Tail(queue)
<1>1. /\ q \in Seq(Subs) /\ Len(q) \in Nat \ {0} /\ DOMAIN q = 1 .. Len(q)
  BY EmptySeq, LenProperties DEF TypeOK
<1>2. /\ t \in Seq(Subs) /\ Len(t) = Len(q) - 1 /\ Head(q) = q[1]
      /\ \A i \in 1 .. Len(t) : t[i] = q[i + 1]
  BY <1>1, HeadTailProperties
<1>3. DOMAIN t = 1 .. Len(t)
  BY <1>2, LenProperties
<1> HIDE DEF q, t
<1>4. \A j, k \in DOMAIN t : t[j] = t[k] => j = k
  <2> SUFFICES ASSUME NEW j \in DOMAIN t, NEW k \in DOMAIN t, t[j] = t[k] PROVE j = k
    OBVIOUS
  <2>1. j + 1 \in DOMAIN q /\ k + 1 \in DOMAIN q /\ q[j + 1] = q[k + 1]
    BY <1>1, <1>2, <1>3
  <2>2. j + 1 = k + 1
    BY <2>1 DEF q
  <2> QED
    BY <1>1, <1>2, <1>3, <2>2
<1>5. ToSet(t) = ToSet(q) \ {Head(q)}
  <2>1. ASSUME NEW i \in DOMAIN t PROVE t[i] \in ToSet(q) /\ t[i] # Head(q)
    <3>1. i + 1 \in DOMAIN q /\ 1 \in DOMAIN q /\ i + 1 # 1 /\ t[i] = q[i + 1]
      BY <1>1, <1>2, <1>3
    <3>2. q[i + 1] # q[1]
      BY <3>1 DEF q
    <3> QED
      BY <1>2, <3>1, <3>2 DEF ToSet
  <2>2. ASSUME NEW i \in DOMAIN q, q[i] # Head(q) PROVE q[i] \in ToSet(t)
    <3>1. i # 1 /\ i \in 1 .. Len(q)
      BY <1>1, <1>2, <2>2
    <3>2. i - 1 \in 1 .. Len(t) /\ t[i - 1] = q[(i - 1) + 1] /\ (i - 1) + 1 = i
      BY <1>1, <1>2, <3>1
    <3> QED
      BY <1>3, <3>2 DEF ToSet
  <2> QED
    BY <2>1, <2>2 DEF ToSet
<1>6. Head(q) \in ToSet(q)
  BY <1>1, <1>2 DEF ToSet
<1> QED
  BY <1>4, <1>5, <1>6 DEF q, t

LEMMA PutOnce ==
  ASSUME TypeOK, NEW s \in Subs, s \notin ToSet(queue),
         \A j, k \in DOMAIN queue : queue[j] = queue[k] => j = k
  PROVE  /\ ToSet(Append(queue, s)) = ToSet(queue) \cup {s}
         /\ \A j, k \in DOMAIN Append(queue, s) :
              Append(queue, s)[j] = Append(queue, s)[k] => j = k
<1> DEFINE q == queue
           a == Append(queue, s)
<1>1. q \in Seq(Subs) /\ Len(q) \in Nat /\ DOMAIN q = 1 .. Len(q)
  BY LenProperties DEF TypeOK
<1>2. /\ a \in Seq(Subs) /\ Len(a) = Len(q) + 1 /\ a[Len(q) + 1] = s
      /\ \A i \in 1 .. Len(q) : a[i] = q[i]
  BY <1>1, AppendProperties
<1>3. DOMAIN a = 1 .. Len(q) + 1
  BY <1>2, LenProperties
<1>4. \A i \in DOMAIN q : q[i] # s
  BY DEF ToSet
<1> HIDE DEF a
<1>5. \A i \in DOMAIN a : i \in DOMAIN q \/ i = Len(q) + 1
  BY <1>1, <1>3
<1>6. \A j, k \in DOMAIN a : a[j] = a[k] => j = k
  BY <1>1, <1>2, <1>4, <1>5
<1>7. ToSet(a) = ToSet(q) \cup {s}
  BY <1>1, <1>2, <1>3, <1>5 DEF ToSet
<1> QED
  BY <1>6, <1>7 DEF a

-----------------------------------------------------------------------------
(***************************************************************************)
(* The inductive invariant.                                                *)
(***************************************************************************)
\* Every step preserves the invariant.
LEMMA StepInv == ASSUME IInv, [Next]_vars PROVE IInv'
<1>0. TypeOK'
  BY TypeStep DEF IInv, InHandOnce
<1> SUFFICES InHandOnce' /\ Untouched' /\ FutureTells' /\ AnswerIsTrue'
  BY <1>0 DEF IInv
<1> USE DEF IInv, InHandOnce, Untouched, FutureTells, AnswerIsTrue, InHand
<1>1. ASSUME UNCHANGED <<queue, active, future, caller, outcome>>,
             worker' = "busy" <=> worker = "busy"
      PROVE  InHandOnce' /\ Untouched' /\ FutureTells' /\ AnswerIsTrue'
  BY <1>1
<1>2. CASE StartWorker \/ StopWorker
  BY <1>1, <1>2 DEF StartWorker, StopWorker, history
<1>3. CASE Take
  <2>1. /\ active = None /\ active' = Head(queue) /\ queue' = Tail(queue)
        /\ Head(queue) \in ToSet(queue)
        /\ ToSet(queue') = ToSet(queue) \ {Head(queue)}
        /\ \A j, k \in DOMAIN queue' : queue'[j] = queue'[k] => j = k
    BY <1>3, TakenOnce DEF Take
  <2>2. Head(queue) \in Subs /\ Head(queue) # None
    BY <1>3, HeadTailProperties, SubsDistinct DEF Take, TypeOK
  <2>3. InHandOnce'
    BY <1>3, <2>1, <2>2 DEF Take
  <2>4. \A s \in Subs : InHand(s)' => InHand(s)
    BY <2>1
  <2> QED
    BY <1>3, <2>3, <2>4 DEF Take, history
<1>4. CASE CancelWorker
  <2>1. CASE worker = "busy"
    <3>1. active \in Subs /\ outcome[active] = "none" /\ None \notin Subs
      BY <2>1, SubsDistinct DEF TypeOK
    <3>2. /\ active' = None /\ queue' = queue /\ worker' = "ended" /\ caller' = caller
          /\ future' = Resolve(future, active, "cancelled")
          /\ outcome' = [outcome EXCEPT ![active] = "cut"]
      BY <1>4, <2>1 DEF CancelWorker, Abandon
    <3>3. InHandOnce'
      BY <3>2, SubsDistinct, ElementOfSeq, LenProperties DEF TypeOK, ToSet
    <3>4. \A s \in Subs : InHand(s)' => InHand(s) /\ s # active
      BY <3>1, <3>2
    <3>5. \A s \in Subs : s # active => outcome'[s] = outcome[s] /\ future'[s] = future[s]
      BY <3>2 DEF TypeOK, Resolve
    <3>6. outcome'[active] = "cut"
          /\ future'[active] = IF future[active] = "pending" THEN "cancelled" ELSE future[active]
      BY <3>1, <3>2 DEF TypeOK, Resolve
    <3>7. Untouched'
      BY <3>1, <3>2, <3>4, <3>5
    <3>8. FutureTells'
      BY <3>1, <3>2, <3>5, <3>6
    <3>9. AnswerIsTrue'
      BY <3>1, <3>2, <3>5, <3>6, SubsDistinct DEF Subs
    <3> QED
      BY <3>3, <3>7, <3>8, <3>9
  <2>2. CASE worker # "busy"
    <3>1. active = None /\ active' = None /\ worker' = "ended"
      BY <1>4, <2>2 DEF CancelWorker
    <3> QED
      BY <1>1, <1>4, <2>2, <3>1 DEF CancelWorker
  <2> QED
    BY <2>1, <2>2
<1>5. CASE Drain
  <2>1. /\ queue' = <<>> /\ active' = active /\ active = None /\ caller' = caller
        /\ worker' = "off"
        /\ \A s \in Subs : future'[s] = IF s \in ToSet(queue) /\ future[s] = "pending"
                                        THEN "cancelled" ELSE future[s]
        /\ \A s \in Subs : outcome'[s] = IF s \in ToSet(queue) THEN "discarded" ELSE outcome[s]
    BY <1>5 DEF Drain
  <2>2. ToSet(queue') = {} /\ DOMAIN queue' = {}
    BY <2>1 DEF ToSet
  <2>3. InHandOnce'
    BY <2>1, <2>2
  <2>4. Untouched'
    BY <2>1, <2>2, SubsDistinct
  <2>5. FutureTells'
    BY <2>1
  <2>6. AnswerIsTrue'
    BY <2>1, SubsDistinct DEF Subs
  <2> QED
    BY <2>3, <2>4, <2>5, <2>6
<1>6. ASSUME NEW how \in Endings, Complete(how)
      PROVE  InHandOnce' /\ Untouched' /\ FutureTells' /\ AnswerIsTrue'
  <2>1. active \in Subs /\ outcome[active] = "none" /\ None \notin Subs
    BY <1>6, SubsDistinct DEF TypeOK, Complete
  <2>2. /\ active' = None /\ queue' = queue /\ worker' = "waiting" /\ caller' = caller
        /\ future' = Resolve(future, active, Verdict(how))
        /\ outcome' = [outcome EXCEPT ![active] = how]
    BY <1>6 DEF Complete
  <2>3. InHandOnce'
    BY <2>2, SubsDistinct, ElementOfSeq, LenProperties DEF TypeOK, ToSet
  <2>4. \A s \in Subs : InHand(s)' => InHand(s) /\ s # active
    BY <2>1, <2>2
  <2>5. \A s \in Subs : s # active => outcome'[s] = outcome[s] /\ future'[s] = future[s]
    BY <2>2 DEF TypeOK, Resolve
  <2>6. outcome'[active] = how
        /\ future'[active] = IF future[active] = "pending" THEN Verdict(how) ELSE future[active]
    BY <2>1, <2>2 DEF TypeOK, Resolve
  <2>7. Untouched'
    BY <2>1, <2>2, <2>4, <2>5
  <2>8. FutureTells'
    BY <2>1, <2>2, <2>5, <2>6 DEF Verdict, Endings
  <2>9. AnswerIsTrue'
    BY <2>1, <2>2, <2>5, <2>6, SubsDistinct DEF Subs
  <2> QED
    BY <2>3, <2>7, <2>8, <2>9
<1>7. ASSUME NEW s \in Subs, Submit(s)
      PROVE  InHandOnce' /\ Untouched' /\ FutureTells' /\ AnswerIsTrue'
  <2>1. CASE IsWorkerAlive
    <3>1. /\ active' = active /\ worker' = worker /\ outcome' = outcome
          /\ s # active /\ s \notin ToSet(queue) /\ outcome[s] = "none"
      BY <1>7 DEF Submit
    <3>2. /\ queue' = Append(queue, s)
          /\ future' = [future EXCEPT ![s] = "pending"]
          /\ caller' = [caller EXCEPT ![s] = IF s \in Commits THEN "awaiting" ELSE "acked"]
      BY <1>7, <2>1 DEF Submit, Put
    <3>3. /\ ToSet(queue') = ToSet(queue) \cup {s}
          /\ \A j, k \in DOMAIN queue' : queue'[j] = queue'[k] => j = k
      BY <3>1, <3>2, PutOnce
    <3>4. /\ \A r \in Subs : r # s => future'[r] = future[r] /\ caller'[r] = caller[r]
          /\ future'[s] = "pending" /\ caller'[s] \in {"awaiting", "acked"}
      BY <3>2 DEF TypeOK
    <3>5. InHandOnce'
      BY <3>1, <3>3
    <3>6. Untouched'
      BY <3>1, <3>3, <3>4
    <3>7. FutureTells'
      BY <3>1, <3>4
    <3>8. AnswerIsTrue'
      BY <3>1, <3>4 DEF Subs
    <3> QED
      BY <3>5, <3>6, <3>7, <3>8
  <2>2. CASE ~IsWorkerAlive
    <3>1. UNCHANGED <<queue, active, future, outcome, worker>>
          /\ caller' = [caller EXCEPT ![s] = "refused"]
      BY <1>7, <2>2 DEF Submit
    <3>2. /\ \A r \in Subs : r # s => caller'[r] = caller[r]
          /\ caller'[s] = "refused" /\ future[s] = "none"
      BY <1>7, <3>1 DEF TypeOK, Submit
    <3> QED
      BY <3>1, <3>2 DEF Subs
  <2> QED
    BY <2>1, <2>2
<1>8. ASSUME NEW s \in Subs, Reply(s)
      PROVE  InHandOnce' /\ Untouched' /\ FutureTells' /\ AnswerIsTrue'
  <2>1. UNCHANGED <<queue, active, future, outcome, worker>>
        /\ caller' = [caller EXCEPT ![s] = Answer(future[s])]
        /\ caller[s] = "awaiting" /\ future[s] \in {"result", "empty", "exception", "cancelled"}
    BY <1>8 DEF Reply, history, Settled, TypeOK
  <2>2. /\ \A r \in Subs : r # s => caller'[r] = caller[r]
        /\ caller'[s] = Answer(future[s])
    BY <2>1 DEF TypeOK
  <2>3. FutureTells'
    BY <2>1, <2>2
  <2>4. AnswerIsTrue'
    BY <2>1, <2>2 DEF Subs, Answer
  <2>5. Untouched'
    BY <2>1, <2>2 DEF Answer
  <2> QED
    BY <2>1, <2>3, <2>4, <2>5
<1>9. ASSUME NEW s \in Subs, CommitTimeout(s)
      PROVE  InHandOnce' /\ Untouched' /\ FutureTells' /\ AnswerIsTrue'
  <2>1. UNCHANGED <<queue, active, outcome, worker>>
        /\ caller' = [caller EXCEPT ![s] = "timedout"]
        /\ future' = Resolve(future, s, "cancelled")
        /\ caller[s] = "awaiting"
    BY <1>9 DEF CommitTimeout, history, Withdraw
  <2>2. /\ \A r \in Subs : r # s => caller'[r] = caller[r] /\ future'[r] = future[r]
        /\ caller'[s] = "timedout"
        /\ future'[s] = IF future[s] = "pending" THEN "cancelled" ELSE future[s]
    BY <2>1 DEF TypeOK, Resolve
  <2>3. FutureTells'
    BY <2>1, <2>2
  <2>4. AnswerIsTrue'
    BY <2>1, <2>2 DEF Subs
  <2>5. Untouched'
    BY <2>1, <2>2
  <2> QED
    BY <2>1, <2>3, <2>4, <2>5
<1>10. CASE UNCHANGED vars
  BY <1>1, <1>10 DEF vars
<1> QED
  BY <1>2, <1>3, <1>4, <1>5, <1>6, <1>7, <1>8, <1>9, <1>10 DEF Next

\* A settled future stays as it is.
LEMMA StepSettles ==
  ASSUME IInv, [Next]_vars, NEW s \in Subs, Settled(s) PROVE future'[s] = future[s]
<1> USE DEF IInv, TypeOK, Settled
<1>1. ASSUME NEW r \in Subs, NEW v, future' = Resolve(future, r, v)
      PROVE  future'[s] = future[s]
  BY <1>1 DEF Resolve
<1>2. CASE CancelWorker
  <2>1. CASE worker = "busy"
    <3>1. active \in Subs
      BY <2>1, SubsDistinct DEF InHandOnce
    <3> QED
      BY <1>1, <1>2, <2>1, <3>1 DEF CancelWorker, Abandon
  <2>2. CASE worker # "busy"
    BY <1>2, <2>2 DEF CancelWorker
  <2> QED
    BY <2>1, <2>2
<1>3. ASSUME NEW how \in Endings, Complete(how) PROVE future'[s] = future[s]
  <2>1. active \in Subs
    BY <1>3 DEF InHandOnce, Complete
  <2> QED
    BY <1>1, <1>3, <2>1 DEF Complete
<1>4. ASSUME NEW r \in Subs, Submit(r) PROVE future'[s] = future[s]
  BY <1>4 DEF Submit, Untouched
<1>5. ASSUME NEW r \in Subs, CommitTimeout(r) PROVE future'[s] = future[s]
  BY <1>1, <1>5 DEF CommitTimeout
<1>6. CASE Drain
  BY <1>6 DEF Drain
<1>7. CASE StartWorker \/ Take \/ StopWorker \/ UNCHANGED vars
  BY <1>7 DEF StartWorker, Take, StopWorker, vars
<1>8. ASSUME NEW r \in Subs, Reply(r) PROVE future'[s] = future[s]
  BY <1>8 DEF Reply
<1> QED
  BY <1>2, <1>3, <1>4, <1>5, <1>6, <1>7, <1>8 DEF Next

-----------------------------------------------------------------------------
(***************************************************************************)
(* The order of submissions.                                               *)
(***************************************************************************)
Hand == IF active = None THEN <<>> ELSE <<active>>

LEMMA SeqFacts ==
  ASSUME TypeOK
  PROVE  /\ Hand \in Seq(Subs) /\ queue \in Seq(Subs) /\ finished \in Seq(Subs)
         /\ <<>> \in Seq(Subs)
BY EmptySeq, SubsDistinct DEF TypeOK, Hand

LEMMA StepFifo == ASSUME IInv, FifoOnce, [Next]_vars PROVE FifoOnce'
<1>1. accepted = finished \o Hand \o queue
  BY DEF FifoOnce, Hand
<1>2. SUFFICES accepted' = finished' \o Hand' \o queue'
  BY DEF FifoOnce, Hand
<1>3. /\ Hand \in Seq(Subs) /\ queue \in Seq(Subs) /\ finished \in Seq(Subs)
      /\ <<>> \in Seq(Subs)
  BY SeqFacts DEF IInv
<1>4. CASE Take
  <2>1. active = None /\ Head(queue) \in Subs /\ Tail(queue) \in Seq(Subs)
    BY <1>3, <1>4, HeadTailProperties DEF Take, IInv, InHandOnce
  <2>2. Hand = <<>> /\ Hand' = <<Head(queue)>> /\ queue' = Tail(queue)
        /\ finished' = finished /\ accepted' = accepted
    BY <1>4, <2>1, SubsDistinct DEF Take, Hand, history
  <2>3. queue = <<Head(queue)>> \o Tail(queue)
    <3>1. Len(queue) \in Nat \ {0}
      BY <1>3, <1>4, EmptySeq DEF Take
    <3>2. queue = SubSeq(queue, 1, Len(queue)) /\ Tail(queue) = SubSeq(queue, 2, Len(queue))
      BY <1>3, <1>4, SubSeqFull, TailIsSubSeq DEF Take
    <3>3. SubSeq(queue, 1, Len(queue)) = <<queue[1]>> \o SubSeq(queue, 1 + 1, Len(queue))
      BY <1>3, <3>1, SubSeqRecursiveFirst
    <3> QED
      BY <3>2, <3>3
  <2>4. <<Head(queue)>> \in Seq(Subs)
    BY <2>1
  <2>5. finished \o <<>> = finished
    BY <1>3, ConcatEmptySeq
  <2>6. (finished \o <<Head(queue)>>) \o Tail(queue)
          = finished \o (<<Head(queue)>> \o Tail(queue))
    BY <1>3, <2>1, <2>4, ConcatAssociative
  <2> QED
    BY <1>1, <2>2, <2>3, <2>5, <2>6
<1>5. ASSUME active \in Subs, active' = None, finished' = Append(finished, active),
             queue' = queue, accepted' = accepted
      PROVE  accepted' = finished' \o Hand' \o queue'
  <2>1. Hand = <<active>> /\ Hand' = <<>>
    BY <1>5, SubsDistinct DEF Hand
  <2>2. finished' = finished \o <<active>> /\ finished' \in Seq(Subs)
    BY <1>3, <1>5, AppendIsConcat, AppendProperties
  <2>3. finished' \o <<>> = finished'
    BY <2>2, ConcatEmptySeq
  <2> QED
    BY <1>1, <1>5, <2>1, <2>2, <2>3
<1>6. CASE CancelWorker
  <2>1. CASE worker = "busy"
    <3>1. active \in Subs
      BY <2>1, SubsDistinct DEF IInv, InHandOnce, TypeOK
    <3> QED
      BY <1>5, <1>6, <2>1, <3>1 DEF CancelWorker
  <2>2. CASE worker # "busy"
    BY <1>1, <1>6, <2>2 DEF CancelWorker, IInv, InHandOnce, Hand
  <2> QED
    BY <2>1, <2>2
<1>7. ASSUME NEW how \in Endings, Complete(how)
      PROVE  accepted' = finished' \o Hand' \o queue'
  <2>1. active \in Subs
    BY <1>7 DEF IInv, InHandOnce, TypeOK, Complete
  <2> QED
    BY <1>5, <1>7, <2>1 DEF Complete
<1>8. CASE Drain
  <2>1. Hand = <<>> /\ Hand' = <<>>
    BY <1>8 DEF Drain, IInv, InHandOnce, Hand
  <2>2. finished' = finished \o queue /\ queue' = <<>> /\ accepted' = accepted
    BY <1>8 DEF Drain
  <2>3. finished \o <<>> = finished /\ finished \o queue \in Seq(Subs)
    BY <1>3, ConcatEmptySeq, ConcatProperties
  <2>4. ((finished \o queue) \o <<>>) \o <<>> = finished \o queue
    BY <1>3, <2>3, ConcatEmptySeq
  <2> QED
    BY <1>1, <2>1, <2>2, <2>3, <2>4
<1>9. ASSUME NEW s \in Subs, Submit(s)
      PROVE  accepted' = finished' \o Hand' \o queue'
  <2>1. CASE IsWorkerAlive
    <3>1. queue' = Append(queue, s) /\ accepted' = Append(accepted, s)
          /\ finished' = finished /\ active' = active
      BY <1>9, <2>1 DEF Submit, Put
    <3>2. finished \o Hand \in Seq(Subs) /\ accepted \in Seq(Subs) /\ <<s>> \in Seq(Subs)
      BY <1>1, <1>3, ConcatProperties DEF IInv, TypeOK
    <3>3. queue' = queue \o <<s>> /\ accepted' = accepted \o <<s>>
      BY <1>3, <3>1, <3>2, AppendIsConcat
    <3>4. ((finished \o Hand) \o queue) \o <<s>> = (finished \o Hand) \o (queue \o <<s>>)
      <4>1. ASSUME NEW a \in Seq(Subs), NEW b \in Seq(Subs), NEW c \in Seq(Subs),
                   a = finished \o Hand, b = queue, c = <<s>>
            PROVE  (a \o b) \o c = a \o (b \o c)
        BY ConcatAssociative
      <4> QED
        BY <1>3, <3>2, <4>1
    <3>5. Hand' = Hand
      BY <3>1 DEF Hand
    <3> QED
      BY <1>1, <3>1, <3>3, <3>4, <3>5
  <2>2. CASE ~IsWorkerAlive
    BY <1>1, <1>9, <2>2 DEF Submit, Hand
  <2> QED
    BY <2>1, <2>2
<1>10. ASSUME NEW s \in Subs, Reply(s) \/ CommitTimeout(s)
       PROVE  accepted' = finished' \o Hand' \o queue'
  BY <1>1, <1>10 DEF Reply, CommitTimeout, Withdraw, history, Hand
<1>11. CASE StartWorker \/ StopWorker \/ UNCHANGED vars
  BY <1>1, <1>11 DEF StartWorker, StopWorker, vars, history, Hand
<1> QED
  BY <1>4, <1>6, <1>7, <1>8, <1>9, <1>10, <1>11 DEF Next
-----------------------------------------------------------------------------
(***************************************************************************)
(* The theorems.                                                           *)
(***************************************************************************)
\* The inductive invariant holds in every reachable state: what is in hand is
\* there once and unsettled, and futures agree with what happened.
THEOREM Invariance == Spec => []IInv
BY InitInv, StepInv, PTL DEF Spec

\* The worker's task, queue, futures and callers keep their shape.
THEOREM TypeCorrect == Spec => []TypeOK
<1>1. IInv => TypeOK
  BY DEF IInv
<1> QED
  BY <1>1, Invariance, PTL

\* "One event at a time, serialized": worker_loop and stop_worker let
\* submissions out in the order submit_event and enqueue_event took them in,
\* each once, over any number of stops, restarts and timeouts.
THEOREM FifoOnceAlways == Spec => []FifoOnce
<1>1. Init => FifoOnce
  BY EmptySeq, ConcatEmptySeq DEF Init, FifoOnce
<1> QED
  BY <1>1, InitInv, StepInv, StepFifo, PTL DEF Spec

\* What /commit answers is what became of its order.
THEOREM AnswerIsTrueAlways == Spec => []AnswerIsTrue
<1>1. IInv => AnswerIsTrue
  BY DEF IInv
<1> QED
  BY <1>1, Invariance, PTL

\* No future is settled twice, by whichever of worker_loop, the caller's timeout
\* and stop_worker come to it.
THEOREM SettledOnceAlways == Spec => SettledOnce
<1>1. IInv /\ [Next]_vars => [\A s \in Subs : Settled(s) => future'[s] = future[s]]_vars
  BY StepSettles
<1> QED
  BY <1>1, Invariance, PTL DEF Spec, SettledOnce
=============================================================================
