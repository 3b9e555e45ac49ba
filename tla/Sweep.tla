-------------------------------- MODULE Sweep --------------------------------
(***************************************************************************)
(* The polling sweep for as long as the service lives (engine/io/sweep.py, *)
(* the lifespan in engine/main.py, engine/core/drift.py): is a late slot   *)
(* flagged in the end?  Schedule has the same steps on a clock that stops; *)
(* here only distances in time are kept, so that time need not stop.       *)
(***************************************************************************)
EXTENDS Integers, Sequences

CONSTANTS
  Slots,
  Period,        \* polling_interval_minutes
  Threshold,     \* drift_threshold_minutes
  Suppression,   \* drift_suppression_minutes
  Early,         \* bound: how far ahead a planned instant lies at most
  MaxQueue,      \* bound: drift events in the queue
  MaxStops       \* bound: shutdowns and crashes

ASSUME SweepAssumption ==
  /\ {Period, Threshold, Suppression, MaxQueue} \subseteq Nat \ {0}
  /\ Early \in Nat /\ MaxStops \in Nat

VARIABLES
  phase,    \* which of the two tasks run, as the lifespan starts and stops them
  due,      \* time until sweep_loop wakes up
  queue,    \* drift events [slot, kind] the worker has yet to handle
  status,   \* of each slot
  behind,   \* now minus the instant the slot's next report is planned for,
            \* capped where it makes no difference any more
  stamp,    \* time since drift_last_detected_at, capped likewise; Never
  flagged,  \* (history) the kind stamped since the slot last changed
  stops     \* (history) shutdowns and crashes

slots == <<status, behind, stamp, flagged>>
vars  == <<phase, due, queue, slots, stops>>

Never == -1
Cap   == Threshold + 1
Least(a, b) == IF a < b THEN a ELSE b
Statuses == {"Queued", "Running", "Blocked", "Done"}
Kinds    == {"late_start", "late_end"}

\* _is_late_start and _is_late_end: the instant that counts is planned_start
\* for a queued slot and planned_end for a running one.
IsLate(s, kind) ==
  /\ status[s] = IF kind = "late_start" THEN "Queued" ELSE "Running"
  /\ behind[s] > Threshold
IsSuppressed_once(s) == stamp[s] # Never
IsSuppressed(s) == stamp[s] # Never /\ stamp[s] < Suppression
Drifting(s, kind) == IsLate(s, kind) /\ ~IsSuppressed(s)
-----------------------------------------------------------------------------
Init ==
  /\ phase = "down" /\ due = 0 /\ queue = <<>> /\ stops = 0
  /\ status = [s \in Slots |-> "Queued"]
  /\ behind = [s \in Slots |-> -Early]
  /\ stamp = [s \in Slots |-> Never]
  /\ flagged = [s \in Slots |-> "none"]

Tick ==
  /\ due' = IF due = 0 THEN 0 ELSE due - 1
  /\ behind' = [s \in Slots |-> Least(behind[s] + 1, Cap)]
  /\ stamp' = [s \in Slots |-> IF stamp[s] = Never THEN Never
                               ELSE Least(stamp[s] + 1, Suppression)]
  /\ UNCHANGED <<phase, queue, status, flagged, stops>>

\* The floor reports, or an operator changes, the status or the planned times.
Change(s) ==
  /\ \E st \in Statuses, b \in -Early .. Cap :
       /\ <<st, b>> # <<status[s], behind[s]>>
       /\ status' = [status EXCEPT ![s] = st]
       /\ behind' = [behind EXCEPT ![s] = b]
  /\ status[s] # "Done"
  /\ flagged' = [flagged EXCEPT ![s] = "none"]
  /\ UNCHANGED <<phase, due, queue, stamp, stops>>

\* The lifespan: worker, then sweep, which begins with a pass; sweep first on
\* the way down, and stop_worker discards what the last pass has queued.
StartWorker == phase = "down" /\ phase' = "worker" /\ UNCHANGED <<due, queue, slots, stops>>
StartSweep  == phase = "worker" /\ phase' = "up" /\ due' = 0
                 /\ UNCHANGED <<queue, slots, stops>>
StopSweep ==
  /\ phase = "up" /\ stops < MaxStops
  /\ phase' = "stopping" /\ stops' = stops + 1
  /\ UNCHANGED <<due, queue, slots>>
StopWorker ==
  /\ phase = "stopping"
  /\ phase' = "down" /\ queue' = <<>>
  /\ UNCHANGED <<due, slots, stops>>
Crash ==
  /\ phase # "down" /\ stops < MaxStops
  /\ phase' = "down" /\ queue' = <<>> /\ stops' = stops + 1
  /\ UNCHANGED <<due, slots>>

\* sweep_once: the drifting slots of a snapshot, in any order of slots.  An
\* error of the read is logged, and the next pass comes a period later.
Rearm_seconds(ok) == 60 * Period
Rearm(ok) == Period

Candidates == {e \in [slot : Slots, kind : Kinds] : Drifting(e.slot, e.kind)}

Pass ==
  /\ phase = "up" /\ due = 0
  /\ \E batch \in UNION {[1 .. n -> Candidates] : n \in 0 .. MaxQueue} :
       /\ \A e \in Candidates : \E k \in DOMAIN batch : batch[k] = e
       /\ \A j, k \in DOMAIN batch : batch[j] = batch[k] => j = k
       /\ Len(queue) + Len(batch) <= MaxQueue
       /\ queue' = queue \o batch
  /\ due' = Rearm(TRUE)
  /\ UNCHANGED <<phase, slots, stops>>
PassFails ==
  /\ phase = "up" /\ due = 0
  /\ due' = Rearm(FALSE)
  /\ UNCHANGED <<phase, queue, slots, stops>>

\* process_event and plan_for_drift: the event is judged again on a fresh
\* snapshot, and the slot stamped if it still drifts that way.
Handle(s) ==
  /\ phase # "down" /\ queue # <<>> /\ Head(queue).slot = s
  /\ LET kind == Head(queue).kind
     IN IF Drifting(s, kind)
        THEN /\ stamp' = [stamp EXCEPT ![s] = 0]
             /\ flagged' = [flagged EXCEPT ![s] = kind]
        ELSE UNCHANGED <<stamp, flagged>>
  /\ queue' = Tail(queue)
  /\ UNCHANGED <<phase, due, status, behind, stops>>
HandleFails ==
  /\ phase # "down" /\ queue # <<>>
  /\ queue' = Tail(queue)
  /\ UNCHANGED <<phase, due, slots, stops>>
-----------------------------------------------------------------------------
Next ==
  \/ Tick
  \/ \E s \in Slots : Change(s) \/ Handle(s)
  \/ StartWorker \/ StartSweep \/ StopSweep \/ StopWorker \/ Crash
  \/ Pass \/ PassFails \/ HandleFails

\* Time goes on, tasks that are started run, a process that ended is started
\* again, and Monday fails now and then but not for ever.
Fairness ==
  /\ WF_vars(Tick) /\ WF_vars(StartWorker) /\ WF_vars(StartSweep) /\ WF_vars(StopWorker)
  /\ SF_vars(Pass)
  /\ \A s \in Slots : SF_vars(Handle(s))

Spec == Init /\ [][Next]_vars /\ Fairness
-----------------------------------------------------------------------------
TypeOK ==
  /\ phase \in {"down", "worker", "up", "stopping"}
  /\ due \in 0 .. Period
  /\ queue \in Seq([slot : Slots, kind : Kinds]) /\ Len(queue) <= MaxQueue
  /\ status \in [Slots -> Statuses]
  /\ behind \in [Slots -> -Early .. Cap]
  /\ stamp \in [Slots -> {Never} \cup 0 .. Suppression]
  /\ flagged \in [Slots -> Kinds \cup {"none"}]
  /\ stops \in 0 .. MaxStops

\* A slot that stays late is flagged for that in the end: whatever stamp it
\* carries from before (also one for its late start, which suppresses its late
\* end for a while), whatever events are dropped, refused or overtaken.
LateIsFlagged ==
  \A s \in Slots, kind \in Kinds :
    IsLate(s, kind) ~> flagged[s] = kind \/ ~IsLate(s, kind)
=============================================================================
