------------------------------ MODULE PlanSaga ------------------------------
(***************************************************************************)
(* What a caller of apply_plan may rely on, said without boards, batches   *)
(* or replies.  A plan wants a set of new slots.  While its verdict is     *)
(* open, wanted slots come and go.  It closes as applied only when every   *)
(* wanted slot is there, and as failed only when each slot left behind is  *)
(* either reported or one whose answer the engine never saw (uncertain).   *)
(* After the verdict nothing appears, save an uncertain slot that Monday   *)
(* still had in hand, and of an applied plan nothing disappears.           *)
(***************************************************************************)
VARIABLES wanted,     \* the slots the plan creates
          present,    \* those of them that exist
          uncertain,  \* those whose creation may happen unseen
          reported,   \* those a failed plan names as orphans
          verdict     \* "open", "applied", "failed" or "abandoned"

sagaVars == <<wanted, present, uncertain, reported, verdict>>

SagaInit ==
  /\ present = {} /\ uncertain = {} /\ reported = {}
  /\ verdict = "open"

\* Slots come into being while the plan is open, or late if uncertain.
Insert ==
  /\ present' \subseteq wanted
  /\ present \subseteq present'
  /\ verdict = "open" \/ (present' \ present) \subseteq uncertain
  /\ UNCHANGED <<wanted, uncertain, reported, verdict>>

\* The answer about some slots is lost, or the plan is abandoned half-way.
LoseTrack ==
  /\ verdict = "open"
  /\ verdict' \in {"open", "abandoned"}
  /\ uncertain \subseteq uncertain' /\ uncertain' \subseteq wanted
  /\ present' \subseteq present
  /\ UNCHANGED <<wanted, reported>>

\* A plan that is not applied takes back slots of its own, or had asked to.
TakeBack ==
  /\ verdict # "applied"
  /\ present' \subseteq present
  /\ UNCHANGED <<wanted, uncertain, reported, verdict>>

CloseApplied ==
  /\ verdict = "open" /\ verdict' = "applied"
  /\ present = wanted /\ uncertain = {}
  /\ UNCHANGED <<wanted, present, uncertain, reported>>

CloseFailed ==
  /\ verdict = "open" /\ verdict' = "failed"
  /\ reported' \subseteq wanted
  /\ present \subseteq reported' \cup uncertain
  /\ UNCHANGED <<wanted, present, uncertain>>

SagaNext == Insert \/ LoseTrack \/ TakeBack \/ CloseApplied \/ CloseFailed

SagaSpec == SagaInit /\ [][SagaNext]_sagaVars
=============================================================================
