----------------------------- MODULE Placement -----------------------------
(***************************************************************************)
(* Where a job fits on one machine (engine/core/placement.py).  Time is a  *)
(* natural number of steps, Day of them from one midnight to the next.  A  *)
(* machine has a working window, from .. to in steps after midnight, and a *)
(* changeover between jobs.                                                *)
(***************************************************************************)
EXTENDS Integers, FiniteSetsExt

CONSTANT Day
ASSUME DayAssumption == Day \in Nat \ {0}

Hour(t)     == t % Day
Midnight(t) == t - Hour(t)
AllDay(m)   == m.from = 0 /\ m.to >= Day
Length(m)   == m.to - m.from

\* A window that ends with the day but does not begin with it: replace(hour=24)
\* raises, before anything is placed.
Unplaceable(m) == ~AllDay(m) /\ m.to >= Day

\* _advance_to_working_window
AdvanceToWindow(t, m) ==
  IF Hour(t) < m.from THEN Midnight(t) + m.from
  ELSE IF Hour(t) < m.to THEN t
  ELSE Midnight(t) + Day + m.from

\* find_earliest_start from its candidate on.  The loop's second try is at the
\* start of a window longer than the job.
EarliestFrom_strict(m, d, candidate) ==
  LET t == AdvanceToWindow(candidate, m) IN
  IF AllDay(m) THEN candidate
  ELSE IF d >= Length(m) \/ Hour(t) + d < m.to THEN t
  ELSE Midnight(t) + Day + m.from
EarliestFrom(m, d, candidate) ==
  LET t == AdvanceToWindow(candidate, m) IN
  IF AllDay(m) THEN candidate
  ELSE IF d >= Length(m) \/ Hour(t) + d <= m.to THEN t
  ELSE Midnight(t) + Day + m.from

\* find_earliest_start: not before now, the stages it waits for and the last
\* end in the machine's queue with the changeover.
FindEarliestStart(m, d, allowed, ends, now) ==
  EarliestFrom(m, d, Max({now, allowed} \cup {e + m.changeover : e \in ends}))
-----------------------------------------------------------------------------
\* What is asked of a start: inside the window, and so is the end unless the
\* job fills the window.
Fits(m, d, t) ==
  \/ AllDay(m)
  \/ /\ m.from <= Hour(t) /\ Hour(t) < m.to
     /\ d >= Length(m) \/ Hour(t) + d <= m.to
=============================================================================
