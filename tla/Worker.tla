------------------------------- MODULE Worker -------------------------------
(***************************************************************************)
(* The single worker task (engine/io/worker.py), its FIFO queue of         *)
(* submissions and their futures, the callers that await a future          *)
(* (/commit, with a timeout) or do not (webhooks, the sweep), and          *)
(* stop_worker, which cancels the task and then empties the queue.         *)
(***************************************************************************)
EXTENDS Naturals, Sequences, SequencesExt

CONSTANTS
  Commits,     \* submissions whose caller awaits the result (/commit)
  Posts,       \* submissions nobody awaits (webhooks, sweep)
  None         \* no active submission

Subs == Commits \cup Posts

ASSUME SubsDistinct == Commits \cap Posts = {} /\ None \notin Subs

VARIABLES
  worker,      \* _worker_task: none ("off"), in queue.get ("waiting"),
               \* in process_event ("busy") or done, unawaited ("ended")
  stopping,    \* stop_worker has called cancel and awaits the task
  queue,       \* _queue
  active,      \* the submission process_event runs for
  future,      \* _Submission.future
  caller,      \* what the submitter knows
  failing,     \* _last_error is set
  accepted,    \* (history) submissions in the order put accepted them
  finished,    \* (history) submissions in the order they left the worker
  outcome      \* (history) how process_event ended for each

vars == <<worker, stopping, queue, active, future, caller, failing,
          accepted, finished, outcome>>
history == <<accepted, finished, outcome>>

IsWorkerAlive == worker \in {"waiting", "busy"}
Settled(s)    == future[s] \notin {"none", "pending"}

\* set_result, set_exception and cancel are all guarded by future.done().
Resolve_always(f, s, v) == [f EXCEPT ![s] = v]
Resolve(f, s, v) == IF f[s] = "pending" THEN [f EXCEPT ![s] = v] ELSE f
-----------------------------------------------------------------------------
Init ==
  /\ worker = "off" /\ stopping = FALSE
  /\ queue = <<>> /\ active = None
  /\ future = [s \in Subs |-> "none"]
  /\ caller = [s \in Subs |-> "idle"]
  /\ failing = FALSE
  /\ accepted = <<>> /\ finished = <<>>
  /\ outcome = [s \in Subs |-> "none"]

\* start_worker: a new task unless one is alive.
StartWorker ==
  /\ worker = "off"
  /\ worker' = "waiting"
  /\ UNCHANGED <<stopping, queue, active, future, caller, failing, history>>

\* submit_event and enqueue_event: put on an unbounded queue never waits, so
\* the liveness test and the put are one step.  A cancelled task that has
\* not ended yet still counts as alive.
Put_front(s) == queue' = <<s>> \o queue
Put(s) == queue' = Append(queue, s)

Submit(s) ==
  /\ caller[s] = "idle"
  /\ IF IsWorkerAlive
     THEN /\ Put(s)
          /\ accepted' = Append(accepted, s)
          /\ future' = [future EXCEPT ![s] = "pending"]
          /\ caller' = [caller EXCEPT ![s] =
                          IF s \in Commits THEN "awaiting" ELSE "acked"]
     ELSE /\ caller' = [caller EXCEPT ![s] = "refused"]
          /\ UNCHANGED <<queue, accepted, future>>
  /\ UNCHANGED <<worker, stopping, active, failing, finished, outcome>>

\* worker_loop: submission = await queue.get()
Take ==
  /\ worker = "waiting" /\ ~stopping /\ queue # <<>>
  /\ worker' = "busy"
  /\ active' = Head(queue) /\ queue' = Tail(queue)
  /\ UNCHANGED <<stopping, future, caller, failing, history>>

\* process_event returns the result of a plan with slots, returns none or one
\* without, or raises; the loop settles the future, if the caller has not
\* given it up, and goes round.
Endings == {"applied", "empty", "failed"}
Verdict_swallowed(how) == "result"
Verdict(how) == IF how = "applied" THEN "result" ELSE
                IF how = "empty" THEN "empty" ELSE "exception"

Complete(how) ==
  /\ worker = "busy" /\ ~stopping
  /\ outcome' = [outcome EXCEPT ![active] = how]
  /\ future' = Resolve(future, active, Verdict(how))
  /\ failing' = (how = "failed")
  /\ finished' = Append(finished, active)
  /\ worker' = "waiting" /\ active' = None
  /\ UNCHANGED <<stopping, queue, caller, accepted>>

\* The awaiting route wakes up with whatever its future holds; a result
\* without slots is an error (500), like an exception.
Answer_raw(v) == v
Answer(v) == IF v = "result" THEN "answered" ELSE
             IF v \in {"empty", "exception"} THEN "error" ELSE "aborted"
Reply(s) ==
  /\ caller[s] = "awaiting" /\ Settled(s)
  /\ caller' = [caller EXCEPT ![s] = Answer(future[s])]
  /\ UNCHANGED <<worker, stopping, queue, active, future, failing, history>>

\* asyncio.wait_for gives up (504): the future is cancelled, its submission
\* stays where it is.  It may fire between the result and the wake-up.
Withdraw_queued(s) == queue' = SelectSeq(queue, LAMBDA t : t # s)
Withdraw(s) == UNCHANGED queue

CommitTimeout(s) ==
  /\ caller[s] = "awaiting"
  /\ caller' = [caller EXCEPT ![s] = "timedout"]
  /\ future' = Resolve(future, s, "cancelled")
  /\ Withdraw(s)
  /\ UNCHANGED <<worker, stopping, active, failing, history>>

\* stop_worker with a live task: task.cancel(), then await it.
StopWorker ==
  /\ IsWorkerAlive /\ ~stopping
  /\ stopping' = TRUE
  /\ UNCHANGED <<worker, queue, active, future, caller, failing, history>>

\* CancelledError reaches the task at its await: the active submission's
\* future is cancelled, and the task ends.
Abandon_silently(s) == UNCHANGED future
Abandon(s) == future' = Resolve(future, s, "cancelled")

CancelWorker ==
  /\ IsWorkerAlive /\ stopping
  /\ IF worker = "busy"
     THEN /\ Abandon(active)
          /\ outcome' = [outcome EXCEPT ![active] = "cut"]
          /\ finished' = Append(finished, active)
     ELSE UNCHANGED <<future, outcome, finished>>
  /\ worker' = "ended" /\ active' = None
  /\ UNCHANGED <<stopping, queue, caller, failing, accepted>>

\* stop_worker resumes: it forgets the task and cancels what is still queued.
Drain ==
  /\ worker = "ended"
  /\ future' = [s \in Subs |-> IF s \in ToSet(queue) /\ future[s] = "pending"
                               THEN "cancelled" ELSE future[s]]
  /\ outcome' = [s \in Subs |-> IF s \in ToSet(queue)
                                THEN "discarded" ELSE outcome[s]]
  /\ finished' = finished \o queue
  /\ queue' = <<>>
  /\ worker' = "off" /\ stopping' = FALSE
  /\ UNCHANGED <<active, caller, failing, accepted>>

Next ==
  \/ StartWorker \/ Take \/ StopWorker \/ CancelWorker \/ Drain
  \/ \E how \in Endings : Complete(how)
  \/ \E s \in Subs : Submit(s) \/ Reply(s) \/ CommitTimeout(s)

Spec == Init /\ [][Next]_vars

\* The event loop runs whatever is ready: the task takes and completes
\* events (every await of process_event ends: httpx times out), a cancelled
\* task ends, and stop_worker resumes.  Nobody is obliged to start, stop,
\* submit or time out.
FairSpec ==
  /\ Spec
  /\ WF_vars(Take) /\ WF_vars(\E how \in Endings : Complete(how))
  /\ WF_vars(CancelWorker) /\ WF_vars(Drain)
  /\ \A s \in Commits : WF_vars(Reply(s))
-----------------------------------------------------------------------------
(***************************************************************************)
(* Properties.                                                             *)
(***************************************************************************)

\* The shape of the module's globals, futures and callers.
TypeOK ==
  /\ worker \in {"off", "waiting", "busy", "ended"}
  /\ stopping \in BOOLEAN /\ failing \in BOOLEAN
  /\ queue \in Seq(Subs) /\ accepted \in Seq(Subs) /\ finished \in Seq(Subs)
  /\ active \in Subs \cup {None}
  /\ future \in [Subs -> {"none", "pending", "result", "empty", "exception",
                          "cancelled"}]
  /\ caller \in [Subs -> {"idle", "refused", "acked", "awaiting", "answered",
                          "error", "aborted", "timedout"}]
  /\ outcome \in [Subs -> {"none", "cut", "discarded"} \cup Endings]

\* "One event at a time, serialized": submissions leave the worker in the
\* order it accepted them, none twice and none skipped, over timeouts, stops
\* and restarts of the task.
FifoOnce ==
  accepted = finished \o (IF active = None THEN <<>> ELSE <<active>>) \o queue

\* What a /commit caller is told is what happened to its order.
AnswerIsTrue ==
  \A s \in Commits :
    /\ caller[s] = "answered" => outcome[s] = "applied"
    /\ caller[s] = "error"    => outcome[s] \in {"empty", "failed"}
    /\ caller[s] = "aborted"  => outcome[s] \in {"cut", "discarded"}

\* A settled future is never settled again, although the worker, the caller's
\* timeout and stop_worker all settle it: the second one would raise
\* InvalidStateError in the worker loop and kill the worker.
SettledOnce == [][\A s \in Subs : Settled(s) => future'[s] = future[s]]_vars

\* Every accepted submission's future is settled in the end, whether or not
\* the worker is stopped meanwhile ("so callers don't hang forever").
EveryFutureSettles ==
  \A s \in Subs : future[s] = "pending" ~> Settled(s)

\* A 504 does not take the order back: "the submitted event remains in the
\* queue and will run" (commit.py:130-132), or is lost to a stop.
TimedOutStillLeaves ==
  \A s \in Commits : caller[s] = "timedout" ~> outcome[s] # "none"
=============================================================================
