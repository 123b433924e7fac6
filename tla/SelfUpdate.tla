----------------------------- MODULE SelfUpdate -----------------------------
(***************************************************************************)
(* SelfUpdateService (core/self_update.py) on top of the task lanes: pull, *)
(* build, close the gpu lane, wait until no task is RUNNING or the time is *)
(* up, open it again, restart. The restart sleeps, then hands over to a    *)
(* supervisor or launcher and ends the process.                            *)
(***************************************************************************)
EXTENDS TaskLanes

CONSTANTS
  MaxUpdates  \* bound: updates asked for

ASSUME SelfUpdateAssumption == MaxUpdates \in Nat

VARIABLES
  update,  \* SelfUpdateService.state
  updates, \* updates asked for so far
  server   \* "up", or ended by the updater ("updated") or by a user ("gone"),
           \* with everything it had in memory

updateVars == <<update, updates, server>>
vars == <<clock, status, lane, position, cancels, queue, laneThread, laneActive,
          thread, terminalOrder, draining, update, updates, server>>

UpdateState == {"idle", "pulling", "building", "pending_restart", "restarting",
                "error"}

\* Every variable has its type.
TypeOK ==
  /\ LanesTypeOK
  /\ update \in UpdateState /\ updates \in 0 .. MaxUpdates
  /\ server \in {"up", "updated", "gone"}

\* active_task_count
SomeRuns == \E t \in Tasks : status[t] = "running"

Moves(from, to) == update = from /\ update' = to
KeepLanes == UNCHANGED <<clock, taskVars, laneVars>>

\* apply: only from a state in which no update is under way.
Apply ==
  /\ update \in {"idle", "error"} /\ updates < MaxUpdates
  /\ update' = "pulling" /\ updates' = updates + 1
  /\ KeepLanes /\ UNCHANGED <<draining, server>>

PullEnds ==
  /\ Moves("pulling", "building") \/ Moves("pulling", "error")
  /\ KeepLanes /\ UNCHANGED <<draining, updates, server>>

\* The dependency install or the frontend build raised.
BuildFails ==
  /\ Moves("building", "error")
  /\ draining' = FALSE
  /\ KeepLanes /\ UNCHANGED <<updates, server>>

BuildEnds ==
  /\ Moves("building", "pending_restart")
  /\ draining' = TRUE
  /\ KeepLanes /\ UNCHANGED <<updates, server>>

\* Faulty variant: the wait has no deadline.
NoDrainTimeout == FALSE /\ UNCHANGED vars

\* _wait_for_idle gave up on a task that never left RUNNING.
DrainTimeout ==
  /\ SomeRuns /\ Moves("pending_restart", "error")
  /\ draining' = FALSE
  /\ KeepLanes /\ UNCHANGED <<updates, server>>

\* _wait_for_idle found nothing RUNNING: open the lane again and restart.
DrainEnds ==
  /\ ~SomeRuns /\ Moves("pending_restart", "restarting")
  /\ draining' = FALSE
  /\ KeepLanes /\ UNCHANGED <<updates, server>>

\* schedule_exit: the process ends, and all tasks with it, when the updater or
\* POST /restart (which asks nobody) handed over. A hand-over that fails for
\* want of a restart log or a launcher changes nothing: the server goes on.
Exit ==
  /\ (update = "restarting" /\ server' = "updated") \/ server' = "gone"
  /\ KeepLanes /\ UNCHANGED <<draining, update, updates>>

Init ==
  /\ LanesInit
  /\ update = "idle" /\ updates = 0 /\ server = "up"

Updater == PullEnds \/ BuildFails \/ BuildEnds \/ DrainTimeout \/ DrainEnds
Tasking == Routes \/ \E th \in Threads : LaneStep(th) \/ WorkerEnds(th)

Next ==
  /\ server = "up"
  /\ \/ Tasking /\ UNCHANGED updateVars
     \/ Apply \/ Updater \/ Exit

\* The operating system runs the lane threads, the event loop runs the updater
\* (git and npm have time limits), and only the workers in Stalls may hang.
Fairness ==
  /\ \A th \in Threads : WF_vars(server = "up" /\ LaneStep(th)
                                 /\ UNCHANGED updateVars)
  /\ \A th \in Threads : WF_vars(server = "up" /\ thread[th].task \notin Stalls
                                 /\ WorkerEnds(th) /\ UNCHANGED updateVars)
  /\ WF_vars(server = "up" /\ Updater)

Spec     == Init /\ [][Next]_vars
LiveSpec == Spec /\ Fairness

-----------------------------------------------------------------------------
(* Properties.                                                             *)

\* The gpu lane is closed only while an update waits for the tasks to end:
\* every way out of the wait, and of a failed update, opens it again.
DrainOwned == draining <=> update = "pending_restart"

\* An update waits for the tasks no longer than its time limit, even if one of
\* them hangs: it ends in a restart or in an error, never drained for ever.
DrainSettles ==
  update = "pending_restart" ~> update # "pending_restart" \/ server # "up"

\* A task on a lane ends, unless the server does or a task before it on the
\* lane hangs: no hand-over between lane threads strands it.
Blocked(t) == \E s \in Stalls : s # t /\ lane[s] = lane[t] /\ ~Ended(s)
EveryTaskEnds ==
  \A t \in Tasks \ Stalls :
    Waiting(t) ~> Ended(t) \/ server # "up" \/ Blocked(t)

\* A task cancelled while it waits never runs to an end of its own.
CancelledInTime ==
  \A t \in Tasks :
    Waiting(t) /\ t \in cancels
      ~> status[t] = "cancelled" \/ server # "up" \/ Blocked(t)
=============================================================================
