----------------------------- MODULE TaskLanes -----------------------------
(***************************************************************************)
(* TaskManager (core/tasks/task_manager.py): background tasks on FIFO      *)
(* lanes, one worker thread per lane that is started on demand and gives   *)
(* its lane up when the lane is empty, cooperative cancellation, eviction  *)
(* of old terminal records, and the drain gate of core/drain.py.           *)
(*                                                                         *)
(* A lane thread is cut where it does not hold the lock: after the take,   *)
(* after the cancellation check, while the worker function runs, and       *)
(* before it clears its marker. Routes run on the event loop: create and   *)
(* enqueue have no await between them and are one step.                    *)
(***************************************************************************)
EXTENDS Integers, Sequences

CONSTANTS
  NumTasks,    \* bound: tasks are numbered in the order they are created
  Lanes,       \* lanes a route asks for
  Gpu,         \* the one of them that the drain gate closes
  Kinds,       \* <<lane, user_visible>> pairs that the routes submit
  Threads,     \* thread objects
  NoThread,    \* no worker registered for a lane
  NoTask,      \* a lane thread, or a lane, without a task
  MaxTerminal, \* _MAX_TERMINAL
  Stalls       \* tasks whose worker function may never return

Tasks == 1 .. NumTasks

ASSUME TaskLanesAssumption ==
  /\ NumTasks \in Nat /\ MaxTerminal \in Nat \ {0}
  /\ Gpu \in Lanes /\ Kinds \subseteq Lanes \X BOOLEAN
  /\ NoThread \notin Threads /\ NoTask \notin Tasks
  /\ Stalls \subseteq Tasks

VARIABLES
  clock,         \* number of tasks created
  status,        \* _tasks[t].status, "absent" before, "evicted" after
  lane,          \* _tasks[t].lane, the lane the task was placed on
  position,      \* _tasks[t].queue_position
  cancels,       \* tasks whose cancel event is set
  queue,         \* _lanes[l]
  laneThread,    \* _lane_threads[l]
  laneActive,    \* _lane_active[l]
  thread,        \* where each thread is in _run_lane
  terminalOrder, \* _terminal_order
  draining       \* the drain flag

taskVars == <<status, lane, position, cancels, terminalOrder>>
laneVars == <<queue, laneThread, laneActive, thread>>
lanesVars == <<clock, status, lane, position, cancels, queue, laneThread,
               laneActive, thread, terminalOrder, draining>>

\* <<l, TRUE>> is lane l, <<l, FALSE>> its ":maintenance" sibling.
Placed == Lanes \X BOOLEAN
NoLane == <<>>

Terminal == {"completed", "failed", "cancelled"}
Ended(t) == status[t] \in Terminal \cup {"evicted"}
TaskStatus == {"absent", "pending", "running", "evicted"} \cup Terminal

Steps == {"take", "taken", "start", "work", "close"}
Idle  == [pc |-> "idle", lane |-> NoLane, task |-> NoTask]

InQueue(t, l) == \E i \in 1 .. Len(queue[l]) : queue[l][i] = t
Waiting(t)    == \E l \in Placed : InQueue(t, l)
Holds(th, t)  == thread[th].pc \in Steps \ {"take"} /\ thread[th].task = t

ThreadsOK ==
  /\ laneThread \in [Placed -> Threads \cup {NoThread}]
  /\ laneActive \in [Placed -> Tasks \cup {NoTask}]
  /\ thread \in [Threads -> [pc : Steps \cup {"idle"},
                             lane : Placed \cup {NoLane},
                             task : Tasks \cup {NoTask}]]
TasksOK ==
  /\ clock \in 0 .. NumTasks
  /\ status \in [Tasks -> TaskStatus]
  /\ lane \in [Tasks -> Placed \cup {NoLane}]
  /\ position \in [Tasks -> Nat]
  /\ cancels \subseteq Tasks
  /\ terminalOrder \in Seq(Tasks)

\* Every variable has its type.
LanesTypeOK ==
  /\ TasksOK /\ ThreadsOK
  /\ queue \in [Placed -> Seq(Tasks)]
  /\ draining \in BOOLEAN

-----------------------------------------------------------------------------
(* Submitting and cancelling.                                              *)

\* _reposition_locked: the place in the list plus the task being executed.
Repositioned(l, q, ahead) ==
  [t \in Tasks |->
     IF \E i \in 1 .. Len(q) : q[i] = t
     THEN (CHOOSE i \in 1 .. Len(q) : q[i] = t) - 1 + ahead
     ELSE position[t]]

Ahead(l) == IF laneActive[l] = NoTask THEN 0 ELSE 1

\* A thread that runs no lane, for threading.Thread.
NewThread == CHOOSE th \in Threads : thread[th].pc = "idle"

\* Presence in _lane_threads is the "has a live worker" flag.
StartsWorker(l) == laneThread[l] = NoThread

Created(t) ==
  /\ clock < NumTasks /\ t = clock + 1
  /\ clock' = t
  /\ status' = [status EXCEPT ![t] = "pending"]

\* create then enqueue: place the task, tell the lane, start its thread.
Submit(kind) == \E t \in Tasks :
  LET q == Append(queue[kind], t) IN
  /\ ~(draining /\ kind[1] = Gpu)
  /\ Created(t)
  /\ queue' = [queue EXCEPT ![kind] = q]
  /\ lane' = [lane EXCEPT ![t] = kind]
  /\ position' = Repositioned(kind, q, Ahead(kind))
  /\ IF StartsWorker(kind)
     THEN /\ \E th \in Threads : thread[th].pc = "idle"
          /\ laneThread' = [laneThread EXCEPT ![kind] = NewThread]
          /\ thread' = [thread EXCEPT ![NewThread] =
                          [pc |-> "take", lane |-> kind, task |-> NoTask]]
     ELSE UNCHANGED <<laneThread, thread>>
  /\ UNCHANGED <<cancels, terminalOrder, laneActive, draining>>

\* The drain gate refuses the enqueue; the record stays behind, pending.
SubmitRefused(kind) == \E t \in Tasks :
  /\ draining /\ kind[1] = Gpu
  /\ Created(t)
  /\ UNCHANGED <<lane, position, cancels, terminalOrder, laneVars, draining>>

\* POST /tasks/{id}/cancel takes any known task; the event of a task that
\* has ended is read by nobody, which is no step.
Cancel(t) ==
  /\ status[t] \in {"pending", "running"}
  /\ cancels' = cancels \cup {t}
  /\ UNCHANGED <<clock, status, lane, position, terminalOrder, laneVars,
                 draining>>

-----------------------------------------------------------------------------
(* The lane thread.                                                        *)

\* _finish and _prune_terminal: the oldest terminal record makes room.
Finish(t, final) ==
  LET order == Append(terminalOrder, t)
      full  == Len(order) > MaxTerminal
  IN
  /\ terminalOrder' = IF full THEN Tail(order) ELSE order
  /\ status' = IF full
               THEN [status EXCEPT ![t] = final, ![Head(order)] = "evicted"]
               ELSE [status EXCEPT ![t] = final]
  /\ cancels' = IF full THEN cancels \ {Head(order)} ELSE cancels

\* The queue is empty: give the lane up under the lock.
Retire(th) ==
  LET l == thread[th].lane IN
  /\ thread[th].pc = "take" /\ queue[l] = <<>>
  /\ laneThread' = [laneThread EXCEPT ![l] = NoThread]
  /\ laneActive' = [laneActive EXCEPT ![l] = NoTask]
  /\ thread' = [thread EXCEPT ![th] = Idle]
  /\ UNCHANGED <<clock, taskVars, queue, draining>>

\* Faulty variant: the last task of the list is taken.
TakeNewest(th) ==
  LET l == thread[th].lane
      n == Len(queue[l])
      q == SubSeq(queue[l], 1, n - 1)
  IN
  /\ thread[th].pc = "take" /\ n > 0
  /\ queue' = [queue EXCEPT ![l] = q]
  /\ laneActive' = [laneActive EXCEPT ![l] = queue[l][n]]
  /\ position' = Repositioned(l, q, 1)
  /\ thread' = [thread EXCEPT ![th].pc = "taken", ![th].task = queue[l][n]]
  /\ UNCHANGED <<clock, status, lane, cancels, terminalOrder, laneThread,
                 draining>>

\* Pop the front task, mark it, and move the others up.
Take(th) ==
  LET l == thread[th].lane
      q == Tail(queue[l])
  IN
  /\ thread[th].pc = "take" /\ queue[l] # <<>>
  /\ queue' = [queue EXCEPT ![l] = q]
  /\ laneActive' = [laneActive EXCEPT ![l] = Head(queue[l])]
  /\ position' = Repositioned(l, q, 1)
  /\ thread' = [thread EXCEPT ![th].pc = "taken", ![th].task = Head(queue[l])]
  /\ UNCHANGED <<clock, status, lane, cancels, terminalOrder, laneThread,
                 draining>>

\* Faulty variant: the flag is not looked at before the worker starts.
CheckNothing(th) ==
  /\ thread[th].pc = "taken"
  /\ thread' = [thread EXCEPT ![th].pc = "start"]
  /\ UNCHANGED <<clock, taskVars, queue, laneThread, laneActive, draining>>

\* Cancelled before it ran: finished without a start.
Check(th) ==
  LET t == thread[th].task IN
  /\ thread[th].pc = "taken"
  /\ IF t \in cancels
     THEN /\ Finish(t, "cancelled")
          /\ thread' = [thread EXCEPT ![th].pc = "close"]
     ELSE /\ thread' = [thread EXCEPT ![th].pc = "start"]
          /\ UNCHANGED <<status, cancels, terminalOrder>>
  /\ UNCHANGED <<clock, lane, position, queue, laneThread, laneActive, draining>>

\* start: RUNNING from here on.
Start(th) ==
  LET t == thread[th].task IN
  /\ thread[th].pc = "start"
  /\ status' = [status EXCEPT ![t] = "running"]
  /\ position' = [position EXCEPT ![t] = 0]
  /\ thread' = [thread EXCEPT ![th].pc = "work"]
  /\ UNCHANGED <<clock, lane, cancels, terminalOrder, queue, laneThread,
                 laneActive, draining>>

\* Faulty variants: the lane infers an end although the worker stated one;
\* the lane falls silent when the worker raised.
WorkerEndsTwice(th) ==
  \E final \in {"completed", "failed"} :
    /\ thread[th].pc = "work"
    /\ Finish(thread[th].task, final)
    /\ thread' = [thread EXCEPT ![th].pc = IF final = "failed" THEN "work"
                                           ELSE "close"]
    /\ UNCHANGED <<clock, lane, position, queue, laneThread, laneActive,
                   draining>>
WorkerEndsOrDies(th) ==
  \E final \in {"completed", "failed"} :
    /\ thread[th].pc = "work"
    /\ Finish(thread[th].task, final)
    /\ thread' = [thread EXCEPT ![th].pc = IF final = "failed" THEN "idle"
                                           ELSE "close"]
    /\ UNCHANGED <<clock, lane, position, queue, laneThread, laneActive,
                   draining>>

\* The worker function finalises its task by its tally, by a failure or, if it
\* saw the flag, as cancelled; one that returns or raises without doing so has
\* its end inferred.
WorkerEnds(th) ==
  \E final \in Terminal :
    /\ thread[th].pc = "work"
    /\ final = "cancelled" => thread[th].task \in cancels
    /\ Finish(thread[th].task, final)
    /\ thread' = [thread EXCEPT ![th].pc = "close"]
    /\ UNCHANGED <<clock, lane, position, queue, laneThread, laneActive,
                   draining>>

\* The finally clause: clear the marker, then look at the queue again.
Close(th) ==
  LET l == thread[th].lane IN
  /\ thread[th].pc = "close"
  /\ laneActive' = [laneActive EXCEPT ![l] = NoTask]
  /\ thread' = [thread EXCEPT ![th].pc = "take", ![th].task = NoTask]
  /\ UNCHANGED <<clock, taskVars, queue, laneThread, draining>>

\* set_draining, called by the self-updater.
SetDraining(on) ==
  /\ draining' = on
  /\ UNCHANGED <<clock, taskVars, laneVars>>

-----------------------------------------------------------------------------
LanesInit ==
  /\ clock = 0 /\ draining = FALSE
  /\ status = [t \in Tasks |-> "absent"]
  /\ lane = [t \in Tasks |-> NoLane]
  /\ position = [t \in Tasks |-> 0]
  /\ cancels = {} /\ terminalOrder = <<>>
  /\ queue = [l \in Placed |-> <<>>]
  /\ laneThread = [l \in Placed |-> NoThread]
  /\ laneActive = [l \in Placed |-> NoTask]
  /\ thread = [th \in Threads |-> Idle]

Routes ==
  \/ \E kind \in Kinds : Submit(kind) \/ SubmitRefused(kind)
  \/ \E t \in Tasks : Cancel(t)

LaneStep(th) == Retire(th) \/ Take(th) \/ Check(th) \/ Start(th) \/ Close(th)

LanesNext ==
  \/ Routes
  \/ \E th \in Threads : LaneStep(th) \/ WorkerEnds(th)
  \/ \E on \in BOOLEAN : SetDraining(on)

LanesSpec == LanesInit /\ [][LanesNext]_lanesVars

-----------------------------------------------------------------------------
(* Properties.                                                             *)

\* A task is in the hands of at most one thread, and of none while it waits:
\* the hand-over of a lane from a thread that gives up to a new one neither
\* loses nor doubles a task ("at most ONE writer per task id").
SingleWriter ==
  /\ \A a, b \in Threads, t \in Tasks : Holds(a, t) /\ Holds(b, t) => a = b
  /\ \A th \in Threads, t \in Tasks : Holds(th, t) => ~Waiting(t)

\* Two tasks of a lane never run together: silent sweeps serialise against
\* each other and gpu tasks do not share the card.
OneRunsPerLane ==
  \A t, u \in Tasks :
    status[t] = "running" /\ status[u] = "running" /\ lane[t] = lane[u] => t = u

\* A task starts only when all tasks put on its lane before it have ended.
StartsInOrder ==
  \A t, u \in Tasks :
    u < t /\ lane[u] = lane[t] /\ lane[t] # NoLane
          /\ status[t] \notin {"absent", "pending"}
    => Ended(u)

\* An end is final: a record is never restarted, nor its end rewritten by a
\* worker that finalises and a lane that infers; it can only be evicted. And
\* only ended records are evicted.
EndIsFinal ==
  [][\A t \in Tasks :
       /\ status[t] \in Terminal => status'[t] \in {status[t], "evicted"}
       /\ status[t] = "evicted" => status'[t] = "evicted"
       /\ status'[t] = "evicted" => Ended(t)]_lanesVars
=============================================================================
