----------------------------- MODULE PauseSignal -----------------------------
(***************************************************************************)
(* Pause, resume and soft stop of a running trainer.  The backend writes   *)
(* one word into signal.json of the job's folder; the trainer reads the    *)
(* file once per step (once per second while paused), deletes it and acts. *)
(* There is no acknowledgement but the trainer's log, whose "paused" and   *)
(* "resumed" lines the backend mirrors into the job's status.              *)
(*                                                                         *)
(* One job, one request in flight at a time, any number of runs.           *)
(*   signal_manager.py   check_signal, clear_signal, handle_signals,       *)
(*                       send_signal                                       *)
(*   pipeline_train.py   the check at the head of every step, soft stop    *)
(*   job_manager.py      pause_job, resume_job, soft_stop_job, start_job,  *)
(*                       recover_jobs, _reconcile_signal_pause             *)
(***************************************************************************)
EXTENDS Naturals, Sequences

CONSTANTS
  MaxRequests,  \* bound: requests of users
  MaxRuns,      \* bound: launches of the job
  MaxCrashes    \* bound: crashes of the backend

ASSUME Bounds == MaxRequests \in Nat /\ MaxRuns \in Nat \ {0} /\ MaxCrashes \in Nat

Signals == {"pause", "resume", "soft_stop"}
None    == "none"
Torn    == "torn"     \* opened for writing, hence empty: json.load fails

VARIABLES
  slot,      \* what signal.json holds
  slotRun,   \* the run during which that was written
  linked,    \* the file the request has open is still signal.json
  request,   \* the request in flight: [op, at]
  status,    \* job.status as the backend holds it
  row,       \* the status column of the job's row
  launch,    \* where start_job is; "none" when it is not at work
  relaunch,  \* this launch is recover_jobs' relaunch of a paused job
  trainer,   \* where the trainer is; "none" when there is no process
  taken,     \* the signal the trainer has read and not yet deleted
  log,       \* lines of job_log.jsonl that are not dispatched yet
  lost,      \* a signal of this run was deleted unread, or a request that
             \* is not answered yet was made of the run before
  runs, requests, crashes

vars == <<slot, slotRun, linked, request, status, row, launch, relaunch,
          trainer, taken, log, lost, runs, requests, crashes>>

Statuses == {"running", "paused", "ended"}
Stages   == {"none", "clear", "spawn", "flip", "repause"}
Phases   == {"none", "loading", "stepping", "paused", "saving"}
Lines    == {"paused", "resumed", "exit"}
Idle     == [op |-> None, at |-> "idle"]

TypeOK ==
  /\ slot \in Signals \cup {None, Torn}
  /\ slotRun \in 0 .. MaxRuns
  /\ linked \in BOOLEAN /\ relaunch \in BOOLEAN /\ lost \in BOOLEAN
  /\ request \in [op : Signals \cup {None}, at : {"idle", "checked", "opened", "sent"}]
  /\ status \in Statuses /\ row \in Statuses
  /\ launch \in Stages
  /\ trainer \in Phases
  /\ taken \in Signals \cup {None}
  /\ log \in Seq(Lines)
  /\ runs \in 1 .. MaxRuns /\ requests \in 0 .. MaxRequests
  /\ crashes \in 0 .. MaxCrashes

\* A job that start_job has just taken up, in a folder where an earlier run
\* may have left a signal.
Init ==
  /\ slot \in Signals \cup {None} /\ slotRun = 0
  /\ linked = FALSE /\ request = Idle
  /\ status = "running" /\ row = "ended"
  /\ launch = "clear" /\ relaunch = FALSE
  /\ trainer = "none" /\ taken = None
  /\ log = << >> /\ lost = FALSE
  /\ runs = 1 /\ requests = 0 /\ crashes = 0

-----------------------------------------------------------------------------
(* The file.                                                               *)

\* Deleting a file that another process has open either unlinks it under
\* that process (POSIX) or fails and is swallowed (Windows).
ClearSignal ==
  \/ slot' = None /\ linked' = FALSE
  \/ linked /\ UNCHANGED <<slot, linked>>

\* The deletion takes a word nobody has read, written for the current run.
TakesUnread(read) == slot \in Signals \ {read} /\ slotRun = runs /\ slot' = None

-----------------------------------------------------------------------------
(* The backend: launches.                                                  *)

launchVars == <<launch, relaunch, runs>>

\* A restart of the ended job: restart_job rotates the log, start_job flips
\* the job to RUNNING in memory before anything else.
StartJob ==
  /\ status = "ended" /\ launch = "none" /\ trainer = "none" /\ runs < MaxRuns
  /\ status' = "running" /\ launch' = "clear" /\ relaunch' = FALSE
  /\ runs' = runs + 1 /\ log' = << >> /\ lost' = (request # Idle)
  /\ UNCHANGED <<slot, slotRun, linked, request, row, trainer, taken, requests, crashes>>

\* Faulty variant: start_job leaves what an earlier run left in the folder.
KeepStale ==
  /\ launch = "clear"
  /\ launch' = "spawn"
  /\ UNCHANGED <<slot, slotRun, linked, request, status, row, relaunch, trainer, taken,
                 log, lost, runs, requests, crashes>>

\* if clear_stale_signal: clear_signal()
ClearStale ==
  /\ launch = "clear"
  /\ ClearSignal
  /\ launch' = "spawn"
  /\ lost' = (lost \/ TakesUnread(None))
  /\ UNCHANGED <<slotRun, request, status, row, relaunch, trainer, taken, log,
                 runs, requests, crashes>>

Spawn ==
  /\ launch = "spawn"
  /\ trainer' = "loading" /\ launch' = "flip"
  /\ UNCHANGED <<slot, slotRun, linked, request, status, row, relaunch, taken, log,
                 lost, runs, requests, crashes>>

\* job.status = RUNNING once more, the row, and only then the log tailer.
Flip ==
  /\ launch = "flip"
  /\ status' = "running" /\ row' = "running"
  /\ launch' = IF relaunch THEN "repause" ELSE "none"
  /\ UNCHANGED <<slot, slotRun, linked, request, relaunch, trainer, taken, log, lost,
                 runs, requests, crashes>>

\* recover_jobs: "set it to PAUSED because the trainer will block".
Repause ==
  /\ launch = "repause"
  /\ status' = "paused" /\ row' = "paused" /\ launch' = "none"
  /\ UNCHANGED <<slot, slotRun, linked, request, relaunch, trainer, taken, log, lost,
                 runs, requests, crashes>>

-----------------------------------------------------------------------------
(* The backend: requests of a user.                                        *)

Allowed(op) ==
  CASE op = "pause"     -> status = "running"
    [] op = "resume"    -> status = "paused"
    [] op = "soft_stop" -> status \in {"running", "paused"}

Ask(op) ==
  /\ request = Idle /\ requests < MaxRequests
  /\ Allowed(op)
  /\ request' = [op |-> op, at |-> "checked"] /\ requests' = requests + 1
  /\ UNCHANGED <<slot, slotRun, linked, status, row, launch, relaunch, trainer,
                 taken, log, lost, runs, crashes>>

\* open(signal_path, "w") truncates.
OpenSignal ==
  /\ request.at = "checked"
  /\ slot' = Torn /\ linked' = TRUE
  /\ request' = [request EXCEPT !.at = "opened"]
  /\ UNCHANGED <<slotRun, status, row, launch, relaunch, trainer, taken, log, lost,
                 runs, requests, crashes>>

\* json.dump and close: the word lands in signal.json, or in a file that was
\* deleted in the meantime.
WriteSignal ==
  /\ request.at = "opened"
  /\ IF linked THEN slot' = request.op /\ slotRun' = runs /\ UNCHANGED lost
               ELSE lost' = TRUE /\ UNCHANGED <<slot, slotRun>>
  /\ linked' = FALSE
  /\ request' = [request EXCEPT !.at = "sent"]
  /\ UNCHANGED <<status, row, launch, relaunch, trainer, taken, log, runs, requests, crashes>>

\* pause_job and resume_job set the status without looking at it again;
\* soft_stop_job leaves it to the exit line.
Answer ==
  /\ request.at = "sent"
  /\ status' = CASE request.op = "pause"     -> "paused"
                 [] request.op = "resume"    -> "running"
                 [] request.op = "soft_stop" -> status
  /\ row' = IF request.op = "soft_stop" THEN row ELSE status'
  /\ request' = Idle
  /\ UNCHANGED <<slot, slotRun, linked, launch, relaunch, trainer, taken, log, lost,
                 runs, requests, crashes>>

-----------------------------------------------------------------------------
(* The backend: the log, and a restart.                                    *)

\* Faulty variant: the backend mirrors pauses, and takes resumes for granted.
MirrorPauses(target) ==
  IF target = "paused" /\ status = "running"
  THEN status' = target /\ row' = target
  ELSE UNCHANGED <<status, row>>

\* _reconcile_signal_pause flips between RUNNING and PAUSED only.
Mirror(target) ==
  IF status \in {"running", "paused"} \ {target}
  THEN status' = target /\ row' = target
  ELSE UNCHANGED <<status, row>>

Deliver ==
  /\ log # << >> /\ launch \in {"none", "repause"}
  /\ log' = Tail(log)
  /\ CASE Head(log) = "paused"  -> Mirror("paused")
       [] Head(log) = "resumed" -> Mirror("running")
       [] Head(log) = "exit"    -> status' = "ended" /\ row' = "ended"
  /\ UNCHANGED <<slot, slotRun, linked, request, launch, relaunch, trainer, taken,
                 lost, runs, requests, crashes>>

\* The backend dies, alone or with the trainer, and starts again: a live
\* trainer is adopted with the status of its row, a dead paused one is
\* relaunched behind a pause signal, a dead running one has ended.
Crash ==
  /\ crashes < MaxCrashes /\ launch = "none"
  /\ crashes' = crashes + 1
  /\ request' = Idle /\ linked' = FALSE
  /\ \E alive \in {trainer, "none"} :
       /\ trainer' = alive
       /\ taken' = IF alive = "none" THEN None ELSE taken
       /\ IF alive = "none" /\ row = "paused" /\ runs < MaxRuns
          THEN /\ slot' = "pause" /\ slotRun' = runs + 1 /\ runs' = runs + 1
               /\ launch' = "spawn" /\ relaunch' = TRUE /\ lost' = FALSE
               /\ status' = "running" /\ UNCHANGED row
          ELSE /\ status' = IF alive = "none" THEN "ended" ELSE row
               /\ row' = status'
               /\ UNCHANGED <<slot, slotRun, lost, launchVars>>
  /\ UNCHANGED <<log, requests>>

-----------------------------------------------------------------------------
(* The trainer.                                                            *)

trainerFrame == <<request, status, launchVars, requests, crashes>>

\* Model and data are loaded; _init_job_history writes 'running' to the row.
Load ==
  /\ trainer = "loading"
  /\ trainer' = "stepping" /\ row' = "running"
  /\ UNCHANGED <<slot, slotRun, linked, taken, log, lost, trainerFrame>>

\* Faulty variant: a paused trainer waits for "resume" and nothing else.
ReadResumeOnly ==
  /\ taken = None /\ slot \in Signals
  /\ \/ trainer = "stepping"
     \/ trainer = "paused" /\ slot = "resume"
  /\ taken' = slot
  /\ log' = IF trainer = "stepping" /\ slot = "pause" THEN Append(log, "paused") ELSE log
  /\ UNCHANGED <<slot, slotRun, linked, row, trainer, lost, trainerFrame>>

\* check_signal finds a word (a torn file counts as none), and the trainer
\* announces a pause before it deletes the file.
ReadSignal ==
  /\ taken = None /\ slot \in Signals
  /\ \/ trainer = "stepping"
     \/ trainer = "paused" /\ slot \in {"resume", "soft_stop"}
  /\ taken' = slot
  /\ log' = IF trainer = "stepping" /\ slot = "pause" THEN Append(log, "paused") ELSE log
  /\ UNCHANGED <<slot, slotRun, linked, row, trainer, lost, trainerFrame>>

\* Faulty variant: leaving a pause, whatever ended it, the training goes on.
ActAndGoOn ==
  /\ taken # None
  /\ ClearSignal
  /\ lost' = (lost \/ TakesUnread(taken))
  /\ trainer' = IF taken = "pause" THEN "paused"
                ELSE IF taken = "soft_stop" /\ trainer # "paused" THEN "saving" ELSE "stepping"
  /\ log' = IF trainer = "paused" /\ taken = "resume" THEN Append(log, "resumed") ELSE log
  /\ taken' = None
  /\ UNCHANGED <<slotRun, row, trainerFrame>>

\* clear_signal, then what the word says; "resume" outside a pause does nothing.
ActOnSignal ==
  /\ taken # None
  /\ ClearSignal
  /\ lost' = (lost \/ TakesUnread(taken))
  /\ trainer' = CASE taken = "pause"     -> "paused"
                  [] taken = "resume"    -> "stepping"
                  [] taken = "soft_stop" -> "saving"
  /\ log' = IF trainer = "paused" /\ taken = "resume" THEN Append(log, "resumed") ELSE log
  /\ taken' = None
  /\ UNCHANGED <<slotRun, row, trainerFrame>>

\* The last step is done, training failed, or the soft stop saved its
\* checkpoint: the exit line is the trainer's last act.
Leave ==
  /\ trainer = "saving" \/ (trainer \in {"loading", "stepping"} /\ taken = None)
  /\ trainer' = "none" /\ log' = Append(log, "exit")
  /\ UNCHANGED <<slot, slotRun, linked, row, taken, lost, trainerFrame>>

-----------------------------------------------------------------------------

Backend == ClearStale \/ Spawn \/ Flip \/ Repause \/ OpenSignal \/ WriteSignal
           \/ Answer \/ Deliver
Trainer == Load \/ ReadSignal \/ ActOnSignal
User    == StartJob \/ \E op \in Signals : Ask(op)

Next == Backend \/ Trainer \/ User \/ Leave \/ Crash

\* Both processes run on; users, crashes and the end of the training are free,
\* but a trainer that saves does come to its exit.
Spec == /\ Init /\ [][Next]_vars
        /\ WF_vars(Backend) /\ WF_vars(Trainer) /\ WF_vars(trainer = "saving" /\ Leave)

-----------------------------------------------------------------------------
(* What must hold.                                                         *)

\* The trainer has read everything meant for it and said so.
Settled ==
  /\ request = Idle /\ launch = "none" /\ log = << >> /\ taken = None
  /\ \/ trainer = "stepping" /\ slot = None
     \/ trainer = "paused" /\ slot \notin {"resume", "soft_stop"}

\* However requests, reads, deletions and late log lines interleave, a backend
\* that did not restart shows PAUSED for exactly the blocked trainers, unless
\* a signal was deleted unread or meant for the run before.
StatusHonest ==
  Settled /\ crashes = 0 /\ ~lost => (status = "paused" <=> trainer = "paused")

\* A trainer never obeys a signal from before its own launch, whatever an
\* earlier run left in the folder (clear_stale_signal of start_job).
ObeysOwnSignals == taken # None => slotRun = runs

\* No signal waits for ever under a live trainer: it is taken or overwritten,
\* except a second pause of a trainer that is paused already.
SignalsTaken ==
  \A s \in Signals :
    (slot = s /\ trainer # "none") ~>
      (slot # s \/ trainer = "none" \/ (s = "pause" /\ trainer = "paused"))

\* A soft stop the trainer has read ends the run, paused or not, unless the
\* trainer is killed first and relaunched.
StopEndsRun == (taken = "soft_stop") ~> (status = "ended" \/ launch = "spawn")
=============================================================================
