------------------------------ MODULE JobQueue ------------------------------
(***************************************************************************)
(* The life of training jobs in JobManager (core/job_manager.py): the      *)
(* in-memory registry, the job_history rows, the trainer subprocesses, and *)
(* the threads that race on them: start_job launches (with their download  *)
(* and spawn windows), log tailers, pid watchdogs, queue-advance threads,  *)
(* auto-resume timers, rebuild relaunches, user requests, and a backend    *)
(* that can crash and recover under trainers that outlive it.              *)
(*                                                                         *)
(* A handler's in-memory change and the write of it to the row are one     *)
(* step; a handler is cut where the code waits: the base-model download,   *)
(* the spawn, the commit, the watchdog's grace sleep, scheduled threads.   *)
(***************************************************************************)
EXTENDS Integers, Sequences, FiniteSets

CONSTANTS
  NumJobs,      \* jobs are numbered in the order of their created_at stamps
  Pids,         \* process ids the OS hands out to trainers
  Threads,      \* threads able to run start_job at the same time
  NoJob, NoPid, \* None
  UserOps,      \* the user operations this instance explores
  AnyTime,      \* those of them that do not wait for a quiet system
  Exits,        \* the ways a trainer ends: ok, err, fault, soft, rebuild, die
  Withdrawn,    \* jobs whose model definition the next release gates
  MaxCrashes,   \* bound: how often the backend process may end and be restarted
  CrashDuring,  \* steps of start_job that a crash may interrupt
  MaxPriority,  \* bound: restarts stop once the queue priority reaches it
  MaxLines,     \* bound: no manual start over this many undelivered exit lines
  MaxResumes,   \* _AUTO_RESUME_MAX_TOTAL
  MaxRebuilds   \* _MAX_REBUILD_RESTARTS

Jobs == 1 .. NumJobs
LaunchSteps == {"claimed", "preflight", "spawned", "attach"}
AllOps == {"create", "start", "stop", "delete", "pause", "resume", "restart",
           "reorder", "autoqueue"}
ExitKinds == {"ok", "err", "fault", "soft", "rebuild"}

ASSUME JobQueueAssumption ==
  /\ NumJobs \in Nat
  /\ NoJob \notin Jobs /\ NoPid \notin Pids
  /\ UserOps \subseteq AllOps
  /\ Exits \subseteq ExitKinds \cup {"die"}
  /\ Withdrawn \subseteq Jobs
  /\ AnyTime \subseteq AllOps /\ MaxCrashes \in Nat
  /\ CrashDuring \subseteq LaunchSteps
  /\ MaxPriority \in Nat /\ MaxLines \in Nat
  /\ MaxResumes \in Nat /\ MaxRebuilds \in Nat

VARIABLES
  server,     \* "up" serving, "booting" in the lifespan hook, "down"
  clock,      \* number of jobs ever created: the next created_at stamp
  gated,      \* jobs the registry refuses to train (unavailable_reason)
  status,     \* _jobs[j].status, "absent" when j is not in the registry
  pid,        \* _jobs[j].pid
  priority,   \* _jobs[j].priority
  dbStatus,   \* job_history.status, "absent" when there is no row
  dbPid,      \* job_history.pid (never cleared by the code)
  dbPriority, \* job_history.priority
  procState,  \* what process p is doing
  procJob,    \* the job in the command line of process p
  log,        \* exit lines of job_log.jsonl beyond the tailer's offset
  tailing,    \* jobs with a live LogTailer
  watch,      \* the pid watchdog thread of process p
  launch,     \* the start_job call each thread is in
  starting,   \* _starting: an advance_queue launch is in flight
  advancing,  \* an advance_queue thread is scheduled
  autoQueue,  \* the persisted jobs.auto_queue preference
  timers,     \* jobs with an armed auto-resume timer
  rebuilding, \* jobs with a scheduled _run_rebuild_restart thread
  resumes,    \* _auto_resume_state[j].total
  rebuilds,   \* _rebuild_restarts[j]
  crashes,    \* how often the backend process has ended
  recovery    \* jobs still to be re-launched paused by recover_jobs

registry == <<status, pid, priority>>
rows     == <<dbStatus, dbPid, dbPriority>>
procs    == <<procState, procJob>>
queue    == <<starting, advancing, autoQueue>>
budgets  == <<timers, rebuilding, resumes, rebuilds>>
host     == <<server, clock, gated, crashes, recovery>>
vars == <<server, clock, gated, status, pid, priority, dbStatus, dbPid,
          dbPriority, procState, procJob, log, tailing, watch, launch, starting,
          advancing, autoQueue, timers, rebuilding, resumes, rebuilds, crashes,
          recovery>>

Active   == {"running", "paused"}
Terminal == {"completed", "failed", "stopped"}
Status   == {"absent", "pending"} \cup Active \cup Terminal
Running  == {"loading", "training"}          \* holds the GPU
Alive(p) == procState[p] \in Running \cup {"closing"}

Idle == [pc |-> "idle", job |-> NoJob, pid |-> NoPid, by |-> "user"]
Launching(j) == \E t \in Threads : launch[t].pc # "idle" /\ launch[t].job = j

HostOK ==
  /\ server \in {"up", "booting", "down"} /\ clock \in 0 .. NumJobs
  /\ gated \subseteq Jobs /\ crashes \in Nat /\ recovery \subseteq Jobs
RegistryOK ==
  /\ status \in [Jobs -> Status]
  /\ pid \in [Jobs -> Pids \cup {NoPid}]
  /\ priority \in [Jobs -> Nat]
RowsOK ==
  /\ dbStatus \in [Jobs -> Status]
  /\ dbPid \in [Jobs -> Pids \cup {NoPid}]
  /\ dbPriority \in [Jobs -> Nat]
ProcsOK ==
  /\ procState \in [Pids -> Running \cup {"closing", "dead"}]
  /\ procJob \in [Pids -> Jobs \cup {NoJob}]
FollowersOK ==
  /\ log \in [Jobs -> Seq(ExitKinds)] /\ tailing \subseteq Jobs
  /\ watch \in [Pids -> {"off", "on", "grace"}]
LaunchOK ==
  /\ launch \in [Threads ->
       [pc : LaunchSteps \cup {"idle"},
        job : Jobs \cup {NoJob}, pid : Pids \cup {NoPid},
        by : {"user", "claim", "auto"}]]
  /\ \A t \in Threads : launch[t].pc # "idle" => launch[t].job \in Jobs
QueueOK ==
  /\ starting \in BOOLEAN /\ advancing \in BOOLEAN /\ autoQueue \in BOOLEAN
BudgetsOK ==
  /\ timers \subseteq Jobs /\ rebuilding \subseteq Jobs
  /\ resumes \in [Jobs -> Nat] /\ rebuilds \in [Jobs -> Nat]

\* Every variable has its type; a launch always names a job.
TypeOK ==
  /\ HostOK /\ RegistryOK /\ RowsOK /\ ProcsOK
  /\ FollowersOK /\ LaunchOK /\ QueueOK /\ BudgetsOK

-----------------------------------------------------------------------------
(* Helpers shared by the handlers.                                         *)

\* The run order: lower priority first, created_at breaks ties.
Before(prio, j, k) == prio[j] < prio[k] \/ (prio[j] = prio[k] /\ j < k)
PendingIn(st) == {j \in Jobs : st[j] = "pending"}

\* Faulty variant: the priority is ignored.
IsFirstByAge(st, j) ==
  j \in PendingIn(st) /\ \A k \in PendingIn(st) \ {j} : j < k

IsFirst(st, j) ==
  j \in PendingIn(st) /\ \A k \in PendingIn(st) \ {j} : Before(priority, j, k)

\* Faulty variant: INSERT OR REPLACE.
PersistUpserts(st, j, s) == [st EXCEPT ![j] = s]

\* An UPDATE touches existing rows only.
Persist(st, j, s) == IF st[j] = "absent" THEN st ELSE [st EXCEPT ![j] = s]

\* _is_trainer_process: a live process whose command line names the job.
IsTrainer(p, j) == p \in Pids /\ Alive(p) /\ procJob[p] = j

\* Faulty variant: the kill is asked for, its effect on the tree is lost.
KilledLauncherOnly(p) == procState

\* _terminate_process_tree: None and dead processes are skipped.
Killed(p) ==
  [q \in Pids |-> IF q = p /\ Alive(q) THEN "dead" ELSE procState[q]]

\* A process id the OS may give to a trainer of job j: rows of other jobs may
\* still name it, threads do not.
Fresh(p, j) ==
  /\ ~Alive(p) /\ watch[p] = "off" /\ dbPid[j] # p
  /\ \A t \in Threads : launch[t].pid # p

\* _reconcile_active_jobs: active jobs with a recorded pid and no live trainer.
Phantoms ==
  {j \in Jobs : status[j] \in Active /\ pid[j] # NoPid /\ ~IsTrainer(pid[j], j)}
Failed(st)    == [j \in Jobs |-> IF j \in Phantoms THEN "failed" ELSE st[j]]
HealedStatus  == Failed(status)
HealedRows    == [j \in Jobs |-> IF j \in Phantoms /\ dbStatus[j] # "absent"
                                 THEN "failed" ELSE dbStatus[j]]
HealedPid     == [j \in Jobs |-> IF j \in Phantoms THEN NoPid ELSE pid[j]]

\* Nothing the user cannot see is still in progress.
Quiet ==
  /\ ~advancing /\ rebuilding = {}
  /\ \A t \in Threads : launch[t].pc = "idle"
  /\ \A p \in Pids : watch[p] # "off" => procState[p] \in Running
May(op) == server = "up" /\ op \in UserOps /\ (op \in AnyTime \/ Quiet)

-----------------------------------------------------------------------------
(* start_job, one step per window.                                         *)

\* Faulty variant: the claim is released on one exit path only.
ReleaseSometimes(t) ==
  /\ launch' = [launch EXCEPT ![t] = Idle]
  /\ starting' = (IF launch[t].pc = "attach" THEN FALSE ELSE starting)

\* Leave start_job; advance_queue's finally releases the claim.
Release(t) ==
  /\ launch' = [launch EXCEPT ![t] = Idle]
  /\ starting' = (IF launch[t].by = "claim" THEN FALSE ELSE starting)

\* Faulty variant: the advance loop gives up after a failed launch.
RaiseAndStop(t) == Release(t) /\ UNCHANGED advancing

\* An exception leaves start_job: the advance loop and the relaunch threads
\* try the queue again, a user request only reports the error.
Raise(t) ==
  /\ Release(t)
  /\ advancing' = (advancing \/ launch[t].by # "user")

\* POST /jobs/{id}/start: the page offers it on pending cards, the route takes
\* any job that is not running. A refused request changes nothing.
StartNow(t, j) ==
  /\ May("start") /\ status[j] \notin {"absent", "running"}
  /\ j \notin gated /\ launch[t].pc = "idle" /\ Len(log[j]) < MaxLines
  /\ status' = [status EXCEPT ![j] = "running"]
  /\ launch' = [launch EXCEPT ![t] =
                  [pc |-> "preflight", job |-> j, pid |-> NoPid, by |-> "user"]]
  /\ UNCHANGED <<pid, priority, rows, procs, log, tailing, watch, queue,
                 budgets, host>>

\* Entry of start_job for a launch decided elsewhere: the availability and the
\* status check, then RUNNING in memory only while the base model downloads.
BeginLaunch(t) ==
  LET j == launch[t].job IN
  /\ launch[t].pc = "claimed"
  /\ IF status[j] \in {"absent", "running"} \/ j \in gated
     THEN Raise(t) /\ UNCHANGED status
     ELSE /\ status' = [status EXCEPT ![j] = "running"]
          /\ launch' = [launch EXCEPT ![t].pc = "preflight"]
          /\ UNCHANGED <<starting, advancing>>
  /\ UNCHANGED <<pid, priority, rows, procs, log, tailing, watch, autoQueue,
                 budgets, host>>

\* The download ended: abandon a deleted job, else spawn its trainer.
Spawn(t) ==
  LET j == launch[t].job IN
  /\ launch[t].pc = "preflight"
  /\ \/ /\ status[j] = "absent"
        /\ Release(t) /\ UNCHANGED procs
     \/ \E p \in Pids :
        /\ status[j] # "absent" /\ Fresh(p, j)
        /\ procState' = [procState EXCEPT ![p] = "loading"]
        /\ procJob' = [procJob EXCEPT ![p] = j]
        /\ launch' = [launch EXCEPT ![t].pc = "spawned", ![t].pid = p]
        /\ UNCHANGED starting
  /\ UNCHANGED <<registry, rows, log, tailing, watch, advancing, autoQueue,
                 budgets, host>>

\* Faulty variant: an exception type start_job does not catch.
LaunchFailsUncaught(t) ==
  /\ launch[t].pc = "preflight"
  /\ Raise(t)
  /\ UNCHANGED <<registry, rows, procs, log, tailing, watch, autoQueue, budgets,
                 host>>

\* Preparing or spawning the trainer raised (a failed download is swallowed):
\* the job is FAILED and the error propagates.
LaunchFails(t) ==
  LET j == launch[t].job IN
  /\ launch[t].pc = "preflight"
  /\ status' = Persist(status, j, "failed")
  /\ dbStatus' = Persist(dbStatus, j, "failed")
  /\ Raise(t)
  /\ UNCHANGED <<pid, priority, dbPid, dbPriority, procs, log, tailing, watch,
                 autoQueue, budgets, host>>

\* Back from start_training: kill the trainer of a job deleted meanwhile,
\* else RUNNING in memory and in the row.
Commit(t) ==
  LET j == launch[t].job IN
  /\ launch[t].pc = "spawned"
  /\ IF status[j] = "absent"
     THEN /\ procState' = Killed(launch[t].pid)
          /\ Release(t)
          /\ UNCHANGED <<status, dbStatus>>
     ELSE /\ status' = [status EXCEPT ![j] = "running"]
          /\ dbStatus' = Persist(dbStatus, j, "running")
          /\ launch' = [launch EXCEPT ![t].pc = "attach"]
          /\ UNCHANGED <<procState, starting>>
  /\ UNCHANGED <<pid, priority, dbPid, dbPriority, procJob, log, tailing, watch,
                 advancing, autoQueue, budgets, host>>

\* The pid is recorded (row: status running again), tailer and watchdog start.
Attach(t) ==
  LET j == launch[t].job
      p == launch[t].pid IN
  /\ launch[t].pc = "attach"
  /\ pid' = IF status[j] = "absent" THEN pid ELSE [pid EXCEPT ![j] = p]
  /\ dbStatus' = Persist(dbStatus, j, "running")
  /\ dbPid' = IF dbStatus[j] = "absent" THEN dbPid ELSE [dbPid EXCEPT ![j] = p]
  /\ tailing' = tailing \cup {j}
  /\ watch' = [watch EXCEPT ![p] = "on"]
  /\ Release(t)
  /\ UNCHANGED <<status, priority, dbPriority, procs, log, advancing, autoQueue,
                 budgets, host>>

-----------------------------------------------------------------------------
(* The queue.                                                              *)

\* advance_queue with auto-queue off returns at once.
AdvanceOff ==
  /\ server # "down" /\ advancing /\ ~autoQueue
  /\ advancing' = FALSE
  /\ UNCHANGED <<registry, rows, procs, log, tailing, watch, launch, starting,
                 autoQueue, budgets, host>>

\* Faulty variants: a paused job does not count as holding the GPU; the
\* in-flight guard is not looked at.
CanClaimOverPaused ==
  /\ ~starting
  /\ \A j \in Jobs : HealedStatus[j] # "running"
  /\ PendingIn(HealedStatus) # {}
CanClaimTwice ==
  /\ \A j \in Jobs : HealedStatus[j] \notin Active
  /\ PendingIn(HealedStatus) # {}

\* advance_queue: drop the phantoms, then _claim_next_pending.
CanClaim ==
  /\ ~starting
  /\ \A j \in Jobs : HealedStatus[j] \notin Active
  /\ PendingIn(HealedStatus) # {}
AdvanceQueue(t) ==
  /\ server # "down" /\ advancing /\ autoQueue /\ launch[t].pc = "idle"
  /\ status' = HealedStatus /\ dbStatus' = HealedRows /\ pid' = HealedPid
  /\ tailing' = tailing \ Phantoms
  /\ advancing' = FALSE
  /\ IF CanClaim
     THEN \E j \in Jobs :
          /\ IsFirst(HealedStatus, j)
          /\ starting' = TRUE
          /\ launch' = [launch EXCEPT ![t] =
               [pc |-> "claimed", job |-> j, pid |-> NoPid, by |-> "claim"]]
     ELSE UNCHANGED <<starting, launch>>
  /\ UNCHANGED <<priority, dbPid, dbPriority, procs, log, watch, autoQueue,
                 budgets, host>>

\* PUT /jobs/settings/auto-queue: switching it on drains a backlog.
SetAutoQueue(on) ==
  /\ May("autoqueue") /\ on # autoQueue
  /\ autoQueue' = on
  /\ advancing' = (advancing \/ on)
  /\ UNCHANGED <<registry, rows, procs, log, tailing, watch, launch, starting,
                 budgets, host>>

\* create_job and its route: register, insert the row, nudge the queue.
CreateJob ==
  LET j == clock + 1 IN
  /\ May("create") /\ clock < NumJobs /\ j \notin gated
  /\ clock' = j
  /\ status' = [status EXCEPT ![j] = "pending"]
  /\ dbStatus' = [dbStatus EXCEPT ![j] = "pending"]
  /\ advancing' = TRUE
  /\ UNCHANGED <<server, gated, crashes, recovery, pid, priority, dbPid,
                 dbPriority, procs, log, tailing, watch, launch, starting,
                 autoQueue, budgets>>

Rank(j) == Cardinality({k \in PendingIn(status) : Before(priority, k, j)})
MovedUp(j) == [k \in Jobs |->
  IF status[k] # "pending" THEN priority[k]
  ELSE CASE k = j                 -> Rank(j) - 1
         [] Rank(k) = Rank(j) - 1 -> Rank(j)
         [] OTHER                 -> Rank(k)]

\* Faulty variant: the new order is not persisted.
ReorderInMemory(j) ==
  /\ May("reorder") /\ status[j] = "pending" /\ Rank(j) > 0
  /\ priority' = MovedUp(j)
  /\ UNCHANGED <<status, pid, rows, procs, log, tailing, watch, launch, queue,
                 budgets, host>>

\* reorder_pending "up": swap with the pending job just before, renumber all;
\* "down" is the same swap asked of the other job.
ReorderUp(j) ==
  /\ May("reorder") /\ status[j] = "pending" /\ Rank(j) > 0
  /\ priority' = MovedUp(j)
  /\ dbPriority' = [k \in Jobs |-> IF status[k] = "pending" THEN MovedUp(j)[k]
                                   ELSE dbPriority[k]]
  /\ UNCHANGED <<status, pid, dbStatus, dbPid, procs, log, tailing, watch,
                 launch, queue, budgets, host>>

-----------------------------------------------------------------------------
(* User control of a run.                                                  *)

\* stop_job: kill the recorded tree, mark STOPPED unconditionally.
StopJob(j) ==
  /\ May("stop") /\ status[j] \in Active
  /\ procState' = Killed(pid[j])
  /\ status' = [status EXCEPT ![j] = "stopped"]
  /\ pid' = [pid EXCEPT ![j] = NoPid]
  /\ dbStatus' = Persist(dbStatus, j, "stopped")
  /\ tailing' = tailing \ {j}
  /\ advancing' = TRUE
  /\ UNCHANGED <<priority, dbPid, dbPriority, procJob, log, watch, launch,
                 starting, autoQueue, budgets, host>>

\* delete_job(force=True): kill an active job's tree, drop registry and row.
DeleteJob(j) ==
  /\ May("delete") /\ status[j] # "absent"
  /\ procState' = IF status[j] \in Active THEN Killed(pid[j]) ELSE procState
  /\ advancing' = (advancing \/ status[j] \in Active)
  /\ status' = [status EXCEPT ![j] = "absent"]
  /\ pid' = [pid EXCEPT ![j] = NoPid]
  /\ priority' = [priority EXCEPT ![j] = 0]
  /\ dbStatus' = [dbStatus EXCEPT ![j] = "absent"]
  /\ dbPid' = [dbPid EXCEPT ![j] = NoPid]
  /\ dbPriority' = [dbPriority EXCEPT ![j] = 0]
  /\ tailing' = tailing \ {j}
  /\ resumes' = [resumes EXCEPT ![j] = 0]
  /\ rebuilds' = [rebuilds EXCEPT ![j] = 0]
  /\ UNCHANGED <<procJob, log, watch, launch, starting, autoQueue, timers,
                 rebuilding, host>>

\* pause_job and resume_job: the signal file is PauseSignal's concern.
PauseJob(j) ==
  /\ May("pause") /\ status[j] = "running"
  /\ status' = [status EXCEPT ![j] = "paused"]
  /\ dbStatus' = Persist(dbStatus, j, "paused")
  /\ UNCHANGED <<pid, priority, dbPid, dbPriority, procs, log, tailing, watch,
                 launch, queue, budgets, host>>

ResumeJob(j) ==
  /\ May("resume") /\ status[j] = "paused"
  /\ status' = [status EXCEPT ![j] = "running"]
  /\ dbStatus' = Persist(dbStatus, j, "running")
  /\ UNCHANGED <<pid, priority, dbPid, dbPriority, procs, log, tailing, watch,
                 launch, queue, budgets, host>>

\* restart_job: rotate the log, heal, back to PENDING behind every pending
\* job, and launch unless a job is RUNNING or PAUSED.
IsNextPriority(prio, st, j) ==
  /\ \A k \in PendingIn(st) \ {j} : priority[k] < prio
  /\ prio = 0 \/ \E k \in PendingIn(st) \ {j} : priority[k] = prio - 1
Requeue(t, j, by) == \E prio \in 0 .. MaxPriority :
  LET busy == \E k \in Jobs \ {j} : HealedStatus[k] \in Active IN
  /\ launch[t].pc = "idle" /\ IsNextPriority(prio, HealedStatus, j)
  /\ log' = [log EXCEPT ![j] = <<>>]
  /\ tailing' = tailing \ (Phantoms \cup {j})
  /\ status' = [HealedStatus EXCEPT ![j] = "pending"]
  /\ pid' = [HealedPid EXCEPT ![j] = NoPid]
  /\ priority' = [priority EXCEPT ![j] = prio]
  /\ dbStatus' = Persist(HealedRows, j, "pending")
  /\ dbPriority' = [dbPriority EXCEPT ![j] = prio]
  /\ launch' = IF busy THEN launch
               ELSE [launch EXCEPT ![t] =
                       [pc |-> "claimed", job |-> j, pid |-> NoPid, by |-> by]]
  /\ UNCHANGED <<dbPid, procs, watch, starting, autoQueue, host>>

\* POST /jobs/{id}/restart: the page offers it on archived cards, the route
\* takes a paused job too.
RestartJob(t, j) ==
  /\ May("restart") /\ status[j] \in Terminal \cup {"paused"}
  /\ Requeue(t, j, "user")
  /\ UNCHANGED <<advancing, budgets>>

-----------------------------------------------------------------------------
(* The trainer subprocess.                                                 *)

\* _init_job_history: training starts, the trainer writes the row itself.
TrainerStarts(p) ==
  /\ procState[p] = "loading"
  /\ procState' = [procState EXCEPT ![p] = "training"]
  /\ dbStatus' = Persist(dbStatus, procJob[p], "running")
  /\ UNCHANGED <<registry, dbPid, dbPriority, procJob, log, tailing, watch,
                 launch, queue, budgets, host>>

\* The run ends: a finished one is completed in the row by the trainer
\* (_complete_job_history), then the exit line goes to the log.
TrainerExits(p, kind) ==
  /\ kind \in Exits \cap ExitKinds
  /\ procState[p] = "training"
     \/ (procState[p] = "loading" /\ kind \in {"err", "fault"})
  /\ procState' = [procState EXCEPT ![p] = "closing"]
  /\ dbStatus' = IF kind = "ok" THEN Persist(dbStatus, procJob[p], "completed")
                 ELSE dbStatus
  /\ log' = [log EXCEPT ![procJob[p]] = Append(@, kind)]
  /\ UNCHANGED <<registry, dbPid, dbPriority, procJob, tailing, watch, launch,
                 queue, budgets, host>>

\* The process disappears: after its exit line, or killed without one.
TrainerGone(p) ==
  /\ procState[p] = "closing" \/ (procState[p] \in Running /\ "die" \in Exits)
  /\ procState' = [procState EXCEPT ![p] = "dead"]
  /\ UNCHANGED <<registry, rows, procJob, log, tailing, watch, launch, queue,
                 budgets, host>>

-----------------------------------------------------------------------------
(* Background threads that finalise a run.                                 *)

\* The terminal part of _handle_exit_message.
Finish(j, final) ==
  /\ status' = [status EXCEPT ![j] = final]
  /\ pid' = [pid EXCEPT ![j] = NoPid]
  /\ dbStatus' = Persist(dbStatus, j, final)
  /\ tailing' = tailing \ {j}

\* The tailer delivers the next exit line to _handle_exit_message. An exit 0
\* of a rebuild parks the job STOPPED and schedules its relaunch, or fails the
\* job when its checkpoint or the budget is refused; a GPU fault arms the
\* cooldown timer if a checkpoint and the budget allow it.
HandleExit(j) ==
  LET kind == Head(log[j])
      code0 == kind \in {"ok", "soft", "rebuild"}
      relaunch == kind = "rebuild" /\ status[j] # "stopped"
  IN
  /\ server # "down" /\ j \in tailing /\ log[j] # <<>>
  /\ log' = [log EXCEPT ![j] = Tail(@)]
  /\ \/ /\ status[j] = "absent"
        /\ UNCHANGED <<registry, dbStatus, tailing, advancing, budgets>>
     \/ /\ status[j] # "absent" /\ relaunch /\ rebuilds[j] < MaxRebuilds
        /\ status' = [status EXCEPT ![j] = "stopped"]
        /\ pid' = [pid EXCEPT ![j] = NoPid]
        /\ dbStatus' = Persist(dbStatus, j, "stopped")
        /\ rebuilds' = [rebuilds EXCEPT ![j] = @ + 1]
        /\ rebuilding' = rebuilding \cup {j}
        /\ UNCHANGED <<priority, tailing, advancing, timers, resumes>>
     \/ /\ status[j] # "absent" /\ code0 /\ ~relaunch
        /\ Finish(j, IF kind = "soft" THEN "stopped" ELSE "completed")
        /\ advancing' = (advancing \/ kind # "soft")
        /\ IF kind = "soft"
           THEN UNCHANGED <<resumes, rebuilds>>
           ELSE /\ resumes' = [resumes EXCEPT ![j] = 0]
                /\ rebuilds' = [rebuilds EXCEPT ![j] = 0]
        /\ UNCHANGED <<priority, timers, rebuilding>>
     \/ /\ status[j] # "absent"
        /\ ~code0 \/ relaunch
        /\ Finish(j, IF status[j] = "stopped" THEN "stopped" ELSE "failed")
        /\ \/ /\ kind = "fault" /\ status[j] # "stopped"
              /\ resumes[j] < MaxResumes
              /\ resumes' = [resumes EXCEPT ![j] = @ + 1]
              /\ timers' = timers \cup {j}
              /\ UNCHANGED advancing
           \/ /\ advancing' = (advancing \/ status[j] # "stopped")
              /\ UNCHANGED <<resumes, timers>>
        /\ UNCHANGED <<priority, rebuilds, rebuilding>>
  /\ UNCHANGED <<dbPid, dbPriority, procs, watch, launch, starting, autoQueue,
                 host>>

\* _fire: the cooldown is over; stand down unless the job is still terminal
\* and not STOPPED, else resume_from_checkpoint -> restart_job, or fail.
FireTimer(t, j) ==
  /\ server # "down" /\ j \in timers
  /\ timers' = timers \ {j}
  /\ \/ /\ status[j] \notin {"failed", "completed"}
        /\ UNCHANGED <<registry, rows, procs, log, tailing, watch, launch,
                       queue, host>>
     \/ /\ status[j] \in {"failed", "completed"}
        /\ Requeue(t, j, "auto")
        /\ UNCHANGED advancing
     \/ /\ status[j] \in {"failed", "completed"}
        /\ advancing' = TRUE
        /\ UNCHANGED <<registry, rows, procs, log, tailing, watch, launch,
                       starting, autoQueue, host>>
  /\ UNCHANGED <<rebuilding, resumes, rebuilds>>

\* _run_rebuild_restart: stand down unless still parked STOPPED.
RunRebuild(t, j) ==
  /\ server # "down" /\ j \in rebuilding
  /\ rebuilding' = rebuilding \ {j}
  /\ \/ /\ status[j] # "stopped"
        /\ UNCHANGED <<registry, rows, procs, log, tailing, watch, launch,
                       queue, host>>
     \/ /\ status[j] = "stopped"
        /\ Requeue(t, j, "auto")
        /\ UNCHANGED advancing
  /\ UNCHANGED <<timers, resumes, rebuilds>>

\* Faulty variant: the watchdog only sees its own end, never the job.
WatchdogForgets(p) ==
  /\ server # "down" /\ watch[p] = "on" /\ ~Alive(p)
  /\ watch' = [watch EXCEPT ![p] = "off"]
  /\ UNCHANGED <<registry, rows, procs, log, tailing, launch, queue, budgets,
                 host>>

\* The watchdog of process p: p is dead, or the kept handle of the job's
\* current process is. It ends unless the job is active; then it sleeps once
\* more to let the tailer deliver a final line.
WatchdogNotices(p) ==
  LET j == procJob[p] IN
  /\ server # "down" /\ watch[p] = "on"
  /\ ~Alive(p) \/ (pid[j] # NoPid /\ ~Alive(pid[j]))
  /\ watch' = [watch EXCEPT ![p] =
                 IF status[j] \in Active THEN "grace" ELSE "off"]
  /\ UNCHANGED <<registry, rows, procs, log, tailing, launch, queue, budgets,
                 host>>

\* After the grace sleep (two seconds, several tailer polls, so the lines of
\* a tailed log are delivered): finalise the job if it is still active.
WatchdogFinalizes(p) ==
  LET j == procJob[p] IN
  /\ server # "down" /\ watch[p] = "grace"
  /\ j \in tailing => log[j] = <<>>
  /\ watch' = [watch EXCEPT ![p] = "off"]
  /\ IF status[j] \in Active
     THEN Finish(j, "stopped") /\ procState' = Killed(p) /\ advancing' = TRUE
     ELSE UNCHANGED <<status, pid, dbStatus, tailing, procState, advancing>>
  /\ UNCHANGED <<priority, dbPid, dbPriority, procJob, log, launch, starting,
                 autoQueue, budgets, host>>

-----------------------------------------------------------------------------
(* Backend crash, load_from_db and recover_jobs.                           *)

\* The backend process ends: everything in memory is gone, trainers live on.
Crash ==
  /\ server # "down" /\ crashes < MaxCrashes
  /\ \A t \in Threads : launch[t].pc \in CrashDuring \cup {"idle"}
  /\ server' = "down" /\ crashes' = crashes + 1
  /\ status' = [j \in Jobs |-> "absent"]
  /\ pid' = [j \in Jobs |-> NoPid]
  /\ priority' = [j \in Jobs |-> 0]
  /\ tailing' = {} /\ recovery' = {} /\ timers' = {} /\ rebuilding' = {}
  /\ watch' = [p \in Pids |-> "off"]
  /\ launch' = [t \in Threads |-> Idle]
  /\ starting' = FALSE /\ advancing' = FALSE
  /\ resumes' = [j \in Jobs |-> 0] /\ rebuilds' = [j \in Jobs |-> 0]
  /\ UNCHANGED <<clock, gated, rows, procs, log, autoQueue>>

\* Faulty variant: only a running job is checked for a surviving trainer.
SurvivesUnpaused(j) == dbStatus[j] = "running" /\ IsTrainer(dbPid[j], j)

Survives(j) == dbStatus[j] \in Active /\ IsTrainer(dbPid[j], j)
Interrupted(j) == dbStatus[j] = "running" /\ ~Survives(j)

\* Faulty variant: the demotion to stopped is kept in memory.
RowsAsFound == dbStatus

\* The rows of interrupted jobs are demoted to stopped.
DemotedRows ==
  [j \in Jobs |-> IF Interrupted(j) THEN "stopped" ELSE dbStatus[j]]

\* load_from_db, and recover_jobs for the trainers that survived. The release
\* that starts may be a newer one.
Boot ==
  /\ server = "down" /\ server' = "booting" /\ gated' = Withdrawn
  /\ status' = [j \in Jobs |->
       CASE Interrupted(j)                          -> "stopped"
         [] dbStatus[j] = "paused" /\ ~Survives(j)  -> "pending"
         [] OTHER                                   -> dbStatus[j]]
  /\ dbStatus' = DemotedRows
  /\ pid' = dbPid
  /\ priority' = dbPriority
  /\ recovery' = {j \in Jobs : dbStatus[j] = "paused" /\ ~Survives(j)}
  /\ tailing' = {j \in Jobs : Survives(j)}
  /\ watch' = [p \in Pids |->
       IF \E j \in Jobs : Survives(j) /\ dbPid[j] = p THEN "on" ELSE "off"]
  /\ UNCHANGED <<clock, crashes, dbPid, dbPriority, procs, log, launch, queue,
                 budgets>>

\* recover_jobs, relaunch_paused: write the pause signal, start_job without
\* preflight, then PAUSED; an exception leaves the job STOPPED.
Relaunch(j) ==
  /\ server = "booting" /\ j \in recovery
  /\ recovery' = recovery \ {j}
  /\ \/ \E p \in Pids :
        /\ Fresh(p, j) /\ j \notin gated
        /\ procState' = [procState EXCEPT ![p] = "loading"]
        /\ procJob' = [procJob EXCEPT ![p] = j]
        /\ status' = [status EXCEPT ![j] = "paused"]
        /\ dbStatus' = Persist(dbStatus, j, "paused")
        /\ pid' = [pid EXCEPT ![j] = p]
        /\ dbPid' = [dbPid EXCEPT ![j] = p]
        /\ tailing' = tailing \cup {j}
        /\ watch' = [watch EXCEPT ![p] = "on"]
     \/ /\ status' = [status EXCEPT ![j] = "stopped"]
        /\ dbStatus' = Persist(dbStatus, j, "stopped")
        /\ UNCHANGED <<procs, pid, dbPid, tailing, watch>>
  /\ UNCHANGED <<server, clock, gated, crashes, priority, dbPriority, log,
                 launch, queue, budgets>>

\* The lifespan hook ends by scheduling an advance; requests are served.
BootDone ==
  /\ server = "booting" /\ recovery = {}
  /\ server' = "up" /\ advancing' = TRUE
  /\ UNCHANGED <<clock, gated, crashes, recovery, registry, rows, procs, log,
                 tailing, watch, launch, starting, autoQueue, budgets>>

-----------------------------------------------------------------------------
Init ==
  /\ server = "up" /\ clock = 0 /\ gated = {} /\ crashes = 0 /\ recovery = {}
  /\ status = [j \in Jobs |-> "absent"] /\ dbStatus = [j \in Jobs |-> "absent"]
  /\ pid = [j \in Jobs |-> NoPid] /\ dbPid = [j \in Jobs |-> NoPid]
  /\ priority = [j \in Jobs |-> 0] /\ dbPriority = [j \in Jobs |-> 0]
  /\ procState = [p \in Pids |-> "dead"] /\ procJob = [p \in Pids |-> NoJob]
  /\ log = [j \in Jobs |-> <<>>] /\ tailing = {}
  /\ watch = [p \in Pids |-> "off"]
  /\ launch = [t \in Threads |-> Idle]
  /\ starting = FALSE /\ advancing = FALSE /\ autoQueue = TRUE
  /\ timers = {} /\ rebuilding = {}
  /\ resumes = [j \in Jobs |-> 0] /\ rebuilds = [j \in Jobs |-> 0]

LaunchStep(t) ==
  BeginLaunch(t) \/ Spawn(t) \/ LaunchFails(t) \/ Commit(t) \/ Attach(t)
TrainerEnds(p) ==
  TrainerGone(p) \/ \E kind \in ExitKinds : TrainerExits(p, kind)

Next ==
  \/ \E t \in Threads :
       \/ LaunchStep(t)
       \/ AdvanceQueue(t)
       \/ \E j \in Jobs : \/ StartNow(t, j) \/ RestartJob(t, j)
                          \/ FireTimer(t, j) \/ RunRebuild(t, j)
  \/ \E j \in Jobs : \/ StopJob(j) \/ DeleteJob(j) \/ PauseJob(j)
                     \/ ResumeJob(j) \/ ReorderUp(j) \/ HandleExit(j)
                     \/ Relaunch(j)
  \/ \E p \in Pids : \/ TrainerStarts(p) \/ TrainerEnds(p)
                     \/ WatchdogNotices(p) \/ WatchdogFinalizes(p)
  \/ AdvanceOff \/ CreateJob \/ (\E on \in BOOLEAN : SetAutoQueue(on))
  \/ Crash \/ Boot \/ BootDone

Spec == Init /\ [][Next]_vars
-----------------------------------------------------------------------------
(* Safety.                                                                 *)

\* The claim of advance_queue (_starting) is held exactly while one launch it
\* made is in progress: it is never lost (a second launch could start) and
\* never leaked by an error path (no launch would ever start again).
ClaimHeld ==
  LET claims ==
        {t \in Threads : launch[t].pc # "idle" /\ launch[t].by = "claim"}
  IN  /\ starting <=> claims # {}
      /\ \A t, u \in claims : t = u

\* A running or paused job is either inside start_job or has a recorded pid
\* that a watchdog thread of that job still follows: whatever happens to the
\* trainer, somebody will notice and free the queue.
ActiveIsWatched ==
  server # "down" =>
    \A j \in Jobs : status[j] \in Active =>
      \/ Launching(j)
      \/ pid[j] # NoPid /\ watch[pid[j]] # "off" /\ procJob[pid[j]] = j

\* A deleted job stays deleted: late exit lines, timers, launches in progress
\* and the trainer's own row writes never bring back the entry or the row.
DeletedForGood ==
  [][\A j \in 1 .. clock :
       dbStatus[j] = "absent" =>
         dbStatus'[j] = "absent" /\ status'[j] = "absent"]_vars

\* The GPU rule: at most one trainer process is loading or training.
SingleTrainer == Cardinality({p \in Pids : procState[p] \in Running}) <= 1

\* No GPU zombie: while the backend is up every trainer is known to it, as the
\* recorded process of an active job or in the hands of the launch that made it.
Tracked(p) ==
  \/ status[procJob[p]] \in Active /\ pid[procJob[p]] = p
  \/ \E t \in Threads : launch[t].pid = p
NoOrphanTrainer ==
  server = "up" => \A p \in Pids : procState[p] \in Running => Tracked(p)

\* A trainer whose pid has reached the row survives a backend crash in the
\* eyes of the next backend: it is adopted, not left behind as a zombie.
RecordedTrainerAdopted ==
  server = "up" =>
    \A p \in Pids :
      procState[p] \in Running /\ dbPid[procJob[p]] = p => Tracked(p)

\* The row of a job that is neither launching nor active says what the
\* registry says, so a restart of the backend would not change its fate.
DbAgrees ==
  server = "up" =>
    \A j \in Jobs :
      ~Launching(j) /\ status[j] \notin Active =>
        /\ dbStatus[j] = status[j]
        /\ status[j] = "pending" => dbPriority[j] = priority[j]

\* A finished job is not revived behind the user's back: it leaves a terminal
\* status only by a restart (to pending), by deletion, or when the trainer
\* finished the run although a stop had been asked for.
NoRevival ==
  [][server = "up" /\ server' = "up" =>
       \A j \in Jobs : status[j] \in Terminal =>
         status'[j] \in Terminal \cup {"pending", "absent"}]_vars

-----------------------------------------------------------------------------
(* The abstract queue that the code implements.                            *)

Waiting  == {j \in Jobs : status[j] = "pending" /\ ~Launching(j)}
Ahead    == {e \in Waiting \X Waiting : Before(priority, e[1], e[2])}
Arranged == \E j \in Waiting : priority[j] # 0
OnGpu    == {j \in Jobs : status[j] \in Active \/ Launching(j)}

Promise == INSTANCE GpuQueue WITH
  waiting <- Waiting, ahead <- Ahead, onGpu <- OnGpu, gone <- Phantoms,
  arranged <- Arranged

\* Jobs get the GPU one at a time in the order shown to the users, which nothing
\* but their own moves changes: no launch, failure or heal skips a job,
\* grants the GPU twice or reshuffles the queue.
GrantsInOrder == Promise!Spec

-----------------------------------------------------------------------------
(* Liveness.                                                               *)

Fairness ==
  /\ \A t \in Threads : WF_vars(LaunchStep(t))
  /\ WF_vars(AdvanceOff \/ \E t \in Threads : AdvanceQueue(t))
  /\ \A j \in Jobs : /\ WF_vars(HandleExit(j)) /\ WF_vars(Relaunch(j))
                     /\ WF_vars(\E t \in Threads : FireTimer(t, j))
                     /\ WF_vars(\E t \in Threads : RunRebuild(t, j))
  /\ \A p \in Pids : /\ WF_vars(TrainerStarts(p)) /\ WF_vars(TrainerEnds(p))
                     /\ WF_vars(WatchdogNotices(p))
                     /\ WF_vars(WatchdogFinalizes(p))
  /\ WF_vars(Boot) /\ WF_vars(BootDone)

LiveSpec == Spec /\ Fairness

\* With auto-queue on, every waiting job whose model can be trained is
\* eventually launched or removed, whatever happens to the jobs before it.
QueueDrains ==
  \A j \in Jobs : status[j] = "pending" /\ autoQueue /\ j \notin gated
                    ~> status[j] # "pending" \/ ~autoQueue \/ j \in gated

\* No job stays active for ever once its trainer can end.
EveryRunEnds ==
  \A j \in Jobs : status[j] = "running" ~> status[j] # "running"

=============================================================================
