--------------------------- MODULE JobQueueProofs ---------------------------
(***************************************************************************)
(* Machine-checked proofs about JobQueue, for every number of jobs,        *)
(* processes and threads and every choice of user operations, exits and    *)
(* crashes.                                                                *)
(*                                                                         *)
(* TypeOK is inductive by itself; every later invariant is proved relative *)
(* to it. Each operation has one lemma that takes TypeOK over a step of    *)
(* it, part by part; TypeNext gathers them.  On top of it come the claim   *)
(* that keeps advance_queue to one launch at a time, the finality of a     *)
(* deletion, and that every active job is followed.                        *)
(*                                                                         *)
(* Where nothing races with start_job (Calm), one trainer at most holds    *)
(* the GPU and the backend knows it, no finished job comes back, rows and  *)
(* registry agree, and the manager implements GpuQueue.  CalmInv says what *)
(* a launch relies on, step by step.  Each operation has one lemma that    *)
(* takes CalmInv over a step of it and finds the step of GpuQueue it is;   *)
(* the rows follow in a second pass.                                       *)
(*                                                                         *)
(* The same but for the order of the queue holds across crashes that cut   *)
(* no launch between the spawn and the row (Recoverable).  CrashInv has    *)
(* one part for each life of the backend: Serving adds to CalmInv what the *)
(* rows tell, Off what they tell while no backend runs, and Resuming the   *)
(* boot that has a paused job to launch again.                             *)
(***************************************************************************)
EXTENDS JobQueue, FiniteSetTheorems, TLAPS

USE DEF Status, Active, Terminal, Running, LaunchSteps, ExitKinds

-----------------------------------------------------------------------------
(* Operators of the model.                                                 *)

\* The rank of a pending job is a natural number, its position in the queue.
LEMMA RankType == \A j \in Jobs : Rank(j) \in Nat
  <1>1. IsFiniteSet(Jobs)
    BY JobQueueAssumption, FS_Interval DEF Jobs
  <1> SUFFICES ASSUME NEW j \in Jobs PROVE Rank(j) \in Nat
    OBVIOUS
  <1>2. IsFiniteSet({k \in PendingIn(status) : Before(priority, k, j)})
    BY <1>1, FS_Subset DEF PendingIn
  <1> QED
    BY <1>2, FS_CardinalityType DEF Rank

\* Moving a waiting job up yields natural priorities: the edge check of
\* reorder_pending is what keeps them from going below zero.
LEMMA MovedUpType ==
  ASSUME RegistryOK, NEW j \in Jobs, Rank(j) > 0
  PROVE  MovedUp(j) \in [Jobs -> Nat]
  BY RankType DEF MovedUp, RegistryOK

\* The phantom check keeps the registry and the rows typed.
LEMMA HealedType ==
  ASSUME TypeOK
  PROVE  /\ HealedStatus \in [Jobs -> Status]
         /\ HealedRows \in [Jobs -> Status]
         /\ HealedPid \in [Jobs -> Pids \cup {NoPid}]
  BY DEF TypeOK, RegistryOK, RowsOK, HealedStatus, HealedRows, HealedPid, Failed

\* Killing a process tree keeps the process table typed.
LEMMA KilledType ==
  ASSUME ProcsOK, NEW p
  PROVE  Killed(p) \in [Pids -> Running \cup {"closing", "dead"}]
  BY DEF ProcsOK, Killed

\* A thread that leaves start_job, or moves on inside it, keeps a typed state.
LEMMA LeaveType ==
  ASSUME LaunchOK, NEW t \in Threads, launch' = [launch EXCEPT ![t] = Idle]
  PROVE  LaunchOK'
  BY DEF LaunchOK, Idle

LEMMA MoveType ==
  ASSUME LaunchOK, NEW t \in Threads, launch[t].pc # "idle",
         NEW s \in LaunchSteps, launch' = [launch EXCEPT ![t].pc = s]
  PROVE  LaunchOK'
  <1> DEFINE L == [pc : LaunchSteps \cup {"idle"}, job : Jobs \cup {NoJob},
                   pid : Pids \cup {NoPid}, by : {"user", "claim", "auto"}]
  <1>1. launch \in [Threads -> L] /\ launch[t] \in L /\ launch[t].job \in Jobs
    BY DEF LaunchOK
  <1>2. [launch[t] EXCEPT !.pc = s] \in L
    BY <1>1
  <1>3. launch' = [launch EXCEPT ![t] = [launch[t] EXCEPT !.pc = s]]
    BY <1>1
  <1>4. launch' \in [Threads -> L]
    BY <1>1, <1>2, <1>3
  <1>5. ASSUME NEW u \in Threads, launch'[u].pc # "idle"
        PROVE  launch'[u].job \in Jobs
    BY <1>1, <1>3, <1>5 DEF LaunchOK
  <1> QED
    BY <1>4, <1>5 DEF LaunchOK

LEMMA SpawnMoveType ==
  ASSUME LaunchOK, NEW t \in Threads, launch[t].pc # "idle", NEW p \in Pids,
         launch' = [launch EXCEPT ![t].pc = "spawned", ![t].pid = p]
  PROVE  LaunchOK'
  <1> DEFINE L == [pc : LaunchSteps \cup {"idle"}, job : Jobs \cup {NoJob},
                   pid : Pids \cup {NoPid}, by : {"user", "claim", "auto"}]
  <1>1. launch \in [Threads -> L] /\ launch[t] \in L /\ launch[t].job \in Jobs
    BY DEF LaunchOK
  <1>2. [launch[t] EXCEPT !.pc = "spawned", !.pid = p] \in L
    BY <1>1
  <1>3. launch' =
          [launch EXCEPT ![t] = [launch[t] EXCEPT !.pc = "spawned", !.pid = p]]
    BY <1>1
  <1>4. launch' \in [Threads -> L]
    BY <1>1, <1>2, <1>3
  <1>5. ASSUME NEW u \in Threads, launch'[u].pc # "idle"
        PROVE  launch'[u].job \in Jobs
    BY <1>1, <1>3, <1>5 DEF LaunchOK
  <1> QED
    BY <1>4, <1>5 DEF LaunchOK

-----------------------------------------------------------------------------
(* Type correctness.                                                       *)

LEMMA InitType == Init => TypeOK
  <1> SUFFICES ASSUME Init PROVE TypeOK
    OBVIOUS
  <1>1. HostOK
    BY JobQueueAssumption DEF Init, HostOK
  <1>2. RegistryOK /\ RowsOK /\ ProcsOK
    BY DEF Init, RegistryOK, RowsOK, ProcsOK
  <1>3. FollowersOK
    BY DEF Init, FollowersOK
  <1>4. LaunchOK
    BY DEF Init, LaunchOK, Idle
  <1>5. QueueOK /\ BudgetsOK
    BY DEF Init, QueueOK, BudgetsOK
  <1> QED
    BY <1>1, <1>2, <1>3, <1>4, <1>5 DEF TypeOK

LEMMA StartNowType ==
  ASSUME TypeOK, NEW t \in Threads, NEW j \in Jobs, StartNow(t, j)
  PROVE  TypeOK'
  <1>1. RegistryOK'
    BY DEF TypeOK, RegistryOK, StartNow
  <1>2. LaunchOK'
    BY DEF TypeOK, LaunchOK, StartNow
  <1>3. (HostOK /\ RowsOK /\ ProcsOK /\ FollowersOK
         /\ QueueOK /\ BudgetsOK)'
    BY DEF TypeOK, StartNow, HostOK, RowsOK, ProcsOK, FollowersOK, QueueOK,
       BudgetsOK, host, rows, procs, queue, budgets
  <1> QED
    BY <1>1, <1>2, <1>3 DEF TypeOK

LEMMA BeginLaunchType ==
  ASSUME TypeOK, NEW t \in Threads, BeginLaunch(t)
  PROVE  TypeOK'
  <1>1. RegistryOK'
    BY DEF TypeOK, RegistryOK, BeginLaunch
  <1>2. LaunchOK'
    <2>1. LaunchOK /\ launch[t].pc # "idle"
      BY DEF TypeOK, BeginLaunch
    <2>2. \/ launch' = [launch EXCEPT ![t] = Idle]
          \/ launch' = [launch EXCEPT ![t].pc = "preflight"]
      BY DEF BeginLaunch, Raise, Release
    <2> QED
      BY <2>1, <2>2, LeaveType, MoveType
  <1>3. QueueOK'
    BY DEF TypeOK, QueueOK, BeginLaunch, Raise, Release
  <1>4. (HostOK /\ RowsOK /\ ProcsOK /\ FollowersOK /\ BudgetsOK)'
    BY DEF TypeOK, BeginLaunch, HostOK, RowsOK, ProcsOK, FollowersOK,
       BudgetsOK, host, rows, procs, budgets
  <1> QED
    BY <1>1, <1>2, <1>3, <1>4 DEF TypeOK

LEMMA SpawnType ==
  ASSUME TypeOK, NEW t \in Threads, Spawn(t)
  PROVE  TypeOK'
  <1>1. ProcsOK'
    <2>1. ProcsOK /\ launch[t].job \in Jobs
      BY DEF TypeOK, LaunchOK, Spawn
    <2>2. CASE UNCHANGED procs
      BY <2>1, <2>2 DEF ProcsOK, procs
    <2>3. CASE \E p \in Pids :
                 /\ procState' = [procState EXCEPT ![p] = "loading"]
                 /\ procJob' = [procJob EXCEPT ![p] = launch[t].job]
      BY <2>1, <2>3 DEF ProcsOK
    <2> QED
      BY <2>2, <2>3 DEF Spawn
  <1>2. LaunchOK'
    <2>1. LaunchOK /\ launch[t].pc # "idle"
      BY DEF TypeOK, Spawn
    <2>2. \/ launch' = [launch EXCEPT ![t] = Idle]
          \/ \E p \in Pids :
               launch' = [launch EXCEPT ![t].pc = "spawned", ![t].pid = p]
      BY DEF Spawn, Release
    <2> QED
      BY <2>1, <2>2, LeaveType, SpawnMoveType
  <1>3. QueueOK'
    BY DEF TypeOK, QueueOK, Spawn, Release
  <1>4. (HostOK /\ RegistryOK /\ RowsOK /\ FollowersOK /\ BudgetsOK)'
    BY DEF TypeOK, Spawn, HostOK, RegistryOK, RowsOK, FollowersOK, BudgetsOK,
       host, registry, rows, budgets
  <1> QED
    BY <1>1, <1>2, <1>3, <1>4 DEF TypeOK

LEMMA LaunchFailsType ==
  ASSUME TypeOK, NEW t \in Threads, LaunchFails(t)
  PROVE  TypeOK'
  <1>1. RegistryOK'
    BY DEF TypeOK, RegistryOK, LaunchFails, Persist
  <1>2. RowsOK'
    BY DEF TypeOK, RowsOK, LaunchFails, Persist
  <1>3. LaunchOK'
    BY DEF TypeOK, LaunchOK, LaunchFails, Raise, Release, Idle
  <1>4. QueueOK'
    BY DEF TypeOK, QueueOK, LaunchFails, Raise, Release
  <1>5. (HostOK /\ ProcsOK /\ FollowersOK /\ BudgetsOK)'
    BY DEF TypeOK, LaunchFails, HostOK, ProcsOK, FollowersOK, BudgetsOK, host,
       procs, budgets
  <1> QED
    BY <1>1, <1>2, <1>3, <1>4, <1>5 DEF TypeOK

LEMMA CommitType ==
  ASSUME TypeOK, NEW t \in Threads, Commit(t)
  PROVE  TypeOK'
  <1>1. RegistryOK'
    BY DEF TypeOK, RegistryOK, Commit
  <1>2. RowsOK'
    BY DEF TypeOK, RowsOK, Commit, Persist
  <1>3. ProcsOK'
    BY KilledType DEF TypeOK, ProcsOK, Commit
  <1>4. LaunchOK'
    <2>1. LaunchOK /\ launch[t].pc # "idle"
      BY DEF TypeOK, Commit
    <2>2. \/ launch' = [launch EXCEPT ![t] = Idle]
          \/ launch' = [launch EXCEPT ![t].pc = "attach"]
      BY DEF Commit, Release
    <2> QED
      BY <2>1, <2>2, LeaveType, MoveType
  <1>5. QueueOK'
    BY DEF TypeOK, QueueOK, Commit, Release
  <1>6. (HostOK /\ FollowersOK /\ BudgetsOK)'
    BY DEF TypeOK, Commit, HostOK, FollowersOK, BudgetsOK, host, budgets
  <1> QED
    BY <1>1, <1>2, <1>3, <1>4, <1>5, <1>6 DEF TypeOK

LEMMA AttachType ==
  ASSUME TypeOK, NEW t \in Threads, Attach(t)
  PROVE  TypeOK'
  <1>1. RegistryOK'
    BY DEF TypeOK, RegistryOK, Attach, LaunchOK
  <1>2. RowsOK'
    BY DEF TypeOK, RowsOK, Attach, Persist, LaunchOK
  <1>3. FollowersOK'
    BY DEF TypeOK, FollowersOK, Attach, LaunchOK
  <1>4. LaunchOK'
    BY DEF TypeOK, LaunchOK, Attach, Release, Idle
  <1>5. QueueOK'
    BY DEF TypeOK, QueueOK, Attach, Release
  <1>6. (HostOK /\ ProcsOK /\ BudgetsOK)'
    BY DEF TypeOK, Attach, HostOK, ProcsOK, BudgetsOK, host, procs, budgets
  <1> QED
    BY <1>1, <1>2, <1>3, <1>4, <1>5, <1>6 DEF TypeOK

LEMMA AdvanceOffType ==
  ASSUME TypeOK, AdvanceOff
  PROVE  TypeOK'
  <1>1. QueueOK'
    BY DEF TypeOK, QueueOK, AdvanceOff
  <1>2. (HostOK /\ RegistryOK /\ RowsOK /\ ProcsOK /\ FollowersOK
         /\ LaunchOK /\ BudgetsOK)'
    BY DEF TypeOK, AdvanceOff, HostOK, RegistryOK, RowsOK, ProcsOK,
       FollowersOK, LaunchOK, BudgetsOK, host, registry, rows, procs, budgets
  <1> QED
    BY <1>1, <1>2 DEF TypeOK

LEMMA AdvanceQueueType ==
  ASSUME TypeOK, NEW t \in Threads, AdvanceQueue(t)
  PROVE  TypeOK'
  <1>1. RegistryOK'
    BY HealedType DEF TypeOK, RegistryOK, AdvanceQueue
  <1>2. RowsOK'
    BY HealedType DEF TypeOK, RowsOK, AdvanceQueue
  <1>3. FollowersOK'
    BY DEF TypeOK, FollowersOK, AdvanceQueue
  <1>4. LaunchOK'
    BY DEF TypeOK, LaunchOK, AdvanceQueue, IsFirst
  <1>5. QueueOK'
    BY DEF TypeOK, QueueOK, AdvanceQueue
  <1>6. (HostOK /\ ProcsOK /\ BudgetsOK)'
    BY DEF TypeOK, AdvanceQueue, HostOK, ProcsOK, BudgetsOK, host, procs,
       budgets
  <1> QED
    BY <1>1, <1>2, <1>3, <1>4, <1>5, <1>6 DEF TypeOK

LEMMA SetAutoQueueType ==
  ASSUME TypeOK, NEW on \in BOOLEAN, SetAutoQueue(on)
  PROVE  TypeOK'
  <1>1. QueueOK'
    BY DEF TypeOK, QueueOK, SetAutoQueue
  <1>2. (HostOK /\ RegistryOK /\ RowsOK /\ ProcsOK /\ FollowersOK
         /\ LaunchOK /\ BudgetsOK)'
    BY DEF TypeOK, SetAutoQueue, HostOK, RegistryOK, RowsOK, ProcsOK,
       FollowersOK, LaunchOK, BudgetsOK, host, registry, rows, procs, budgets
  <1> QED
    BY <1>1, <1>2 DEF TypeOK

LEMMA CreateJobType ==
  ASSUME TypeOK, CreateJob
  PROVE  TypeOK'
  <1>1. HostOK'
    BY JobQueueAssumption DEF TypeOK, HostOK, CreateJob, Jobs
  <1>2. RegistryOK'
    BY DEF TypeOK, RegistryOK, CreateJob
  <1>3. RowsOK'
    BY DEF TypeOK, RowsOK, CreateJob
  <1>4. QueueOK'
    BY DEF TypeOK, QueueOK, CreateJob
  <1>5. (ProcsOK /\ FollowersOK /\ LaunchOK /\ BudgetsOK)'
    BY DEF TypeOK, CreateJob, ProcsOK, FollowersOK, LaunchOK, BudgetsOK,
       procs, budgets
  <1> QED
    BY <1>1, <1>2, <1>3, <1>4, <1>5 DEF TypeOK

LEMMA ReorderUpType ==
  ASSUME TypeOK, NEW j \in Jobs, ReorderUp(j)
  PROVE  TypeOK'
  <1>1. RegistryOK'
    BY MovedUpType DEF TypeOK, RegistryOK, ReorderUp
  <1>2. RowsOK'
    BY MovedUpType DEF TypeOK, RowsOK, ReorderUp
  <1>3. (HostOK /\ ProcsOK /\ FollowersOK /\ LaunchOK
         /\ QueueOK /\ BudgetsOK)'
    BY DEF TypeOK, ReorderUp, HostOK, ProcsOK, FollowersOK, LaunchOK, QueueOK,
       BudgetsOK, host, procs, queue, budgets
  <1> QED
    BY <1>1, <1>2, <1>3 DEF TypeOK

LEMMA StopJobType ==
  ASSUME TypeOK, NEW j \in Jobs, StopJob(j)
  PROVE  TypeOK'
  <1>1. RegistryOK'
    BY DEF TypeOK, RegistryOK, StopJob
  <1>2. RowsOK'
    BY DEF TypeOK, RowsOK, StopJob, Persist
  <1>3. ProcsOK'
    BY KilledType DEF TypeOK, ProcsOK, StopJob
  <1>4. FollowersOK'
    BY DEF TypeOK, FollowersOK, StopJob
  <1>5. QueueOK'
    BY DEF TypeOK, QueueOK, StopJob
  <1>6. (HostOK /\ LaunchOK /\ BudgetsOK)'
    BY DEF TypeOK, StopJob, HostOK, LaunchOK, BudgetsOK, host, budgets
  <1> QED
    BY <1>1, <1>2, <1>3, <1>4, <1>5, <1>6 DEF TypeOK

LEMMA DeleteJobType ==
  ASSUME TypeOK, NEW j \in Jobs, DeleteJob(j)
  PROVE  TypeOK'
  <1>1. RegistryOK'
    BY DEF TypeOK, RegistryOK, DeleteJob
  <1>2. RowsOK'
    BY DEF TypeOK, RowsOK, DeleteJob
  <1>3. ProcsOK'
    BY KilledType DEF TypeOK, ProcsOK, DeleteJob
  <1>4. FollowersOK'
    BY DEF TypeOK, FollowersOK, DeleteJob
  <1>5. QueueOK'
    BY DEF TypeOK, QueueOK, DeleteJob
  <1>6. BudgetsOK'
    BY DEF TypeOK, BudgetsOK, DeleteJob
  <1>7. (HostOK /\ LaunchOK)'
    BY DEF TypeOK, DeleteJob, HostOK, LaunchOK, host
  <1> QED
    BY <1>1, <1>2, <1>3, <1>4, <1>5, <1>6, <1>7 DEF TypeOK

LEMMA PauseJobType ==
  ASSUME TypeOK, NEW j \in Jobs, PauseJob(j)
  PROVE  TypeOK'
  <1>1. RegistryOK'
    BY DEF TypeOK, RegistryOK, PauseJob
  <1>2. RowsOK'
    BY DEF TypeOK, RowsOK, PauseJob, Persist
  <1>3. (HostOK /\ ProcsOK /\ FollowersOK /\ LaunchOK
         /\ QueueOK /\ BudgetsOK)'
    BY DEF TypeOK, PauseJob, HostOK, ProcsOK, FollowersOK, LaunchOK, QueueOK,
       BudgetsOK, host, procs, queue, budgets
  <1> QED
    BY <1>1, <1>2, <1>3 DEF TypeOK

LEMMA ResumeJobType ==
  ASSUME TypeOK, NEW j \in Jobs, ResumeJob(j)
  PROVE  TypeOK'
  <1>1. RegistryOK'
    BY DEF TypeOK, RegistryOK, ResumeJob
  <1>2. RowsOK'
    BY DEF TypeOK, RowsOK, ResumeJob, Persist
  <1>3. (HostOK /\ ProcsOK /\ FollowersOK /\ LaunchOK
         /\ QueueOK /\ BudgetsOK)'
    BY DEF TypeOK, ResumeJob, HostOK, ProcsOK, FollowersOK, LaunchOK, QueueOK,
       BudgetsOK, host, procs, queue, budgets
  <1> QED
    BY <1>1, <1>2, <1>3 DEF TypeOK

\* The part of a step that puts a job back into the queue.
LEMMA RequeueType ==
  ASSUME TypeOK, NEW t \in Threads, NEW j \in Jobs, NEW by \in {"user", "auto"},
         Requeue(t, j, by)
  PROVE  (HostOK /\ RegistryOK /\ RowsOK /\ ProcsOK /\ FollowersOK /\ LaunchOK)'
  <1> PICK prio \in 0 .. MaxPriority : Requeue(t, j, by)!(prio)
    BY DEF Requeue
  <1>0. prio \in Nat
    BY JobQueueAssumption
  <1>1. RegistryOK'
    BY <1>0, HealedType DEF TypeOK, RegistryOK
  <1>2. RowsOK'
    BY <1>0, HealedType DEF TypeOK, RowsOK, Persist
  <1>3. FollowersOK'
    BY DEF TypeOK, FollowersOK
  <1>4. LaunchOK'
    BY DEF TypeOK, LaunchOK
  <1>5. (HostOK /\ ProcsOK)'
    BY DEF TypeOK, HostOK, ProcsOK, host, procs
  <1> QED
    BY <1>1, <1>2, <1>3, <1>4, <1>5

LEMMA RestartJobType ==
  ASSUME TypeOK, NEW t \in Threads, NEW j \in Jobs, RestartJob(t, j)
  PROVE  TypeOK'
  <1>1. Requeue(t, j, "user")
    BY DEF RestartJob
  <1>2. (QueueOK /\ BudgetsOK)'
    BY <1>1 DEF TypeOK, RestartJob, Requeue, QueueOK, BudgetsOK, budgets
  <1> QED
    BY <1>1, <1>2, RequeueType DEF TypeOK

LEMMA TrainerStartsType ==
  ASSUME TypeOK, NEW p \in Pids, TrainerStarts(p)
  PROVE  TypeOK'
  <1>1. RowsOK'
    BY DEF TypeOK, RowsOK, TrainerStarts, Persist
  <1>2. ProcsOK'
    BY DEF TypeOK, ProcsOK, TrainerStarts
  <1>3. (HostOK /\ RegistryOK /\ FollowersOK /\ LaunchOK
         /\ QueueOK /\ BudgetsOK)'
    BY DEF TypeOK, TrainerStarts, HostOK, RegistryOK, FollowersOK, LaunchOK,
       QueueOK, BudgetsOK, host, registry, queue, budgets
  <1> QED
    BY <1>1, <1>2, <1>3 DEF TypeOK

LEMMA TrainerExitsType ==
  ASSUME TypeOK, NEW p \in Pids, NEW kind, TrainerExits(p, kind)
  PROVE  TypeOK'
  <1>1. RowsOK'
    BY DEF TypeOK, RowsOK, TrainerExits, Persist
  <1>2. ProcsOK'
    BY DEF TypeOK, ProcsOK, TrainerExits
  <1>3. FollowersOK'
    <2>1. FollowersOK /\ kind \in ExitKinds
      BY DEF TypeOK, TrainerExits
    <2>2. ASSUME NEW j \in Jobs PROVE Append(log[j], kind) \in Seq(ExitKinds)
      <3>1. log[j] \in Seq(ExitKinds)
        BY <2>1 DEF FollowersOK
      <3> QED
        BY <2>1, <3>1
    <2>3. log' \in [Jobs -> Seq(ExitKinds)]
      <3>1. CASE procJob[p] \in Jobs
        <4>1. log' = [log EXCEPT ![procJob[p]] = Append(log[procJob[p]], kind)]
          BY DEF TrainerExits
        <4> HIDE DEF ExitKinds
        <4> QED
          BY <2>1, <2>2, <3>1, <4>1 DEF FollowersOK
      <3>2. CASE procJob[p] \notin Jobs
        BY <2>1, <3>2 DEF FollowersOK, TrainerExits
      <3> QED
        BY <3>1, <3>2
    <2> QED
      BY <2>1, <2>3 DEF FollowersOK, TrainerExits
  <1>4. (HostOK /\ RegistryOK /\ LaunchOK
         /\ QueueOK /\ BudgetsOK)'
    BY DEF TypeOK, TrainerExits, HostOK, RegistryOK, LaunchOK, QueueOK,
       BudgetsOK, host, registry, queue, budgets
  <1> QED
    BY <1>1, <1>2, <1>3, <1>4 DEF TypeOK

LEMMA TrainerGoneType ==
  ASSUME TypeOK, NEW p \in Pids, TrainerGone(p)
  PROVE  TypeOK'
  <1>1. ProcsOK'
    BY DEF TypeOK, ProcsOK, TrainerGone
  <1>2. (HostOK /\ RegistryOK /\ RowsOK /\ FollowersOK /\ LaunchOK
         /\ QueueOK /\ BudgetsOK)'
    BY DEF TypeOK, TrainerGone, HostOK, RegistryOK, RowsOK, FollowersOK,
       LaunchOK, QueueOK, BudgetsOK, host, registry, rows, queue, budgets
  <1> QED
    BY <1>1, <1>2 DEF TypeOK

LEMMA HandleExitType ==
  ASSUME TypeOK, NEW j \in Jobs, HandleExit(j)
  PROVE  TypeOK'
  <1>1. RegistryOK'
    <2>1. \/ UNCHANGED registry
          \/ \E final \in Terminal : /\ status' = [status EXCEPT ![j] = final]
                                     /\ pid' = [pid EXCEPT ![j] = NoPid]
                                     /\ priority' = priority
      BY DEF HandleExit, Finish, registry
    <2> QED
      BY <2>1 DEF TypeOK, RegistryOK, registry
  <1>2. RowsOK'
    BY DEF TypeOK, RowsOK, HandleExit, Finish, Persist
  <1>3. FollowersOK'
    BY DEF TypeOK, FollowersOK, HandleExit, Finish
  <1>4. QueueOK'
    BY DEF TypeOK, QueueOK, HandleExit
  <1>5. BudgetsOK'
    <2>1. timers' \in {timers, timers \cup {j}}
      BY DEF HandleExit, budgets
    <2>2. rebuilding' \in {rebuilding, rebuilding \cup {j}}
      BY DEF HandleExit, budgets
    <2>3. resumes' \in {resumes, [resumes EXCEPT ![j] = 0],
                        [resumes EXCEPT ![j] = resumes[j] + 1]}
      BY DEF HandleExit, budgets
    <2>4. rebuilds' \in {rebuilds, [rebuilds EXCEPT ![j] = 0],
                         [rebuilds EXCEPT ![j] = rebuilds[j] + 1]}
      BY DEF HandleExit, budgets
    <2> QED
      BY <2>1, <2>2, <2>3, <2>4 DEF TypeOK, BudgetsOK
  <1>6. (HostOK /\ ProcsOK /\ LaunchOK)'
    BY DEF TypeOK, HandleExit, HostOK, ProcsOK, LaunchOK, host, procs
  <1> QED
    BY <1>1, <1>2, <1>3, <1>4, <1>5, <1>6 DEF TypeOK

LEMMA FireTimerType ==
  ASSUME TypeOK, NEW t \in Threads, NEW j \in Jobs, FireTimer(t, j)
  PROVE  TypeOK'
  <1>1. BudgetsOK'
    BY DEF TypeOK, BudgetsOK, FireTimer
  <1>2. CASE Requeue(t, j, "auto") /\ UNCHANGED advancing
    <2>1. QueueOK'
      BY <1>2 DEF TypeOK, QueueOK, Requeue
    <2> QED
      BY <1>1, <1>2, <2>1, RequeueType DEF TypeOK
  <1>3. CASE ~(Requeue(t, j, "auto") /\ UNCHANGED advancing)
    <2>1. (HostOK /\ RegistryOK /\ RowsOK /\ ProcsOK /\ FollowersOK)'
      BY <1>3 DEF TypeOK, FireTimer, HostOK, RegistryOK, RowsOK, ProcsOK,
         FollowersOK, host, registry, rows, procs
    <2>2. LaunchOK' /\ QueueOK'
      BY <1>3 DEF TypeOK, FireTimer, LaunchOK, QueueOK, queue
    <2> QED
      BY <1>1, <2>1, <2>2 DEF TypeOK
  <1> QED
    BY <1>2, <1>3

LEMMA RunRebuildType ==
  ASSUME TypeOK, NEW t \in Threads, NEW j \in Jobs, RunRebuild(t, j)
  PROVE  TypeOK'
  <1>1. BudgetsOK'
    BY DEF TypeOK, BudgetsOK, RunRebuild
  <1>2. CASE Requeue(t, j, "auto") /\ UNCHANGED advancing
    <2>1. QueueOK'
      BY <1>2 DEF TypeOK, QueueOK, Requeue
    <2> QED
      BY <1>1, <1>2, <2>1, RequeueType DEF TypeOK
  <1>3. CASE ~(Requeue(t, j, "auto") /\ UNCHANGED advancing)
    <2>1. (HostOK /\ RegistryOK /\ RowsOK /\ ProcsOK /\ FollowersOK)'
      BY <1>3 DEF TypeOK, RunRebuild, HostOK, RegistryOK, RowsOK, ProcsOK,
         FollowersOK, host, registry, rows, procs
    <2>2. LaunchOK' /\ QueueOK'
      BY <1>3 DEF TypeOK, RunRebuild, LaunchOK, QueueOK, queue
    <2> QED
      BY <1>1, <2>1, <2>2 DEF TypeOK
  <1> QED
    BY <1>2, <1>3

LEMMA WatchdogNoticesType ==
  ASSUME TypeOK, NEW p \in Pids, WatchdogNotices(p)
  PROVE  TypeOK'
  <1>1. FollowersOK'
    BY DEF TypeOK, FollowersOK, WatchdogNotices
  <1>2. (HostOK /\ RegistryOK /\ RowsOK /\ ProcsOK /\ LaunchOK
         /\ QueueOK /\ BudgetsOK)'
    BY DEF TypeOK, WatchdogNotices, HostOK, RegistryOK, RowsOK, ProcsOK,
       LaunchOK, QueueOK, BudgetsOK, host, registry, rows, procs, queue,
       budgets
  <1> QED
    BY <1>1, <1>2 DEF TypeOK

LEMMA WatchdogFinalizesType ==
  ASSUME TypeOK, NEW p \in Pids, WatchdogFinalizes(p)
  PROVE  TypeOK'
  <1>1. RegistryOK'
    BY DEF TypeOK, RegistryOK, WatchdogFinalizes, Finish
  <1>2. RowsOK'
    BY DEF TypeOK, RowsOK, WatchdogFinalizes, Finish, Persist
  <1>3. ProcsOK'
    BY KilledType DEF TypeOK, ProcsOK, WatchdogFinalizes
  <1>4. FollowersOK'
    BY DEF TypeOK, FollowersOK, WatchdogFinalizes, Finish
  <1>5. QueueOK'
    BY DEF TypeOK, QueueOK, WatchdogFinalizes
  <1>6. (HostOK /\ LaunchOK /\ BudgetsOK)'
    BY DEF TypeOK, WatchdogFinalizes, HostOK, LaunchOK, BudgetsOK, host,
       budgets
  <1> QED
    BY <1>1, <1>2, <1>3, <1>4, <1>5, <1>6 DEF TypeOK

LEMMA CrashType ==
  ASSUME TypeOK, Crash
  PROVE  TypeOK'
  <1>1. HostOK'
    BY DEF TypeOK, HostOK, Crash
  <1>2. RegistryOK'
    BY DEF TypeOK, RegistryOK, Crash
  <1>3. FollowersOK'
    BY DEF TypeOK, FollowersOK, Crash
  <1>4. LaunchOK'
    BY DEF TypeOK, LaunchOK, Crash, Idle
  <1>5. QueueOK'
    BY DEF TypeOK, QueueOK, Crash
  <1>6. BudgetsOK'
    BY DEF TypeOK, BudgetsOK, Crash
  <1>7. (RowsOK /\ ProcsOK)'
    BY DEF TypeOK, Crash, RowsOK, ProcsOK, rows, procs
  <1> QED
    BY <1>1, <1>2, <1>3, <1>4, <1>5, <1>6, <1>7 DEF TypeOK

LEMMA BootType ==
  ASSUME TypeOK, Boot
  PROVE  TypeOK'
  <1>1. HostOK'
    BY JobQueueAssumption DEF TypeOK, HostOK, Boot
  <1>2. RegistryOK'
    BY DEF TypeOK, RegistryOK, Boot, RowsOK
  <1>3. RowsOK'
    BY DEF TypeOK, RowsOK, Boot, DemotedRows
  <1>4. FollowersOK'
    BY DEF TypeOK, FollowersOK, Boot
  <1>5. (ProcsOK /\ LaunchOK /\ QueueOK /\ BudgetsOK)'
    BY DEF TypeOK, Boot, ProcsOK, LaunchOK, QueueOK, BudgetsOK, procs, queue,
       budgets
  <1> QED
    BY <1>1, <1>2, <1>3, <1>4, <1>5 DEF TypeOK

LEMMA RelaunchType ==
  ASSUME TypeOK, NEW j \in Jobs, Relaunch(j)
  PROVE  TypeOK'
  <1>1. HostOK'
    BY DEF TypeOK, HostOK, Relaunch
  <1>2. RegistryOK'
    BY DEF TypeOK, RegistryOK, Relaunch
  <1>3. RowsOK'
    BY DEF TypeOK, RowsOK, Relaunch, Persist
  <1>4. ProcsOK'
    <2>1. CASE UNCHANGED procs
      BY <2>1 DEF TypeOK, ProcsOK, procs
    <2>2. CASE \E p \in Pids :
                 /\ procState' = [procState EXCEPT ![p] = "loading"]
                 /\ procJob' = [procJob EXCEPT ![p] = j]
      BY <2>2 DEF TypeOK, ProcsOK
    <2> QED
      BY <2>1, <2>2 DEF Relaunch
  <1>5. FollowersOK'
    BY DEF TypeOK, FollowersOK, Relaunch
  <1>6. (LaunchOK /\ QueueOK /\ BudgetsOK)'
    BY DEF TypeOK, Relaunch, LaunchOK, QueueOK, BudgetsOK, queue, budgets
  <1> QED
    BY <1>1, <1>2, <1>3, <1>4, <1>5, <1>6 DEF TypeOK

LEMMA BootDoneType ==
  ASSUME TypeOK, BootDone
  PROVE  TypeOK'
  <1>1. HostOK'
    BY DEF TypeOK, HostOK, BootDone
  <1>2. QueueOK'
    BY DEF TypeOK, QueueOK, BootDone
  <1>3. (RegistryOK /\ RowsOK /\ ProcsOK /\ FollowersOK
         /\ LaunchOK /\ BudgetsOK)'
    BY DEF TypeOK, BootDone, RegistryOK, RowsOK, ProcsOK, FollowersOK,
       LaunchOK, BudgetsOK, registry, rows, procs, budgets
  <1> QED
    BY <1>1, <1>2, <1>3 DEF TypeOK

LEMMA StutterType == TypeOK /\ UNCHANGED vars => TypeOK'
  BY DEF TypeOK, vars, HostOK, RegistryOK, RowsOK, ProcsOK, FollowersOK,
     LaunchOK, QueueOK, BudgetsOK

\* TypeOK is inductive.
LEMMA TypeNext == TypeOK /\ [Next]_vars => TypeOK'
  <1> SUFFICES ASSUME TypeOK, [Next]_vars PROVE TypeOK'
    OBVIOUS
  <1>1. ASSUME NEW t \in Threads, LaunchStep(t) \/ AdvanceQueue(t)
        PROVE  TypeOK'
    BY <1>1, BeginLaunchType, SpawnType, LaunchFailsType, CommitType,
       AttachType, AdvanceQueueType DEF LaunchStep
  <1>2. ASSUME NEW t \in Threads, NEW j \in Jobs,
               StartNow(t, j) \/ RestartJob(t, j) \/ FireTimer(t, j)
                 \/ RunRebuild(t, j)
        PROVE  TypeOK'
    BY <1>2, StartNowType, RestartJobType, FireTimerType, RunRebuildType
  <1>3. ASSUME NEW j \in Jobs,
               \/ StopJob(j) \/ DeleteJob(j) \/ PauseJob(j) \/ ResumeJob(j)
               \/ ReorderUp(j) \/ HandleExit(j) \/ Relaunch(j)
        PROVE  TypeOK'
    BY <1>3, StopJobType, DeleteJobType, PauseJobType, ResumeJobType,
       ReorderUpType, HandleExitType, RelaunchType
  <1>4. ASSUME NEW p \in Pids,
               \/ TrainerStarts(p) \/ TrainerEnds(p)
               \/ WatchdogNotices(p) \/ WatchdogFinalizes(p)
        PROVE  TypeOK'
    BY <1>4, TrainerStartsType, TrainerExitsType, TrainerGoneType,
       WatchdogNoticesType, WatchdogFinalizesType DEF TrainerEnds
  <1>5. CASE AdvanceOff \/ CreateJob \/ \E on \in BOOLEAN : SetAutoQueue(on)
    BY <1>5, AdvanceOffType, CreateJobType, SetAutoQueueType
  <1>6. CASE Crash \/ Boot \/ BootDone
    BY <1>6, CrashType, BootType, BootDoneType
  <1>7. CASE UNCHANGED vars
    BY <1>7, StutterType
  <1> QED
    BY <1>1, <1>2, <1>3, <1>4, <1>5, <1>6, <1>7 DEF Next

\* Every reachable state is well typed, and a launch always names a job.
THEOREM TypeCorrect == Spec => []TypeOK
  BY InitType, TypeNext, PTL DEF Spec

-----------------------------------------------------------------------------
(* The claim of advance_queue.                                             *)

InClaim(t) == launch[t].pc # "idle" /\ launch[t].by = "claim"

\* A step that leaves every claim where it is keeps the claim exclusive.
LEMMA ClaimKept ==
  ASSUME ClaimHeld, starting' = starting,
         \A u \in Threads : InClaim(u)' <=> InClaim(u)
  PROVE  ClaimHeld'
  BY DEF ClaimHeld, InClaim

\* Leaving start_job releases the claim of exactly the thread that leaves.
LEMMA ClaimReleased ==
  ASSUME TypeOK, ClaimHeld, NEW t \in Threads, launch[t].pc # "idle",
         Release(t)
  PROVE  ClaimHeld'
  <1>1. \A u \in Threads : InClaim(u)' <=> u # t /\ InClaim(u)
    BY DEF InClaim, Release, TypeOK, LaunchOK, Idle
  <1>2. CASE InClaim(t)
    <2>1. ~starting'
      BY <1>2 DEF Release, InClaim
    <2>2. \A u \in Threads : InClaim(u) => u = t
      BY <1>2 DEF ClaimHeld, InClaim
    <2> QED
      BY <1>1, <2>1, <2>2 DEF ClaimHeld, InClaim
  <1>3. CASE ~InClaim(t)
    <2>1. starting' = starting
      BY <1>3 DEF Release, InClaim
    <2> QED
      BY <1>1, <1>3, <2>1, ClaimKept
  <1> QED
    BY <1>2, <1>3

\* Moving on inside start_job keeps the claim.
LEMMA ClaimMoves ==
  ASSUME TypeOK, ClaimHeld, NEW t \in Threads, launch[t].pc # "idle",
         NEW s \in LaunchSteps, launch' = [launch EXCEPT ![t].pc = s],
         starting' = starting
  PROVE  ClaimHeld'
  <1>1. \A u \in Threads : InClaim(u)' <=> InClaim(u)
    BY DEF InClaim, TypeOK, LaunchOK
  <1> QED
    BY <1>1, ClaimKept

\* The steps of start_job.
LEMMA LaunchStepClaim ==
  ASSUME TypeOK, ClaimHeld, NEW t \in Threads, LaunchStep(t)
  PROVE  ClaimHeld'
  <1>1. CASE BeginLaunch(t)
    <2>1. CASE Release(t)
      BY <1>1, <2>1, ClaimReleased DEF BeginLaunch
    <2>2. CASE ~Release(t)
      BY <1>1, <2>2, ClaimMoves DEF BeginLaunch, Raise
    <2> QED
      BY <2>1, <2>2
  <1>2. CASE Spawn(t)
    <2>1. CASE Release(t)
      BY <1>2, <2>1, ClaimReleased DEF Spawn
    <2>2. CASE ~Release(t)
      <3>1. PICK p \in Pids :
              launch' = [launch EXCEPT ![t].pc = "spawned", ![t].pid = p]
        BY <1>2, <2>2 DEF Spawn
      <3>2. launch[t].pc # "idle" /\ starting' = starting
        BY <1>2, <2>2 DEF Spawn
      <3>3. \A u \in Threads : InClaim(u)' <=> InClaim(u)
        BY <3>1, <3>2 DEF InClaim, TypeOK, LaunchOK
      <3> QED
        BY <3>2, <3>3, ClaimKept
    <2> QED
      BY <2>1, <2>2
  <1>3. CASE LaunchFails(t)
    BY <1>3, ClaimReleased DEF LaunchFails, Raise
  <1>4. CASE Commit(t)
    <2>1. CASE Release(t)
      BY <1>4, <2>1, ClaimReleased DEF Commit
    <2>2. CASE ~Release(t)
      BY <1>4, <2>2, ClaimMoves DEF Commit
    <2> QED
      BY <2>1, <2>2
  <1>5. CASE Attach(t)
    BY <1>5, ClaimReleased DEF Attach
  <1> QED
    BY <1>1, <1>2, <1>3, <1>4, <1>5 DEF LaunchStep

\* advance_queue claims only when no claim is held.
LEMMA AdvanceQueueClaim ==
  ASSUME TypeOK, ClaimHeld, NEW t \in Threads, AdvanceQueue(t)
  PROVE  ClaimHeld'
  <1>1. CASE CanClaim
    <2>1. \A u \in Threads : ~InClaim(u)
      BY <1>1 DEF ClaimHeld, InClaim, CanClaim
    <2>2. \A u \in Threads : InClaim(u)' <=> u = t
      <3>1. PICK j \in Jobs : launch' = [launch EXCEPT ![t] =
              [pc |-> "claimed", job |-> j, pid |-> NoPid, by |-> "claim"]]
        BY <1>1 DEF AdvanceQueue
      <3> QED
        BY <2>1, <3>1 DEF InClaim, TypeOK, LaunchOK
    <2>3. starting'
      BY <1>1 DEF AdvanceQueue
    <2> QED
      BY <2>2, <2>3 DEF ClaimHeld, InClaim
  <1>2. CASE ~CanClaim
    BY <1>2, ClaimKept DEF AdvanceQueue, InClaim
  <1> QED
    BY <1>1, <1>2

\* A launch that nobody claimed: a user request, a timer, a rebuild.
LEMMA UnclaimedLaunch ==
  ASSUME TypeOK, ClaimHeld, NEW t \in Threads, launch[t].pc = "idle",
         starting' = starting, NEW r, r.by # "claim",
         launch' \in {launch, [launch EXCEPT ![t] = r]}
  PROVE  ClaimHeld'
  <1>1. \A u \in Threads : InClaim(u)' <=> InClaim(u)
    BY DEF InClaim, TypeOK, LaunchOK
  <1> QED
    BY <1>1, ClaimKept

LEMMA RequeueClaim ==
  ASSUME TypeOK, ClaimHeld, NEW t \in Threads, NEW j \in Jobs,
         NEW by \in {"user", "auto"}, Requeue(t, j, by)
  PROVE  ClaimHeld'
  <1> DEFINE r == [pc |-> "claimed", job |-> j, pid |-> NoPid, by |-> by]
  <1>1. /\ launch[t].pc = "idle" /\ starting' = starting
        /\ launch' \in {launch, [launch EXCEPT ![t] = r]}
    BY DEF Requeue
  <1>2. r.by # "claim"
    OBVIOUS
  <1> HIDE DEF r
  <1> QED
    BY <1>1, <1>2, UnclaimedLaunch

LEMMA StartNowClaim ==
  ASSUME TypeOK, ClaimHeld, NEW t \in Threads, NEW j \in Jobs, StartNow(t, j)
  PROVE  ClaimHeld'
  <1> DEFINE r == [pc |-> "preflight", job |-> j, pid |-> NoPid, by |-> "user"]
  <1>1. /\ launch[t].pc = "idle" /\ starting' = starting
        /\ launch' \in {launch, [launch EXCEPT ![t] = r]}
    BY DEF StartNow, queue
  <1>2. r.by # "claim"
    OBVIOUS
  <1> HIDE DEF r
  <1> QED
    BY <1>1, <1>2, UnclaimedLaunch

\* Every step keeps the claim exclusive.
LEMMA ClaimNext == TypeOK /\ ClaimHeld /\ [Next]_vars => ClaimHeld'
  <1> SUFFICES ASSUME TypeOK, ClaimHeld, [Next]_vars PROVE ClaimHeld'
    OBVIOUS
  <1>1. ASSUME UNCHANGED <<launch, starting>> PROVE ClaimHeld'
    BY <1>1, ClaimKept DEF InClaim
  <1>2. ASSUME NEW t \in Threads, NEW j \in Jobs,
               StartNow(t, j) \/ RestartJob(t, j) \/ FireTimer(t, j)
                 \/ RunRebuild(t, j)
        PROVE  ClaimHeld'
    <2>1. CASE StartNow(t, j)
      BY <2>1, StartNowClaim
    <2>2. CASE \E by \in {"user", "auto"} : Requeue(t, j, by)
      BY <2>2, RequeueClaim
    <2>3. CASE UNCHANGED <<launch, starting>>
      BY <1>1, <2>3
    <2> QED
      BY <1>2, <2>1, <2>2, <2>3 DEF RestartJob, FireTimer, RunRebuild, queue
  <1>3. ASSUME NEW j \in Jobs,
               \/ StopJob(j) \/ DeleteJob(j) \/ PauseJob(j) \/ ResumeJob(j)
               \/ ReorderUp(j) \/ HandleExit(j) \/ Relaunch(j)
        PROVE  ClaimHeld'
    BY <1>1, <1>3 DEF StopJob, DeleteJob, PauseJob, ResumeJob, ReorderUp,
       HandleExit, Relaunch, queue
  <1>4. ASSUME NEW p \in Pids,
               \/ TrainerStarts(p) \/ TrainerEnds(p)
               \/ WatchdogNotices(p) \/ WatchdogFinalizes(p)
        PROVE  ClaimHeld'
    BY <1>1, <1>4 DEF TrainerStarts, TrainerEnds, TrainerGone, TrainerExits,
       WatchdogNotices, WatchdogFinalizes, queue
  <1>5. CASE AdvanceOff \/ CreateJob \/ \E on \in BOOLEAN : SetAutoQueue(on)
    BY <1>1, <1>5 DEF AdvanceOff, CreateJob, SetAutoQueue
  <1>6. CASE Boot \/ BootDone \/ UNCHANGED vars
    BY <1>1, <1>6 DEF Boot, BootDone, vars, queue
  <1>7. CASE Crash
    BY <1>7 DEF Crash, ClaimHeld, Idle
  <1> QED
    BY <1>2, <1>3, <1>4, <1>5, <1>6, <1>7, LaunchStepClaim, AdvanceQueueClaim
       DEF Next

LEMMA ClaimInit == Init => ClaimHeld
  BY DEF Init, ClaimHeld, Idle

\* The claim is held exactly while one launch of advance_queue is in progress:
\* no error path of start_job loses it or leaks it.
THEOREM ClaimCorrect == Spec => []ClaimHeld
  BY InitType, TypeNext, ClaimInit, ClaimNext, PTL DEF Spec

-----------------------------------------------------------------------------
(* A deletion is final.                                                    *)

\* A job without a row has no registry entry, and the boot only re-launches
\* jobs that have a row, before the first request is served.
RowInv ==
  /\ \A j \in Jobs : dbStatus[j] = "absent" => status[j] = "absent"
  /\ \A j \in recovery : dbStatus[j] # "absent"
  /\ server = "up" => recovery = {}

\* No row of a job created so far appears.
NoneAppears ==
  \A j \in 1 .. clock : dbStatus[j] = "absent" => dbStatus'[j] = "absent"

\* An UPDATE never makes a row.
LEMMA PersistKeeps ==
  ASSUME NEW st \in [Jobs -> Status], NEW j \in Jobs,
         NEW s \in Status \ {"absent"}
  PROVE  /\ Persist(st, j, s) \in [Jobs -> Status]
         /\ \A k \in Jobs : Persist(st, j, s)[k] = "absent" <=> st[k] = "absent"
  BY DEF Persist

\* Jobs are numbered as they are created.
LEMMA CreatedJobs ==
  ASSUME TypeOK
  PROVE  /\ 1 .. clock \subseteq Jobs /\ clock + 1 \notin 1 .. clock
         /\ clock < NumJobs => clock + 1 \in Jobs
  BY JobQueueAssumption DEF TypeOK, HostOK, Jobs

\* A step that neither makes nor drops a row, and gives an entry only to jobs
\* that have one or are registered already.
LEMMA RowsKept ==
  ASSUME TypeOK, RowInv, recovery' \subseteq recovery,
         server' = "up" => server = "up" \/ recovery = {},
         \A k \in Jobs : dbStatus'[k] = "absent" <=> dbStatus[k] = "absent",
         \A k \in Jobs : status'[k] # "absent" =>
           status[k] # "absent" \/ dbStatus[k] # "absent"
  PROVE  RowInv' /\ NoneAppears
  <1>1. recovery \subseteq Jobs
    BY DEF TypeOK, HostOK
  <1>2. RowInv'
    BY <1>1 DEF RowInv
  <1>3. NoneAppears
    BY CreatedJobs DEF NoneAppears
  <1> QED
    BY <1>2, <1>3

LEMMA LaunchStepRows ==
  ASSUME TypeOK, RowInv, NEW t \in Threads, LaunchStep(t)
  PROVE  RowInv' /\ NoneAppears
  <1> DEFINE j == launch[t].job
  <1>1. /\ j \in Jobs
        /\ dbStatus \in [Jobs -> Status] /\ status \in [Jobs -> Status]
    BY DEF TypeOK, LaunchOK, RowsOK, RegistryOK, LaunchStep, BeginLaunch, Spawn,
       LaunchFails, Commit, Attach
  <1>2. UNCHANGED <<recovery, server>>
    BY DEF LaunchStep, BeginLaunch, Spawn, LaunchFails, Commit, Attach, host
  <1>3. dbStatus' \in {dbStatus, Persist(dbStatus, j, "running"),
                       Persist(dbStatus, j, "failed")}
    BY DEF LaunchStep, BeginLaunch, Spawn, LaunchFails, Commit, Attach, rows
  <1>4. \/ status' = status
        \/ status' = Persist(status, j, "failed")
        \/ status[j] # "absent" /\ status' = [status EXCEPT ![j] = "running"]
    BY DEF LaunchStep, BeginLaunch, Spawn, LaunchFails, Commit, Attach, registry
  <1>5. \A k \in Jobs : dbStatus'[k] = "absent" <=> dbStatus[k] = "absent"
    BY <1>1, <1>3, PersistKeeps
  <1>6. \A k \in Jobs : status'[k] # "absent" => status[k] # "absent"
    BY <1>1, <1>4, PersistKeeps
  <1> QED
    BY <1>2, <1>5, <1>6, RowsKept

LEMMA AdvanceQueueRows ==
  ASSUME TypeOK, RowInv, NEW t \in Threads, AdvanceQueue(t)
  PROVE  RowInv' /\ NoneAppears
  <1>1. UNCHANGED <<recovery, server>>
    BY DEF AdvanceQueue, host
  <1>2. \A k \in Jobs : dbStatus'[k] = "absent" <=> dbStatus[k] = "absent"
    BY DEF AdvanceQueue, HealedRows
  <1>3. \A k \in Jobs : status'[k] # "absent" => status[k] # "absent"
    BY DEF AdvanceQueue, HealedStatus, Failed, Phantoms
  <1> QED
    BY <1>1, <1>2, <1>3, RowsKept

LEMMA RequeueRows ==
  ASSUME TypeOK, RowInv, NEW t \in Threads, NEW j \in Jobs,
         status[j] # "absent", NEW by, Requeue(t, j, by)
  PROVE  RowInv' /\ NoneAppears
  <1>1. UNCHANGED <<recovery, server>>
    BY DEF Requeue, host
  <1>2. HealedRows \in [Jobs -> Status] /\ HealedStatus \in [Jobs -> Status]
    BY HealedType
  <1>3. \A k \in Jobs : HealedRows[k] = "absent" <=> dbStatus[k] = "absent"
    BY DEF HealedRows
  <1>4. \A k \in Jobs : HealedStatus[k] # "absent" => status[k] # "absent"
    BY DEF HealedStatus, Failed, Phantoms
  <1>5. dbStatus' = Persist(HealedRows, j, "pending")
    BY DEF Requeue
  <1>6. status' = [HealedStatus EXCEPT ![j] = "pending"]
    BY DEF Requeue
  <1>7. \A k \in Jobs : dbStatus'[k] = "absent" <=> dbStatus[k] = "absent"
    BY <1>2, <1>3, <1>5, PersistKeeps
  <1>8. \A k \in Jobs : status'[k] # "absent" => status[k] # "absent"
    BY <1>2, <1>4, <1>6
  <1> QED
    BY <1>1, <1>7, <1>8, RowsKept

LEMMA QueueOpRows ==
  ASSUME TypeOK, RowInv, NEW t \in Threads, NEW j \in Jobs,
         StartNow(t, j) \/ RestartJob(t, j) \/ FireTimer(t, j)
           \/ RunRebuild(t, j)
  PROVE  RowInv' /\ NoneAppears
  <1>1. CASE StartNow(t, j)
    <2>1. UNCHANGED <<dbStatus, recovery, server>> /\ status[j] # "absent"
      BY <1>1 DEF StartNow, rows, host
    <2>2. \A k \in Jobs : status'[k] # "absent" => status[k] # "absent"
      BY <1>1, <2>1 DEF StartNow, TypeOK, RegistryOK
    <2> QED
      BY <2>1, <2>2, RowsKept
  <1>2. CASE status[j] # "absent" /\ \E by \in {"user", "auto"} :
               Requeue(t, j, by)
    BY <1>2, RequeueRows
  <1>3. CASE UNCHANGED <<status, dbStatus, recovery, server>>
    BY <1>3, RowsKept
  <1> QED
    BY <1>1, <1>2, <1>3 DEF RestartJob, FireTimer, RunRebuild, registry, rows,
       host

LEMMA UserOpRows ==
  ASSUME TypeOK, RowInv, NEW j \in Jobs,
         \/ StopJob(j) \/ DeleteJob(j) \/ PauseJob(j) \/ ResumeJob(j)
         \/ ReorderUp(j)
  PROVE  RowInv' /\ NoneAppears
  <1>1. CASE DeleteJob(j)
    <2>1. /\ UNCHANGED <<recovery, server>> /\ recovery = {}
          /\ status' = [status EXCEPT ![j] = "absent"]
          /\ dbStatus' = [dbStatus EXCEPT ![j] = "absent"]
      BY <1>1 DEF DeleteJob, May, host, RowInv
    <2> QED
      BY <2>1, CreatedJobs DEF TypeOK, RegistryOK, RowsOK, RowInv, NoneAppears
  <1>2. CASE ~DeleteJob(j)
    <2>1. UNCHANGED <<recovery, server>>
      BY <1>2 DEF StopJob, PauseJob, ResumeJob, ReorderUp, host
    <2>2. /\ dbStatus \in [Jobs -> Status] /\ status \in [Jobs -> Status]
          /\ \E s \in {"stopped", "paused", "running"} :
               dbStatus' \in {dbStatus, Persist(dbStatus, j, s)}
      BY <1>2 DEF StopJob, PauseJob, ResumeJob, ReorderUp, TypeOK, RowsOK,
         RegistryOK
    <2>3. \/ status' = status
          \/ /\ status[j] # "absent"
             /\ \E s \in Status : status' = [status EXCEPT ![j] = s]
      BY <1>2 DEF StopJob, PauseJob, ResumeJob, ReorderUp
    <2>4. \A k \in Jobs : dbStatus'[k] = "absent" <=> dbStatus[k] = "absent"
      BY <2>2, PersistKeeps
    <2>5. \A k \in Jobs : status'[k] # "absent" => status[k] # "absent"
      BY <2>2, <2>3
    <2> QED
      BY <2>1, <2>4, <2>5, RowsKept
  <1> QED
    BY <1>1, <1>2

LEMMA HandleExitRows ==
  ASSUME TypeOK, RowInv, NEW j \in Jobs, HandleExit(j)
  PROVE  RowInv' /\ NoneAppears
  <1>1. UNCHANGED <<recovery, server>>
    BY DEF HandleExit, host
  <1>2. \/ status' = status /\ dbStatus' = dbStatus
        \/ /\ status[j] # "absent"
           /\ \E s \in Terminal : /\ status' = [status EXCEPT ![j] = s]
                                  /\ dbStatus' = Persist(dbStatus, j, s)
    BY DEF HandleExit, Finish, registry
  <1>3. dbStatus \in [Jobs -> Status] /\ status \in [Jobs -> Status]
    BY DEF TypeOK, RowsOK, RegistryOK
  <1>4. \A k \in Jobs : dbStatus'[k] = "absent" <=> dbStatus[k] = "absent"
    BY <1>2, <1>3, PersistKeeps
  <1>5. \A k \in Jobs : status'[k] # "absent" => status[k] # "absent"
    BY <1>2, <1>3
  <1> QED
    BY <1>1, <1>4, <1>5, RowsKept

LEMMA ProcessRows ==
  ASSUME TypeOK, RowInv, NEW p \in Pids,
         \/ TrainerStarts(p) \/ TrainerEnds(p)
         \/ WatchdogNotices(p) \/ WatchdogFinalizes(p)
  PROVE  RowInv' /\ NoneAppears
  <1> DEFINE j == procJob[p]
  <1>1. UNCHANGED <<recovery, server>>
    BY DEF TrainerStarts, TrainerEnds, TrainerGone, TrainerExits,
       WatchdogNotices, WatchdogFinalizes, host
  <1>2. \E s \in Status \ {"absent"} :
          dbStatus' \in {dbStatus, Persist(dbStatus, j, s)}
    BY DEF TrainerStarts, TrainerEnds, TrainerGone, TrainerExits,
       WatchdogNotices, WatchdogFinalizes, Finish, rows
  <1>3. \/ status' = status
        \/ status[j] # "absent" /\ status' = [status EXCEPT ![j] = "stopped"]
    BY DEF TrainerStarts, TrainerEnds, TrainerGone, TrainerExits,
       WatchdogNotices, WatchdogFinalizes, Finish, registry
  <1>4. dbStatus \in [Jobs -> Status] /\ status \in [Jobs -> Status]
    BY DEF TypeOK, RowsOK, RegistryOK
  <1>5. \A k \in Jobs : dbStatus'[k] = "absent" <=> dbStatus[k] = "absent"
    <2>1. CASE j \in Jobs
      BY <1>2, <1>4, <2>1, PersistKeeps
    <2>2. CASE j \notin Jobs
      BY <1>2, <1>4, <2>2 DEF Persist
    <2> QED
      BY <2>1, <2>2
  <1>6. \A k \in Jobs : status'[k] # "absent" => status[k] # "absent"
    BY <1>3, <1>4
  <1> QED
    BY <1>1, <1>5, <1>6, RowsKept

\* The boot gives an entry to every row and re-launches rows only; the next
\* created job is numbered past every row made so far.
LEMMA HostRows ==
  ASSUME TypeOK, RowInv,
         \/ Crash \/ Boot \/ BootDone \/ (\E j \in Jobs : Relaunch(j))
         \/ CreateJob \/ AdvanceOff \/ (\E on \in BOOLEAN : SetAutoQueue(on))
         \/ UNCHANGED vars
  PROVE  RowInv' /\ NoneAppears
  <1>1. dbStatus \in [Jobs -> Status] /\ status \in [Jobs -> Status]
    BY DEF TypeOK, RowsOK, RegistryOK
  <1>2. CASE Crash
    <2>1. UNCHANGED dbStatus /\ status' = [j \in Jobs |-> "absent"]
          /\ recovery' = {} /\ server' = "down"
      BY <1>2 DEF Crash, rows
    <2> QED
      BY <2>1, RowsKept
  <1>3. CASE Boot
    <2>1. dbStatus' = DemotedRows /\ server' = "booting"
      BY <1>3 DEF Boot
    <2>2. \A k \in Jobs : DemotedRows[k] = "absent" <=> dbStatus[k] = "absent"
      BY DEF DemotedRows, Interrupted
    <2>3. \A k \in Jobs : dbStatus[k] = "absent" => status'[k] = "absent"
      BY <1>3 DEF Boot, Interrupted
    <2>4. \A k \in recovery' : k \in Jobs /\ dbStatus[k] = "paused"
      BY <1>3 DEF Boot
    <2> QED
      BY <2>1, <2>2, <2>3, <2>4, CreatedJobs DEF RowInv, NoneAppears
  <1>4. CASE BootDone
    BY <1>4, RowsKept DEF BootDone, registry, rows
  <1>5. ASSUME NEW j \in Jobs, Relaunch(j) PROVE RowInv' /\ NoneAppears
    <2>1. /\ j \in recovery /\ recovery' = recovery \ {j} /\ server' = server
          /\ \E s \in {"paused", "stopped"} :
               /\ status' = [status EXCEPT ![j] = s]
               /\ dbStatus' = Persist(dbStatus, j, s)
      BY <1>5 DEF Relaunch
    <2>2. \A k \in Jobs : dbStatus'[k] = "absent" <=> dbStatus[k] = "absent"
      BY <1>1, <2>1, PersistKeeps
    <2>3. \A k \in Jobs : status'[k] # "absent" =>
            status[k] # "absent" \/ dbStatus[k] # "absent"
      BY <1>1, <2>1 DEF RowInv
    <2> QED
      BY <2>1, <2>2, <2>3, RowsKept
  <1>6. CASE CreateJob
    <2>1. /\ clock + 1 \in Jobs
          /\ status' = [status EXCEPT ![clock + 1] = "pending"]
          /\ dbStatus' = [dbStatus EXCEPT ![clock + 1] = "pending"]
          /\ UNCHANGED <<recovery, server>>
      BY <1>6, CreatedJobs DEF CreateJob
    <2>2. recovery \subseteq Jobs
      BY DEF TypeOK, HostOK
    <2>3. RowInv'
      BY <1>1, <2>1, <2>2 DEF RowInv
    <2>4. NoneAppears
      BY <1>1, <2>1, CreatedJobs DEF NoneAppears
    <2> QED
      BY <2>3, <2>4
  <1>7. CASE UNCHANGED <<status, dbStatus, recovery, server>>
    BY <1>7, RowsKept
  <1> QED
    BY <1>2, <1>3, <1>4, <1>5, <1>6, <1>7 DEF AdvanceOff, SetAutoQueue, vars,
       registry, rows, host

LEMMA RowNext == TypeOK /\ RowInv /\ [Next]_vars => RowInv' /\ NoneAppears
  <1> SUFFICES ASSUME TypeOK, RowInv, [Next]_vars PROVE RowInv' /\ NoneAppears
    OBVIOUS
  <1>1. ASSUME NEW t \in Threads, LaunchStep(t) \/ AdvanceQueue(t)
        PROVE  RowInv' /\ NoneAppears
    BY <1>1, LaunchStepRows, AdvanceQueueRows
  <1>2. ASSUME NEW t \in Threads, NEW j \in Jobs,
               StartNow(t, j) \/ RestartJob(t, j) \/ FireTimer(t, j)
                 \/ RunRebuild(t, j)
        PROVE  RowInv' /\ NoneAppears
    BY <1>2, QueueOpRows
  <1>3. ASSUME NEW j \in Jobs,
               \/ StopJob(j) \/ DeleteJob(j) \/ PauseJob(j) \/ ResumeJob(j)
               \/ ReorderUp(j)
        PROVE  RowInv' /\ NoneAppears
    BY <1>3, UserOpRows
  <1>4. ASSUME NEW j \in Jobs, HandleExit(j) PROVE RowInv' /\ NoneAppears
    BY <1>4, HandleExitRows
  <1>5. ASSUME NEW p \in Pids,
               \/ TrainerStarts(p) \/ TrainerEnds(p)
               \/ WatchdogNotices(p) \/ WatchdogFinalizes(p)
        PROVE  RowInv' /\ NoneAppears
    BY <1>5, ProcessRows
  <1>6. CASE \/ Crash \/ Boot \/ BootDone \/ (\E j \in Jobs : Relaunch(j))
             \/ CreateJob \/ AdvanceOff
             \/ (\E on \in BOOLEAN : SetAutoQueue(on)) \/ UNCHANGED vars
    BY <1>6, HostRows
  <1> QED
    BY <1>1, <1>2, <1>3, <1>4, <1>5, <1>6 DEF Next

LEMMA RowInit == Init => RowInv
  BY DEF Init, RowInv

\* A deleted job stays deleted, however late the exit line, the timer, the
\* launch or the trainer's own row write comes.
THEOREM DeletionIsFinal == Spec => DeletedForGood
  <1> DEFINE Step == \A j \in 1 .. clock :
               dbStatus[j] = "absent" =>
                 dbStatus'[j] = "absent" /\ status'[j] = "absent"
  <1>1. TypeOK /\ RowInv /\ RowInv' /\ NoneAppears => Step
    BY CreatedJobs DEF RowInv, NoneAppears
  <1>2. TypeOK /\ RowInv /\ [Next]_vars => [Step]_vars
    BY <1>1, RowNext
  <1> QED
    BY <1>2, InitType, TypeNext, RowInit, RowNext, PTL DEF Spec, DeletedForGood

-----------------------------------------------------------------------------
(* Active jobs are followed: by the start_job call that is launching them, *)
(* or by the watchdog thread of their process.  ActiveIsWatched is not      *)
(* inductive: a thread may be about to call start_job on a job that runs    *)
(* already, and a launch must not lose the process it has spawned to a      *)
(* reuse of the process id.  WatchInv says both.                            *)

Inside == {"preflight", "spawned", "attach"}
InFlight(j) == \E t \in Threads : launch[t].pc \in Inside /\ launch[t].job = j
Watched(j) ==
  pid[j] # NoPid /\ watch[pid[j]] # "off" /\ procJob[pid[j]] = j

\* Active jobs are past the entry check of a launch or watched, and a launch
\* holds a process of its own job.
WatchInv ==
  /\ server # "down" =>
       \A j \in Jobs : status[j] \in Active => InFlight(j) \/ Watched(j)
  /\ \A t \in Threads : launch[t].pc \in {"spawned", "attach"} =>
       launch[t].pid \in Pids /\ procJob[launch[t].pid] = launch[t].job

\* The launches past their entry check are the same after the step.
SameLaunches ==
  \A t \in Threads :
    /\ launch'[t].pc \in Inside <=> launch[t].pc \in Inside
    /\ launch[t].pc \in Inside => launch'[t] = launch[t]

-----------------------------------------------------------------------------
\* A step that starts no run, kills no watchdog and moves no launch.
LEMMA NothingStarts ==
  ASSUME TypeOK, WatchInv, SameLaunches,
         UNCHANGED <<procJob, watch>>, server' # "down" => server # "down",
         \A j \in Jobs : status'[j] \in Active =>
           status[j] \in Active /\ pid'[j] = pid[j]
  PROVE  WatchInv'
  <1>1. \A j \in Jobs : InFlight(j) => InFlight(j)'
    BY DEF InFlight, SameLaunches
  <1>2. \A j \in Jobs : pid'[j] = pid[j] /\ Watched(j) => Watched(j)'
    BY DEF Watched
  <1>3. \A t \in Threads : launch'[t].pc \in {"spawned", "attach"} =>
          launch'[t].pid \in Pids /\ procJob'[launch'[t].pid] = launch'[t].job
    BY DEF WatchInv, SameLaunches, Inside
  <1> QED
    BY <1>1, <1>2, <1>3 DEF WatchInv

\* A thread that is not past the entry check may change its state.
LEMMA OtherLaunches ==
  ASSUME TypeOK, NEW t \in Threads, launch[t].pc \notin Inside,
         NEW r, r.pc \notin Inside,
         launch' \in {launch, [launch EXCEPT ![t] = r]}
  PROVE  SameLaunches
  BY DEF SameLaunches, TypeOK, LaunchOK

LEMMA NoLaunchChange == launch' = launch => SameLaunches
  BY DEF SameLaunches

\* start_job on a free thread: the job is in flight from the first moment.
LEMMA StartNowWatch ==
  ASSUME TypeOK, WatchInv, NEW t \in Threads, NEW j \in Jobs, StartNow(t, j)
  PROVE  WatchInv'
  <1> DEFINE r == [pc |-> "preflight", job |-> j, pid |-> NoPid, by |-> "user"]
  <1>1. /\ launch' = [launch EXCEPT ![t] = r] /\ launch[t].pc = "idle"
        /\ status' = [status EXCEPT ![j] = "running"]
        /\ UNCHANGED <<pid, procJob, watch, server>>
    BY DEF StartNow, procs, host
  <1>2. launch'[t] = r /\ \A u \in Threads \ {t} : launch'[u] = launch[u]
    BY <1>1 DEF TypeOK, LaunchOK
  <1>3. InFlight(j)'
    BY <1>2 DEF InFlight, Inside
  <1>4. \A k \in Jobs : InFlight(k) => InFlight(k)'
    BY <1>1, <1>2 DEF InFlight, Inside
  <1>5. \A k \in Jobs : Watched(k) => Watched(k)'
    BY <1>1 DEF Watched
  <1>6. \A k \in Jobs \ {j} : status'[k] = status[k]
    BY <1>1 DEF TypeOK, RegistryOK
  <1> QED
    BY <1>1, <1>2, <1>3, <1>4, <1>5, <1>6 DEF WatchInv

\* A step of the launch of thread t that keeps or ends it: the job of t is the
\* only one whose status may change, and it must be covered afterwards.
LEMMA LaunchMoves ==
  ASSUME TypeOK, WatchInv, NEW t \in Threads, NEW j \in Jobs,
         launch[t].job = j,
         \A u \in Threads \ {t} : launch'[u] = launch[u],
         launch'[t].pc \in {"spawned", "attach"} =>
           launch'[t].pid \in Pids
             /\ procJob'[launch'[t].pid] = launch'[t].job,
         \A u \in Threads \ {t} : launch[u].pc \in {"spawned", "attach"} =>
           procJob'[launch[u].pid] = procJob[launch[u].pid],
         \A k \in Jobs \ {j} :
           /\ status'[k] = status[k] /\ pid'[k] = pid[k]
           /\ Watched(k) => Watched(k)',
         status'[j] \in Active => InFlight(j)' \/ Watched(j)',
         server' = server
  PROVE  WatchInv'
  <1>1. \A k \in Jobs \ {j} : InFlight(k) => InFlight(k)'
    BY DEF InFlight
  <1>2. server' # "down" =>
          \A k \in Jobs : status'[k] \in Active => InFlight(k)' \/ Watched(k)'
    <2> SUFFICES ASSUME server' # "down", NEW k \in Jobs, status'[k] \in Active
                 PROVE  InFlight(k)' \/ Watched(k)'
      OBVIOUS
    <2>1. CASE k = j
      BY <2>1
    <2>2. CASE k # j
      <3>1. server # "down" /\ status[k] \in Active
        BY <2>2
      <3>2. InFlight(k) \/ Watched(k)
        BY <3>1 DEF WatchInv
      <3> QED
        BY <1>1, <2>2, <3>2
    <2> QED
      BY <2>1, <2>2
  <1>3. \A u \in Threads : launch'[u].pc \in {"spawned", "attach"} =>
          launch'[u].pid \in Pids /\ procJob'[launch'[u].pid] = launch'[u].job
    BY DEF WatchInv
  <1> QED
    BY <1>2, <1>3 DEF WatchInv

LEMMA BeginLaunchWatch ==
  ASSUME TypeOK, WatchInv, NEW t \in Threads, BeginLaunch(t)
  PROVE  WatchInv'
  <1>0. PICK j \in Jobs : launch[t].job = j
    BY DEF BeginLaunch, TypeOK, LaunchOK
  <1>1. launch[t].pc = "claimed" /\ UNCHANGED <<pid, procJob, watch, server>>
    BY DEF BeginLaunch, procs, host
  <1>2. CASE UNCHANGED status /\ launch' = [launch EXCEPT ![t] = Idle]
    <2>1. SameLaunches
      BY <1>1, <1>2, OtherLaunches DEF Idle, Inside
    <2> QED
      BY <1>1, <1>2, <2>1, NothingStarts
  <1>3. CASE /\ status' = [status EXCEPT ![j] = "running"]
             /\ launch' = [launch EXCEPT ![t].pc = "preflight"]
    <2>1. /\ launch'[t].pc = "preflight" /\ launch'[t].job = j
          /\ \A u \in Threads \ {t} : launch'[u] = launch[u]
      BY <1>0, <1>3 DEF TypeOK, LaunchOK
    <2>2. InFlight(j)'
      BY <2>1 DEF InFlight, Inside
    <2>3. \A k \in Jobs \ {j} : status'[k] = status[k] /\ pid'[k] = pid[k]
      BY <1>1, <1>3 DEF TypeOK, RegistryOK
    <2>4. \A k \in Jobs \ {j} : Watched(k) => Watched(k)'
      BY <1>1 DEF Watched
    <2> QED
      BY <1>0, <1>1, <2>1, <2>2, <2>3, <2>4, LaunchMoves
  <1> QED
    BY <1>0, <1>2, <1>3 DEF BeginLaunch, Raise, Release

LEMMA SpawnWatch ==
  ASSUME TypeOK, WatchInv, NEW t \in Threads, Spawn(t)
  PROVE  WatchInv'
  <1>0. PICK j \in Jobs : launch[t].job = j
    BY DEF Spawn, TypeOK, LaunchOK
  <1>1. UNCHANGED <<status, pid, watch, server>>
    BY DEF Spawn, registry, host
  <1>2. CASE status[j] = "absent" /\ Release(t) /\ UNCHANGED procs
    <2>1. launch'[t] = Idle /\ \A u \in Threads \ {t} : launch'[u] = launch[u]
      BY <1>2 DEF Release, TypeOK, LaunchOK
    <2>2. \A k \in Jobs : Watched(k) => Watched(k)'
      BY <1>1, <1>2 DEF Watched, procs
    <2> QED
      BY <1>0, <1>1, <1>2, <2>1, <2>2, LaunchMoves DEF Idle, procs
  <1>3. ASSUME NEW p \in Pids, Fresh(p, j),
               procJob' = [procJob EXCEPT ![p] = j],
               launch' = [launch EXCEPT ![t].pc = "spawned", ![t].pid = p]
        PROVE  WatchInv'
    <2>1. /\ launch'[t].pc = "spawned" /\ launch'[t].pid = p
          /\ launch'[t].job = j
          /\ \A u \in Threads \ {t} : launch'[u] = launch[u]
      BY <1>0, <1>3 DEF TypeOK, LaunchOK
    <2>2. /\ procJob'[p] = j
          /\ \A q \in Pids \ {p} : procJob'[q] = procJob[q]
      BY <1>3 DEF TypeOK, ProcsOK
    <2>3. \A u \in Threads \ {t} : launch[u].pc \in {"spawned", "attach"} =>
            procJob'[launch[u].pid] = procJob[launch[u].pid]
      BY <1>3, <2>2 DEF Fresh, WatchInv
    <2>4. \A k \in Jobs : Watched(k) => Watched(k)'
      BY <1>1, <1>3, <2>2 DEF Watched, Fresh, TypeOK, RegistryOK
    <2>5. InFlight(j)'
      BY <2>1 DEF InFlight, Inside
    <2> QED
      BY <1>0, <1>1, <2>1, <2>2, <2>3, <2>4, <2>5, LaunchMoves
  <1> QED
    BY <1>0, <1>2, <1>3 DEF Spawn

LEMMA LaunchFailsWatch ==
  ASSUME TypeOK, WatchInv, NEW t \in Threads, LaunchFails(t)
  PROVE  WatchInv'
  <1>0. PICK j \in Jobs : launch[t].job = j
    BY DEF LaunchFails, TypeOK, LaunchOK
  <1>1. /\ launch[t].pc = "preflight" /\ j \in Jobs
        /\ status' = Persist(status, j, "failed")
        /\ UNCHANGED <<pid, procJob, watch, server>>
    BY <1>0 DEF LaunchFails, procs, host, TypeOK, LaunchOK
  <1>2. launch'[t] = Idle /\ \A u \in Threads \ {t} : launch'[u] = launch[u]
    BY DEF LaunchFails, Raise, Release, TypeOK, LaunchOK
  <1>3. /\ status'[j] \notin Active
        /\ \A k \in Jobs \ {j} : status'[k] = status[k]
    BY <1>1 DEF Persist, TypeOK, RegistryOK
  <1>4. \A k \in Jobs : Watched(k) => Watched(k)'
    BY <1>1 DEF Watched
  <1> QED
    BY <1>0, <1>1, <1>2, <1>3, <1>4, LaunchMoves DEF Idle

LEMMA CommitWatch ==
  ASSUME TypeOK, WatchInv, NEW t \in Threads, Commit(t)
  PROVE  WatchInv'
  <1>0. PICK j \in Jobs : launch[t].job = j
    BY DEF Commit, TypeOK, LaunchOK
  <1>1. /\ launch[t].pc = "spawned" /\ j \in Jobs
        /\ UNCHANGED <<pid, procJob, watch, server>>
    BY DEF Commit, procs, host, TypeOK, LaunchOK
  <1>2. \A k \in Jobs : Watched(k) => Watched(k)'
    BY <1>1 DEF Watched
  <1>3. CASE status[j] = "absent" /\ Release(t) /\ UNCHANGED status
    <2>1. launch'[t] = Idle /\ \A u \in Threads \ {t} : launch'[u] = launch[u]
      BY <1>3 DEF Release, TypeOK, LaunchOK
    <2> QED
      BY <1>0, <1>1, <1>2, <1>3, <2>1, LaunchMoves DEF Idle
  <1>4. CASE /\ status' = [status EXCEPT ![j] = "running"]
             /\ launch' = [launch EXCEPT ![t].pc = "attach"]
    <2>1. /\ launch'[t].pc = "attach" /\ launch'[t].job = j
          /\ launch'[t].pid = launch[t].pid
          /\ \A u \in Threads \ {t} : launch'[u] = launch[u]
      BY <1>0, <1>4 DEF TypeOK, LaunchOK
    <2>2. InFlight(j)'
      BY <2>1 DEF InFlight, Inside
    <2>3. \A k \in Jobs \ {j} : status'[k] = status[k]
      BY <1>4 DEF TypeOK, RegistryOK
    <2>4. launch[t].pid \in Pids /\ procJob'[launch[t].pid] = j
      BY <1>0, <1>1 DEF WatchInv
    <2> QED
      BY <1>0, <1>1, <1>2, <2>1, <2>2, <2>3, <2>4, LaunchMoves
  <1> QED
    BY <1>0, <1>3, <1>4 DEF Commit

LEMMA AttachWatch ==
  ASSUME TypeOK, WatchInv, NEW t \in Threads, Attach(t)
  PROVE  WatchInv'
  <1>0. PICK j \in Jobs, p \in Pids :
          launch[t].job = j /\ launch[t].pid = p /\ procJob[p] = j
    BY DEF Attach, TypeOK, LaunchOK, WatchInv
  <1>1. /\ launch[t].pc = "attach" /\ j \in Jobs
        /\ watch' = [watch EXCEPT ![p] = "on"]
        /\ pid' = IF status[j] = "absent" THEN pid ELSE [pid EXCEPT ![j] = p]
        /\ UNCHANGED <<status, procJob, server>>
    BY <1>0 DEF Attach, procs, host, TypeOK, LaunchOK
  <1>2. launch'[t] = Idle /\ \A u \in Threads \ {t} : launch'[u] = launch[u]
    BY DEF Attach, Release, TypeOK, LaunchOK
  <1>3. \A k \in Jobs \ {j} : pid'[k] = pid[k] /\ (Watched(k) => Watched(k)')
    BY <1>1 DEF Watched, TypeOK, RegistryOK, FollowersOK
  <1>4. status'[j] \in Active => Watched(j)'
    <2>1. SUFFICES ASSUME status[j] # "absent" PROVE Watched(j)'
      BY <1>1
    <2>2. pid'[j] = p /\ watch'[p] = "on" /\ p # NoPid
      BY <1>1, <2>1, JobQueueAssumption
         DEF TypeOK, RegistryOK, FollowersOK
    <2>3. procJob'[p] = j
      BY <1>0, <1>1
    <2> QED
      BY <2>2, <2>3 DEF Watched
  <1> QED
    BY <1>0, <1>1, <1>2, <1>3, <1>4, LaunchMoves DEF Idle

\* Queue steps and restarts revive nothing: they make jobs pending or failed.
LEMMA AdvanceQueueWatch ==
  ASSUME TypeOK, WatchInv, NEW t \in Threads, AdvanceQueue(t)
  PROVE  WatchInv'
  <1>1. UNCHANGED <<procJob, watch, server>>
    BY DEF AdvanceQueue, procs, host
  <1>2. SameLaunches
    <2>1. launch[t].pc = "idle"
      BY DEF AdvanceQueue
    <2>2. CASE launch' = launch
      BY <2>2, NoLaunchChange
    <2>3. ASSUME NEW j \in Jobs, launch' = [launch EXCEPT ![t] =
                   [pc |-> "claimed", job |-> j, pid |-> NoPid, by |-> "claim"]]
          PROVE  SameLaunches
      BY <2>1, <2>3 DEF SameLaunches, Inside, TypeOK, LaunchOK
    <2> QED
      BY <2>2, <2>3 DEF AdvanceQueue
  <1>3. \A j \in Jobs : status'[j] \in Active =>
          status[j] \in Active /\ pid'[j] = pid[j]
    BY DEF AdvanceQueue, HealedStatus, HealedPid, Failed, Phantoms
  <1> QED
    BY <1>1, <1>2, <1>3, NothingStarts

LEMMA RequeueWatch ==
  ASSUME TypeOK, WatchInv, NEW t \in Threads, NEW j \in Jobs, NEW by,
         Requeue(t, j, by)
  PROVE  WatchInv'
  <1>1. UNCHANGED <<procJob, watch, server>> /\ launch[t].pc = "idle"
    BY DEF Requeue, procs, host
  <1>2. SameLaunches
    <2>1. launch' \in {launch, [launch EXCEPT ![t] =
            [pc |-> "claimed", job |-> j, pid |-> NoPid, by |-> by]]}
      BY DEF Requeue
    <2> QED
      BY <1>1, <2>1 DEF SameLaunches, Inside, TypeOK, LaunchOK
  <1>3. /\ status' = [HealedStatus EXCEPT ![j] = "pending"]
        /\ pid' = [HealedPid EXCEPT ![j] = NoPid]
    BY DEF Requeue
  <1>4. \A k \in Jobs : status'[k] \in Active =>
          status[k] \in Active /\ pid'[k] = pid[k]
    BY <1>3 DEF HealedStatus, HealedPid, Failed, Phantoms
  <1> QED
    BY <1>1, <1>2, <1>4, NothingStarts

LEMMA QueueOpWatch ==
  ASSUME TypeOK, WatchInv, NEW t \in Threads, NEW j \in Jobs,
         StartNow(t, j) \/ RestartJob(t, j) \/ FireTimer(t, j)
           \/ RunRebuild(t, j)
  PROVE  WatchInv'
  <1>1. CASE StartNow(t, j)
    BY <1>1, StartNowWatch
  <1>2. CASE \E by \in {"user", "auto"} : Requeue(t, j, by)
    BY <1>2, RequeueWatch
  <1>3. CASE UNCHANGED <<status, pid, procJob, watch, launch, server>>
    BY <1>3, NoLaunchChange, NothingStarts
  <1> QED
    BY <1>1, <1>2, <1>3 DEF RestartJob, FireTimer, RunRebuild, registry, procs,
       host

LEMMA JobStepWatch ==
  ASSUME TypeOK, WatchInv, NEW j \in Jobs,
         \/ StopJob(j) \/ DeleteJob(j) \/ PauseJob(j) \/ ResumeJob(j)
         \/ ReorderUp(j) \/ HandleExit(j)
  PROVE  WatchInv'
  <1>1. UNCHANGED <<procJob, watch, launch, server>>
    BY DEF StopJob, DeleteJob, PauseJob, ResumeJob, ReorderUp, HandleExit,
       procs, host
  <1>2. \A k \in Jobs : status'[k] \in Active =>
          status[k] \in Active /\ pid'[k] = pid[k]
    <2>1. \/ status' = status /\ pid' = pid
          \/ /\ pid' = [pid EXCEPT ![j] = NoPid]
             /\ \E s \in Terminal \cup {"absent"} :
                  status' = [status EXCEPT ![j] = s]
          \/ /\ pid' = pid /\ status[j] \in Active
             /\ \E s \in Active : status' = [status EXCEPT ![j] = s]
      BY DEF StopJob, DeleteJob, PauseJob, ResumeJob, ReorderUp, HandleExit,
         Finish, registry
    <2> QED
      BY <2>1 DEF TypeOK, RegistryOK
  <1> QED
    BY <1>1, <1>2, NoLaunchChange, NothingStarts

\* The watchdog of p ends only when the job of p is no longer active.
LEMMA WatchdogWatch ==
  ASSUME TypeOK, WatchInv, NEW p \in Pids,
         WatchdogNotices(p) \/ WatchdogFinalizes(p)
  PROVE  WatchInv'
  <1> DEFINE j == procJob[p]
  <1>1. UNCHANGED <<procJob, launch, server>>
    BY DEF WatchdogNotices, WatchdogFinalizes, procs, host
  <1>2. \A k \in Jobs : status'[k] \in Active =>
          status[k] \in Active /\ pid'[k] = pid[k]
    BY DEF WatchdogNotices, WatchdogFinalizes, Finish, registry, TypeOK,
       RegistryOK
  <1>3. \A k \in Jobs : status'[k] \in Active /\ Watched(k) => Watched(k)'
    <2> SUFFICES ASSUME NEW k \in Jobs, status'[k] \in Active, Watched(k)
                 PROVE  Watched(k)'
      OBVIOUS
    <2>1. pid'[k] = pid[k] /\ pid[k] \in Pids
      BY <1>2 DEF Watched, TypeOK, RegistryOK
    <2>2. CASE pid[k] # p
      <3>1. watch'[pid[k]] = watch[pid[k]]
        BY <2>1, <2>2 DEF WatchdogNotices, WatchdogFinalizes, TypeOK,
           FollowersOK
      <3> QED
        BY <1>1, <2>1, <3>1 DEF Watched
    <2>3. CASE pid[k] = p
      <3>1. j = k
        BY <2>3 DEF Watched
      <3>2. CASE WatchdogNotices(p)
        <4>1. watch'[p] = "grace"
          BY <1>2, <3>1, <3>2 DEF WatchdogNotices, TypeOK, FollowersOK
        <4> QED
          BY <1>1, <2>1, <2>3, <4>1 DEF Watched
      <3>3. CASE WatchdogFinalizes(p)
        <4>1. status'[k] \notin Active
          BY <3>1, <3>3 DEF WatchdogFinalizes, Finish, TypeOK, RegistryOK
        <4> QED
          BY <4>1
      <3> QED
        BY <3>2, <3>3
    <2> QED
      BY <2>2, <2>3
  <1>4. \A k \in Jobs : InFlight(k) <=> InFlight(k)'
    BY <1>1 DEF InFlight
  <1> QED
    BY <1>1, <1>2, <1>3, <1>4 DEF WatchInv

\* The next backend watches the trainers it adopts and those it re-launches.
LEMMA BootWatch ==
  ASSUME TypeOK, WatchInv, Boot
  PROVE  WatchInv'
  <1>1. UNCHANGED <<procJob, launch>> /\ pid' = dbPid
    BY DEF Boot, procs
  <1>2. ASSUME NEW j \in Jobs, status'[j] \in Active PROVE Watched(j)'
    <2>1. Survives(j)
      BY <1>2 DEF Boot, Interrupted, Survives
    <2>2. dbPid[j] \in Pids /\ procJob[dbPid[j]] = j
      BY <2>1 DEF Survives, IsTrainer
    <2>3. watch'[dbPid[j]] = "on"
      BY <2>1, <2>2 DEF Boot
    <2> QED
      BY <1>1, <2>2, <2>3, JobQueueAssumption DEF Watched
  <1> QED
    BY <1>1, <1>2 DEF WatchInv

LEMMA RelaunchWatch ==
  ASSUME TypeOK, WatchInv, NEW j \in Jobs, Relaunch(j)
  PROVE  WatchInv'
  <1>1. UNCHANGED <<launch, server>>
    BY DEF Relaunch
  <1>2. ASSUME NEW p \in Pids, Fresh(p, j),
               procJob' = [procJob EXCEPT ![p] = j],
               status' = [status EXCEPT ![j] = "paused"],
               pid' = [pid EXCEPT ![j] = p],
               watch' = [watch EXCEPT ![p] = "on"]
        PROVE  WatchInv'
    <2>1. Watched(j)'
      BY <1>2, JobQueueAssumption
         DEF Watched, TypeOK, RegistryOK, FollowersOK, ProcsOK
    <2>2. \A k \in Jobs \ {j} : Watched(k) => Watched(k)'
      BY <1>2 DEF Watched, Fresh, TypeOK, RegistryOK, FollowersOK, ProcsOK
    <2>3. \A k \in Jobs \ {j} : status'[k] = status[k]
      BY <1>2 DEF TypeOK, RegistryOK
    <2>4. \A t \in Threads : launch[t].pc \in {"spawned", "attach"} =>
            launch[t].pid \in Pids
              /\ procJob'[launch[t].pid] = procJob[launch[t].pid]
      BY <1>2 DEF Fresh, WatchInv, TypeOK, ProcsOK
    <2>5. \A k \in Jobs : InFlight(k) <=> InFlight(k)'
      BY <1>1 DEF InFlight
    <2> QED
      BY <1>1, <2>1, <2>2, <2>3, <2>4, <2>5 DEF WatchInv
  <1>3. CASE /\ status' = [status EXCEPT ![j] = "stopped"]
             /\ UNCHANGED <<procs, pid, watch>>
    <2>1. \A k \in Jobs : status'[k] \in Active =>
            status[k] \in Active /\ pid'[k] = pid[k]
      BY <1>3 DEF TypeOK, RegistryOK
    <2> QED
      BY <1>1, <1>3, <2>1, NoLaunchChange, NothingStarts DEF procs
  <1> QED
    BY <1>2, <1>3 DEF Relaunch

-----------------------------------------------------------------------------
LEMMA WatchInit == Init => WatchInv
  BY DEF Init, WatchInv, Idle

LEMMA WatchNext == TypeOK /\ WatchInv /\ [Next]_vars => WatchInv'
  <1> SUFFICES ASSUME TypeOK, WatchInv, [Next]_vars PROVE WatchInv'
    OBVIOUS
  <1>1. ASSUME NEW t \in Threads, LaunchStep(t) \/ AdvanceQueue(t)
        PROVE  WatchInv'
    BY <1>1, BeginLaunchWatch, SpawnWatch, LaunchFailsWatch, CommitWatch,
       AttachWatch, AdvanceQueueWatch DEF LaunchStep
  <1>2. ASSUME NEW t \in Threads, NEW j \in Jobs,
               StartNow(t, j) \/ RestartJob(t, j) \/ FireTimer(t, j)
                 \/ RunRebuild(t, j)
        PROVE  WatchInv'
    BY <1>2, QueueOpWatch
  <1>3. ASSUME NEW j \in Jobs,
               \/ StopJob(j) \/ DeleteJob(j) \/ PauseJob(j) \/ ResumeJob(j)
               \/ ReorderUp(j) \/ HandleExit(j)
        PROVE  WatchInv'
    BY <1>3, JobStepWatch
  <1>4. ASSUME NEW p \in Pids, TrainerStarts(p) \/ TrainerEnds(p)
        PROVE  WatchInv'
    <2>1. UNCHANGED <<status, pid, procJob, watch, launch, server>>
      BY <1>4 DEF TrainerStarts, TrainerEnds, TrainerGone, TrainerExits,
         registry, host
    <2> QED
      BY <2>1, NoLaunchChange, NothingStarts
  <1>5. ASSUME NEW p \in Pids, WatchdogNotices(p) \/ WatchdogFinalizes(p)
        PROVE  WatchInv'
    BY <1>5, WatchdogWatch
  <1>6. CASE AdvanceOff \/ BootDone \/ UNCHANGED vars
               \/ (\E on \in BOOLEAN : SetAutoQueue(on))
    <2>1. /\ UNCHANGED <<status, pid, procJob, watch, launch>>
          /\ server' # "down" => server # "down"
      BY <1>6 DEF AdvanceOff, BootDone, SetAutoQueue, vars, registry, procs,
         host
    <2> QED
      BY <2>1, NoLaunchChange, NothingStarts
  <1>7. CASE CreateJob
    <2>1. /\ UNCHANGED <<pid, procJob, watch, launch, server>>
          /\ \A k \in Jobs : status'[k] \in Active => status[k] \in Active
      BY <1>7 DEF CreateJob, procs, TypeOK, RegistryOK
    <2> QED
      BY <2>1, NoLaunchChange, NothingStarts
  <1>8. CASE Crash
    <2>1. server' = "down" /\ \A t \in Threads : launch'[t].pc = "idle"
      BY <1>8 DEF Crash, Idle
    <2> QED
      BY <2>1 DEF WatchInv
  <1>9. CASE Boot \/ \E j \in Jobs : Relaunch(j)
    BY <1>9, BootWatch, RelaunchWatch
  <1> QED
    BY <1>1, <1>2, <1>3, <1>4, <1>5, <1>6, <1>7, <1>8, <1>9 DEF Next

\* Whatever ends a trainer, somebody is there to notice and to free the queue.
THEOREM WatchCorrect == Spec => []ActiveIsWatched
  <1>1. TypeOK /\ WatchInv => ActiveIsWatched
    BY DEF WatchInv, InFlight, Inside, Watched, ActiveIsWatched, Launching
  <1> QED
    BY <1>1, InitType, TypeNext, WatchInit, WatchNext, PTL DEF Spec

HIDE DEF Status, Active, Terminal, Running, LaunchSteps, ExitKinds

-----------------------------------------------------------------------------
(* One trainer on the GPU: the invariant.                                  *)

\* The instances in which nothing races with start_job: no launch but the queue's
\* own, stops and deletions once the system is quiet, and no exit that leads to a
\* relaunch.
Orderly ==
  /\ UserOps \cap {"start", "restart"} = {}
  /\ AnyTime \cap {"stop", "delete"} = {}
  /\ Exits \cap {"rebuild", "fault"} = {}

\* Those of them in which the backend never ends.
Calm == Orderly /\ MaxCrashes = 0

CalmHost ==
  /\ server # "down" /\ timers = {} /\ rebuilding = {} /\ recovery = {}
  /\ \A j \in Jobs : \A i \in 1 .. Len(log[j]) : log[j][i] \in {"ok", "err", "soft"}
  /\ \A t \in Threads : launch[t].pc # "idle" => launch[t].by = "claim"

Uncreated == \A j \in Jobs : j > clock => status[j] = "absent" /\ priority[j] = 0

\* A job whose trainer is not spawned yet has left no trace of one.
New(j) ==
  \/ j > clock \/ status[j] = "pending"
  \/ \E t \in Threads : launch[t].pc \in {"claimed", "preflight"} /\ launch[t].job = j
Untouched ==
  \A j \in Jobs : New(j) =>
    /\ log[j] = << >> /\ j \notin tailing /\ pid[j] = NoPid
    /\ \A p \in Pids : procJob[p] # j

OneActive == \A j, k \in Jobs : status[j] \in Active /\ status[k] \in Active => j = k

\* What a launch relies on: a claimed job waits while nobody is active, from then
\* on the job is the active one, and its trainer is followed by nobody yet.
LaunchedJob ==
  \A t \in Threads :
    /\ launch[t].pc = "claimed" =>
         status[launch[t].job] = "pending" /\ \A k \in Jobs : status[k] \notin Active
    /\ launch[t].pc \in Inside => status[launch[t].job] \in Active
    /\ launch[t].pc \in {"spawned", "attach"} =>
         /\ pid[launch[t].job] = NoPid /\ launch[t].job \notin tailing
         /\ launch[t].pid \in Pids /\ procJob[launch[t].pid] = launch[t].job
         /\ watch[launch[t].pid] = "off"
    /\ launch[t].pc \notin {"spawned", "attach"} => launch[t].pid = NoPid

\* A job that is not active may keep the pid of an earlier backend's row.
Recorded ==
  \A j \in Jobs : status[j] \in Active =>
    /\ pid[j] # NoPid => procJob[pid[j]] = j /\ watch[pid[j]] # "off"
    /\ InFlight(j) \/ pid[j] # NoPid

\* Every process that somebody still looks at was made for a job, and no two of
\* them for the same.
Engaged(p) ==
  procState[p] # "dead" \/ watch[p] # "off" \/ \E t \in Threads : launch[t].pid = p
OneProcess ==
  /\ \A p \in Pids : Engaged(p) => procJob[p] \in Jobs
  /\ \A p, q \in Pids : Engaged(p) /\ Engaged(q) /\ procJob[p] = procJob[q] => p = q

\* A trainer on the GPU is known, and its log has no exit line yet.
Known ==
  \A p \in Pids : procState[p] \in Running => Tracked(p) /\ log[procJob[p]] = << >>

CalmInv ==
  /\ CalmHost /\ Uncreated /\ Untouched /\ OneActive /\ LaunchedJob /\ Recorded
  /\ OneProcess /\ Known

\* No step takes a job out of a terminal status.
NoneRevived ==
  \A j \in Jobs : status[j] \in Terminal => status'[j] \in Terminal \cup {"absent"}

\* The step is one of the abstract queue's, or none.
Simulated == [Promise!Next]_(Promise!vars)

\* The row of a job and its registry entry, between runs.
Agrees(j) ==
  /\ j > clock => priority[j] = 0 /\ dbPriority[j] = 0
  /\ status[j] = "absent" <=> dbStatus[j] = "absent"
  /\ status[j] \notin Active =>
       /\ dbStatus[j] = status[j]
       /\ status[j] = "pending" => dbPriority[j] = priority[j]
RowsMatch == \A j \in Jobs : Agrees(j)

-----------------------------------------------------------------------------
(* Calm states.                                                            *)

\* What the jobs, pids and threads of a state are.
LEMMA Shapes ==
  ASSUME TypeOK
  PROVE  /\ \A k \in Jobs : pid[k] \in Pids \cup {NoPid} /\ k \in Int /\ 1 <= k /\ k <= NumJobs
         /\ \A u \in Threads : launch[u].pc # "idle" => launch[u].job \in Jobs
         /\ NoPid \notin Pids /\ clock \in Int /\ NumJobs \in Int
  BY JobQueueAssumption DEF TypeOK, HostOK, RegistryOK, LaunchOK, Jobs

\* At most one thread is in start_job, and only for a claim.
LEMMA OnlyLaunch ==
  ASSUME ClaimHeld, CalmHost
  PROVE  /\ \A t, u \in Threads : launch[t].pc # "idle" /\ launch[u].pc # "idle" => t = u
         /\ \A t \in Threads : launch[t].pc # "idle" => starting
  BY DEF ClaimHeld, CalmHost

-----------------------------------------------------------------------------
(* Steps of the abstract queue.                                            *)

\* In a calm state a job is a phantom when the process of its pid is dead.
LEMMA PhantomsAre ==
  ASSUME TypeOK, CalmInv
  PROVE  Phantoms = {k \in Jobs : status[k] \in Active /\ pid[k] # NoPid
                                /\ procState[pid[k]] = "dead"}
  BY Shapes DEF CalmInv, Recorded, Phantoms, IsTrainer, Alive, Running, TypeOK, ProcsOK

\* The same of the next state.
LEMMA PhantomsWillBe ==
  ASSUME TypeOK', CalmInv'
  PROVE  Phantoms' = {k \in Jobs : status'[k] \in Active /\ pid'[k] # NoPid
                                 /\ procState'[pid'[k]] = "dead"}
  <1>1. \A k \in Jobs : pid'[k] \in Pids \cup {NoPid}
    BY DEF TypeOK, RegistryOK
  <1> QED
    BY <1>1 DEF CalmInv, Recorded, Phantoms, IsTrainer, Alive, Running, TypeOK, ProcsOK

\* When nothing joins the waiting jobs and none moves, their order is as it was.
LEMMA QueueKept ==
  ASSUME Waiting' \subseteq Waiting, \A k \in Waiting' : priority'[k] = priority[k]
  PROVE  /\ Ahead' = {e \in Ahead : e[1] \in Waiting' /\ e[2] \in Waiting'}
         /\ Arranged' => Arranged
         /\ Waiting' = Waiting => Ahead' = Ahead /\ Arranged' = Arranged
  <1>1. \A j, k \in Waiting' : Before(priority, j, k)' <=> Before(priority, j, k)
    BY DEF Before
  <1> QED
    BY <1>1 DEF Ahead, Arranged

\* A step that leaves queue and GPU alone is none of the abstract queue.
LEMMA StutterStep ==
  ASSUME Waiting' = Waiting, \A k \in Waiting' : priority'[k] = priority[k],
         OnGpu' = OnGpu, Phantoms' = Phantoms
  PROVE  Simulated
  BY QueueKept DEF Simulated, Promise!vars

\* A job that gives the GPU back is a Done.
LEMMA DoneStep ==
  ASSUME Waiting' = Waiting, \A k \in Waiting' : priority'[k] = priority[k],
         NEW j \in OnGpu, OnGpu' = OnGpu \ {j}, Phantoms' = Phantoms \ {j}
  PROVE  Simulated
  <1>1. Promise!Done(j) /\ j \in Jobs
    BY QueueKept DEF Promise!Done, OnGpu
  <1> QED
    BY <1>1 DEF Simulated, Promise!Next

\* A trainer that dies unnoticed is a Lost.
LEMMA LostStep ==
  ASSUME Waiting' = Waiting, \A k \in Waiting' : priority'[k] = priority[k],
         NEW j \in OnGpu, j \notin Phantoms, OnGpu' = OnGpu, Phantoms' = Phantoms \cup {j}
  PROVE  Simulated
  <1>1. Promise!Lost(j) /\ j \in Jobs
    BY QueueKept DEF Promise!Lost, OnGpu
  <1> QED
    BY <1>1 DEF Simulated, Promise!Next

\* A job that goes leaves the order of the others.
LEMMA RemoveStep ==
  ASSUME NEW j \in Waiting, Waiting' = Waiting \ {j},
         \A k \in Waiting' : priority'[k] = priority[k]
  PROVE  Promise!Remove(j)
  <1>1. /\ Ahead' = {e \in Ahead : e[1] \in Waiting' /\ e[2] \in Waiting'}
        /\ Arranged' => Arranged
    BY QueueKept
  <1>2. \A e \in Ahead : e[1] \in Waiting /\ e[2] \in Waiting
    BY DEF Ahead
  <1> QED
    BY <1>1, <1>2 DEF Promise!Remove

\* A waiting job that goes is a Leave.
LEMMA LeaveStep ==
  ASSUME NEW j \in Waiting, Waiting' = Waiting \ {j},
         \A k \in Waiting' : priority'[k] = priority[k],
         OnGpu' = OnGpu, Phantoms' = Phantoms
  PROVE  Simulated
  <1>1. Promise!Leave(j) /\ j \in Jobs
    BY RemoveStep DEF Promise!Leave, Waiting
  <1> QED
    BY <1>1 DEF Simulated, Promise!Next

\* The first of the queue, launched when only phantoms are active, is a Grant.
LEMMA GrantStep ==
  ASSUME TypeOK, NEW j \in Waiting, \A k \in Waiting \ {j} : Before(priority, j, k),
         Waiting' = Waiting \ {j}, UNCHANGED priority,
         OnGpu \subseteq Phantoms, OnGpu' = {j}, Phantoms' = {}
  PROVE  Simulated
  <1>1. \A k \in Waiting : priority[k] \in Int /\ k \in Int
    BY Shapes DEF Waiting, TypeOK, RegistryOK
  <1>2. \A k \in Waiting : <<k, j>> \notin Ahead
    BY <1>1 DEF Ahead, Before
  <1>3. Promise!Grant(j) /\ j \in Jobs
    BY <1>2, RemoveStep DEF Promise!Grant, Waiting
  <1> QED
    BY <1>3 DEF Simulated, Promise!Next

\* A newcomer has priority 0: it goes behind those that have it too.
LEMMA ArriveStep ==
  ASSUME TypeOK, NEW j \in Jobs, j \notin Waiting, j \notin OnGpu,
         priority[j] = 0, \A k \in Waiting : k < j /\ priority[k] \in Nat,
         Waiting' = Waiting \cup {j}, UNCHANGED priority,
         OnGpu' = OnGpu, Phantoms' = Phantoms
  PROVE  Simulated
  <1> DEFINE front == {k \in Waiting : priority[k] = 0}
  <1>0. \A k \in Waiting \cup {j} : priority[k] \in Int /\ k \in Int
    BY Shapes DEF Waiting
  <1>1. /\ \A k \in Waiting : Before(priority, k, j) <=> k \in front
        /\ \A k \in Waiting : Before(priority, j, k) <=> k \notin front
        /\ ~ Before(priority, j, j)
    BY <1>0 DEF Before
  <1>2. \A k \in front, i \in Waiting : <<i, k>> \in Ahead => i \in front
    BY <1>0 DEF Ahead, Before
  <1>3. front = Waiting \/ Arranged
    BY DEF Arranged
  <1>4. Arranged' = Arranged
    BY DEF Arranged
  <1>5. Ahead' = Ahead \cup (front \X {j}) \cup ({j} \X (Waiting \ front))
    <2>1. \A a, b \in Waiting' : Before(priority, a, b)' <=> Before(priority, a, b)
      BY DEF Before
    <2> QED
      BY <1>1, <2>1 DEF Ahead
  <1>6. Promise!Arrive(j)
    BY <1>2, <1>3, <1>4, <1>5 DEF Promise!Arrive
  <1> QED
    BY <1>6 DEF Simulated, Promise!Next

\* Ranks count those ahead, so they rise along the queue.
LEMMA RankIsNat == ASSUME NEW a \in Jobs PROVE Rank(a) \in Nat
  <1>1. IsFiniteSet(Jobs)
    BY FS_Interval, JobQueueAssumption DEF Jobs
  <1>2. IsFiniteSet({k \in PendingIn(status) : Before(priority, k, a)})
    BY <1>1, FS_Subset DEF PendingIn
  <1> QED
    BY <1>2, FS_CardinalityType DEF Rank

\* Who is before another has the smaller rank.
LEMMA RanksRise ==
  ASSUME TypeOK, NEW a \in PendingIn(status), NEW b \in PendingIn(status),
         Before(priority, a, b)
  PROVE  Rank(a) < Rank(b)
  <1> DEFINE S(j) == {k \in PendingIn(status) : Before(priority, k, j)}
  <1>1. \A k \in PendingIn(status) : priority[k] \in Int /\ k \in Int
    BY Shapes DEF PendingIn, TypeOK, RegistryOK
  <1>2. IsFiniteSet(S(b))
    <2>1. IsFiniteSet(Jobs)
      BY FS_Interval, JobQueueAssumption DEF Jobs
    <2> QED
      BY <2>1, FS_Subset DEF PendingIn
  <1>3. S(a) \subseteq S(b) /\ S(a) # S(b)
    <2>1. a \in S(b) /\ a \notin S(a)
      BY <1>1 DEF Before
    <2>2. S(a) \subseteq S(b)
      BY <1>1 DEF Before
    <2> QED
      BY <2>1, <2>2
  <1>4. Rank(a) = Cardinality(S(a)) /\ Rank(b) = Cardinality(S(b))
    BY DEF Rank
  <1>5. Rank(a) \in Nat /\ Rank(b) \in Nat
    BY RankIsNat DEF PendingIn
  <1> QED
    <2> HIDE DEF S
    <2> QED
      BY <1>2, <1>3, <1>4, <1>5, FS_Subset

\* The swap of two ranks exchanges two neighbours and nothing else.
LEMMA ArrangeStep ==
  ASSUME TypeOK, NEW j \in Jobs, status[j] = "pending", priority' = MovedUp(j),
         UNCHANGED <<Waiting, OnGpu>>, Phantoms' = Phantoms
  PROVE  Simulated
  <1> DEFINE P == PendingIn(status)
  <1>1. /\ j \in P /\ Waiting \subseteq P /\ Waiting' = Waiting
        /\ \A a \in P : Rank(a) \in Int /\ a \in Int /\ priority[a] \in Int
    BY RankIsNat, Shapes DEF PendingIn, Waiting, TypeOK, RegistryOK
  <1>2. \A a, b \in P : /\ Before(priority, a, b) <=> Rank(a) < Rank(b)
                        /\ Rank(a) = Rank(b) => a = b
    <2>1. \A a, b \in P : a = b \/ Before(priority, a, b) \/ Before(priority, b, a)
      BY <1>1 DEF Before
    <2>2. \A a, b \in P : Before(priority, a, b) => Rank(a) < Rank(b)
      BY RanksRise
    <2>3. \A a \in P : ~ Before(priority, a, a)
      BY <1>1 DEF Before
    <2> QED
      BY <1>1, <2>1, <2>2, <2>3
  <1>3. \A a \in P : priority'[a] = IF a = j THEN Rank(j) - 1
                                    ELSE IF Rank(a) = Rank(j) - 1 THEN Rank(j) ELSE Rank(a)
    <2> SUFFICES ASSUME NEW a \in P
                 PROVE  priority'[a] = IF a = j THEN Rank(j) - 1
                                    ELSE IF Rank(a) = Rank(j) - 1 THEN Rank(j) ELSE Rank(a)
      OBVIOUS
    <2>1. a \in Jobs /\ status[a] = "pending"
      BY DEF PendingIn
    <2>2. Rank(j) # Rank(j) - 1
      BY <1>1
    <2> QED
      BY <2>1, <2>2 DEF MovedUp
  <1>4. \A a, b \in P : Before(priority, a, b)' <=>
          \/ a = j /\ Rank(b) = Rank(j) - 1
          \/ Rank(a) < Rank(b) /\ ~ (b = j /\ Rank(a) = Rank(j) - 1)
    <2>1. \A a, b \in P : Before(priority, a, b)' <=>
            priority'[a] < priority'[b] \/ (priority'[a] = priority'[b] /\ a < b)
      BY DEF Before
    <2> QED
      BY <1>1, <1>2, <1>3, <2>1
  <1>5. ASSUME NEW i \in Waiting, Rank(i) = Rank(j) - 1, j \in Waiting
        PROVE  Promise!Neighbours(i, j) /\ Ahead' = (Ahead \ {<<i, j>>}) \cup {<<j, i>>}
    <2>1. \A a \in P : Rank(a) = Rank(j) - 1 <=> a = i
      BY <1>1, <1>2, <1>5
    <2>2. \A a, b \in Waiting : Before(priority, a, b)' <=>
            <<a, b>> = <<j, i>> \/ (Before(priority, a, b) /\ <<a, b>> # <<i, j>>)
      BY <1>1, <1>2, <1>4, <1>5
    <2>3. Ahead' = (Ahead \ {<<i, j>>}) \cup {<<j, i>>}
      BY <1>1, <1>5, <2>2 DEF Ahead
    <2>4. <<i, j>> \in Ahead
      BY <1>1, <1>2, <1>5 DEF Ahead
    <2>5. \A k \in Waiting : ~ (<<i, k>> \in Ahead /\ <<k, j>> \in Ahead)
      BY <1>1, <1>2, <1>5 DEF Ahead
    <2> QED
      BY <2>3, <2>4, <2>5 DEF Promise!Neighbours
  <1>6. ASSUME j \notin Waiting \/ \A i \in Waiting : Rank(i) # Rank(j) - 1
        PROVE  Ahead' = Ahead
    <2>1. \A a, b \in Waiting : Before(priority, a, b)' <=> Before(priority, a, b)
      BY <1>1, <1>2, <1>4, <1>6
    <2> QED
      BY <1>1, <2>1 DEF Ahead
  <1>7. Arranged' \in BOOLEAN
    BY DEF Arranged
  <1>8. Promise!Arrange
    BY <1>5, <1>6, <1>7 DEF Promise!Arrange
  <1> QED
    BY <1>8 DEF Simulated, Promise!Next

\* start_job sets the claimed job to running, unless its model cannot be trained.
LEMMA BeginLaunchCalm ==
  ASSUME Orderly, TypeOK, TypeOK', ClaimHeld, CalmInv, NEW t \in Threads, BeginLaunch(t)
  PROVE  CalmInv' /\ NoneRevived /\ (gated = {} => Simulated)
  <1>0. /\ CalmHost /\ Uncreated /\ Untouched /\ OneActive /\ LaunchedJob /\ Recorded
        /\ OneProcess /\ Known
    BY DEF CalmInv
  <1> DEFINE j == launch[t].job
  <1>1. /\ j \in Jobs /\ launch[t].by = "claim" /\ launch[t].pc = "claimed"
        /\ \A u \in Threads \ {t} : launch[u].pc = "idle" /\ launch[u].pid = NoPid
    BY <1>0, OnlyLaunch, Shapes DEF CalmHost, LaunchedJob, BeginLaunch
  <1>2. status[j] = "pending" /\ (\A k \in Jobs : status[k] \notin Active)
        /\ launch[t].pid = NoPid
    BY <1>0, <1>1 DEF LaunchedJob
  <1>4. UNCHANGED <<pid, priority, procState, procJob, log, tailing, watch, server,
                    gated, timers, rebuilding, recovery, clock>>
    BY DEF BeginLaunch, procs, queue, budgets, host
  <1>5. CASE j \notin gated
    <2>3. /\ status' = [status EXCEPT ![j] = "running"]
          /\ launch' = [launch EXCEPT ![t].pc = "preflight"]
      BY <1>1, <1>2, <1>5 DEF BeginLaunch
    <2>5. /\ launch'[t].pc = "preflight" /\ launch'[t].job = j
          /\ launch'[t].by = "claim" /\ launch'[t].pid = NoPid
          /\ \A u \in Threads \ {t} : launch'[u] = launch[u]
          /\ \A k \in Jobs : status'[k] = IF k = j THEN "running" ELSE status[k]
      BY <1>1, <1>2, <2>3 DEF TypeOK, LaunchOK, RegistryOK
    <2>6. CalmHost'
      BY <1>0, <1>1, <2>3, <1>4 DEF CalmHost
    <2>7. Uncreated'
      BY <1>0, <1>2, <2>3, <1>4 DEF Uncreated, Terminal, MovedUp
    <2>8. Untouched'
      BY <1>0, <1>1, <2>3, <1>4 DEF Untouched, New, Terminal
    <2>9. OneActive'
      BY <1>2, <2>3 DEF OneActive, Terminal
    <2>10. LaunchedJob'
      BY <1>0, <1>1, <2>3, <2>5 DEF LaunchedJob, Active
    <2>11. Recorded'
      <3>1. \A k \in Jobs : status'[k] \in Active => k = j
        BY <1>2, <2>5
      <3>2. pid'[j] = NoPid
        BY <1>0, <1>1, <1>4 DEF Untouched, New
      <3>3. \E u \in Threads : launch'[u].pc \in Inside /\ launch'[u].job = j
        BY <2>5 DEF Inside
      <3> QED
        BY <3>1, <3>2, <3>3 DEF Recorded, InFlight
    <2>12. OneProcess'
      BY <1>0, <1>1, <1>2, <1>4, <2>5 DEF OneProcess, Engaged
    <2>13. Known'
      BY <1>0, <1>1, <1>2, <1>4, <2>5
      DEF Known, Tracked, OneProcess, Engaged, Active, Running
    <2>14. CalmInv'
      BY <2>6, <2>7, <2>8, <2>9, <2>10, <2>11, <2>12, <2>13 DEF CalmInv
    <2>15. NoneRevived
      BY <1>2, <2>3 DEF NoneRevived, Terminal
    <2>16. Simulated
      <3>0. \A k \in Jobs : (Launching(k) <=> k = j) /\ (Launching(k)' <=> k = j)
        BY <1>1, <2>5 DEF Launching
      <3>1. Waiting' = Waiting /\ OnGpu' = OnGpu
        BY <3>0, <2>5 DEF Waiting, OnGpu
      <3>2. Phantoms' = Phantoms
        <4>1. pid[j] = NoPid
          BY <1>0, <1>1 DEF Untouched, New
        <4>2. \A k \in Jobs \ {j} : status'[k] = status[k]
          BY <2>5
        <4> QED
          BY <1>4, <2>14, <4>1, <4>2, PhantomsAre, PhantomsWillBe
      <3> QED
        BY <1>4, <3>1, <3>2, StutterStep
    <2> QED
      BY <2>14, <2>15, <2>16
  <1>6. CASE j \in gated
    <2>1. status' = status /\ launch' = [launch EXCEPT ![t] = Idle]
      BY <1>6 DEF BeginLaunch, Raise, Release
    <2>2. \A u \in Threads : launch'[u].pc = "idle" /\ launch'[u].pid = NoPid
      BY <1>1, <2>1 DEF Idle, TypeOK, LaunchOK
    <2>3. CalmHost'
      BY <1>0, <1>4, <2>2 DEF CalmHost
    <2>4. Uncreated' /\ OneActive'
      BY <1>0, <1>4, <2>1 DEF Uncreated, OneActive
    <2>5. Untouched'
      BY <1>0, <1>4, <2>1, <2>2 DEF Untouched, New
    <2>6. LaunchedJob'
      BY <2>2 DEF LaunchedJob, Inside
    <2>7. Recorded'
      BY <1>0, <1>2, <2>1 DEF Recorded
    <2>8. OneProcess'
      BY <1>0, <1>2, <1>4, <2>2 DEF OneProcess, Engaged
    <2>9. Known'
      BY <1>0, <1>1, <1>2, <1>4, <2>1, <2>2, JobQueueAssumption DEF Known, Tracked
    <2>10. CalmInv'
      BY <2>3, <2>4, <2>5, <2>6, <2>7, <2>8, <2>9 DEF CalmInv
    <2>11. NoneRevived
      BY <2>1 DEF NoneRevived
    <2> QED
      BY <1>6, <2>10, <2>11
  <1> QED
    BY <1>5, <1>6

\* The trainer is spawned: a free pid, for the job of the launch alone.
LEMMA SpawnCalm ==
  ASSUME Orderly, TypeOK, TypeOK', ClaimHeld, CalmInv, NEW t \in Threads, Spawn(t)
  PROVE  CalmInv' /\ NoneRevived /\ Simulated
  <1>0. /\ CalmHost /\ Uncreated /\ Untouched /\ OneActive /\ LaunchedJob /\ Recorded
        /\ OneProcess /\ Known
    BY DEF CalmInv
  <1> DEFINE j == launch[t].job
  <1>1. /\ j \in Jobs /\ launch[t].by = "claim" /\ launch[t].pc = "preflight"
        /\ \A u \in Threads \ {t} : launch[u].pc = "idle" /\ launch[u].pid = NoPid
    BY <1>0, OnlyLaunch, Shapes DEF CalmHost, LaunchedJob, Spawn
  <1>2. status[j] \in Active /\ New(j)
    BY <1>0, <1>1 DEF LaunchedJob, Inside, New
  <1>3. PICK p \in Pids :
          /\ ~ Alive(p) /\ watch[p] = "off"
          /\ procState' = [procState EXCEPT ![p] = "loading"]
          /\ procJob' = [procJob EXCEPT ![p] = j]
          /\ launch' = [launch EXCEPT ![t].pc = "spawned", ![t].pid = p]
    <2>1. status[j] # "absent"
      BY <1>2 DEF Active
    <2> QED
      BY <2>1 DEF Spawn, Fresh
  <1>4. UNCHANGED <<status, pid, priority, log, tailing, watch, server, gated, timers,
                    rebuilding, recovery, clock>>
    BY DEF Spawn, registry, queue, budgets, host
  <1>5. /\ launch'[t].pc = "spawned" /\ launch'[t].job = j
        /\ launch'[t].by = "claim" /\ launch'[t].pid = p
        /\ \A u \in Threads \ {t} : launch'[u] = launch[u]
    BY <1>1, <1>3 DEF TypeOK, LaunchOK
  <1>6. /\ \A q \in Pids : procState'[q] = IF q = p THEN "loading" ELSE procState[q]
        /\ \A q \in Pids : procJob'[q] = IF q = p THEN j ELSE procJob[q]
        /\ procState[p] = "dead"
    BY <1>3 DEF TypeOK, ProcsOK, Alive
  <1>7. CalmHost'
    BY <1>0, <1>4, <1>5 DEF CalmHost
  <1>8. Uncreated'
    BY <1>0, <1>4 DEF Uncreated, Terminal, MovedUp
  <1>9. Untouched'
    BY <1>0, <1>1, <1>2, <1>4, <1>5, <1>6
    DEF Untouched, New, Uncreated, Active, Terminal
  <1>10. OneActive'
    BY <1>0, <1>4 DEF OneActive, Terminal
  <1>11. LaunchedJob'
    <2>1. pid[j] = NoPid /\ j \notin tailing
      BY <1>0, <1>1, <1>2 DEF Untouched
    <2>2. \A u \in Threads \ {t} : launch'[u].pc = "idle" /\ launch'[u].pid = NoPid
      BY <1>1, <1>5
    <2>3. watch'[p] = "off" /\ procJob'[p] = j /\ status'[j] \in Active
      BY <1>2, <1>3, <1>4, <1>6
    <2>4. /\ launch'[t].pc = "spawned" /\ launch'[t].job = j /\ launch'[t].pid = p
          /\ pid'[j] = NoPid /\ j \notin tailing'
      BY <1>4, <1>5, <2>1
    <2> QED
      BY <2>2, <2>3, <2>4 DEF LaunchedJob, Inside
  <1>12. Recorded'
    BY <1>0, <1>1, <1>2, <1>4, <1>5, <1>6, Shapes DEF Recorded, InFlight, Inside,
       OneActive, Terminal
  <1>13. OneProcess'
    BY <1>0, <1>1, <1>2, <1>4, <1>5, <1>6, Shapes DEF OneProcess, Engaged, Untouched
  <1>14. Known'
    <2> SUFFICES ASSUME NEW q \in Pids, procState'[q] \in Running
                 PROVE  Tracked(q)' /\ log'[procJob'[q]] = << >>
      BY DEF Known
    <2>1. CASE q = p
      BY <2>1, <1>0, <1>1, <1>2, <1>4, <1>5, <1>6 DEF Untouched, Tracked
    <2>2. CASE q # p
      <3>1. procState[q] \in Running /\ procJob'[q] = procJob[q]
        BY <2>2, <1>6
      <3>2. Tracked(q) /\ log[procJob[q]] = << >>
        BY <1>0, <3>1 DEF Known
      <3>3. launch[t].pid # q /\ \A u \in Threads \ {t} : launch'[u].pid = launch[u].pid
        BY <1>0, <1>1, <1>5, Shapes DEF LaunchedJob
      <3> QED
        BY <3>1, <3>2, <3>3, <1>4 DEF Tracked
    <2> QED
      BY <2>1, <2>2
  <1>15. CalmInv'
    BY <1>7, <1>8, <1>9, <1>10, <1>11, <1>12, <1>13, <1>14 DEF CalmInv
  <1>16. NoneRevived
    BY <1>4 DEF NoneRevived
  <1>17. Simulated
    <2>0. \A k \in Jobs : (Launching(k) <=> k = j) /\ (Launching(k)' <=> k = j)
      BY <1>1, <1>5 DEF Launching
    <2>1. Waiting' = Waiting /\ OnGpu' = OnGpu
      BY <2>0, <1>4 DEF Waiting, OnGpu
    <2>2. Phantoms' = Phantoms
      <3>1. \A k \in Jobs : status[k] \in Active /\ pid[k] # NoPid => pid[k] # p /\ pid[k] \in Pids
        BY <1>0, <1>3, Shapes DEF Recorded
      <3> QED
        BY <3>1, <1>4, <1>6, <1>15, PhantomsAre, PhantomsWillBe
    <2> QED
      BY <1>4, <2>1, <2>2, StutterStep
  <1> QED
    BY <1>15, <1>16, <1>17

\* A launch that fails before its trainer exists gives the GPU back.
LEMMA LaunchFailsCalm ==
  ASSUME Orderly, TypeOK, TypeOK', ClaimHeld, CalmInv, NEW t \in Threads, LaunchFails(t)
  PROVE  CalmInv' /\ NoneRevived /\ Simulated
  <1>0. /\ CalmHost /\ Uncreated /\ Untouched /\ OneActive /\ LaunchedJob /\ Recorded
        /\ OneProcess /\ Known
    BY DEF CalmInv
  <1> DEFINE j == launch[t].job
  <1>1. /\ j \in Jobs /\ launch[t].by = "claim" /\ launch[t].pc = "preflight"
        /\ \A u \in Threads \ {t} : launch[u].pc = "idle" /\ launch[u].pid = NoPid
    BY <1>0, OnlyLaunch, Shapes DEF CalmHost, LaunchedJob, LaunchFails
  <1>2. status[j] \in Active /\ New(j)
    BY <1>0, <1>1 DEF LaunchedJob, Inside, New
  <1>3. /\ status' = [status EXCEPT ![j] = "failed"]
        /\ launch' = [launch EXCEPT ![t] = Idle]
    BY <1>2 DEF LaunchFails, Persist, Raise, Release, Active
  <1>4. UNCHANGED <<pid, priority, procState, procJob, log, tailing, watch, server,
                    gated, timers, rebuilding, recovery, clock>>
    BY DEF LaunchFails, registry, rows, procs, queue, budgets, host
  <1>5. /\ \A u \in Threads : launch'[u].pc = "idle" /\ launch'[u].pid = NoPid
        /\ \A k \in Jobs : status'[k] = IF k = j THEN "failed" ELSE status[k]
    BY <1>1, <1>3 DEF Idle, TypeOK, LaunchOK, RegistryOK
  <1>6. CalmHost'
    BY <1>0, <1>4, <1>5 DEF CalmHost
  <1>7. Uncreated'
    BY <1>0, <1>2, <1>3, <1>4 DEF Uncreated, Active, Terminal, MovedUp
  <1>8. Untouched'
    BY <1>0, <1>4, <1>5 DEF Untouched, New, Terminal
  <1>9. OneActive'
    BY <1>0, <1>2, <1>3 DEF OneActive, Terminal
  <1>10. LaunchedJob'
    BY <1>5 DEF LaunchedJob, Inside
  <1>11. Recorded'
    BY <1>0, <1>2, <1>3, <1>4, <1>5 DEF Recorded, InFlight, Untouched, Active, Terminal
  <1>12. OneProcess'
    BY <1>0, <1>4, <1>5, Shapes DEF OneProcess, Engaged
  <1>13. Known'
    BY <1>0, <1>1, <1>2, <1>4, <1>5, Shapes
    DEF Known, Tracked, OneProcess, Engaged, LaunchedJob,
       Untouched, Running
  <1>14. CalmInv'
    BY <1>6, <1>7, <1>8, <1>9, <1>10, <1>11, <1>12, <1>13 DEF CalmInv
  <1>15. NoneRevived
    BY <1>3 DEF NoneRevived, Terminal
  <1>16. Simulated
    <2>0. \A k \in Jobs : (Launching(k) <=> k = j) /\ (Launching(k)' <=> FALSE)
      BY <1>1, <1>5 DEF Launching
    <2>1. Waiting' = Waiting /\ OnGpu' = OnGpu \ {j} /\ j \in OnGpu
      BY <2>0, <1>1, <1>5 DEF Waiting, OnGpu, Active
    <2>2. Phantoms' = Phantoms \ {j}
      <3>1. pid[j] = NoPid
        BY <1>0, <1>1, <1>2 DEF Untouched
      <3> QED
        BY <3>1, <1>4, <1>5, <1>14, PhantomsAre, PhantomsWillBe
    <2> QED
      BY <1>4, <2>1, <2>2, DoneStep
  <1> QED
    BY <1>14, <1>15, <1>16

\* start_job records the trainer it spawned.
LEMMA CommitCalm ==
  ASSUME Orderly, TypeOK, TypeOK', ClaimHeld, CalmInv, NEW t \in Threads, Commit(t)
  PROVE  CalmInv' /\ NoneRevived /\ Simulated
  <1>0. /\ CalmHost /\ Uncreated /\ Untouched /\ OneActive /\ LaunchedJob /\ Recorded
        /\ OneProcess /\ Known
    BY DEF CalmInv
  <1> DEFINE j == launch[t].job
  <1>1. /\ j \in Jobs /\ launch[t].by = "claim" /\ launch[t].pc = "spawned"
        /\ \A u \in Threads \ {t} : launch[u].pc = "idle" /\ launch[u].pid = NoPid
    BY <1>0, OnlyLaunch, Shapes DEF CalmHost, LaunchedJob, Commit
  <1>2. status[j] \in Active
    BY <1>0, <1>1 DEF LaunchedJob, Inside
  <1>3. /\ status' = [status EXCEPT ![j] = "running"]
        /\ launch' = [launch EXCEPT ![t].pc = "attach"] /\ procState' = procState
    BY <1>1, <1>2 DEF Commit, Active
  <1>4. UNCHANGED <<pid, priority, procState, procJob, log, tailing, watch, server,
                    gated, timers, rebuilding, recovery, clock>>
    BY <1>3 DEF Commit, registry, rows, procs, queue, budgets, host
  <1>5. /\ launch'[t].pc = "attach" /\ launch'[t].job = j /\ launch'[t].by = "claim"
        /\ launch'[t].pid = launch[t].pid
        /\ \A u \in Threads \ {t} : launch'[u] = launch[u]
        /\ \A k \in Jobs : status'[k] = IF k = j THEN "running" ELSE status[k]
    BY <1>1, <1>3 DEF TypeOK, LaunchOK, RegistryOK
  <1>6. CalmHost'
    BY <1>0, <1>1, <1>3, <1>4 DEF CalmHost
  <1>7. Uncreated'
    BY <1>0, <1>2, <1>3, <1>4 DEF Uncreated, Active, Terminal, MovedUp
  <1>8. Untouched'
    BY <1>0, <1>3, <1>4 DEF Untouched, New, Terminal
  <1>9. OneActive'
    BY <1>0, <1>2, <1>3 DEF OneActive, Terminal
  <1>10. LaunchedJob'
    BY <1>0, <1>1, <1>2, <1>3, <1>4 DEF LaunchedJob, Active
  <1>11. Recorded'
    BY <1>0, <1>1, <1>3, <1>4 DEF Recorded, InFlight, Inside, LaunchedJob, Terminal
  <1>12. OneProcess'
    BY <1>0, <1>4, <1>5 DEF OneProcess, Engaged
  <1>13. Known'
    BY <1>0, <1>4, <1>5 DEF Known, Tracked, OneProcess, Engaged, Active, Running
  <1>14. CalmInv'
    BY <1>6, <1>7, <1>8, <1>9, <1>10, <1>11, <1>12, <1>13 DEF CalmInv
  <1>15. NoneRevived
    BY <1>2, <1>3 DEF NoneRevived, Active, Terminal
  <1>16. Simulated
    <2>0. \A k \in Jobs : (Launching(k) <=> k = j) /\ (Launching(k)' <=> k = j)
      BY <1>1, <1>5 DEF Launching
    <2>1. Waiting' = Waiting /\ OnGpu' = OnGpu
      BY <2>0, <1>5 DEF Waiting, OnGpu
    <2>2. Phantoms' = Phantoms
      BY <1>2, <1>4, <1>5, <1>14, PhantomsAre, PhantomsWillBe DEF Active
    <2> QED
      BY <1>4, <2>1, <2>2, StutterStep
  <1> QED
    BY <1>14, <1>15, <1>16

\* The tailer and the watchdog are attached, and the claim is released.
LEMMA AttachCalm ==
  ASSUME Orderly, TypeOK, TypeOK', ClaimHeld, CalmInv, NEW t \in Threads, Attach(t)
  PROVE  CalmInv' /\ NoneRevived /\ Simulated
  <1>0. /\ CalmHost /\ Uncreated /\ Untouched /\ OneActive /\ LaunchedJob /\ Recorded
        /\ OneProcess /\ Known
    BY DEF CalmInv
  <1> DEFINE j == launch[t].job
  <1>1. /\ j \in Jobs /\ launch[t].by = "claim" /\ launch[t].pc = "attach"
        /\ \A u \in Threads \ {t} : launch[u].pc = "idle" /\ launch[u].pid = NoPid
    BY <1>0, OnlyLaunch, Shapes DEF CalmHost, LaunchedJob, Attach
  <1> DEFINE p == launch[t].pid
  <1>2. /\ status[j] \in Active /\ status[j] # "absent" /\ p \in Pids /\ p # NoPid
        /\ procJob[p] = j /\ pid[j] = NoPid
    BY <1>0, <1>1, JobQueueAssumption DEF LaunchedJob, Inside, Active
  <1>3. /\ \A k \in Jobs : pid'[k] = IF k = j THEN p ELSE pid[k]
        /\ \A q \in Pids : watch'[q] = IF q = p THEN "on" ELSE watch[q]
        /\ tailing' = tailing \cup {j}
    BY <1>2 DEF Attach, TypeOK, RegistryOK, FollowersOK
  <1>4. UNCHANGED <<status, priority, procState, procJob, log, server, gated, timers,
                    rebuilding, recovery, clock>>
    BY DEF Attach, registry, rows, procs, queue, budgets, host
  <1>5. \A u \in Threads : launch'[u].pc = "idle" /\ launch'[u].pid = NoPid
    BY <1>1 DEF Attach, Release, Idle, TypeOK, LaunchOK
  <1>6. CalmHost'
    BY <1>0, <1>4, <1>5 DEF CalmHost
  <1>7. Uncreated'
    BY <1>0, <1>4 DEF Uncreated, Terminal, MovedUp
  <1>8. Untouched'
    BY <1>0, <1>2, <1>3, <1>4, <1>5 DEF Untouched, New, Terminal
  <1>9. OneActive'
    BY <1>0, <1>4 DEF OneActive, Terminal
  <1>10. LaunchedJob'
    BY <1>5 DEF LaunchedJob, Inside
  <1>11. Recorded'
    BY <1>0, <1>1, <1>2, <1>3, <1>4, Shapes DEF Recorded, InFlight, Inside, Terminal
  <1>12. OneProcess'
    BY <1>0, <1>1, <1>2, <1>3, <1>4, <1>5, Shapes DEF OneProcess, Engaged
  <1>13. Known'
    BY <1>0, <1>1, <1>2, <1>3, <1>4, <1>5, Shapes
    DEF Known, Tracked, OneProcess, Engaged, Running
  <1>14. CalmInv'
    BY <1>6, <1>7, <1>8, <1>9, <1>10, <1>11, <1>12, <1>13 DEF CalmInv
  <1>15. NoneRevived
    BY <1>4 DEF NoneRevived
  <1>16. Simulated
    <2>0. \A k \in Jobs : (Launching(k) <=> k = j) /\ (Launching(k)' <=> FALSE)
      BY <1>1, <1>5 DEF Launching
    <2>1. Waiting' = Waiting /\ OnGpu' = OnGpu /\ j \in OnGpu
      BY <2>0, <1>1, <1>2, <1>4 DEF Waiting, OnGpu, Active
    <2>2. j \notin Phantoms
      BY <1>2, PhantomsAre
    <2>3. Phantoms' = IF procState[p] = "dead" THEN Phantoms \cup {j} ELSE Phantoms
      <3>1. \A k \in Jobs \ {j} : status[k] \notin Active
        BY <1>0, <1>1, <1>2 DEF OneActive
      <3>2. Phantoms = {}
        BY <2>2, <3>1 DEF Phantoms
      <3>3. Phantoms' = {k \in Jobs : status[k] \in Active /\ pid'[k] # NoPid
                                      /\ procState[pid'[k]] = "dead"}
        BY <1>4, <1>14, PhantomsWillBe
      <3> QED
        BY <1>1, <1>2, <1>3, <3>1, <3>2, <3>3
    <2>4. CASE procState[p] = "dead"
      BY <1>4, <2>1, <2>2, <2>3, <2>4, LostStep
    <2>5. CASE procState[p] # "dead"
      BY <1>4, <2>1, <2>3, <2>5, StutterStep
    <2> QED
      BY <2>4, <2>5
  <1> QED
    BY <1>14, <1>15, <1>16

\* advance_queue finalizes the phantoms and claims the first of the queue.
LEMMA AdvanceQueueCalm ==
  ASSUME Orderly, TypeOK, TypeOK', ClaimHeld, CalmInv, NEW t \in Threads, AdvanceQueue(t)
  PROVE  CalmInv' /\ NoneRevived /\ Simulated
  <1>0. /\ CalmHost /\ Uncreated /\ Untouched /\ OneActive /\ LaunchedJob /\ Recorded
        /\ OneProcess /\ Known
    BY DEF CalmInv
  <1>1. UNCHANGED <<priority, procState, procJob, log, watch, server, gated, timers,
                    rebuilding, recovery, clock>>
    BY DEF AdvanceQueue, registry, rows, procs, queue, budgets, host
  <1>2. /\ \A k \in Phantoms : /\ k \in Jobs /\ status[k] \in Active /\ pid[k] # NoPid
                               /\ pid[k] \in Pids =>
                                    procJob[pid[k]] # k \/ procState[pid[k]] \notin Running
        /\ tailing' \subseteq tailing
    BY DEF AdvanceQueue, Phantoms, IsTrainer, Alive
  <1>3. \A k \in Jobs : /\ status'[k] = IF k \in Phantoms THEN "failed" ELSE status[k]
                        /\ pid'[k] = IF k \in Phantoms THEN NoPid ELSE pid[k]
    BY DEF AdvanceQueue, HealedStatus, HealedPid, Failed
  <1>4. \/ launch' = launch
        \/ /\ \A u \in Threads : launch[u].pc = "idle"
           /\ \A k \in Jobs : status'[k] \notin Active
           /\ \A u \in Threads \ {t} : launch'[u] = launch[u]
           /\ launch'[t].pc = "claimed"
           /\ launch'[t].by = "claim" /\ launch'[t].pid = NoPid
           /\ launch'[t].job \in Jobs /\ status'[launch'[t].job] = "pending"
           /\ \A k \in Jobs \ {launch'[t].job} :
                status'[k] = "pending" => Before(priority, launch'[t].job, k)
    <2>1. CASE CanClaim
      <3>1. PICK j \in Jobs : IsFirst(HealedStatus, j) /\ launch' = [launch EXCEPT ![t] =
               [pc |-> "claimed", job |-> j, pid |-> NoPid, by |-> "claim"]]
        BY <2>1 DEF AdvanceQueue
      <3>2. \A u \in Threads : launch[u].pc = "idle"
        BY <2>1, <1>0, OnlyLaunch DEF CanClaim
      <3>3. (\A k \in Jobs : status'[k] \notin Active) /\ status'[j] = "pending"
        BY <2>1, <3>1 DEF CanClaim, IsFirst, PendingIn, AdvanceQueue
      <3>5. \A k \in Jobs \ {j} : status'[k] = "pending" => Before(priority, j, k)
        BY <3>1 DEF IsFirst, PendingIn, AdvanceQueue
      <3>4. launch'[t] = [pc |-> "claimed", job |-> j, pid |-> NoPid, by |-> "claim"]
            /\ \A u \in Threads \ {t} : launch'[u] = launch[u]
        BY <3>1 DEF TypeOK, LaunchOK
      <3> QED
        BY <3>2, <3>3, <3>4, <3>5
    <2>2. CASE ~ CanClaim
      BY <2>2 DEF AdvanceQueue
    <2> QED
      BY <2>1, <2>2
  <1>5. CalmHost'
    BY <1>0, <1>1, <1>4 DEF CalmHost
  <1>6. Uncreated'
    BY <1>0, <1>1, <1>2, <1>3 DEF Uncreated, Active, Terminal, MovedUp
  <1>7. Untouched'
    BY <1>0, <1>1, <1>2, <1>3, <1>4 DEF Untouched, New, Terminal
  <1>8. OneActive'
    BY <1>0, <1>2, <1>3 DEF OneActive, Terminal
  <1>9. LaunchedJob'
    BY <1>0, <1>1, <1>2, <1>3, <1>4, Shapes DEF LaunchedJob, Inside, Untouched, New
  <1>10. Recorded'
    BY <1>0, <1>1, <1>3, <1>4 DEF Recorded, InFlight, Active, Terminal
  <1>11. OneProcess'
    BY <1>0, <1>1, <1>4, Shapes DEF OneProcess, Engaged, LaunchedJob
  <1>12. Known'
    BY <1>0, <1>1, <1>2, <1>3, <1>4
    DEF Known, Tracked, OneProcess, Engaged, LaunchedJob, Running
  <1>13. CalmInv'
    BY <1>5, <1>6, <1>7, <1>8, <1>9, <1>10, <1>11, <1>12 DEF CalmInv
  <1>14. NoneRevived
    BY <1>3 DEF NoneRevived, Terminal
  <1>15. Simulated
    <2>1. Phantoms' = {}
      BY <1>1, <1>3, <1>13, PhantomsAre, PhantomsWillBe
    <2>2. CASE launch' = launch
      <3>1. \A k \in Jobs : Launching(k)' <=> Launching(k)
        BY <2>2 DEF Launching
      <3>2. \A k \in Phantoms : ~ Launching(k)
        BY <1>0, <1>2 DEF Launching, LaunchedJob, Untouched, New, TypeOK, LaunchOK,
           LaunchSteps
      <3>3. Waiting' = Waiting /\ OnGpu' = OnGpu \ Phantoms
        BY <1>2, <1>3, <3>1, <3>2 DEF Waiting, OnGpu, Active
      <3>4. CASE Phantoms = {}
        BY <1>1, <2>1, <3>3, <3>4, StutterStep
      <3>5. ASSUME NEW j \in Phantoms
            PROVE  Simulated
        <4>1. Phantoms = {j} /\ j \in OnGpu
          BY <1>0, <1>2 DEF OneActive, OnGpu
        <4> QED
          BY <1>1, <2>1, <3>3, <4>1, DoneStep
      <3> QED
        BY <3>4, <3>5
    <2>3. CASE launch' # launch
      <3>1. PICK j \in Jobs :
              /\ \A u \in Threads : launch[u].pc = "idle"
              /\ \A k \in Jobs : status'[k] \notin Active
              /\ \A u \in Threads \ {t} : launch'[u] = launch[u]
              /\ launch'[t].pc = "claimed" /\ launch'[t].job = j /\ status'[j] = "pending"
              /\ \A k \in Jobs \ {j} : status'[k] = "pending" => Before(priority, j, k)
        BY <2>3, <1>4
      <3>2. \A k \in Jobs : ~ Launching(k) /\ (Launching(k)' <=> k = j)
        BY <3>1 DEF Launching
      <3>3. \A k \in Jobs : status'[k] = "pending" <=> status[k] = "pending"
        BY <1>2, <1>3 DEF Active
      <3>4. Waiting' = Waiting \ {j} /\ j \in Waiting
        BY <3>1, <3>2, <3>3 DEF Waiting
      <3>5. OnGpu \subseteq Phantoms /\ OnGpu' = {j}
        BY <1>3, <3>1, <3>2 DEF OnGpu
      <3>6. \A k \in Waiting \ {j} : Before(priority, j, k)
        BY <3>1, <3>3 DEF Waiting
      <3> QED
        BY <1>1, <2>1, <3>4, <3>5, <3>6, GrantStep
    <2> QED
      BY <2>2, <2>3
  <1> QED
    BY <1>13, <1>14, <1>15

\* A new job joins the queue.
LEMMA CreateJobCalm ==
  ASSUME Orderly, TypeOK, TypeOK', ClaimHeld, CalmInv, CreateJob
  PROVE  CalmInv' /\ NoneRevived /\ Simulated
  <1>0. /\ CalmHost /\ Uncreated /\ Untouched /\ OneActive /\ LaunchedJob /\ Recorded
        /\ OneProcess /\ Known
    BY DEF CalmInv
  <1> DEFINE j == clock + 1
  <1>1. UNCHANGED <<pid, priority, procState, procJob, log, tailing, watch, launch,
                    server, gated, timers, rebuilding, recovery>>
    BY DEF CreateJob, registry, rows, procs, queue, budgets, host
  <1>2. j \in Jobs /\ clock' = j /\ clock \in Nat
    BY DEF CreateJob, TypeOK, HostOK, Jobs
  <1>3. status[j] = "absent" /\ New(j)
    BY <1>0, <1>2 DEF Uncreated, New
  <1>4. \A k \in Jobs : status'[k] = IF k = j THEN "pending" ELSE status[k]
    BY <1>2 DEF CreateJob, TypeOK, RegistryOK
  <1>5. CalmHost'
    BY <1>0, <1>1 DEF CalmHost
  <1>6. Uncreated'
    BY <1>0, <1>1, <1>2, <1>4, Shapes DEF Uncreated, Active, Terminal, MovedUp
  <1>7. Untouched'
    BY <1>0, <1>1, <1>2, <1>4, Shapes DEF Untouched, New, Terminal
  <1>8. OneActive'
    BY <1>0, <1>4 DEF OneActive, Active, Terminal
  <1>9. LaunchedJob'
    BY <1>0, <1>1, <1>3, <1>4, Shapes DEF LaunchedJob, Inside, Active
  <1>10. Recorded'
    BY <1>0, <1>1, <1>3, <1>4 DEF Recorded, InFlight, Active, Terminal
  <1>11. OneProcess'
    BY <1>0, <1>1 DEF OneProcess, Engaged
  <1>12. Known'
    BY <1>0, <1>1, <1>3, <1>4 DEF Known, Tracked, OneProcess, Engaged, Running, Active
  <1>13. CalmInv'
    BY <1>5, <1>6, <1>7, <1>8, <1>9, <1>10, <1>11, <1>12 DEF CalmInv
  <1>14. NoneRevived
    BY <1>3, <1>4 DEF NoneRevived, Active, Terminal
  <1>15. Simulated
    <2>1. Waiting' = Waiting \cup {j} /\ j \notin Waiting /\ OnGpu' = OnGpu /\ j \notin OnGpu
      <3>1. \A k \in Jobs : Launching(k)' <=> Launching(k)
        BY <1>1 DEF Launching
      <3>2. ~ Launching(j)
        BY <1>0, <1>3 DEF Launching, LaunchedJob, Inside, Active, TypeOK, LaunchOK,
           LaunchSteps
      <3> QED
        BY <1>2, <1>3, <1>4, <3>1, <3>2 DEF Waiting, OnGpu, Active
    <2>2. Phantoms' = Phantoms
      BY <1>1, <1>3, <1>4, <1>13, PhantomsAre, PhantomsWillBe DEF Active
    <2>3. priority[j] = 0 /\ \A k \in Waiting : k < j /\ priority[k] \in Nat
      BY <1>0, <1>2, Shapes DEF Uncreated, Waiting, TypeOK, RegistryOK
    <2> QED
      BY <1>1, <1>2, <2>1, <2>2, <2>3, ArriveStep
  <1> QED
    BY <1>13, <1>14, <1>15

\* A stopped job leaves the queue, or the GPU.
LEMMA StopJobCalm ==
  ASSUME Orderly, TypeOK, TypeOK', ClaimHeld, CalmInv, NEW j \in Jobs, StopJob(j)
  PROVE  CalmInv' /\ NoneRevived /\ Simulated
  <1>0. /\ CalmHost /\ Uncreated /\ Untouched /\ OneActive /\ LaunchedJob /\ Recorded
        /\ OneProcess /\ Known
    BY DEF CalmInv
  <1>1. /\ \A u \in Threads : launch[u].pc = "idle" /\ launch[u].pid = NoPid
        /\ status[j] # "absent"
    <2>1. Quiet /\ status[j] # "absent"
      BY DEF StopJob, May, Orderly, Active
    <2> QED
      BY <1>0, <2>1 DEF Quiet, LaunchedJob
  <1>2. UNCHANGED <<procJob, log, watch, launch, server, gated, timers, rebuilding,
                    recovery, clock>>
        /\ tailing' = tailing \ {j}
    BY DEF StopJob, registry, rows, procs, queue, budgets, host
  <1>3. \A k \in Jobs : /\ status'[k] = IF k = j THEN "stopped" ELSE status[k]
                        /\ pid'[k] = IF k = j THEN NoPid ELSE pid[k]
                        /\ priority'[k] = priority[k]
    BY DEF StopJob, TypeOK, RegistryOK
  <1>4. \A q \in Pids :
          procState'[q] \in {procState[q], "dead"} /\ (q = pid[j] => procState'[q] \notin Running)
                           /\ (q # pid[j] => procState'[q] = procState[q])
    BY DEF StopJob, Killed, Alive, Running
  <1>5. CalmHost'
    BY <1>0, <1>2 DEF CalmHost
  <1>6. Uncreated'
    BY <1>0, <1>1, <1>2, <1>3 DEF Uncreated, Active, Terminal, MovedUp
  <1>7. Untouched'
    BY <1>0, <1>2, <1>3 DEF Untouched, New, Terminal
  <1>8. OneActive'
    BY <1>0, <1>3 DEF OneActive, Active, Terminal
  <1>9. LaunchedJob'
    BY <1>1, <1>2 DEF LaunchedJob, Inside
  <1>10. Recorded'
    BY <1>0, <1>2, <1>3 DEF Recorded, InFlight, Active, Terminal
  <1>11. OneProcess'
    BY <1>0, <1>2, <1>4 DEF OneProcess, Engaged
  <1>12. Known'
    BY <1>0, <1>1, <1>2, <1>3, <1>4 DEF Known, Tracked, OneProcess, Engaged, Running
  <1>13. CalmInv'
    BY <1>5, <1>6, <1>7, <1>8, <1>9, <1>10, <1>11, <1>12 DEF CalmInv
  <1>14. NoneRevived
    BY <1>3 DEF NoneRevived, Active, Terminal
  <1>15. Simulated
    <2>0. \A k \in Jobs : ~ Launching(k) /\ ~ Launching(k)'
      BY <1>1, <1>2 DEF Launching
    <2>1. Waiting' = Waiting /\ OnGpu' = OnGpu \ {j} /\ j \in OnGpu /\ priority' = priority
      BY <2>0, <1>3 DEF Waiting, OnGpu, StopJob, Active
    <2>2. Phantoms' = Phantoms \ {j}
      <3>1. \A k \in Jobs \ {j} : status[k] \notin Active
        BY <1>0 DEF OneActive, StopJob
      <3> QED
        BY <1>3, <3>1 DEF Phantoms, Active
    <2> QED
      BY <2>1, <2>2, DoneStep
  <1> QED
    BY <1>13, <1>14, <1>15

\* A deleted job leaves the queue, or the GPU.
LEMMA DeleteJobCalm ==
  ASSUME Orderly, TypeOK, TypeOK', ClaimHeld, CalmInv, NEW j \in Jobs, DeleteJob(j)
  PROVE  CalmInv' /\ NoneRevived /\ Simulated
  <1>0. /\ CalmHost /\ Uncreated /\ Untouched /\ OneActive /\ LaunchedJob /\ Recorded
        /\ OneProcess /\ Known
    BY DEF CalmInv
  <1>1. /\ \A u \in Threads : launch[u].pc = "idle" /\ launch[u].pid = NoPid
        /\ status[j] # "absent"
    <2>1. Quiet /\ status[j] # "absent"
      BY DEF DeleteJob, May, Orderly, Active
    <2> QED
      BY <1>0, <2>1 DEF Quiet, LaunchedJob
  <1>2. UNCHANGED <<procJob, log, watch, launch, server, gated, timers, rebuilding,
                    recovery, clock>>
        /\ tailing' = tailing \ {j}
    BY DEF DeleteJob, registry, rows, procs, queue, budgets, host
  <1>3. \A k \in Jobs : /\ status'[k] = IF k = j THEN "absent" ELSE status[k]
                        /\ pid'[k] = IF k = j THEN NoPid ELSE pid[k]
                        /\ priority'[k] = IF k = j THEN 0 ELSE priority[k]
    BY DEF DeleteJob, TypeOK, RegistryOK
  <1>4. /\ \A q \in Pids :
             /\ procState'[q] \in {procState[q], "dead"}
             /\ q = pid[j] /\ status[j] \in Active => procState'[q] \notin Running
             /\ q # pid[j] => procState'[q] = procState[q]
        /\ status[j] \notin Active => procState' = procState
    BY DEF DeleteJob, Killed, Alive, Running
  <1>5. CalmHost'
    BY <1>0, <1>2 DEF CalmHost
  <1>6. Uncreated'
    BY <1>0, <1>2, <1>3 DEF Uncreated, Active, Terminal, MovedUp
  <1>7. Untouched'
    BY <1>0, <1>2, <1>3 DEF Untouched, New, Terminal
  <1>8. OneActive'
    BY <1>0, <1>3 DEF OneActive, Active, Terminal
  <1>9. LaunchedJob'
    BY <1>1, <1>2 DEF LaunchedJob, Inside
  <1>10. Recorded'
    BY <1>0, <1>2, <1>3 DEF Recorded, InFlight, Active, Terminal
  <1>11. OneProcess'
    BY <1>0, <1>2, <1>4 DEF OneProcess, Engaged
  <1>12. Known'
    BY <1>0, <1>1, <1>2, <1>3, <1>4 DEF Known, Tracked, OneProcess, Engaged, Running
  <1>13. CalmInv'
    BY <1>5, <1>6, <1>7, <1>8, <1>9, <1>10, <1>11, <1>12 DEF CalmInv
  <1>14. NoneRevived
    BY <1>3 DEF NoneRevived
  <1>15. Simulated
    <2>0. \A k \in Jobs : ~ Launching(k) /\ ~ Launching(k)'
      BY <1>1, <1>2 DEF Launching
    <2>1. \A k \in Jobs \ {j} : priority'[k] = priority[k]
      BY DEF DeleteJob
    <2>2. Waiting' = Waiting \ {j} /\ OnGpu' = OnGpu \ {j}
      BY <2>0, <1>3 DEF Waiting, OnGpu, Active
    <2>3. Phantoms' = Phantoms \ {j}
      <3>1. \A k \in Jobs \ {j} : status[j] \notin Active \/ status[k] \notin Active
        BY <1>0 DEF OneActive
      <3>2. \A k \in Jobs \ {j} : k \in Phantoms' <=> k \in Phantoms
        <4>1. CASE status[j] \in Active
          BY <1>3, <3>1, <4>1 DEF Phantoms
        <4>2. CASE status[j] \notin Active
          BY <1>3, <1>4, <4>2, <1>13, PhantomsAre, PhantomsWillBe
        <4> QED
          BY <4>1, <4>2
      <3>3. j \notin Phantoms'
        BY <1>3 DEF Phantoms, Active
      <3> QED
        BY <3>2, <3>3 DEF Phantoms
    <2>4. CASE j \in OnGpu
      <3>1. Waiting' = Waiting
        BY <2>2, <2>4 DEF Waiting, OnGpu, Active
      <3>2. \A k \in Waiting' : priority'[k] = priority[k]
        BY <2>1, <2>2 DEF Waiting
      <3> QED
        BY <2>2, <2>3, <2>4, <3>1, <3>2, DoneStep
    <2>5. CASE j \notin OnGpu
      <3>1. OnGpu' = OnGpu /\ Phantoms' = Phantoms
        BY <2>2, <2>3, <2>5 DEF OnGpu, Phantoms
      <3>2. \A k \in Waiting' : priority'[k] = priority[k]
        BY <2>1, <2>2 DEF Waiting
      <3>3. CASE j \in Waiting
        BY <2>2, <3>1, <3>2, <3>3, LeaveStep
      <3>4. CASE j \notin Waiting
        BY <2>2, <3>1, <3>2, <3>4, StutterStep
      <3> QED
        BY <3>3, <3>4
    <2> QED
      BY <2>4, <2>5
  <1> QED
    BY <1>13, <1>14, <1>15

\* A paused job keeps the GPU.
LEMMA PauseResumeCalm ==
  ASSUME Orderly, TypeOK, TypeOK', ClaimHeld, CalmInv, NEW j \in Jobs,
         PauseJob(j) \/ ResumeJob(j)
  PROVE  CalmInv' /\ NoneRevived /\ Simulated
  <1>0. /\ CalmHost /\ Uncreated /\ Untouched /\ OneActive /\ LaunchedJob /\ Recorded
        /\ OneProcess /\ Known
    BY DEF CalmInv
  <1>1. /\ status[j] \in Active /\ status'[j] \in Active
        /\ \A k \in Jobs \ {j} : status'[k] = status[k]
    BY DEF PauseJob, ResumeJob, TypeOK, RegistryOK, Active
  <1>2. UNCHANGED <<pid, priority, procState, procJob, log, tailing, watch, launch,
                    server, gated, timers, rebuilding, recovery, clock>>
    BY DEF PauseJob, ResumeJob, procs, budgets, host
  <1>3. \A k \in Jobs : status'[k] \in Active <=> status[k] \in Active
    BY <1>1
  <1>4. \A k \in Jobs : status'[k] # status[k] => status[k] \in Active /\ status'[k] \in Active
    BY <1>1
  <1>5. CalmHost'
    BY <1>0, <1>2 DEF CalmHost
  <1>6. Uncreated'
    BY <1>0, <1>1, <1>2 DEF Uncreated, Active, Terminal, MovedUp
  <1>7. Untouched'
    BY <1>0, <1>1, <1>2 DEF Untouched, New, Active, Terminal
  <1>8. OneActive'
    BY <1>0, <1>1 DEF OneActive, Terminal
  <1>9. LaunchedJob'
    BY <1>0, <1>1, <1>2, Shapes DEF LaunchedJob, Inside
  <1>10. Recorded'
    BY <1>0, <1>1, <1>2 DEF Recorded, InFlight, Terminal
  <1>11. OneProcess'
    BY <1>0, <1>2 DEF OneProcess, Engaged
  <1>12. Known'
    BY <1>0, <1>1, <1>2, <1>3 DEF Known, Tracked, OneProcess, Engaged, Running
  <1>13. CalmInv'
    BY <1>5, <1>6, <1>7, <1>8, <1>9, <1>10, <1>11, <1>12 DEF CalmInv
  <1>14. NoneRevived
    BY <1>1 DEF NoneRevived, Active, Terminal
  <1>15. Simulated
    <2>1. Waiting' = Waiting /\ OnGpu' = OnGpu
      <3>1. \A k \in Jobs : Launching(k)' <=> Launching(k)
        BY <1>2 DEF Launching
      <3> QED
        BY <1>1, <3>1 DEF Waiting, OnGpu, Active
    <2>2. Phantoms' = Phantoms
      BY <1>2, <1>3, <1>13, PhantomsAre, PhantomsWillBe
    <2> QED
      BY <1>2, <2>1, <2>2, StutterStep
  <1> QED
    BY <1>13, <1>14, <1>15

\* A trainer that begins to train was known when it was loading.
LEMMA TrainerStartsCalm ==
  ASSUME Orderly, TypeOK, TypeOK', ClaimHeld, CalmInv, NEW p \in Pids, TrainerStarts(p)
  PROVE  CalmInv' /\ NoneRevived /\ Simulated
  <1>0. /\ CalmHost /\ Uncreated /\ Untouched /\ OneActive /\ LaunchedJob /\ Recorded
        /\ OneProcess /\ Known
    BY DEF CalmInv
  <1>1. /\ procState[p] = "loading"
        /\ \A q \in Pids : procState'[q] = IF q = p THEN "training" ELSE procState[q]
    BY DEF TrainerStarts, TypeOK, ProcsOK
  <1>2. UNCHANGED <<status, pid, priority, procJob, log, tailing, watch, launch,
                    server, gated, timers, rebuilding, recovery, clock>>
    BY DEF TrainerStarts, registry, budgets, host
  <1>3. CalmHost'
    BY <1>0, <1>2 DEF CalmHost
  <1>4. Uncreated'
    BY <1>0, <1>2 DEF Uncreated, Active, Terminal, MovedUp
  <1>5. Untouched'
    BY <1>0, <1>2 DEF Untouched, New, Terminal
  <1>6. OneActive'
    BY <1>0, <1>2 DEF OneActive, Terminal
  <1>7. LaunchedJob'
    BY <1>0, <1>2 DEF LaunchedJob
  <1>8. Recorded'
    BY <1>0, <1>2 DEF Recorded, InFlight, Terminal
  <1>9. OneProcess'
    BY <1>0, <1>1, <1>2 DEF OneProcess, Engaged
  <1>10. Known'
    BY <1>0, <1>1, <1>2 DEF Known, Tracked, Running
  <1>11. CalmInv'
    BY <1>3, <1>4, <1>5, <1>6, <1>7, <1>8, <1>9, <1>10 DEF CalmInv
  <1>12. NoneRevived
    BY <1>2 DEF NoneRevived
  <1>13. Simulated
    <2>1. Waiting' = Waiting /\ OnGpu' = OnGpu
      BY <1>2 DEF Waiting, OnGpu, Launching
    <2>2. Phantoms' = Phantoms
      <3>1. \A k \in Jobs : pid[k] \in Pids \cup {NoPid}
        BY Shapes
      <3> QED
        BY <1>1, <1>2, <3>1, <1>11, PhantomsAre, PhantomsWillBe
    <2> QED
      BY <1>2, <2>1, <2>2, StutterStep
  <1> QED
    BY <1>11, <1>12, <1>13

\* A trainer that dies without an exit line is lost.
LEMMA TrainerGoneCalm ==
  ASSUME Orderly, TypeOK, TypeOK', ClaimHeld, CalmInv, NEW p \in Pids, TrainerGone(p)
  PROVE  CalmInv' /\ NoneRevived /\ Simulated
  <1>0. /\ CalmHost /\ Uncreated /\ Untouched /\ OneActive /\ LaunchedJob /\ Recorded
        /\ OneProcess /\ Known
    BY DEF CalmInv
  <1>1. \A q \in Pids : procState'[q] = IF q = p THEN "dead" ELSE procState[q]
    BY DEF TrainerGone, TypeOK, ProcsOK
  <1>2. UNCHANGED <<status, pid, priority, procJob, log, tailing, watch, launch,
                    server, gated, timers, rebuilding, recovery, clock>>
    BY DEF TrainerGone, registry, budgets, host
  <1>3. CalmHost'
    BY <1>0, <1>2 DEF CalmHost
  <1>4. Uncreated'
    BY <1>0, <1>2 DEF Uncreated, Active, Terminal, MovedUp
  <1>5. Untouched'
    BY <1>0, <1>2 DEF Untouched, New, Terminal
  <1>6. OneActive'
    BY <1>0, <1>2 DEF OneActive, Terminal
  <1>7. LaunchedJob'
    BY <1>0, <1>2 DEF LaunchedJob
  <1>8. Recorded'
    BY <1>0, <1>2 DEF Recorded, InFlight, Terminal
  <1>9. OneProcess'
    BY <1>0, <1>1, <1>2 DEF OneProcess, Engaged
  <1>10. Known'
    BY <1>0, <1>1, <1>2 DEF Known, Tracked, Running
  <1>11. CalmInv'
    BY <1>3, <1>4, <1>5, <1>6, <1>7, <1>8, <1>9, <1>10 DEF CalmInv
  <1>12. NoneRevived
    BY <1>2 DEF NoneRevived
  <1>13. Simulated
    <2>1. Waiting' = Waiting /\ OnGpu' = OnGpu
      BY <1>2 DEF Waiting, OnGpu, Launching
    <2>2. ASSUME NEW j \in Jobs, status[j] \in Active, pid[j] = p, procState[p] # "dead"
          PROVE  Simulated
      <3>1. j \in OnGpu \ Phantoms
        BY <2>2, PhantomsAre DEF OnGpu
      <3>2. \A k \in Jobs : status[k] \in Active /\ pid[k] # NoPid
                                => pid[k] \in Pids /\ (pid[k] = p => k = j)
        BY <1>0, <2>2, Shapes DEF OneActive
      <3>3. Phantoms' = Phantoms \cup {j}
        BY <1>1, <1>2, <2>2, <3>2, <1>11, PhantomsAre, PhantomsWillBe, Shapes
      <3> QED
        BY <1>2, <2>1, <3>1, <3>3, LostStep
    <2>3. CASE \A j \in Jobs : status[j] \in Active /\ pid[j] = p => procState[p] = "dead"
      <3>1. Phantoms' = Phantoms
        BY <1>1, <1>2, <2>3, <1>11, PhantomsAre, PhantomsWillBe, Shapes
      <3> QED
        BY <1>2, <2>1, <3>1, StutterStep
    <2> QED
      BY <2>2, <2>3
  <1> QED
    BY <1>11, <1>12, <1>13

\* A trainer that exits leaves its exit line in the log.
LEMMA TrainerExitsCalm ==
  ASSUME Orderly, TypeOK, TypeOK', ClaimHeld, CalmInv, NEW p \in Pids,
         NEW kind \in ExitKinds, TrainerExits(p, kind)
  PROVE  CalmInv' /\ NoneRevived /\ Simulated
  <1>0. /\ CalmHost /\ Uncreated /\ Untouched /\ OneActive /\ LaunchedJob /\ Recorded
        /\ OneProcess /\ Known
    BY DEF CalmInv
  <1> DEFINE j == procJob[p]
  <1>1. procState[p] \in Running /\ kind \in {"ok", "err", "soft"}
    BY DEF TrainerExits, Orderly, ExitKinds, Running
  <1>2. UNCHANGED <<status, pid, priority, procJob, tailing, watch, launch, server,
                    gated, timers, rebuilding, recovery, clock>>
    BY DEF TrainerExits, registry, budgets, host
  <1>3. j \in Jobs /\ log[j] = << >> /\ ~ New(j)
    <2>1. log[j] = << >> /\ j \in Jobs
      BY <1>0, <1>1 DEF Known, OneProcess, Engaged, Running
    <2> QED
      BY <1>0, <2>1 DEF Untouched
  <1>4. /\ \A q \in Pids : procState'[q] = IF q = p THEN "closing" ELSE procState[q]
        /\ \A k \in Jobs \ {j} : log'[k] = log[k]
        /\ log'[j] = <<kind>>
    BY <1>3 DEF TrainerExits, TypeOK, FollowersOK, ProcsOK
  <1>5. Len(log'[j]) = 1 /\ log'[j][1] = kind
    BY <1>4
  <1>6. CalmHost'
    BY <1>0, <1>1, <1>2, <1>4 DEF CalmHost
  <1>7. Uncreated'
    BY <1>0, <1>2 DEF Uncreated, Active, Terminal, MovedUp
  <1>8. Untouched'
    BY <1>0, <1>2, <1>4 DEF Untouched, New, Terminal
  <1>9. OneActive'
    BY <1>0, <1>2 DEF OneActive, Terminal
  <1>10. LaunchedJob'
    BY <1>0, <1>2 DEF LaunchedJob
  <1>11. Recorded'
    BY <1>0, <1>2 DEF Recorded, InFlight, Terminal
  <1>12. OneProcess'
    BY <1>0, <1>1, <1>2, <1>3, <1>4 DEF OneProcess, Engaged, Running
  <1>13. Known'
    BY <1>0, <1>1, <1>2, <1>4 DEF Known, Tracked, OneProcess, Engaged, Running
  <1>14. CalmInv'
    BY <1>6, <1>7, <1>8, <1>9, <1>10, <1>11, <1>12, <1>13 DEF CalmInv
  <1>15. NoneRevived
    BY <1>2 DEF NoneRevived
  <1>16. Simulated
    <2>1. Waiting' = Waiting /\ OnGpu' = OnGpu
      BY <1>2 DEF Waiting, OnGpu, Launching
    <2>2. Phantoms' = Phantoms
      <3>1. \A k \in Jobs : pid[k] \in Pids \cup {NoPid}
        BY Shapes
      <3> QED
        BY <1>1, <1>2, <1>4, <3>1, <1>14, PhantomsAre, PhantomsWillBe DEF Running
    <2> QED
      BY <1>2, <2>1, <2>2, StutterStep
  <1> QED
    BY <1>14, <1>15, <1>16

\* The exit line ends its job, which gives the GPU back.
LEMMA HandleExitCalm ==
  ASSUME Orderly, TypeOK, TypeOK', ClaimHeld, CalmInv, NEW j \in Jobs, HandleExit(j)
  PROVE  CalmInv' /\ NoneRevived /\ Simulated
  <1>0. /\ CalmHost /\ Uncreated /\ Untouched /\ OneActive /\ LaunchedJob /\ Recorded
        /\ OneProcess /\ Known
    BY DEF CalmInv
  <1>1. UNCHANGED <<priority, procState, procJob, watch, launch, server, gated,
                    recovery, clock>>
    BY DEF HandleExit, registry, procs, host
  <1>2. /\ j \in tailing /\ log[j] # << >> /\ log[j] \in Seq(ExitKinds)
        /\ \A k \in Jobs \ {j} : log'[k] = log[k]
        /\ log'[j] = Tail(log[j])
    BY DEF HandleExit, TypeOK, FollowersOK
  <1>3. Head(log[j]) \in {"ok", "err", "soft"}
    <2>1. Head(log[j]) = log[j][1] /\ 1 \in 1 .. Len(log[j])
      BY <1>2
    <2> QED
      BY <1>0, <2>1 DEF CalmHost
  <1>4. \A i \in 1 .. Len(log'[j]) : log'[j][i] \in {"ok", "err", "soft"}
    <2>1. \A i \in 1 .. Len(Tail(log[j])) :
            i + 1 \in 1 .. Len(log[j]) /\ Tail(log[j])[i] = log[j][i + 1]
      BY <1>2
    <2> QED
      BY <1>0, <1>2, <2>1 DEF CalmHost
  <1>5. \/ UNCHANGED <<status, pid, tailing, timers, rebuilding>>
        \/ /\ status[j] # "absent" /\ status'[j] \in Terminal /\ pid'[j] = NoPid
           /\ \A k \in Jobs \ {j} : status'[k] = status[k] /\ pid'[k] = pid[k]
           /\ tailing' = tailing \ {j} /\ UNCHANGED <<timers, rebuilding>>
    <2>1. CASE status[j] = "absent"
      BY <2>1 DEF HandleExit, registry, budgets
    <2>2. CASE status[j] # "absent" /\ Head(log[j]) \in {"ok", "soft"}
      BY <2>2 DEF HandleExit, Finish, TypeOK, RegistryOK, Terminal
    <2>3. CASE status[j] # "absent" /\ Head(log[j]) = "err"
      BY <2>3 DEF HandleExit, Finish, TypeOK, RegistryOK, Terminal
    <2> QED
      BY <1>3, <2>1, <2>2, <2>3
  <1>6. /\ ~ New(j)
        /\ \A q \in Pids : procJob[q] = j => procState[q] \notin Running
    BY <1>0, <1>2 DEF Untouched, Known
  <1>7. \A u \in Threads : launch[u].pc # "idle" => launch[u].job # j
    BY <1>0, <1>2, <1>6 DEF New, LaunchedJob, TypeOK, LaunchOK, LaunchSteps
  <1>8. CalmHost'
    BY <1>0, <1>1, <1>2, <1>3, <1>4, <1>5, <1>6, <1>7, Shapes DEF CalmHost
  <1>9. Uncreated'
    BY <1>0, <1>1, <1>5 DEF Uncreated, MovedUp
  <1>10. Untouched'
    BY <1>0, <1>1, <1>2, <1>5 DEF Untouched, New, Terminal
  <1>11. OneActive'
    BY <1>0, <1>5 DEF OneActive, Active, Terminal
  <1>12. LaunchedJob'
    BY <1>0, <1>1, <1>5, <1>7, Shapes DEF LaunchedJob, Inside, Active, Terminal
  <1>13. Recorded'
    BY <1>0, <1>1, <1>5 DEF Recorded, InFlight, Active, Terminal
  <1>14. OneProcess'
    BY <1>0, <1>1 DEF OneProcess, Engaged
  <1>15. Known'
    BY <1>0, <1>1, <1>2, <1>5 DEF Known, Tracked, OneProcess, Engaged, Running
  <1>16. CalmInv'
    BY <1>8, <1>9, <1>10, <1>11, <1>12, <1>13, <1>14, <1>15 DEF CalmInv
  <1>17. NoneRevived
    BY <1>5 DEF NoneRevived
  <1>18. Simulated
    <2>0. \A k \in Jobs : Launching(k)' <=> Launching(k)
      BY <1>1 DEF Launching
    <2>1. CASE UNCHANGED <<status, pid>>
      <3>1. Waiting' = Waiting /\ OnGpu' = OnGpu
        BY <2>0, <2>1 DEF Waiting, OnGpu
      <3>2. Phantoms' = Phantoms
        BY <1>1, <2>1, <1>16, PhantomsAre, PhantomsWillBe
      <3> QED
        BY <1>1, <3>1, <3>2, StutterStep
    <2>2. CASE /\ status'[j] \in Terminal /\ pid'[j] = NoPid
               /\ \A k \in Jobs \ {j} : status'[k] = status[k] /\ pid'[k] = pid[k]
      <3>1. ~ Launching(j) /\ status[j] # "pending"
        BY <1>6, <1>7 DEF Launching, New
      <3>2. Waiting' = Waiting /\ OnGpu' = OnGpu \ {j}
        BY <2>0, <2>2, <3>1 DEF Waiting, OnGpu, Active, Terminal
      <3>3. Phantoms' = Phantoms \ {j}
        BY <1>1, <2>2, <1>16, PhantomsAre, PhantomsWillBe
      <3>4. CASE j \in OnGpu
        BY <1>1, <3>2, <3>3, <3>4, DoneStep
      <3>5. CASE j \notin OnGpu
        <4>1. OnGpu' = OnGpu /\ Phantoms' = Phantoms
          BY <3>2, <3>3, <3>5 DEF OnGpu, Phantoms
        <4> QED
          BY <1>1, <3>2, <4>1, StutterStep
      <3> QED
        BY <3>4, <3>5
    <2> QED
      BY <1>5, <2>1, <2>2
  <1> QED
    BY <1>16, <1>17, <1>18

\* The watchdog sees that its trainer is dead.
LEMMA WatchdogNoticesCalm ==
  ASSUME Orderly, TypeOK, TypeOK', ClaimHeld, CalmInv, NEW p \in Pids, WatchdogNotices(p)
  PROVE  CalmInv' /\ NoneRevived /\ Simulated
  <1>0. /\ CalmHost /\ Uncreated /\ Untouched /\ OneActive /\ LaunchedJob /\ Recorded
        /\ OneProcess /\ Known
    BY DEF CalmInv
  <1>1. UNCHANGED <<status, pid, priority, procState, procJob, log, tailing, launch,
                    server, gated, timers, rebuilding, recovery, clock>>
    BY DEF WatchdogNotices, registry, procs, budgets, host
  <1>2. /\ watch[p] = "on"
        /\ \A q \in Pids \ {p} : watch'[q] = watch[q]
        /\ watch'[p] = IF status[procJob[p]] \in Active THEN "grace" ELSE "off"
    BY DEF WatchdogNotices, TypeOK, FollowersOK
  <1>3. CalmHost'
    BY <1>0, <1>1 DEF CalmHost
  <1>4. Uncreated'
    BY <1>0, <1>1 DEF Uncreated, Terminal, MovedUp
  <1>5. Untouched'
    BY <1>0, <1>1 DEF Untouched, New, Terminal
  <1>6. OneActive'
    BY <1>0, <1>1 DEF OneActive, Terminal
  <1>7. LaunchedJob'
    BY <1>0, <1>1, <1>2 DEF LaunchedJob
  <1>8. Recorded'
    BY <1>0, <1>1, <1>2, Shapes DEF Recorded, InFlight, Terminal
  <1>9. OneProcess'
    BY <1>0, <1>1, <1>2 DEF OneProcess, Engaged
  <1>10. Known'
    BY <1>0, <1>1 DEF Known, Tracked
  <1>11. CalmInv'
    BY <1>3, <1>4, <1>5, <1>6, <1>7, <1>8, <1>9, <1>10 DEF CalmInv
  <1>12. NoneRevived
    BY <1>1 DEF NoneRevived
  <1>13. Simulated
    <2>1. Waiting' = Waiting /\ OnGpu' = OnGpu
      BY <1>1 DEF Waiting, OnGpu, Launching
    <2>2. Phantoms' = Phantoms
      BY <1>1, <1>11, PhantomsAre, PhantomsWillBe
    <2> QED
      BY <1>1, <2>1, <2>2, StutterStep
  <1> QED
    BY <1>11, <1>12, <1>13

\* The watchdog ends the job of a trainer that left no exit line.
LEMMA WatchdogFinalizesCalm ==
  ASSUME Orderly, TypeOK, TypeOK', ClaimHeld, CalmInv, NEW p \in Pids, WatchdogFinalizes(p)
  PROVE  CalmInv' /\ NoneRevived /\ Simulated
  <1>0. /\ CalmHost /\ Uncreated /\ Untouched /\ OneActive /\ LaunchedJob /\ Recorded
        /\ OneProcess /\ Known
    BY DEF CalmInv
  <1> DEFINE j == procJob[p]
  <1>1. UNCHANGED <<priority, procJob, log, launch, server, gated, timers, rebuilding,
                    recovery, clock>>
    BY DEF WatchdogFinalizes, registry, rows, procs, queue, budgets, host
  <1>2. /\ watch[p] = "grace"
        /\ \A q \in Pids : watch'[q] = IF q = p THEN "off" ELSE watch[q]
    BY DEF WatchdogFinalizes, TypeOK, FollowersOK
  <1>3. j \in Jobs /\ ~ New(j)
    <2>1. j \in Jobs
      BY <1>0, <1>2 DEF OneProcess, Engaged
    <2> QED
      BY <1>0, <2>1 DEF Untouched
  <1>4. \/ status[j] \notin Active /\ UNCHANGED <<status, pid, tailing, procState>>
        \/ /\ status[j] \in Active
           /\ \A k \in Jobs : /\ status'[k] = IF k = j THEN "stopped" ELSE status[k]
                              /\ pid'[k] = IF k = j THEN NoPid ELSE pid[k]
           /\ tailing' = tailing \ {j}
           /\ \A q \in Pids :
                procState'[q] \in {procState[q], "dead"} /\ (q = p => procState'[q] \notin Running)
                              /\ (q # p => procState'[q] = procState[q])
    BY DEF WatchdogFinalizes, Finish, Killed, TypeOK, RegistryOK, Alive, Running
  <1>5. \A u \in Threads : launch[u].pc \in {"preflight", "spawned", "attach"} => launch[u].job # j
    <2> SUFFICES ASSUME NEW u \in Threads, launch[u].job = j,
                        launch[u].pc \in {"preflight", "spawned", "attach"}
                 PROVE FALSE
      OBVIOUS
    <2>1. launch[u].pc # "preflight"
      BY <1>3 DEF New
    <2>2. launch[u].pid \in Pids /\ procJob[launch[u].pid] = j /\ watch[launch[u].pid] = "off"
      BY <1>0, <2>1 DEF LaunchedJob
    <2> QED
      BY <1>0, <1>2, <2>2 DEF OneProcess, Engaged
  <1>6. CalmHost'
    BY <1>0, <1>1 DEF CalmHost
  <1>7. Uncreated'
    BY <1>0, <1>1, <1>4 DEF Uncreated, Active, Terminal, MovedUp
  <1>8. Untouched'
    BY <1>0, <1>1, <1>4 DEF Untouched, New, Terminal
  <1>9. OneActive'
    BY <1>0, <1>4 DEF OneActive, Terminal
  <1>10. LaunchedJob'
    BY <1>0, <1>1, <1>2, <1>4, <1>5, Shapes DEF LaunchedJob, Inside
  <1>11. Recorded'
    BY <1>0, <1>1, <1>2, <1>4, Shapes DEF Recorded, InFlight, Active, Terminal
  <1>12. OneProcess'
    BY <1>0, <1>1, <1>2, <1>4 DEF OneProcess, Engaged
  <1>13. Known'
    <2> SUFFICES ASSUME NEW q \in Pids, procState'[q] \in Running
                 PROVE  Tracked(q)' /\ log'[procJob'[q]] = << >>
      BY DEF Known
    <2>1. procState[q] \in Running
      BY <1>4 DEF Running
    <2>2. Tracked(q) /\ log[procJob[q]] = << >> /\ procJob[q] \in Jobs /\ Engaged(q)
      BY <1>0, <2>1 DEF Known, OneProcess, Engaged, Running
    <2>3. CASE status[j] \notin Active
      BY <1>1, <1>4, <2>2, <2>3 DEF Tracked
    <2>4. CASE status[j] \in Active
      <3>1. q # p
        BY <1>4, <2>4
      <3>2. procJob[q] # j
        BY <1>0, <1>2, <2>2, <3>1 DEF OneProcess, Engaged
      <3> QED
        BY <1>1, <1>4, <2>2, <2>4, <3>2 DEF Tracked
    <2> QED
      BY <2>3, <2>4
  <1>14. CalmInv'
    BY <1>6, <1>7, <1>8, <1>9, <1>10, <1>11, <1>12, <1>13 DEF CalmInv
  <1>15. NoneRevived
    BY <1>4 DEF NoneRevived, Terminal
  <1>16. Simulated
    <2>0. \A k \in Jobs : Launching(k)' <=> Launching(k)
      BY <1>1 DEF Launching
    <2>1. CASE UNCHANGED <<status, pid, procState>>
      <3>1. Waiting' = Waiting /\ OnGpu' = OnGpu
        BY <2>0, <2>1 DEF Waiting, OnGpu
      <3>2. Phantoms' = Phantoms
        BY <2>1, <1>14, PhantomsAre, PhantomsWillBe
      <3> QED
        BY <1>1, <3>1, <3>2, StutterStep
    <2>2. ASSUME NEW i \in Jobs, i = j, status[i] \in Active,
                 \A k \in Jobs : /\ status'[k] = IF k = i THEN "stopped" ELSE status[k]
                                 /\ pid'[k] = IF k = i THEN NoPid ELSE pid[k],
                 \A q \in Pids :
                   procState'[q] \in {procState[q], "dead"} /\ (q # p => procState'[q] = procState[q])
          PROVE  Simulated
      <3>1. ~ Launching(i)
        BY <1>0, <1>5, <2>2 DEF Launching, LaunchedJob, TypeOK, LaunchOK, LaunchSteps
      <3>2. Waiting' = Waiting /\ OnGpu' = OnGpu \ {i} /\ i \in OnGpu
        BY <2>0, <2>2, <3>1 DEF Waiting, OnGpu, Active
      <3>3. \A k \in Jobs : status[k] \in Active /\ pid[k] # NoPid
                                => pid[k] \in Pids /\ (pid[k] = p => k = i)
        BY <1>0, <2>2, Shapes DEF OneActive
      <3>4. Phantoms' = Phantoms \ {i}
        BY <2>2, <3>3, <1>14, PhantomsAre, PhantomsWillBe
      <3> QED
        BY <1>1, <3>2, <3>4, DoneStep
    <2> QED
      BY <1>3, <1>4, <2>1, <2>2
  <1> QED
    BY <1>14, <1>15, <1>16

\* Steps that touch neither jobs nor processes.
LEMMA IdleCalm ==
  ASSUME Orderly, TypeOK, TypeOK', ClaimHeld, CalmInv,
         AdvanceOff \/ (\E on \in BOOLEAN : SetAutoQueue(on)) \/ BootDone \/ UNCHANGED vars
  PROVE  CalmInv' /\ NoneRevived /\ Simulated
  <1>0. /\ CalmHost /\ Uncreated /\ Untouched /\ OneActive /\ LaunchedJob /\ Recorded
        /\ OneProcess /\ Known
    BY DEF CalmInv
  <1>1. UNCHANGED <<status, pid, priority, procState, procJob, log, tailing, watch,
                    launch, gated, timers, rebuilding, recovery, clock>>
    BY DEF AdvanceOff, SetAutoQueue, BootDone, vars, registry, procs, queue, budgets,
       host
  <1>1a. server # "down" /\ server' # "down"
    BY <1>0 DEF AdvanceOff, SetAutoQueue, BootDone, vars, host, CalmHost
  <1>2. CalmHost'
    BY <1>0, <1>1, <1>1a, Shapes DEF CalmHost
  <1>3. Uncreated'
    BY <1>0, <1>1 DEF Uncreated, Active, Terminal, MovedUp
  <1>4. Untouched'
    BY <1>0, <1>1 DEF Untouched, New, Terminal
  <1>5. OneActive'
    BY <1>0, <1>1 DEF OneActive, Terminal
  <1>6. LaunchedJob'
    BY <1>0, <1>1 DEF LaunchedJob
  <1>7. Recorded'
    BY <1>0, <1>1 DEF Recorded, InFlight, Terminal
  <1>8. OneProcess'
    BY <1>0, <1>1 DEF OneProcess, Engaged
  <1>9. Known'
    BY <1>0, <1>1 DEF Known, Tracked
  <1>10. CalmInv'
    BY <1>2, <1>3, <1>4, <1>5, <1>6, <1>7, <1>8, <1>9 DEF CalmInv
  <1>11. NoneRevived
    BY <1>1 DEF NoneRevived
  <1>12. Simulated
    <2>1. Waiting' = Waiting /\ OnGpu' = OnGpu
      BY <1>1 DEF Waiting, OnGpu, Launching
    <2>2. Phantoms' = Phantoms
      BY <1>1, <1>10, PhantomsAre, PhantomsWillBe
    <2> QED
      BY <1>1, <2>1, <2>2, StutterStep
  <1> QED
    BY <1>10, <1>11, <1>12

\* Moving a waiting job up exchanges it with its neighbour.
LEMMA ReorderCalm ==
  ASSUME Orderly, TypeOK, TypeOK', ClaimHeld, CalmInv, NEW j \in Jobs, ReorderUp(j)
  PROVE  CalmInv' /\ NoneRevived /\ Simulated
  <1>0. /\ CalmHost /\ Uncreated /\ Untouched /\ OneActive /\ LaunchedJob /\ Recorded
        /\ OneProcess /\ Known
    BY DEF CalmInv
  <1>1. UNCHANGED <<status, pid, procState, procJob, log, tailing, watch, launch,
                    server, gated, timers, rebuilding, recovery, clock>>
    BY DEF ReorderUp, procs, budgets, host
  <1>2. status[j] = "pending" /\ priority' = MovedUp(j)
    BY DEF ReorderUp
  <1>3. \A k \in Jobs : status[k] # "pending" => priority'[k] = priority[k]
    BY <1>2 DEF MovedUp
  <1>4. CalmHost'
    BY <1>0, <1>1 DEF CalmHost
  <1>5. Uncreated'
    BY <1>0, <1>1, <1>3 DEF Uncreated
  <1>6. Untouched'
    BY <1>0, <1>1 DEF Untouched, New, Terminal
  <1>7. OneActive'
    BY <1>0, <1>1 DEF OneActive, Terminal
  <1>8. LaunchedJob'
    BY <1>0, <1>1 DEF LaunchedJob
  <1>9. Recorded'
    BY <1>0, <1>1 DEF Recorded, InFlight, Terminal
  <1>10. OneProcess'
    BY <1>0, <1>1 DEF OneProcess, Engaged
  <1>11. Known'
    BY <1>0, <1>1 DEF Known, Tracked
  <1>12. CalmInv'
    BY <1>4, <1>5, <1>6, <1>7, <1>8, <1>9, <1>10, <1>11 DEF CalmInv
  <1>13. NoneRevived
    BY <1>1 DEF NoneRevived
  <1>14. Simulated
    <2>1. UNCHANGED <<Waiting, OnGpu>>
      BY <1>1 DEF Waiting, OnGpu, Launching
    <2>2. Phantoms' = Phantoms
      BY <1>1, <1>12, PhantomsAre, PhantomsWillBe
    <2> QED
      BY <1>2, <2>1, <2>2, ArrangeStep
  <1> QED
    BY <1>12, <1>13, <1>14

\* The rest of Next cannot happen in a calm state, but for a crash.
LEMMA NotCalm ==
  ASSUME Orderly, CalmInv
  PROVE  /\ \A t \in Threads, j \in Jobs :
              ~ StartNow(t, j) /\ ~ RestartJob(t, j) /\ ~ FireTimer(t, j) /\ ~ RunRebuild(t, j)
         /\ \A j \in Jobs : ~ Relaunch(j)
         /\ ~ Boot
  <1>1. server # "down" /\ timers = {} /\ rebuilding = {} /\ recovery = {}
    BY DEF CalmInv, CalmHost
  <1>2. "start" \notin UserOps /\ "restart" \notin UserOps
    BY DEF Orderly
  <1> QED
    BY <1>1, <1>2 DEF StartNow, RestartJob, May, FireTimer, RunRebuild, Relaunch, Boot

\* No job, no process: the invariant holds.
LEMMA InitCalm == Init => CalmInv
  <1> SUFFICES ASSUME Init PROVE CalmInv
    OBVIOUS
  <1>1. /\ \A t \in Threads : launch[t].pc = "idle" /\ launch[t].pid = NoPid
        /\ \A j \in Jobs : status[j] = "absent" /\ pid[j] = NoPid /\ log[j] = << >>
        /\ \A p \in Pids : procState[p] = "dead" /\ procJob[p] = NoJob /\ watch[p] = "off"
        /\ NoJob \notin Jobs /\ NoPid \notin Pids
    BY JobQueueAssumption DEF Init, Idle
  <1> QED
    BY <1>1 DEF Init, CalmInv, CalmHost, Uncreated, Untouched, OneActive, LaunchedJob,
       Recorded, OneProcess, Engaged, Known, Inside, InFlight, Active, Running

\* Every step but a crash keeps the invariant and revives nothing; it is a step of the
\* abstract queue as long as every model can be trained.
LEMMA NextCalm ==
  Orderly /\ TypeOK /\ TypeOK' /\ ClaimHeld /\ CalmInv /\ [Next]_vars /\ ~ Crash =>
    CalmInv' /\ NoneRevived /\ (gated = {} => Simulated)
  <1> SUFFICES ASSUME Orderly, TypeOK, TypeOK', ClaimHeld, CalmInv, [Next]_vars, ~ Crash
               PROVE  CalmInv' /\ NoneRevived /\ (gated = {} => Simulated)
    OBVIOUS
  <1>1. ASSUME NEW t \in Threads, LaunchStep(t)
        PROVE  CalmInv' /\ NoneRevived /\ (gated = {} => Simulated)
    BY <1>1, BeginLaunchCalm, SpawnCalm, LaunchFailsCalm, CommitCalm,
       AttachCalm DEF LaunchStep
  <1>2. ASSUME NEW t \in Threads, AdvanceQueue(t)
        PROVE  CalmInv' /\ NoneRevived /\ (gated = {} => Simulated)
    BY <1>2, AdvanceQueueCalm
  <1>3. CASE CreateJob
    BY <1>3, CreateJobCalm
  <1>4. ASSUME NEW j \in Jobs, StopJob(j) \/ DeleteJob(j) \/ PauseJob(j) \/ ResumeJob(j)
                              \/ HandleExit(j) \/ ReorderUp(j)
        PROVE  CalmInv' /\ NoneRevived /\ (gated = {} => Simulated)
    BY <1>4, StopJobCalm, DeleteJobCalm, PauseResumeCalm, HandleExitCalm, ReorderCalm
  <1>5. ASSUME NEW p \in Pids, TrainerStarts(p) \/ WatchdogNotices(p) \/ WatchdogFinalizes(p)
        PROVE  CalmInv' /\ NoneRevived /\ (gated = {} => Simulated)
    BY <1>5, TrainerStartsCalm, WatchdogNoticesCalm, WatchdogFinalizesCalm
  <1>6. ASSUME NEW p \in Pids, TrainerEnds(p)
        PROVE  CalmInv' /\ NoneRevived /\ (gated = {} => Simulated)
    BY <1>6, TrainerGoneCalm, TrainerExitsCalm DEF TrainerEnds
  <1>7. CASE AdvanceOff \/ (\E on \in BOOLEAN : SetAutoQueue(on)) \/ BootDone
              \/ UNCHANGED vars
    BY <1>7, IdleCalm
  <1> QED
    BY <1>1, <1>2, <1>3, <1>4, <1>5, <1>6, <1>7, NotCalm DEF Next

\* Nobody but the host's own steps touches the server.
LEMMA ServerKept ==
  ASSUME [Next]_vars, ~ Crash, ~ Boot, ~ BootDone
  PROVE  UNCHANGED <<server, gated, crashes>>
  <1>1. ASSUME NEW t \in Threads, LaunchStep(t) \/ AdvanceQueue(t)
        PROVE  UNCHANGED <<server, gated, crashes>>
    BY <1>1
    DEF LaunchStep, BeginLaunch, Spawn, LaunchFails, Commit, Attach, AdvanceQueue,
       host
  <1>2. ASSUME NEW t \in Threads, NEW j \in Jobs,
               StartNow(t, j) \/ RestartJob(t, j) \/ FireTimer(t, j) \/ RunRebuild(t, j)
        PROVE  UNCHANGED <<server, gated, crashes>>
    BY <1>2 DEF StartNow, RestartJob, FireTimer, RunRebuild, Requeue, host
  <1>3. ASSUME NEW j \in Jobs, \/ StopJob(j) \/ DeleteJob(j) \/ PauseJob(j) \/ ResumeJob(j)
                               \/ ReorderUp(j) \/ HandleExit(j) \/ Relaunch(j)
        PROVE  UNCHANGED <<server, gated, crashes>>
    BY <1>3
    DEF StopJob, DeleteJob, PauseJob, ResumeJob, ReorderUp, HandleExit, Relaunch,
       host
  <1>4. ASSUME NEW p \in Pids, \/ TrainerStarts(p) \/ TrainerEnds(p) \/ WatchdogNotices(p)
                               \/ WatchdogFinalizes(p)
        PROVE  UNCHANGED <<server, gated, crashes>>
    BY <1>4 DEF TrainerStarts, TrainerEnds, TrainerGone, TrainerExits, WatchdogNotices,
       WatchdogFinalizes, host
  <1>5. CASE AdvanceOff \/ CreateJob \/ (\E on \in BOOLEAN : SetAutoQueue(on))
             \/ UNCHANGED vars
    BY <1>5 DEF AdvanceOff, CreateJob, SetAutoQueue, vars, host
  <1> QED
    BY <1>1, <1>2, <1>3, <1>4, <1>5 DEF Next

\* In a calm instance the backend does not end.
LEMMA NeverEnds == ASSUME Calm, TypeOK PROVE ~ Crash
  BY DEF Calm, TypeOK, HostOK, Crash

\* In a calm instance the invariant holds in every state, the backend is up and
\* every model can be trained.
LEMMA SpecCalm == Calm /\ Spec => [](CalmInv /\ server = "up" /\ gated = {})
  <1> SUFFICES ASSUME Calm PROVE Spec => [](CalmInv /\ server = "up" /\ gated = {})
    OBVIOUS
  <1> DEFINE Inv == CalmInv /\ server = "up" /\ gated = {}
  <1>1. TypeOK /\ TypeOK' /\ ClaimHeld /\ Inv /\ [Next]_vars => Inv'
    <2> SUFFICES ASSUME TypeOK, TypeOK', ClaimHeld, Inv, [Next]_vars
                 PROVE  Inv'
      OBVIOUS
    <2>1. ~ Crash /\ ~ Boot /\ ~ BootDone
      BY DEF Calm, TypeOK, HostOK, Crash, Boot, BootDone
    <2> QED
      BY <2>1, NextCalm, ServerKept DEF Calm
  <1>2. Init => Inv
    BY InitCalm DEF Init
  <1> QED
    BY <1>1, <1>2, TypeCorrect, ClaimCorrect, PTL DEF Spec

\* A trainer on the GPU belongs to an active job and is known.
LEMMA TrainerKnown ==
  ASSUME CalmInv, NEW p \in Pids, procState[p] \in Running
  PROVE  procJob[p] \in Jobs /\ status[procJob[p]] \in Active /\ Tracked(p)
  <1>1. procJob[p] \in Jobs /\ Tracked(p)
    BY DEF CalmInv, OneProcess, Engaged, Known, Running
  <1>2. CASE status[procJob[p]] \in Active
    BY <1>1, <1>2
  <1>3. ASSUME NEW t \in Threads, launch[t].pid = p
        PROVE  status[procJob[p]] \in Active
    <2>1. p # NoPid
      BY JobQueueAssumption
    <2> QED
      BY <1>3, <2>1 DEF CalmInv, LaunchedJob, Inside
  <1> QED
    BY <1>1, <1>2, <1>3 DEF Tracked

\* At most one trainer is loading or training (SingleTrainer): a launch is claimed
\* only when no job is active, and every trainer on the GPU has its active job.
THEOREM OneTrainer == Calm /\ Spec => []SingleTrainer
  <1>1. TypeOK /\ ClaimHeld /\ CalmInv => SingleTrainer
    <2> SUFFICES ASSUME TypeOK, ClaimHeld, CalmInv PROVE SingleTrainer
      OBVIOUS
    <2> DEFINE onGpu == {p \in Pids : procState[p] \in Running}
    <2>1. \A p, q \in onGpu : p = q
      BY TrainerKnown DEF CalmInv, OneActive, OneProcess, Engaged, Running
    <2>2. CASE onGpu = {}
      BY <2>2, FS_EmptySet DEF SingleTrainer
    <2>3. ASSUME NEW p \in onGpu PROVE SingleTrainer
      <3>1. onGpu = {p}
        BY <2>1, <2>3
      <3> QED
        BY <3>1, FS_Singleton DEF SingleTrainer
    <2> QED
      BY <2>2, <2>3
  <1> QED
    BY <1>1, SpecCalm, TypeCorrect, ClaimCorrect, PTL

\* No trainer on the GPU is unknown to the backend (NoOrphanTrainer).
THEOREM NoTrainerLost == Calm /\ Spec => []NoOrphanTrainer
  <1>1. TypeOK /\ ClaimHeld /\ CalmInv => NoOrphanTrainer
    BY TrainerKnown DEF NoOrphanTrainer
  <1> QED
    BY <1>1, SpecCalm, TypeCorrect, ClaimCorrect, PTL

\* A finished job is not revived behind the user's back (NoRevival).
THEOREM NothingRevived == Calm /\ Spec => NoRevival
  <1> SUFFICES ASSUME Calm PROVE Spec => NoRevival
    OBVIOUS
  <1>1. TypeOK /\ TypeOK' /\ ClaimHeld /\ CalmInv /\ [Next]_vars =>
          [server = "up" /\ server' = "up" =>
             \A j \in Jobs : status[j] \in Terminal =>
               status'[j] \in Terminal \cup {"pending", "absent"}]_vars
    BY NextCalm, NeverEnds DEF Calm, NoneRevived
  <1> QED
    BY <1>1, SpecCalm, TypeCorrect, ClaimCorrect, PTL DEF Spec, NoRevival

\* The manager implements the abstract queue (GrantsInOrder): jobs get the GPU one
\* at a time and in order.
THEOREM Refinement == Calm /\ Spec => GrantsInOrder
  <1> SUFFICES ASSUME Calm PROVE Spec => GrantsInOrder
    OBVIOUS
  <1>1. Init => Promise!Init
    BY DEF Init, Promise!Init, Waiting, Ahead, OnGpu, Phantoms, Arranged, Launching,
       Idle, Active
  <1>2. TypeOK /\ TypeOK' /\ ClaimHeld /\ CalmInv /\ gated = {} /\ [Next]_vars =>
          [Promise!Next]_(Promise!vars)
    BY NextCalm, NeverEnds DEF Calm, Simulated
  <1> QED
    BY <1>1, <1>2, SpecCalm, TypeCorrect, ClaimCorrect, PTL DEF Spec, GrantsInOrder,
       Promise!Spec

-----------------------------------------------------------------------------
(* Rows and registry.                                                      *)

Still(k) ==
  /\ status'[k] = status[k] /\ dbStatus'[k] = dbStatus[k]
  /\ priority'[k] = priority[k] /\ dbPriority'[k] = dbPriority[k]

\* A job left alone agrees as before.
LEMMA StillAgrees ==
  ASSUME NEW k \in Jobs, Agrees(k), Still(k), clock' >= clock, TypeOK, TypeOK'
  PROVE  Agrees(k)'
  BY Shapes DEF Agrees, Still, TypeOK, HostOK

\* A job whose new status goes to both places agrees.
LEMMA WrittenAgrees ==
  ASSUME NEW k \in Jobs, Agrees(k), status[k] # "absent",
         status'[k] \in Terminal \cup Active, dbStatus'[k] = status'[k],
         UNCHANGED <<priority, dbPriority, clock>>
  PROVE  Agrees(k)'
  BY DEF Agrees, Terminal, Active

\* An active job need not agree.
LEMMA BusyAgrees ==
  ASSUME NEW k \in Jobs, Agrees(k), status[k] # "absent", status'[k] # "absent",
         dbStatus'[k] # "absent", status'[k] \in Active,
         UNCHANGED <<priority, dbPriority, clock>>
  PROVE  Agrees(k)'
  BY DEF Agrees

\* The steps of start_job.
LEMMA LaunchAgrees ==
  ASSUME Orderly, TypeOK, TypeOK', ClaimHeld, CalmInv, RowsMatch, NEW t \in Threads,
         LaunchStep(t)
  PROVE  RowsMatch'
  <1>0. PICK j \in Jobs : j = launch[t].job
    BY Shapes DEF LaunchStep, BeginLaunch, Spawn, LaunchFails, Commit, Attach
  <1>1. /\ launch[t].pc # "idle"
        /\ status[j] = "pending" \/ status[j] \in Active
        /\ launch[t].pc # "claimed" => status[j] \in Active
    <2>1. launch[t].pc \in LaunchSteps
      BY DEF LaunchStep, BeginLaunch, Spawn, LaunchFails, Commit, Attach, LaunchSteps
    <2> QED
      BY <1>0, <2>1 DEF CalmInv, LaunchedJob, Inside, LaunchSteps
  <1>2. /\ status[j] # "absent" /\ dbStatus[j] # "absent"
        /\ dbStatus \in [Jobs -> Status] /\ status \in [Jobs -> Status]
    BY <1>1 DEF RowsMatch, Agrees, Active, TypeOK, RegistryOK, RowsOK
  <1>3. UNCHANGED <<priority, dbPriority, clock>>
    BY DEF LaunchStep, BeginLaunch, Spawn, LaunchFails, Commit, Attach, registry, rows,
       host
  <1>5. \A k \in Jobs \ {j} : status'[k] = status[k] /\ dbStatus'[k] = dbStatus[k]
    BY <1>0, <1>2 DEF LaunchStep, BeginLaunch, Spawn, LaunchFails, Commit, Attach,
       Persist, registry, rows
  <1>6. \A k \in Jobs \ {j} : Still(k)
    BY <1>3, <1>5 DEF Still
  <1>7. Agrees(j)'
    <2>1. CASE BeginLaunch(t)
      <3>1. status[j] = "pending" /\ dbStatus' = dbStatus
        BY <1>0, <2>1 DEF BeginLaunch, CalmInv, LaunchedJob, rows
      <3>2. CASE j \in gated
        <4>1. status' = status
          BY <1>0, <2>1, <3>2 DEF BeginLaunch
        <4> QED
          BY <1>3, <3>1, <4>1, StillAgrees, Shapes DEF RowsMatch, Still
      <3>3. CASE j \notin gated
        <4>1. status' = [status EXCEPT ![j] = "running"]
          BY <1>0, <2>1, <3>1, <3>3 DEF BeginLaunch
        <4> QED
          BY <3>1, <4>1, <1>2, <1>3, BusyAgrees DEF RowsMatch, Active
      <3> QED
        BY <3>2, <3>3
    <2>2. CASE Spawn(t)
      <3>1. status' = status /\ dbStatus' = dbStatus /\ status[j] \in Active
        BY <2>2, <1>1 DEF Spawn, registry, rows
      <3> QED
        BY <3>1, <1>2, <1>3, BusyAgrees DEF RowsMatch
    <2>3. CASE LaunchFails(t)
      <3>1. status'[j] = "failed" /\ dbStatus'[j] = "failed"
        BY <1>0, <2>3, <1>2 DEF LaunchFails, Persist
      <3> QED
        BY <3>1, <1>2, <1>3, WrittenAgrees DEF RowsMatch, Terminal
    <2>4. CASE Commit(t)
      <3>1. status'[j] = "running" /\ dbStatus'[j] = "running"
        BY <1>0, <2>4, <1>2 DEF Commit, Persist
      <3> QED
        BY <3>1, <1>1, <1>3, WrittenAgrees DEF RowsMatch, Active
    <2>5. CASE Attach(t)
      <3>1. status'[j] = status[j] /\ dbStatus'[j] = "running" /\ status[j] \in Active
        BY <1>0, <2>5, <1>1, <1>2 DEF Attach, Persist
      <3> QED
        BY <3>1, <1>2, <1>3, BusyAgrees DEF RowsMatch
    <2> QED
      BY <2>1, <2>2, <2>3, <2>4, <2>5 DEF LaunchStep
  <1> QED
    BY <1>3, <1>6, <1>7, StillAgrees, Shapes DEF RowsMatch

\* The steps of the queue.
LEMMA QueueAgrees ==
  ASSUME TypeOK, TypeOK', CalmInv, RowsMatch,
         \/ \E t \in Threads : AdvanceQueue(t)
         \/ \E j \in Jobs : ReorderUp(j)
         \/ AdvanceOff \/ (\E on \in BOOLEAN : SetAutoQueue(on)) \/ BootDone \/ UNCHANGED vars
  PROVE  RowsMatch'
  <1>1. ASSUME NEW t \in Threads, AdvanceQueue(t)
        PROVE  RowsMatch'
    <2>1. UNCHANGED <<priority, dbPriority, clock>>
      BY <1>1 DEF AdvanceQueue, host
    <2>3. ASSUME NEW k \in Jobs PROVE Agrees(k)'
      <3>1. CASE k \in Phantoms
        <4>1. status[k] # "absent" /\ dbStatus[k] # "absent"
          BY <3>1 DEF Phantoms, Active, RowsMatch, Agrees
        <4>2. status'[k] = "failed" /\ dbStatus'[k] = "failed"
          BY <1>1, <3>1, <4>1 DEF AdvanceQueue, HealedStatus, Failed, HealedRows
        <4> QED
          BY <2>1, <4>1, <4>2, WrittenAgrees DEF RowsMatch, Terminal
      <3>2. CASE k \notin Phantoms
        <4>1. status'[k] = status[k] /\ dbStatus'[k] = dbStatus[k]
          BY <1>1, <3>2 DEF AdvanceQueue, HealedStatus, Failed, HealedRows
        <4> QED
          BY <2>1, <4>1, StillAgrees, Shapes DEF RowsMatch, Still
      <3> QED
        BY <3>1, <3>2
    <2> QED
      BY <2>3 DEF RowsMatch
  <1>2. ASSUME NEW j \in Jobs, ReorderUp(j)
        PROVE  RowsMatch'
    <2>1. UNCHANGED <<status, dbStatus, launch, clock>>
      BY <1>2 DEF ReorderUp, host
    <2>2. \A k \in Jobs :
            /\ priority'[k] = MovedUp(j)[k]
            /\ dbPriority'[k] = IF status[k] = "pending" THEN MovedUp(j)[k] ELSE dbPriority[k]
            /\ status[k] # "pending" => MovedUp(j)[k] = priority[k]
      <3>1. \A k \in Jobs : status[k] # "pending" => MovedUp(j)[k] = priority[k]
        BY DEF MovedUp
      <3>2. priority' = MovedUp(j)
            /\ dbPriority' = [k \in Jobs |-> IF status[k] = "pending" THEN MovedUp(j)[k]
                                             ELSE dbPriority[k]]
        BY <1>2 DEF ReorderUp
      <3> QED
        BY <3>1, <3>2
    <2>3. ASSUME NEW k \in Jobs PROVE Agrees(k)'
      <3>1. Agrees(k) /\ (k > clock => status[k] = "absent")
        BY DEF RowsMatch, CalmInv, Uncreated
      <3>2. CASE status[k] = "pending"
        BY <2>1, <2>2, <3>1 DEF Agrees
      <3>3. CASE status[k] # "pending"
        BY <2>1, <2>2, <3>1 DEF Agrees
      <3> QED
        BY <3>2, <3>3
    <2> QED
      BY <2>3 DEF RowsMatch
  <1>3. CASE AdvanceOff \/ (\E on \in BOOLEAN : SetAutoQueue(on)) \/ BootDone \/ UNCHANGED vars
    <2>1. UNCHANGED <<status, dbStatus, priority, dbPriority, launch, clock>>
      BY <1>3 DEF AdvanceOff, SetAutoQueue, BootDone, vars, registry, rows, host
    <2> QED
      BY <2>1 DEF RowsMatch, Agrees
  <1> QED
    BY <1>1, <1>2, <1>3

\* The operations of the user.
LEMMA UserAgrees ==
  ASSUME TypeOK, TypeOK', CalmInv, RowsMatch, NEW j \in Jobs,
         CreateJob \/ StopJob(j) \/ DeleteJob(j) \/ PauseJob(j) \/ ResumeJob(j)
  PROVE  RowsMatch'
  <1>1. CASE CreateJob
    <2> DEFINE i == clock + 1
    <2>1. UNCHANGED <<priority, dbPriority,
                      launch>> /\ clock' = i /\ clock \in Nat /\ i \in Jobs
      BY <1>1 DEF CreateJob, TypeOK, HostOK, Jobs
    <2>2. \A k \in Jobs : /\ status'[k] = IF k = i THEN "pending" ELSE status[k]
                          /\ dbStatus'[k] = IF k = i THEN "pending" ELSE dbStatus[k]
      BY <1>1 DEF CreateJob, TypeOK, RegistryOK, RowsOK
    <2>3. priority[i] = 0 /\ dbPriority[i] = 0
      BY <2>1 DEF RowsMatch, Agrees
    <2>4. \A k \in Jobs : k > i => k > clock
      BY <2>1, Shapes
    <2> QED
      BY <2>1, <2>2, <2>4 DEF RowsMatch, Agrees
  <1>2. CASE DeleteJob(j)
    <2>1. UNCHANGED <<launch, clock>>
      BY <1>2 DEF DeleteJob, host
    <2>2. \A k \in Jobs :
            /\ status'[k] = IF k = j THEN "absent" ELSE status[k]
            /\ dbStatus'[k] = IF k = j THEN "absent" ELSE dbStatus[k]
            /\ priority'[k] = IF k = j THEN 0 ELSE priority[k]
            /\ dbPriority'[k] = IF k = j THEN 0 ELSE dbPriority[k]
      BY <1>2 DEF DeleteJob, TypeOK, RegistryOK, RowsOK
    <2> QED
      BY <2>1, <2>2 DEF RowsMatch, Agrees
  <1>3. CASE StopJob(j) \/ PauseJob(j) \/ ResumeJob(j)
    <2>1. UNCHANGED <<priority, dbPriority, launch, clock>> /\ status[j] \in Active
      BY <1>3 DEF StopJob, PauseJob, ResumeJob, host, Active
    <2>2. status[j] # "absent" /\ dbStatus[j] # "absent"
      BY <2>1 DEF Active, RowsMatch, Agrees
    <2>3. /\ status'[j] \in Terminal \cup Active /\ dbStatus'[j] = status'[j]
          /\ \A k \in Jobs \ {j} : status'[k] = status[k] /\ dbStatus'[k] = dbStatus[k]
      BY <1>3, <2>2 DEF StopJob, PauseJob, ResumeJob, Persist, TypeOK, RegistryOK,
         RowsOK, Active, Terminal
    <2>4. \A k \in Jobs \ {j} : Still(k)
      BY <2>1, <2>3 DEF Still
    <2> QED
      BY <2>1, <2>2, <2>3, <2>4, WrittenAgrees, StillAgrees, Shapes DEF RowsMatch
  <1> QED
    BY <1>1, <1>2, <1>3

\* The steps of a trainer write no row but its own.
LEMMA TrainerAgrees ==
  ASSUME TypeOK, TypeOK', ClaimHeld, CalmInv, RowsMatch, NEW p \in Pids,
         TrainerStarts(p) \/ TrainerEnds(p)
  PROVE  RowsMatch'
  <1>1. UNCHANGED <<status, priority, dbPriority, launch, clock>>
    BY DEF TrainerStarts, TrainerEnds, TrainerExits, TrainerGone, registry, rows, host
  <1>2. CASE dbStatus' = dbStatus
    BY <1>1, <1>2 DEF RowsMatch, Agrees
  <1>3. CASE dbStatus' # dbStatus
    <2>1. /\ procState[p] \in Running
          /\ \E s \in Status \ {"absent"} : dbStatus' = Persist(dbStatus, procJob[p], s)
      BY <1>3 DEF TrainerStarts, TrainerEnds, TrainerExits, TrainerGone, rows, Running,
         Status, Active, Terminal
    <2>2. PICK j \in Jobs : /\ j = procJob[p] /\ status[j] \in Active
                           /\ status[j] # "absent" /\ dbStatus[j] # "absent"
      BY <2>1, TrainerKnown DEF RowsMatch, Agrees, Active
    <2>3. dbStatus'[j] # "absent" /\ \A k \in Jobs \ {j} : dbStatus'[k] = dbStatus[k]
      BY <2>1, <2>2 DEF Persist, TypeOK
    <2>4. Agrees(j)'
      BY <1>1, <2>2, <2>3, BusyAgrees DEF RowsMatch
    <2>5. \A k \in Jobs \ {j} : Still(k)
      BY <1>1, <2>3 DEF Still
    <2> QED
      BY <1>1, <2>4, <2>5, StillAgrees, Shapes DEF RowsMatch
  <1> QED
    BY <1>2, <1>3

\* The end of a job goes to registry and row.
LEMMA EndAgrees ==
  ASSUME TypeOK, TypeOK', CalmInv, RowsMatch,
         \/ \E j \in Jobs : HandleExit(j)
         \/ \E p \in Pids : WatchdogNotices(p) \/ WatchdogFinalizes(p)
  PROVE  RowsMatch'
  <1>1. UNCHANGED <<priority, dbPriority, launch, clock>>
    BY DEF HandleExit, WatchdogNotices, WatchdogFinalizes, registry, rows, host
  <1>2. CASE UNCHANGED <<status, dbStatus>>
    BY <1>1, <1>2 DEF RowsMatch, Agrees
  <1>3. ASSUME NEW j \in Jobs, status[j] # "absent", NEW s \in Terminal,
               status' = [status EXCEPT ![j] = s], dbStatus' = Persist(dbStatus, j, s)
        PROVE  RowsMatch'
    <2>1. dbStatus[j] # "absent"
      BY <1>3 DEF RowsMatch, Agrees
    <2>2. /\ status'[j] = s /\ dbStatus'[j] = s
          /\ \A k \in Jobs \ {j} : status'[k] = status[k] /\ dbStatus'[k] = dbStatus[k]
      BY <1>3, <2>1 DEF Persist, TypeOK, RegistryOK, RowsOK
    <2>3. \A k \in Jobs \ {j} : Still(k)
      BY <1>1, <2>2 DEF Still
    <2> QED
      BY <1>1, <1>3, <2>2, <2>3, WrittenAgrees, StillAgrees, Shapes DEF RowsMatch
  <1> DEFINE Ends ==
        \E j \in Jobs, s \in Terminal :
          /\ status[j] # "absent" /\ status' = [status EXCEPT ![j] = s]
          /\ dbStatus' = Persist(dbStatus, j, s)
  <1>4. UNCHANGED <<status, dbStatus>> \/ Ends
    <2>1. ASSUME NEW j \in Jobs, HandleExit(j)
          PROVE  UNCHANGED <<status, dbStatus>> \/ Ends
      BY <2>1 DEF HandleExit, Finish, registry, rows, Terminal
    <2>2. ASSUME NEW p \in Pids, WatchdogFinalizes(p)
          PROVE  UNCHANGED <<status, dbStatus>> \/ Ends
      <3>1. procJob[p] \in Jobs
        BY <2>2 DEF WatchdogFinalizes, CalmInv, OneProcess, Engaged
      <3> QED
        BY <2>2, <3>1 DEF WatchdogFinalizes, Finish, Terminal, Active
    <2>3. ASSUME NEW p \in Pids, WatchdogNotices(p)
          PROVE  UNCHANGED <<status, dbStatus>> \/ Ends
      BY <2>3 DEF WatchdogNotices, registry, rows
    <2> HIDE DEF Ends
    <2> QED
      BY <2>1, <2>2, <2>3
  <1> QED
    BY <1>2, <1>3, <1>4

\* Every step but a crash keeps rows and registry in agreement.
LEMMA NextAgrees ==
  ASSUME Orderly, TypeOK, TypeOK', ClaimHeld, CalmInv, RowsMatch, [Next]_vars, ~ Crash
  PROVE  RowsMatch'
  <1>1. ASSUME NEW t \in Threads, LaunchStep(t)
        PROVE  RowsMatch'
    BY <1>1, LaunchAgrees
  <1>2. CASE \/ \E t \in Threads : AdvanceQueue(t)
             \/ \E j \in Jobs : ReorderUp(j)
             \/ AdvanceOff \/ (\E on \in BOOLEAN : SetAutoQueue(on)) \/ BootDone
             \/ UNCHANGED vars
    BY <1>2, QueueAgrees
  <1>3. ASSUME NEW j \in Jobs, StopJob(j) \/ DeleteJob(j) \/ PauseJob(j) \/ ResumeJob(j)
        PROVE  RowsMatch'
    BY <1>3, UserAgrees
  <1>4. CASE CreateJob
    <2>1. CASE Jobs = {}
      BY <2>1 DEF RowsMatch
    <2>2. ASSUME NEW j \in Jobs
          PROVE  RowsMatch'
      BY <1>4, UserAgrees
    <2> QED
      BY <2>1, <2>2
  <1>5. ASSUME NEW p \in Pids, TrainerStarts(p) \/ TrainerEnds(p)
        PROVE  RowsMatch'
    BY <1>5, TrainerAgrees
  <1>6. CASE \/ \E j \in Jobs : HandleExit(j)
             \/ \E p \in Pids : WatchdogNotices(p) \/ WatchdogFinalizes(p)
    BY <1>6, EndAgrees
  <1> QED
    BY <1>1, <1>2, <1>3, <1>4, <1>5, <1>6, NotCalm DEF Next

\* A restart of the backend would not change the fate of a waiting or ended job:
\* row and registry agree on it (DbAgrees).
THEOREM RowsTell == Calm /\ Spec => []DbAgrees
  <1> SUFFICES ASSUME Calm PROVE Spec => []DbAgrees
    OBVIOUS
  <1>1. Init => RowsMatch
    BY DEF Init, RowsMatch, Agrees
  <1>2. TypeOK /\ TypeOK' /\ ClaimHeld /\ CalmInv /\ RowsMatch /\ [Next]_vars => RowsMatch'
    BY NextAgrees, NeverEnds DEF Calm
  <1>3. RowsMatch => DbAgrees
    BY DEF RowsMatch, Agrees, DbAgrees
  <1> QED
    BY <1>1, <1>2, <1>3, SpecCalm, TypeCorrect, ClaimCorrect, PTL DEF Spec

-----------------------------------------------------------------------------
(* Across crashes: the invariant.                                          *)

\* The instances in which a crash loses no trainer: no launch is cut between the
\* spawn and the row, and where jobs are paused, only while nothing else is going
\* on, a trainer completes its run or dies.
Recoverable ==
  /\ Orderly /\ CrashDuring \subseteq {"claimed", "preflight"}
  /\ "pause" \in UserOps => "pause" \notin AnyTime /\ Exits \subseteq {"ok", "die"}

\* What the row of a job tells the next backend.
Preflight(j) == \E t \in Threads : launch[t].pc = "preflight" /\ launch[t].job = j
Saved(j) ==
  /\ status[j] \in Active /\ pid[j] # NoPid =>
       /\ dbPid[j] = pid[j] /\ dbStatus[j] \in Active \cup {"completed"}
       /\ procState[pid[j]] \in Running => dbStatus[j] \in Active
  /\ dbStatus[j] \in {"absent", "pending"} => dbPid[j] = NoPid
  /\ dbStatus[j] = "paused" => log[j] = << >> /\ "pause" \in UserOps
  /\ Preflight(j) => status[j] = "running" /\ dbStatus[j] = "pending"
AllSaved == \A j \in Jobs : Saved(j)

Serving == CalmInv /\ RowsMatch /\ AllSaved

\* What rows, logs and processes are to each other while no backend runs.
Unborn(j) == j > clock \/ dbStatus[j] = "pending"
LeftJob(j) ==
  /\ j > clock => dbStatus[j] = "absent" /\ dbPriority[j] = 0
  /\ Unborn(j) => log[j] = << >> /\ \A p \in Pids : procJob[p] # j
  /\ dbStatus[j] \in {"absent", "pending"} => dbPid[j] = NoPid
  /\ dbStatus[j] = "paused" => log[j] = << >> /\ "pause" \in UserOps
  /\ \A i \in 1 .. Len(log[j]) : log[j][i] \in {"ok", "err", "soft"}
LeftProcess(p) ==
  /\ procState[p] # "dead" =>
       /\ procJob[p] \in Jobs
       /\ dbStatus[procJob[p]] \in Active => dbPid[procJob[p]] = p
       /\ \A q \in Pids : procState[q] # "dead" /\ procJob[q] = procJob[p] => q = p
  /\ procState[p] \in Running => /\ dbStatus[procJob[p]] \in Active
                                 /\ log[procJob[p]] = << >>
Left ==
  /\ \A j \in Jobs : LeftJob(j)
  /\ \A p \in Pids : LeftProcess(p)
  /\ \A j, k \in Jobs : dbStatus[j] \in Active /\ dbStatus[k] \in Active => j = k

\* No thread and no follower is at work.
NothingRuns ==
  /\ tailing = {} /\ timers = {} /\ rebuilding = {} /\ ~ starting /\ ~ advancing
  /\ watch = [p \in Pids |-> "off"] /\ launch = [t \in Threads |-> Idle]

Off ==
  /\ server = "down" /\ recovery = {} /\ NothingRuns /\ Left
  /\ \A j \in Jobs : status[j] = "absent" /\ pid[j] = NoPid /\ priority[j] = 0

\* The paused job j, whose trainer is gone, is about to be launched again.
Relaunching(j) ==
  /\ recovery = {j} /\ dbStatus[j] = "paused" /\ status[j] = "pending"
  /\ \A p \in Pids : procJob[p] = j => procState[p] = "dead"
  /\ \A k \in Jobs \ {j} : status[k] = dbStatus[k]
  /\ pid = dbPid /\ priority = dbPriority
Resuming ==
  server = "booting" /\ NothingRuns /\ Left /\ \E j \in Jobs : Relaunching(j)

CrashInv == Serving \/ Off \/ Resuming

-----------------------------------------------------------------------------
(* Across crashes: the rows while a backend serves.                        *)

\* A job whose row and registry entry are left alone is saved as before.
LEMMA StillSaved ==
  ASSUME NEW k \in Jobs, Saved(k),
         UNCHANGED <<status[k], pid[k], dbStatus[k], dbPid[k], log[k]>>,
         status[k] \in Active /\ pid[k] # NoPid =>
           (procState'[pid[k]] \in Running => procState[pid[k]] \in Running),
         Preflight(k)' => Preflight(k)
  PROVE  Saved(k)'
  BY DEF Saved

\* A job whose end is in its row is saved.
LEMMA EndSaved ==
  ASSUME NEW k \in Jobs, status'[k] \notin Active, dbStatus'[k] \in Terminal,
         ~ Preflight(k)'
  PROVE  Saved(k)'
  BY DEF Saved, Active, Terminal

\* What is known of the job of a launch.
LEMMA LaunchedAre ==
  ASSUME TypeOK, ClaimHeld, Serving, NEW t \in Threads, launch[t].pc # "idle"
  PROVE  /\ launch[t].job \in Jobs /\ pid[launch[t].job] = NoPid
         /\ status[launch[t].job] # "absent" /\ dbStatus[launch[t].job] # "absent"
         /\ \A k \in Jobs \ {launch[t].job} : status[k] \notin Active
         /\ \A u \in Threads \ {t} : launch[u].pc = "idle" /\ launch[u].pid = NoPid
  <1> DEFINE j == launch[t].job
  <1>0. CalmHost /\ Untouched /\ OneActive /\ LaunchedJob /\ RowsMatch
    BY DEF Serving, CalmInv
  <1>1. j \in Jobs /\ launch[t].pc \in LaunchSteps
    BY DEF TypeOK, LaunchOK
  <1>2. pid[j] = NoPid
    BY <1>0, <1>1 DEF LaunchedJob, Untouched, New, LaunchSteps
  <1>3. status[j] = "pending" \/ status[j] \in Active
    BY <1>0, <1>1 DEF LaunchedJob, Inside, LaunchSteps
  <1>4. status[j] # "absent" /\ dbStatus[j] # "absent"
    BY <1>0, <1>1, <1>3 DEF RowsMatch, Agrees, Active
  <1>5. \A k \in Jobs \ {j} : status[k] \notin Active
    BY <1>0, <1>1 DEF LaunchedJob, Inside, LaunchSteps, OneActive
  <1>6. \A u \in Threads \ {t} : launch[u].pc = "idle" /\ launch[u].pid = NoPid
    BY <1>0, OnlyLaunch DEF LaunchedJob
  <1> QED
    BY <1>1, <1>2, <1>4, <1>5, <1>6

\* A launch ends or goes on with its job.
LEMMA LaunchGoesOn ==
  ASSUME TypeOK, NEW t \in Threads, LaunchStep(t)
  PROVE  /\ launch'[t].pc = "idle" \/ launch'[t].job = launch[t].job
         /\ launch'[t].pc = "preflight" => BeginLaunch(t)
  <1>1. CASE Spawn(t) /\ launch' # [launch EXCEPT ![t] = Idle]
    <2>1. PICK p \in Pids : launch' = [launch EXCEPT ![t].pc = "spawned", ![t].pid = p]
      BY <1>1 DEF Spawn, Release
    <2> QED
      BY <2>1 DEF TypeOK, LaunchOK
  <1>2. CASE launch' = [launch EXCEPT ![t] = Idle]
    BY <1>2 DEF Idle, TypeOK, LaunchOK
  <1>3. CASE BeginLaunch(t) \/ LaunchFails(t) \/ Commit(t) \/ Attach(t)
    <2>1. \/ launch' = [launch EXCEPT ![t] = Idle]
          \/ launch' = [launch EXCEPT ![t].pc = "preflight"] /\ BeginLaunch(t)
          \/ launch' = [launch EXCEPT ![t].pc = "attach"]
      BY <1>3 DEF BeginLaunch, LaunchFails, Commit, Attach, Raise, Release
    <2> QED
      BY <2>1, <1>2 DEF TypeOK, LaunchOK
  <1> QED
    BY <1>1, <1>2, <1>3 DEF LaunchStep

\* The steps of start_job.
LEMMA LaunchSaved ==
  ASSUME Orderly, TypeOK, TypeOK', ClaimHeld, Serving, NEW t \in Threads, LaunchStep(t)
  PROVE  AllSaved'
  <1>0. PICK j \in Jobs : j = launch[t].job
    BY LaunchedAre DEF LaunchStep, BeginLaunch, Spawn, LaunchFails, Commit, Attach
  <1>1. /\ j \in Jobs /\ pid[j] = NoPid /\ status[j] # "absent" /\ dbStatus[j] # "absent"
        /\ \A k \in Jobs \ {j} : status[k] \notin Active
        /\ \A u \in Threads \ {t} : launch[u].pc = "idle" /\ launch[u].pid = NoPid
    BY <1>0, LaunchedAre DEF LaunchStep, BeginLaunch, Spawn, LaunchFails, Commit, Attach
  <1>2. /\ AllSaved /\ RowsMatch /\ LaunchedJob
        /\ dbStatus \in [Jobs -> Status] /\ status \in [Jobs -> Status]
        /\ pid \in [Jobs -> Pids \cup {NoPid}] /\ dbPid \in [Jobs -> Pids \cup {NoPid}]
    BY DEF Serving, CalmInv, TypeOK, RegistryOK, RowsOK
  <1>3. /\ \A u \in Threads \ {t} : launch'[u] = launch[u]
        /\ log' = log
    BY DEF LaunchStep, BeginLaunch, Spawn, LaunchFails, Commit, Attach, Raise, Release,
       TypeOK, LaunchOK
  <1>4. ASSUME NEW k \in Jobs \ {j} PROVE Saved(k)'
    <2>1. UNCHANGED <<status[k], pid[k], dbStatus[k], dbPid[k], log[k]>>
      BY <1>0, <1>1, <1>2, <1>3
      DEF LaunchStep, BeginLaunch, Spawn, LaunchFails, Commit, Attach,
         Persist, registry, rows
    <2>2. launch'[t].pc = "idle" \/ launch'[t].job = j
      BY <1>0, LaunchGoesOn
    <2>3. ~ Preflight(k)'
      BY <1>1, <1>3, <2>2 DEF Preflight
    <2> QED
      BY <1>1, <1>2, <2>1, <2>3, StillSaved DEF AllSaved
  <1>5. Saved(j) /\ (status[j] \notin Active => dbStatus[j] = status[j])
    BY <1>1, <1>2 DEF AllSaved, RowsMatch, Agrees
  <1>6. Saved(j)'
    <2>1. CASE BeginLaunch(t)
      <3>1. /\ dbStatus' = dbStatus /\ pid' = pid /\ dbPid' = dbPid
            /\ launch[t].pc = "claimed" /\ status[j] = "pending"
        BY <1>0, <2>1, <1>2 DEF BeginLaunch, rows, LaunchedJob
      <3>2. dbStatus[j] = "pending"
        BY <1>5, <3>1 DEF Active
      <3>3. CASE j \in gated
        <4>1. launch' = [launch EXCEPT ![t] = Idle] /\ status' = status
          BY <1>0, <2>1, <3>3 DEF BeginLaunch, Raise, Release
        <4>2. \A u \in Threads : launch'[u].pc = "idle"
          BY <1>1, <1>3, <4>1 DEF Idle, TypeOK, LaunchOK
        <4> QED
          BY <1>1, <1>3, <1>5, <3>1, <4>1, <4>2 DEF Saved, Preflight
      <3>4. CASE j \notin gated
        <4>1. status'[j] = "running"
          BY <1>0, <2>1, <1>1, <1>2, <3>1, <3>4 DEF BeginLaunch
        <4> QED
          BY <1>1, <1>3, <1>5, <3>1, <3>2, <4>1 DEF Saved
      <3> QED
        BY <3>3, <3>4
    <2>2. CASE Spawn(t)
      <3>1. UNCHANGED <<status, pid, dbStatus, dbPid, log>>
        BY <1>0, <2>2 DEF Spawn, registry, rows
      <3>2. launch'[t].pc # "preflight"
        BY <2>2, LaunchGoesOn DEF Spawn, BeginLaunch
      <3> QED
        BY <1>1, <1>3, <1>5, <3>1, <3>2 DEF Saved, Preflight
    <2>3. CASE LaunchFails(t)
      <3>1. status'[j] = "failed" /\ dbStatus'[j] = "failed"
        BY <1>0, <2>3, <1>1, <1>2 DEF LaunchFails, Persist
      <3>2. launch'[t].pc # "preflight"
        BY <1>0, <2>3 DEF LaunchFails, Raise, Release, Idle, TypeOK, LaunchOK
      <3>3. ~ Preflight(j)'
        BY <1>1, <1>3, <3>2 DEF Preflight
      <3> QED
        BY <1>1, <3>1, <3>3, EndSaved DEF Active, Terminal
    <2>4. CASE Commit(t)
      <3>1. dbStatus'[j] = "running" /\ pid' = pid
        BY <1>0, <2>4, <1>1, <1>2 DEF Commit, Persist
      <3>2. launch'[t].pc # "preflight"
        BY <1>0, <2>4, <1>1 DEF Commit, TypeOK, LaunchOK
      <3> QED
        BY <1>1, <1>3, <3>1, <3>2 DEF Saved, Preflight
    <2>5. CASE Attach(t)
      <3>1. dbStatus'[j] = "running" /\ pid'[j] = launch[t].pid /\ dbPid'[j] = launch[t].pid
        BY <1>0, <2>5, <1>1, <1>2 DEF Attach, Persist
      <3>2. launch'[t].pc # "preflight"
        BY <1>0, <2>5 DEF Attach, Release, Idle, TypeOK, LaunchOK
      <3> QED
        BY <1>1, <1>3, <3>1, <3>2 DEF Saved, Preflight, Active
    <2> QED
      BY <2>1, <2>2, <2>3, <2>4, <2>5 DEF LaunchStep
  <1> QED
    BY <1>4, <1>6 DEF AllSaved

\* The steps of the queue and of its owner.
LEMMA QueueSaved ==
  ASSUME TypeOK, TypeOK', Serving,
         \/ \E t \in Threads : AdvanceQueue(t)
         \/ \E j \in Jobs : ReorderUp(j)
         \/ CreateJob
         \/ AdvanceOff \/ (\E on \in BOOLEAN : SetAutoQueue(on)) \/ BootDone
         \/ UNCHANGED vars
  PROVE  AllSaved'
  <1>0. AllSaved /\ RowsMatch /\ Uncreated /\ LaunchedJob /\ dbStatus \in [Jobs -> Status]
    BY DEF Serving, CalmInv, TypeOK, RowsOK
  <1>1. ASSUME NEW t \in Threads, AdvanceQueue(t)
        PROVE  AllSaved'
    <2>1. UNCHANGED <<dbPid, procState, log>>
      BY <1>1 DEF AdvanceQueue, procs
    <2>2. \A k \in Jobs : Preflight(k)' => Preflight(k)
      BY <1>1 DEF AdvanceQueue, Preflight, TypeOK, LaunchOK
    <2>3. ASSUME NEW k \in Jobs PROVE Saved(k)'
      <3>1. CASE k \in Phantoms
        <4>1. status[k] \in Active /\ pid[k] # NoPid /\ dbStatus[k] # "absent"
          BY <1>0, <3>1 DEF Phantoms, RowsMatch, Agrees, Active
        <4>2. status'[k] = "failed" /\ dbStatus'[k] = "failed"
          BY <1>1, <3>1, <4>1 DEF AdvanceQueue, HealedStatus, Failed, HealedRows
        <4>3. ~ Preflight(k)'
          BY <2>2, <4>1 DEF Serving, CalmInv, Untouched, New, Preflight
        <4> QED
          BY <4>2, <4>3, EndSaved DEF Active, Terminal
      <3>2. CASE k \notin Phantoms
        <4>1. status'[k] = status[k] /\ dbStatus'[k] = dbStatus[k] /\ pid'[k] = pid[k]
          BY <1>1, <3>2 DEF AdvanceQueue, HealedStatus, Failed, HealedRows, HealedPid
        <4> QED
          BY <1>0, <2>1, <2>2, <4>1, StillSaved DEF AllSaved
      <3> QED
        BY <3>1, <3>2
    <2> QED
      BY <2>3 DEF AllSaved
  <1>2. CASE CreateJob
    <2> DEFINE i == clock + 1
    <2>1. /\ UNCHANGED <<pid, dbPid, procState, log, launch>>
          /\ i \in Jobs /\ status[i] = "absent"
      BY <1>0, <1>2 DEF CreateJob, procs, TypeOK, HostOK, Jobs, Uncreated
    <2>2. \A k \in Jobs : /\ status'[k] = IF k = i THEN "pending" ELSE status[k]
                          /\ dbStatus'[k] = IF k = i THEN "pending" ELSE dbStatus[k]
      BY <1>2, <2>1 DEF CreateJob, TypeOK, RegistryOK, RowsOK
    <2>3. dbPid[i] = NoPid /\ ~ Preflight(i)
      BY <1>0, <2>1 DEF RowsMatch, Agrees, AllSaved, Saved
    <2>4. \A k \in Jobs : Preflight(k)' <=> Preflight(k)
      BY <2>1 DEF Preflight
    <2>5. ASSUME NEW k \in Jobs PROVE Saved(k)'
      <3>1. CASE k = i
        BY <2>1, <2>2, <2>3, <2>4, <3>1 DEF Saved, Active
      <3>2. CASE k # i
        BY <1>0, <2>1, <2>2, <2>4, <3>2, StillSaved DEF AllSaved
      <3> QED
        BY <3>1, <3>2
    <2> QED
      BY <2>5 DEF AllSaved
  <1>3. CASE \/ \E j \in Jobs : ReorderUp(j)
             \/ AdvanceOff \/ (\E on \in BOOLEAN : SetAutoQueue(on)) \/ BootDone
             \/ UNCHANGED vars
    <2>1. UNCHANGED <<status, pid, dbStatus, dbPid, procState, log, launch>>
      BY <1>3 DEF ReorderUp, AdvanceOff, SetAutoQueue, BootDone, vars, registry, rows,
         procs
    <2> QED
      BY <1>0, <2>1 DEF AllSaved, Saved, Preflight
  <1> QED
    BY <1>1, <1>2, <1>3

\* The user's control of a run.
LEMMA UserSaved ==
  ASSUME Recoverable, TypeOK, TypeOK', Serving, NEW j \in Jobs,
         StopJob(j) \/ DeleteJob(j) \/ PauseJob(j) \/ ResumeJob(j)
  PROVE  AllSaved'
  <1>0. /\ AllSaved /\ RowsMatch /\ Recorded /\ LaunchedJob /\ Known
        /\ status \in [Jobs -> Status] /\ dbStatus \in [Jobs -> Status]
        /\ pid \in [Jobs -> Pids \cup {NoPid}] /\ dbPid \in [Jobs -> Pids \cup {NoPid}]
    BY DEF Serving, CalmInv, TypeOK, RegistryOK, RowsOK
  <1>1. UNCHANGED <<log, launch>>
    BY DEF StopJob, DeleteJob, PauseJob, ResumeJob
  <1>2. \A q \in Pids : procState'[q] \in Running => procState[q] \in Running
    BY DEF StopJob, DeleteJob, PauseJob, ResumeJob, procs, Killed, Running
  <1>3. \A k \in Jobs : Preflight(k)' <=> Preflight(k)
    BY <1>1 DEF Preflight
  <1>4. ASSUME NEW k \in Jobs \ {j} PROVE Saved(k)'
    <2>1. UNCHANGED <<status[k], pid[k], dbStatus[k], dbPid[k], log[k]>>
      BY <1>0, <1>1 DEF StopJob, DeleteJob, PauseJob, ResumeJob, Persist
    <2> QED
      BY <1>0, <1>2, <1>3, <2>1, StillSaved DEF AllSaved
  <1>5. Saved(j)'
    <2>1. CASE StopJob(j)
      <3>1. status[j] # "absent" /\ dbStatus[j] # "absent" /\ Quiet
        BY <1>0, <2>1 DEF StopJob, May, Recoverable, Orderly, Active, RowsMatch, Agrees
      <3>2. status'[j] = "stopped" /\ dbStatus'[j] = "stopped"
        BY <1>0, <2>1, <3>1 DEF StopJob, Persist
      <3>3. ~ Preflight(j)'
        BY <1>3, <3>1 DEF Preflight, Quiet
      <3> QED
        BY <3>2, <3>3, EndSaved DEF Active, Terminal
    <2>2. CASE DeleteJob(j)
      <3>1. Quiet
        BY <2>2 DEF DeleteJob, May, Recoverable, Orderly
      <3>2. status'[j] = "absent" /\ dbStatus'[j] = "absent" /\ dbPid'[j] = NoPid
        BY <1>0, <2>2 DEF DeleteJob
      <3>3. ~ Preflight(j)'
        BY <1>3, <3>1 DEF Preflight, Quiet
      <3> QED
        BY <3>2, <3>3 DEF Saved, Active
    <2>3. CASE PauseJob(j)
      <3>1. /\ status[j] = "running" /\ dbStatus[j] # "absent" /\ Quiet
            /\ "pause" \in UserOps
        BY <1>0, <2>3 DEF PauseJob, May, Recoverable, RowsMatch, Agrees
      <3>2. dbStatus'[j] = "paused" /\ UNCHANGED <<pid, dbPid>>
        BY <1>0, <2>3, <3>1 DEF PauseJob, Persist
      <3>3. ~ Preflight(j)' /\ ~ InFlight(j)
        BY <1>3, <3>1 DEF Preflight, Quiet, InFlight, Inside
      <3>4. pid[j] \in Pids /\ procJob[pid[j]] = j /\ procState[pid[j]] \in Running
        BY <1>0, <3>1, <3>3 DEF Recorded, Quiet, Active
      <3>5. log'[j] = << >>
        BY <1>0, <1>1, <3>4 DEF Known
      <3>6. dbPid[j] = pid[j]
        BY <1>0, <3>1, <3>3, <3>4, JobQueueAssumption DEF AllSaved, Saved, Active
      <3> QED
        BY <3>1, <3>2, <3>3, <3>5, <3>6 DEF Saved, Active
    <2>4. CASE ResumeJob(j)
      <3>1. status[j] = "paused" /\ dbStatus[j] # "absent"
        BY <1>0, <2>4 DEF ResumeJob, RowsMatch, Agrees
      <3>2. dbStatus'[j] = "running" /\ UNCHANGED <<pid, dbPid>>
        BY <1>0, <2>4, <3>1 DEF ResumeJob, Persist
      <3>3. ~ Preflight(j)'
        BY <1>0, <1>3, <3>1 DEF AllSaved, Saved
      <3>4. pid[j] # NoPid => dbPid[j] = pid[j]
        BY <1>0, <3>1 DEF AllSaved, Saved, Active
      <3> QED
        BY <3>2, <3>3, <3>4 DEF Saved, Active
    <2> QED
      BY <2>1, <2>2, <2>3, <2>4
  <1> QED
    BY <1>4, <1>5 DEF AllSaved

\* A trainer writes the row of its own job, which is active.
LEMMA TrainerSaved ==
  ASSUME Recoverable, TypeOK, TypeOK', Serving, NEW p \in Pids,
         TrainerStarts(p) \/ TrainerEnds(p)
  PROVE  AllSaved'
  <1>0. /\ CalmInv /\ AllSaved /\ RowsMatch /\ Recorded /\ OneProcess /\ Untouched
        /\ dbStatus \in [Jobs -> Status] /\ log \in [Jobs -> Seq(ExitKinds)]
        /\ procState \in [Pids -> Running \cup {"closing", "dead"}]
    BY DEF Serving, CalmInv, TypeOK, RowsOK, FollowersOK, ProcsOK
  <1>1. UNCHANGED <<status, pid, dbPid, launch>>
    BY DEF TrainerStarts, TrainerEnds, TrainerExits, TrainerGone, registry, rows
  <1>2. \A k \in Jobs : Preflight(k)' <=> Preflight(k)
    BY <1>1 DEF Preflight
  <1>3. CASE TrainerGone(p)
    <2>1. UNCHANGED <<dbStatus, log>>
          /\ \A q \in Pids : procState'[q] \in Running => procState[q] \in Running
      BY <1>3 DEF TrainerGone, rows, Running
    <2>2. \A k \in Jobs : pid[k] \in Pids \cup {NoPid}
      BY DEF TypeOK, RegistryOK
    <2> QED
      BY <1>0, <1>1, <1>2, <2>1, <2>2, StillSaved DEF AllSaved
  <1>4. CASE ~ TrainerGone(p)
    <2>1. /\ procState[p] \in Running
          /\ \A q \in Pids \ {p} : procState'[q] = procState[q]
      BY <1>0, <1>4 DEF TrainerStarts, TrainerEnds, TrainerExits, Running
    <2>2. PICK j \in Jobs : /\ j = procJob[p] /\ status[j] \in Active
                            /\ status[j] # "absent" /\ dbStatus[j] # "absent"
      BY <1>0, <2>1, TrainerKnown DEF RowsMatch, Agrees, Active
    <2>3. ~ Preflight(j) /\ Saved(j)
      BY <1>0, <2>2 DEF Untouched, New, Preflight, AllSaved
    <2>4. ASSUME status[j] \in Active, pid[j] # NoPid PROVE pid[j] = p
      <3>1. procJob[pid[j]] = j /\ Engaged(pid[j]) /\ pid[j] \in Pids
        BY <1>0, <2>4, Shapes DEF Recorded, Engaged
      <3>2. Engaged(p)
        BY <2>1 DEF Engaged, Running
      <3> QED
        BY <1>0, <2>2, <3>1, <3>2 DEF OneProcess
    <2>5. \A k \in Jobs \ {j} : dbStatus'[k] = dbStatus[k] /\ log'[k] = log[k]
      BY <1>0, <1>4, <2>2 DEF TrainerStarts, TrainerEnds, TrainerExits, Persist
    <2>6. ASSUME NEW k \in Jobs \ {j} PROVE Saved(k)'
      <3>1. status[k] \in Active /\ pid[k] # NoPid => pid[k] # p /\ pid[k] \in Pids
        BY <1>0, <2>2, Shapes DEF Recorded
      <3> QED
        BY <1>0, <1>1, <1>2, <2>1, <2>5, <3>1, StillSaved DEF AllSaved
    <2>7. Saved(j)'
      <3>1. CASE TrainerStarts(p)
        <4>1. dbStatus'[j] = "running"
          BY <1>0, <2>2, <3>1 DEF TrainerStarts, Persist
        <4> QED
          BY <1>1, <1>2, <2>2, <2>3, <4>1 DEF Saved, Active
      <3>2. ASSUME NEW kind \in ExitKinds, TrainerExits(p, kind)
            PROVE  Saved(j)'
        <4>1. procState'[p] = "closing"
          BY <1>0, <3>2 DEF TrainerExits
        <4>2. CASE kind = "ok"
          <5>1. dbStatus'[j] = "completed"
            BY <1>0, <2>2, <3>2, <4>2 DEF TrainerExits, Persist
          <5> QED
            BY <1>1, <1>2, <2>2, <2>3, <2>4, <4>1, <5>1 DEF Saved, Running
        <4>3. CASE kind # "ok"
          <5>1. dbStatus' = dbStatus
            BY <3>2, <4>3 DEF TrainerExits
          <5>2. "pause" \notin UserOps
            BY <3>2, <4>3 DEF TrainerExits, Recoverable, ExitKinds
          <5> QED
            BY <1>1, <1>2, <2>2, <2>3, <2>4, <4>1, <5>1, <5>2 DEF Saved, Running
        <4> QED
          BY <4>2, <4>3
      <3> QED
        BY <1>4, <3>1, <3>2 DEF TrainerEnds
    <2> QED
      BY <2>6, <2>7 DEF AllSaved
  <1> QED
    BY <1>3, <1>4

\* The end of a job goes to its row.
LEMMA EndsSaved ==
  ASSUME TypeOK, TypeOK', Serving,
         \/ \E j \in Jobs : HandleExit(j)
         \/ \E p \in Pids : WatchdogNotices(p) \/ WatchdogFinalizes(p)
  PROVE  AllSaved'
  <1>0. /\ AllSaved /\ RowsMatch /\ Untouched /\ OneProcess
        /\ status \in [Jobs -> Status] /\ dbStatus \in [Jobs -> Status]
        /\ pid \in [Jobs -> Pids \cup {NoPid}]
    BY DEF Serving, CalmInv, TypeOK, RegistryOK, RowsOK
  <1>1. UNCHANGED <<dbPid, launch>>
    BY DEF HandleExit, WatchdogNotices, WatchdogFinalizes, rows
  <1>2. \A k \in Jobs : Preflight(k)' <=> Preflight(k)
    BY <1>1 DEF Preflight
  <1>3. \A q \in Pids : procState'[q] \in Running => procState[q] \in Running
    BY DEF HandleExit, WatchdogNotices, WatchdogFinalizes, procs, Killed, Running
  <1>4. ASSUME NEW j \in Jobs, HandleExit(j)
        PROVE  AllSaved'
    <2>1. /\ log[j] # << >> /\ \A k \in Jobs \ {j} : log'[k] = log[k]
          /\ ~ Preflight(j)'
      BY <1>0, <1>2, <1>4 DEF HandleExit, TypeOK, FollowersOK, Untouched, New, Preflight
    <2>2. \A k \in Jobs \ {j} :
            status'[k] = status[k] /\ pid'[k] = pid[k] /\ dbStatus'[k] = dbStatus[k]
      BY <1>0, <1>4 DEF HandleExit, Finish, Persist, registry, rows
    <2>3. ASSUME NEW k \in Jobs \ {j} PROVE Saved(k)'
      BY <1>0, <1>1, <1>2, <1>3, <2>1, <2>2, StillSaved DEF AllSaved
    <2>4. Saved(j)'
      <3>1. CASE UNCHANGED <<status, pid, dbStatus>>
        BY <1>0, <1>1, <1>3, <2>1, <3>1 DEF AllSaved, Saved
      <3>2. ASSUME NEW s \in Terminal, status[j] # "absent",
                   status' = [status EXCEPT ![j] = s], dbStatus' = Persist(dbStatus, j, s)
            PROVE  Saved(j)'
        <4>1. status'[j] = s /\ dbStatus'[j] = s
          BY <1>0, <3>2 DEF Persist, RowsMatch, Agrees
        <4> QED
          BY <2>1, <4>1, EndSaved DEF Active, Terminal
      <3>3. UNCHANGED <<status, pid, dbStatus>> \/ \E s \in Terminal :
              /\ status[j] # "absent" /\ status' = [status EXCEPT ![j] = s]
              /\ dbStatus' = Persist(dbStatus, j, s)
        BY <1>4 DEF HandleExit, Finish, registry, rows, Terminal
      <3> QED
        BY <3>1, <3>2, <3>3
    <2> QED
      BY <2>3, <2>4 DEF AllSaved
  <1>5. ASSUME NEW p \in Pids, WatchdogNotices(p)
        PROVE  AllSaved'
    <2>1. UNCHANGED <<status, pid, dbStatus, log, procState>>
      BY <1>5 DEF WatchdogNotices, registry, rows, procs
    <2> QED
      BY <1>0, <1>1, <2>1 DEF AllSaved, Saved, Preflight
  <1>6. ASSUME NEW p \in Pids, WatchdogFinalizes(p)
        PROVE  AllSaved'
    <2>1. PICK j \in Jobs : j = procJob[p]
      BY <1>0, <1>6 DEF WatchdogFinalizes, OneProcess, Engaged
    <2>2. log' = log /\ ~ Preflight(j)'
      BY <1>0, <1>2, <1>6, <2>1 DEF WatchdogFinalizes, Untouched, New, Preflight
    <2>3. \A k \in Jobs \ {j} :
            status'[k] = status[k] /\ pid'[k] = pid[k] /\ dbStatus'[k] = dbStatus[k]
      BY <1>0, <1>6, <2>1 DEF WatchdogFinalizes, Finish, Persist
    <2>4. ASSUME NEW k \in Jobs \ {j} PROVE Saved(k)'
      BY <1>0, <1>1, <1>2, <1>3, <2>2, <2>3, StillSaved DEF AllSaved
    <2>5. Saved(j)'
      <3>1. CASE status[j] \in Active
        <4>1. status'[j] = "stopped" /\ dbStatus'[j] = "stopped"
          BY <1>0, <1>6, <2>1, <3>1 DEF WatchdogFinalizes, Finish, Persist, RowsMatch,
             Agrees, Active
        <4> QED
          BY <2>2, <4>1, EndSaved DEF Active, Terminal
      <3>2. CASE status[j] \notin Active
        <4>1. UNCHANGED <<status, pid, dbStatus>>
          BY <1>6, <2>1, <3>2 DEF WatchdogFinalizes
        <4> QED
          BY <1>0, <1>1, <1>2, <1>3, <2>2, <4>1, StillSaved DEF AllSaved
      <3> QED
        BY <3>1, <3>2
    <2> QED
      BY <2>4, <2>5 DEF AllSaved
  <1> QED
    BY <1>4, <1>5, <1>6

\* While a backend serves, every step but a crash keeps the three of them.
LEMMA ServingNext ==
  ASSUME Recoverable, TypeOK, TypeOK', ClaimHeld, Serving, [Next]_vars, ~ Crash
  PROVE  Serving' /\ NoneRevived
  <1>1. CalmInv' /\ NoneRevived /\ RowsMatch'
    BY NextCalm, NextAgrees DEF Serving, Recoverable
  <1>2. AllSaved'
    <2>1. ASSUME NEW t \in Threads, LaunchStep(t)
          PROVE  AllSaved'
      BY <2>1, LaunchSaved DEF Recoverable
    <2>2. CASE \/ \E t \in Threads : AdvanceQueue(t)
               \/ \E j \in Jobs : ReorderUp(j)
               \/ CreateJob
               \/ AdvanceOff \/ (\E on \in BOOLEAN : SetAutoQueue(on)) \/ BootDone
               \/ UNCHANGED vars
      BY <2>2, QueueSaved
    <2>3. ASSUME NEW j \in Jobs, StopJob(j) \/ DeleteJob(j) \/ PauseJob(j) \/ ResumeJob(j)
          PROVE  AllSaved'
      BY <2>3, UserSaved
    <2>4. ASSUME NEW p \in Pids, TrainerStarts(p) \/ TrainerEnds(p)
          PROVE  AllSaved'
      BY <2>4, TrainerSaved
    <2>5. CASE \/ \E j \in Jobs : HandleExit(j)
               \/ \E p \in Pids : WatchdogNotices(p) \/ WatchdogFinalizes(p)
      BY <2>5, EndsSaved
    <2> QED
      BY <2>1, <2>2, <2>3, <2>4, <2>5, NotCalm DEF Next, Serving, Recoverable
  <1> QED
    BY <1>1, <1>2 DEF Serving

-----------------------------------------------------------------------------
(* Across crashes: down and up again.                                      *)

\* A crash leaves rows, logs and processes in order.
LEMMA CrashLeaves ==
  ASSUME Recoverable, TypeOK, Serving, Crash
  PROVE  Off'
  <1>0. /\ CalmHost /\ Uncreated /\ Untouched /\ OneActive /\ LaunchedJob /\ Recorded
        /\ OneProcess /\ Known /\ RowsMatch /\ AllSaved
    BY DEF Serving, CalmInv
  <1>1. UNCHANGED <<clock, dbStatus, dbPid, dbPriority, procState, procJob, log>>
    BY DEF Crash, rows, procs
  <1>2. \A t \in Threads : launch[t].pc \in {"claimed", "preflight", "idle"}
                           /\ launch[t].pid = NoPid
    BY <1>0 DEF Crash, Recoverable, LaunchedJob
  <1>3. \A j \in Jobs : InFlight(j) => Preflight(j)
    BY <1>2 DEF InFlight, Inside, Preflight
  <1>4. \A j \in Jobs : dbStatus[j] \in Active =>
          /\ status[j] \in Active /\ pid[j] # NoPid /\ dbPid[j] = pid[j]
          /\ procJob[pid[j]] = j /\ pid[j] \in Pids /\ Engaged(pid[j])
    <2> SUFFICES ASSUME NEW j \in Jobs, dbStatus[j] \in Active
                 PROVE  /\ status[j] \in Active /\ pid[j] # NoPid /\ dbPid[j] = pid[j]
                        /\ procJob[pid[j]] = j /\ pid[j] \in Pids /\ Engaged(pid[j])
      OBVIOUS
    <2>1. status[j] \in Active
      BY <1>0 DEF RowsMatch, Agrees
    <2>2. ~ InFlight(j)
      BY <1>0, <1>3 DEF AllSaved, Saved, Active
    <2>3. pid[j] # NoPid /\ procJob[pid[j]] = j /\ watch[pid[j]] # "off"
      BY <1>0, <2>1, <2>2 DEF Recorded
    <2>4. pid[j] \in Pids
      BY <2>3, Shapes
    <2> QED
      BY <1>0, <2>1, <2>3, <2>4 DEF AllSaved, Saved, Engaged
  <1>5. \A j \in Jobs : Unborn(j) => New(j)
    <2> SUFFICES ASSUME NEW j \in Jobs, dbStatus[j] = "pending"
                 PROVE  New(j)
      BY DEF Unborn, New
    <2>1. CASE status[j] \notin Active
      BY <1>0, <2>1 DEF RowsMatch, Agrees, New
    <2>2. CASE status[j] \in Active
      BY <1>0, <1>3, <2>2 DEF Recorded, AllSaved, Saved, Active, Preflight, New
    <2> QED
      BY <2>1, <2>2
  <1>6. ASSUME NEW j \in Jobs PROVE LeftJob(j)
    <2>1. j > clock => dbStatus[j] = "absent" /\ dbPriority[j] = 0
      BY <1>0 DEF Uncreated, RowsMatch, Agrees
    <2>2. Unborn(j) => log[j] = << >> /\ \A p \in Pids : procJob[p] # j
      BY <1>0, <1>5 DEF Untouched
    <2>3. /\ dbStatus[j] \in {"absent", "pending"} => dbPid[j] = NoPid
          /\ dbStatus[j] = "paused" => log[j] = << >> /\ "pause" \in UserOps
      BY <1>0 DEF AllSaved, Saved
    <2> QED
      BY <1>0, <2>1, <2>2, <2>3 DEF LeftJob, CalmHost
  <1>7. ASSUME NEW p \in Pids PROVE LeftProcess(p)
    <2>1. procState[p] # "dead" => Engaged(p) /\ procJob[p] \in Jobs
      BY <1>0 DEF OneProcess, Engaged
    <2>2. procState[p] # "dead" /\ dbStatus[procJob[p]] \in Active => dbPid[procJob[p]] = p
      BY <1>0, <1>4, <2>1 DEF OneProcess
    <2>3. procState[p] # "dead" =>
            \A q \in Pids : procState[q] # "dead" /\ procJob[q] = procJob[p] => q = p
      BY <1>0 DEF OneProcess, Engaged
    <2>4. ASSUME procState[p] \in Running
          PROVE  dbStatus[procJob[p]] \in Active /\ log[procJob[p]] = << >>
      <3>1. Tracked(p) /\ log[procJob[p]] = << >> /\ procJob[p] \in Jobs /\ p # NoPid
        BY <1>0, <2>1, <2>4, JobQueueAssumption DEF Known, Running
      <3>2. status[procJob[p]] \in Active /\ pid[procJob[p]] = p
        BY <1>2, <3>1 DEF Tracked
      <3> QED
        BY <1>0, <2>4, <3>1, <3>2 DEF AllSaved, Saved
    <2> QED
      BY <2>1, <2>2, <2>3, <2>4 DEF LeftProcess
  <1>8. Left
    BY <1>0, <1>4, <1>6, <1>7 DEF Left, OneActive
  <1>9. Left'
    BY <1>1, <1>8 DEF Left, LeftJob, LeftProcess, Unborn
  <1> QED
    BY <1>9 DEF Crash, Off, NothingRuns

\* A trainer that goes on, completes its run or dies leaves them in order too.
LEMMA LeftKept ==
  ASSUME Recoverable, TypeOK, Left, NEW p \in Pids, TrainerStarts(p) \/ TrainerEnds(p)
  PROVE  Left'
  <1>0. /\ \A k \in Jobs : LeftJob(k)
        /\ \A q \in Pids : LeftProcess(q)
        /\ dbStatus \in [Jobs -> Status] /\ log \in [Jobs -> Seq(ExitKinds)]
        /\ procState \in [Pids -> Running \cup {"closing", "dead"}]
        /\ \A i, k \in Jobs : dbStatus[i] \in Active /\ dbStatus[k] \in Active => i = k
    BY DEF Left, TypeOK, RowsOK, FollowersOK, ProcsOK
  <1>1. UNCHANGED <<clock, dbPid, dbPriority, procJob>>
    BY DEF TrainerStarts, TrainerEnds, TrainerExits, TrainerGone, rows, host
  <1>2. CASE TrainerGone(p)
    <2>1. UNCHANGED <<dbStatus, log>>
          /\ \A q \in Pids : procState'[q] = IF q = p THEN "dead" ELSE procState[q]
      BY <1>0, <1>2 DEF TrainerGone, rows
    <2> QED
      BY <1>0, <1>1, <2>1 DEF Left, LeftJob, LeftProcess, Unborn, Running
  <1>3. CASE ~ TrainerGone(p)
    <2>1. procState[p] \in Running
      BY <1>3 DEF TrainerStarts, TrainerEnds, TrainerExits, Running
    <2>2. PICK j \in Jobs : j = procJob[p] /\ dbStatus[j] \in Active /\ log[j] = << >>
      BY <1>0, <2>1 DEF LeftProcess, Running
    <2>3. dbStatus[j] # "absent" /\ ~ Unborn(j) /\ dbPid[j] = p
      BY <1>0, <2>1, <2>2 DEF LeftJob, LeftProcess, Active, Running
    <2>4. \A q \in Pids \ {p} : procState[q] = "dead" \/ procJob[q] # j
      BY <1>0, <2>1, <2>2 DEF LeftProcess, Running
    <2>5. CASE TrainerStarts(p)
      <3>1. /\ \A k \in Jobs : dbStatus'[k] = IF k = j THEN "running" ELSE dbStatus[k]
            /\ \A q \in Pids : procState'[q] = IF q = p THEN "training" ELSE procState[q]
            /\ log' = log
        BY <1>0, <2>2, <2>3, <2>5 DEF TrainerStarts, Persist
      <3>2. \A k \in Jobs : LeftJob(k)'
        BY <1>0, <1>1, <2>3, <3>1 DEF LeftJob, Unborn
      <3>3. \A q \in Pids : LeftProcess(q)'
        BY <1>0, <1>1, <2>1, <2>2, <2>3, <2>4, <3>1 DEF LeftProcess, Running, Active
      <3>4. \A i, k \in Jobs : dbStatus'[i] \in Active /\ dbStatus'[k] \in Active => i = k
        BY <1>0, <2>2, <3>1
      <3> QED
        BY <3>2, <3>3, <3>4 DEF Left
    <2>6. ASSUME NEW kind \in ExitKinds, TrainerExits(p, kind)
          PROVE  Left'
      <3>1. /\ \A k \in Jobs :
                 dbStatus'[k] = IF k = j /\ kind = "ok" THEN "completed" ELSE dbStatus[k]
            /\ \A q \in Pids : procState'[q] = IF q = p THEN "closing" ELSE procState[q]
            /\ \A k \in Jobs \ {j} : log'[k] = log[k]
            /\ log'[j] = <<kind>>
        <4>1. \A q \in Pids : procState'[q] = IF q = p THEN "closing" ELSE procState[q]
          BY <1>0, <2>6 DEF TrainerExits
        <4>2. (\A k \in Jobs \ {j} : log'[k] = log[k]) /\ log'[j] = <<kind>>
          <5>1. log' = [log EXCEPT ![j] = Append(log[j], kind)]
            BY <2>2, <2>6 DEF TrainerExits
          <5>2. log'[j] = Append(<< >>, kind)
            BY <1>0, <2>2, <5>1
          <5>3. Append(<< >>, kind) = <<kind>>
            OBVIOUS
          <5> QED
            BY <1>0, <5>1, <5>2, <5>3
        <4>3. CASE kind = "ok"
          <5>1. \A k \in Jobs :
                  dbStatus'[k] = IF k = j THEN "completed" ELSE dbStatus[k]
            BY <1>0, <2>2, <2>3, <2>6, <4>3 DEF TrainerExits, Persist
          <5> QED
            BY <4>1, <4>2, <4>3, <5>1
        <4>4. CASE kind # "ok"
          BY <2>6, <4>1, <4>2, <4>4 DEF TrainerExits
        <4> QED
          BY <4>3, <4>4
      <3>2. kind \in {"ok", "err", "soft"} /\ (kind # "ok" => "pause" \notin UserOps)
        BY <2>6 DEF TrainerExits, Recoverable, Orderly, ExitKinds
      <3>3. LeftJob(j)'
        <4>1. \A i \in 1 .. Len(log'[j]) : log'[j][i] \in {"ok", "err", "soft"}
          BY <3>1, <3>2
        <4> QED
          BY <1>0, <1>1, <2>2, <2>3, <3>1, <3>2, <4>1 DEF LeftJob, Unborn, Active
      <3>4. \A k \in Jobs \ {j} : LeftJob(k)'
        BY <1>0, <1>1, <3>1 DEF LeftJob, Unborn
      <3>5. \A q \in Pids : LeftProcess(q)'
        BY <1>0, <1>1, <2>1, <2>2, <2>3, <2>4, <3>1 DEF LeftProcess, Running, Active
      <3>6. \A i, k \in Jobs : dbStatus'[i] \in Active /\ dbStatus'[k] \in Active => i = k
        BY <1>0, <2>2, <3>1
      <3> QED
        BY <3>3, <3>4, <3>5, <3>6 DEF Left
    <2> QED
      BY <1>3, <2>5, <2>6 DEF TrainerEnds
  <1> QED
    BY <1>2, <1>3

\* While no backend runs only the trainers move, until the next one boots.
LEMMA OffNext ==
  ASSUME Recoverable, TypeOK, Off, [Next]_vars, ~ Boot
  PROVE  Off'
  <1>1. server = "down" /\ \A t \in Threads : launch[t].pc = "idle"
    BY DEF Off, NothingRuns, Idle
  <1>2. (\E p \in Pids : TrainerStarts(p) \/ TrainerEnds(p)) \/ UNCHANGED vars
    <2>1. \A t \in Threads : ~ LaunchStep(t) /\ ~ AdvanceQueue(t)
      BY <1>1
      DEF LaunchStep, BeginLaunch, Spawn, LaunchFails, Commit, Attach, AdvanceQueue
    <2>2. \A t \in Threads, j \in Jobs :
            ~ StartNow(t, j) /\ ~ RestartJob(t, j) /\ ~ FireTimer(t, j) /\ ~ RunRebuild(t, j)
      BY <1>1 DEF StartNow, RestartJob, FireTimer, RunRebuild, May
    <2>3. \A j \in Jobs : ~ StopJob(j) /\ ~ DeleteJob(j) /\ ~ PauseJob(j) /\ ~ ResumeJob(j)
                          /\ ~ ReorderUp(j) /\ ~ HandleExit(j) /\ ~ Relaunch(j)
      BY <1>1
      DEF StopJob, DeleteJob, PauseJob, ResumeJob, ReorderUp, HandleExit, Relaunch,
         May
    <2>4. \A p \in Pids : ~ WatchdogNotices(p) /\ ~ WatchdogFinalizes(p)
      BY <1>1 DEF WatchdogNotices, WatchdogFinalizes
    <2>5. /\ ~ AdvanceOff /\ ~ CreateJob /\ ~ (\E on \in BOOLEAN : SetAutoQueue(on))
          /\ ~ Crash /\ ~ BootDone
      BY <1>1 DEF AdvanceOff, CreateJob, SetAutoQueue, May, Crash, BootDone
    <2> QED
      BY <2>1, <2>2, <2>3, <2>4, <2>5 DEF Next
  <1>3. ASSUME NEW p \in Pids, TrainerStarts(p) \/ TrainerEnds(p)
        PROVE  Off'
    <2>1. UNCHANGED <<server, recovery, tailing, timers, rebuilding, starting, advancing,
                      watch, launch, status, pid, priority>>
      BY <1>3
      DEF TrainerStarts, TrainerEnds, TrainerExits, TrainerGone, registry, queue,
         budgets, host
    <2> QED
      BY <1>3, <2>1, LeftKept DEF Off, NothingRuns
  <1>4. CASE UNCHANGED vars
    BY <1>4 DEF vars, Off, NothingRuns, Left, LeftJob, LeftProcess, Unborn
  <1> QED
    BY <1>2, <1>3, <1>4

\* What a booting backend reads: only interrupted and paused jobs whose trainer is
\* gone differ from their rows, and no other than the one active job of the rows is
\* either.
LEMMA BootReads ==
  ASSUME TypeOK, Off, Boot
  PROVE  /\ \A j \in Jobs : dbStatus'[j] = IF Interrupted(j) THEN "stopped" ELSE dbStatus[j]
         /\ \A j \in Jobs :
              status'[j] = IF j \in recovery' THEN "pending" ELSE dbStatus'[j]
         /\ recovery' = {j \in Jobs : dbStatus[j] = "paused" /\ ~ Survives(j)}
         /\ \A j \in Jobs : Survives(j) => /\ dbStatus[j] \in Active /\ dbPid[j] \in Pids
                                           /\ procState[dbPid[j]] # "dead"
                                           /\ procJob[dbPid[j]] = j
         /\ \A p \in Pids : procState[p] # "dead" /\ dbStatus[procJob[p]] \in Active =>
              procJob[p] \in Jobs /\ dbPid[procJob[p]] = p /\ Survives(procJob[p])
  <1>1. \A j \in Jobs : dbStatus'[j] = IF Interrupted(j) THEN "stopped" ELSE dbStatus[j]
    BY DEF Boot, DemotedRows
  <1>2. recovery' = {j \in Jobs : dbStatus[j] = "paused" /\ ~ Survives(j)}
    BY DEF Boot
  <1>3. \A j \in Jobs :
          status'[j] = IF Interrupted(j) THEN "stopped"
                       ELSE IF dbStatus[j] = "paused" /\ ~ Survives(j) THEN "pending"
                       ELSE dbStatus[j]
    <2> SUFFICES ASSUME NEW j \in Jobs
                 PROVE  /\ Interrupted(j) => status'[j] = "stopped"
                        /\ dbStatus[j] = "paused" /\ ~ Survives(j) => status'[j] = "pending"
                        /\ ~ Interrupted(j) /\ ~ (dbStatus[j] = "paused" /\ ~ Survives(j)) =>
                             status'[j] = dbStatus[j]
      BY DEF Interrupted
    <2>1. CASE Interrupted(j)
      BY <2>1 DEF Boot, Interrupted
    <2>2. CASE dbStatus[j] = "paused" /\ ~ Survives(j)
      BY <2>2 DEF Boot, Interrupted
    <2>3. CASE ~ Interrupted(j) /\ ~ (dbStatus[j] = "paused" /\ ~ Survives(j))
      BY <2>3 DEF Boot
    <2> QED
      BY <2>1, <2>2, <2>3
  <1>4. \A j \in Jobs : Interrupted(j) => dbStatus[j] # "paused"
    BY DEF Interrupted
  <1>5. \A j \in Jobs : status'[j] = IF j \in recovery' THEN "pending" ELSE dbStatus'[j]
    BY <1>1, <1>2, <1>3, <1>4
  <1>6. \A p \in Pids : Alive(p) <=> procState[p] # "dead"
    BY DEF Alive, Running, TypeOK, ProcsOK
  <1>7. \A j \in Jobs : Survives(j) => /\ dbStatus[j] \in Active /\ dbPid[j] \in Pids
                                       /\ procState[dbPid[j]] # "dead"
                                       /\ procJob[dbPid[j]] = j
    BY <1>6 DEF Survives, IsTrainer
  <1>8. \A p \in Pids : procState[p] # "dead" /\ dbStatus[procJob[p]] \in Active =>
          procJob[p] \in Jobs /\ dbPid[procJob[p]] = p /\ Survives(procJob[p])
    BY <1>6 DEF Off, Left, LeftProcess, Survives, IsTrainer
  <1> QED
    BY <1>1, <1>2, <1>5, <1>7, <1>8

\* Where every paused job has kept its trainer, the backend serves what it finds.
LEMMA BootAdopts ==
  ASSUME TypeOK, TypeOK', Off, Boot, recovery' = {}
  PROVE  Serving'
  <1>0. /\ \A j \in Jobs : LeftJob(j)
        /\ \A p \in Pids : LeftProcess(p)
        /\ \A i, k \in Jobs : dbStatus[i] \in Active /\ dbStatus[k] \in Active => i = k
        /\ timers = {} /\ rebuilding = {}
        /\ \A t \in Threads : launch[t].pc = "idle" /\ launch[t].pid = NoPid
        /\ NoPid \notin Pids
    BY JobQueueAssumption DEF Off, Left, NothingRuns, Idle
  <1>1. /\ UNCHANGED <<clock, dbPid, dbPriority, procState, procJob, log, launch, timers,
                       rebuilding>>
        /\ pid' = dbPid /\ priority' = dbPriority /\ server' = "booting"
        /\ tailing' = {j \in Jobs : Survives(j)}
        /\ \A p \in Pids : watch'[p] = IF \E j \in Jobs : Survives(j) /\ dbPid[j] = p
                                       THEN "on" ELSE "off"
    BY DEF Boot, procs, budgets
  <1>2. \A j \in Jobs :
          /\ status'[j] = dbStatus'[j]
          /\ dbStatus'[j] = IF Interrupted(j) THEN "stopped" ELSE dbStatus[j]
    BY BootReads
  <1>3. \A j \in Jobs : dbStatus[j] \in Active =>
          IF Interrupted(j) THEN status'[j] = "stopped" ELSE Survives(j)
    BY <1>2, BootReads DEF Interrupted, Active
  <1>4. \A j \in Jobs : status'[j] \in Active => dbStatus[j] \in Active /\ Survives(j)
    BY <1>2, <1>3 DEF Active
  <1>5. \A j \in Jobs : status'[j] \in {"absent", "pending"} => dbStatus[j] = status'[j]
    BY <1>2
  <1>6. \A p \in Pids : Engaged(p)' => procState[p] # "dead"
    BY <1>0, <1>1, BootReads DEF Engaged
  <1>7. \A j \in Jobs : dbStatus[j] \notin Active => ~ Interrupted(j) /\ ~ Survives(j)
    BY DEF Interrupted, Survives, Active
  <1>8. \A j \in Jobs : New(j)' => Unborn(j) /\ dbStatus[j] \in {"absent", "pending"}
    BY <1>0, <1>1, <1>5 DEF New, Unborn, LeftJob
  <1>9. CalmHost'
    BY <1>0, <1>1 DEF CalmHost, LeftJob
  <1>10. Uncreated'
    BY <1>0, <1>1, <1>2, <1>7 DEF Uncreated, LeftJob, Active
  <1>11. Untouched'
    BY <1>0, <1>1, <1>7, <1>8 DEF Untouched, LeftJob, Active
  <1>12. OneActive'
    BY <1>0, <1>4 DEF OneActive
  <1>13. LaunchedJob'
    BY <1>0, <1>1 DEF LaunchedJob, Inside
  <1>14. Recorded'
    <2> SUFFICES ASSUME NEW j \in Jobs, status'[j] \in Active
                 PROVE  pid'[j] # NoPid /\ procJob'[pid'[j]] = j /\ watch'[pid'[j]] # "off"
      BY DEF Recorded
    <2>1. Survives(j) /\ dbPid[j] \in Pids /\ procJob[dbPid[j]] = j
      BY <1>4, BootReads
    <2> QED
      BY <1>0, <1>1, <2>1
  <1>15. OneProcess'
    BY <1>0, <1>1, <1>6 DEF OneProcess, LeftProcess
  <1>16. Known'
    <2> SUFFICES ASSUME NEW p \in Pids, procState[p] \in Running
                 PROVE  Tracked(p)' /\ log[procJob[p]] = << >>
      BY <1>1 DEF Known
    <2>1. dbStatus[procJob[p]] \in Active /\ log[procJob[p]] = << >>
          /\ procState[p] # "dead"
      BY <1>0 DEF LeftProcess, Running
    <2>2. procJob[p] \in Jobs /\ dbPid[procJob[p]] = p /\ Survives(procJob[p])
      BY <2>1, BootReads
    <2>3. status'[procJob[p]] \in Active
      BY <1>2, <2>1, <2>2 DEF Interrupted
    <2> QED
      BY <1>1, <2>1, <2>2, <2>3 DEF Tracked
  <1>17. RowsMatch'
    BY <1>0, <1>1, <1>2, <1>4, <1>5 DEF RowsMatch, Agrees, LeftJob, Active
  <1>18. AllSaved'
    <2> SUFFICES ASSUME NEW j \in Jobs PROVE Saved(j)'
      BY DEF AllSaved
    <2>1. ~ Preflight(j)'
      BY <1>0, <1>1 DEF Preflight
    <2>2. status'[j] \in Active => pid'[j] = dbPid'[j] /\ dbStatus'[j] \in Active
      BY <1>1, <1>2
    <2>3. dbStatus'[j] \in {"absent", "pending"} => dbPid'[j] = NoPid
      BY <1>0, <1>1, <1>2, <1>5 DEF LeftJob
    <2>4. dbStatus'[j] = "paused" => log'[j] = << >> /\ "pause" \in UserOps
      BY <1>0, <1>1, <1>2 DEF LeftJob
    <2> QED
      BY <2>1, <2>2, <2>3, <2>4 DEF Saved
  <1> QED
    BY <1>9, <1>10, <1>11, <1>12, <1>13, <1>14, <1>15, <1>16, <1>17, <1>18
    DEF Serving, CalmInv

\* Where a paused job has lost its trainer, the backend is about to launch it again.
LEMMA BootResumes ==
  ASSUME TypeOK, TypeOK', Off, Boot, NEW j \in recovery'
  PROVE  Resuming'
  <1>0. /\ \A k \in Jobs : LeftJob(k)
        /\ \A p \in Pids : LeftProcess(p)
        /\ \A i, k \in Jobs : dbStatus[i] \in Active /\ dbStatus[k] \in Active => i = k
    BY DEF Off, Left
  <1>1. /\ UNCHANGED <<clock, dbPid, dbPriority, procState, procJob, log, launch, timers,
                       rebuilding, starting, advancing>>
        /\ pid' = dbPid /\ priority' = dbPriority /\ server' = "booting"
        /\ tailing' = {k \in Jobs : Survives(k)}
        /\ watch' = [p \in Pids |-> IF \E k \in Jobs : Survives(k) /\ dbPid[k] = p
                                    THEN "on" ELSE "off"]
    BY DEF Boot, procs, budgets, queue
  <1>2. j \in Jobs /\ dbStatus[j] = "paused" /\ ~ Survives(j)
    BY BootReads
  <1>3. \A k \in Jobs : ~ Survives(k) /\ ~ Interrupted(k)
    BY <1>0, <1>2 DEF Survives, Interrupted, Active
  <1>4. recovery' = {j}
    BY <1>0, <1>2, BootReads DEF Active
  <1>5. \A k \in Jobs : dbStatus'[k] = dbStatus[k]
    BY <1>3, BootReads
  <1>6. \A p \in Pids : procJob[p] = j => procState[p] = "dead"
    BY <1>2, <1>3, BootReads DEF Active
  <1>7. \A k \in Jobs \ {j} : status'[k] = dbStatus'[k]
    BY <1>4, BootReads
  <1>8. status'[j] = "pending"
    BY <1>2, <1>4, BootReads
  <1>9. NothingRuns'
    BY <1>1, <1>3 DEF Off, NothingRuns
  <1>10. Left'
    <2>1. \A k \in Jobs : LeftJob(k)'
      BY <1>0, <1>1, <1>5 DEF LeftJob, Unborn
    <2>2. \A p \in Pids : LeftProcess(p)'
      BY <1>0, <1>1, <1>5 DEF LeftProcess, Running
    <2>3. \A i, k \in Jobs : dbStatus'[i] \in Active /\ dbStatus'[k] \in Active => i = k
      BY <1>0, <1>5
    <2> QED
      BY <2>1, <2>2, <2>3 DEF Left
  <1>11. Relaunching(j)'
    BY <1>1, <1>2, <1>4, <1>5, <1>6, <1>7, <1>8 DEF Relaunching
  <1> QED
    BY <1>1, <1>2, <1>9, <1>10, <1>11 DEF Resuming


\* The relaunch of the paused job, or its failure, leaves the backend serving.
LEMMA RelaunchServes ==
  ASSUME TypeOK, TypeOK', Resuming, NEW j \in Jobs, Relaunching(j), Relaunch(j)
  PROVE  Serving'
  <1>0. /\ \A k \in Jobs : LeftJob(k)
        /\ \A q \in Pids : LeftProcess(q)
        /\ \A i, k \in Jobs : dbStatus[i] \in Active /\ dbStatus[k] \in Active => i = k
        /\ timers = {} /\ rebuilding = {} /\ tailing = {}
        /\ \A t \in Threads : launch[t].pc = "idle" /\ launch[t].pid = NoPid
        /\ \A q \in Pids : watch[q] = "off"
        /\ NoPid \notin Pids
    BY JobQueueAssumption DEF Resuming, Left, NothingRuns, Idle
  <1>1. /\ recovery = {j} /\ dbStatus[j] = "paused" /\ status[j] = "pending"
        /\ \A q \in Pids : procJob[q] = j => procState[q] = "dead"
        /\ \A k \in Jobs \ {j} : status[k] = dbStatus[k]
        /\ pid = dbPid /\ priority = dbPriority /\ server = "booting"
    BY DEF Relaunching, Resuming
  <1>2. /\ UNCHANGED <<clock, dbPriority, log, launch, timers, rebuilding, server, priority>>
        /\ recovery' = {}
    BY <1>1 DEF Relaunch, budgets
  <1>3. /\ status \in [Jobs -> Status] /\ dbStatus \in [Jobs -> Status]
        /\ pid \in [Jobs -> Pids \cup {NoPid}]
        /\ procState \in [Pids -> Running \cup {"closing", "dead"}]
        /\ procJob \in [Pids -> Jobs \cup {NoJob}]
        /\ watch \in [Pids -> {"off", "on", "grace"}]
    BY DEF TypeOK, RegistryOK, RowsOK, ProcsOK, FollowersOK
  <1>4. \A q \in Pids : procState[q] \notin Running
    BY <1>0, <1>1 DEF LeftProcess, Running, Active
  <1>5. \A k \in Jobs \ {j} : dbStatus[k] \notin Active
    BY <1>0, <1>1 DEF Active
  <1> DEFINE Others == \A k \in Jobs \ {j} : /\ status'[k] = dbStatus[k]
                                             /\ dbStatus'[k] = dbStatus[k]
                                             /\ pid'[k] = dbPid[k]
             Ended == /\ status'[j] = "stopped" /\ dbStatus'[j] = "stopped"
                      /\ tailing' = {}
                      /\ UNCHANGED <<procState, procJob, watch>>
             Born(p) == /\ status'[j] = "paused" /\ dbStatus'[j] = "paused"
                        /\ tailing' = {j} /\ pid'[j] = p
                        /\ procState'[p] = "loading" /\ procJob'[p] = j /\ watch'[p] = "on"
                        /\ \A q \in Pids \ {p} : /\ procState'[q] = procState[q]
                                                 /\ procJob'[q] = procJob[q]
                                                 /\ watch'[q] = watch[q]
  <1>6. Others /\ pid' = dbPid' /\ (Ended \/ \E p \in Pids : Born(p))
    <2>1. dbStatus[j] # "absent"
      BY <1>1
    <2>2. ASSUME NEW p \in Pids,
                 procState' = [procState EXCEPT ![p] = "loading"],
                 procJob' = [procJob EXCEPT ![p] = j],
                 status' = [status EXCEPT ![j] = "paused"],
                 dbStatus' = Persist(dbStatus, j, "paused"),
                 pid' = [pid EXCEPT ![j] = p],
                 dbPid' = [dbPid EXCEPT ![j] = p],
                 tailing' = tailing \cup {j},
                 watch' = [watch EXCEPT ![p] = "on"]
          PROVE  Others /\ pid' = dbPid' /\ Born(p)
      BY <1>0, <1>1, <1>3, <2>1, <2>2 DEF Persist
    <2>3. ASSUME status' = [status EXCEPT ![j] = "stopped"],
                 dbStatus' = Persist(dbStatus, j, "stopped"),
                 UNCHANGED <<procState, procJob, pid, dbPid, tailing, watch>>
          PROVE  Others /\ pid' = dbPid' /\ Ended
      BY <1>0, <1>1, <1>3, <2>1, <2>3 DEF Persist
    <2> QED
      BY <2>2, <2>3 DEF Relaunch, procs
  <1>7. /\ status'[j] = dbStatus'[j] /\ status'[j] \in {"paused", "stopped"}
        /\ tailing' \subseteq {j}
        /\ status'[j] = "paused" =>
             /\ pid'[j] \in Pids /\ procJob'[pid'[j]] = j /\ watch'[pid'[j]] = "on"
    BY <1>6
  <1>8. ASSUME NEW q \in Pids
        PROVE  /\ procJob'[q] = procJob[q] \/ procJob'[q] = j
               /\ Engaged(q)' => \/ procJob'[q] = j /\ status'[j] = "paused" /\ pid'[j] = q
                                 \/ /\ procState[q] # "dead" /\ procJob[q] # j
                                    /\ procJob'[q] = procJob[q]
                                    /\ procState'[q] = procState[q]
    <2>1. CASE Ended
      BY <1>0, <1>1, <1>2, <2>1 DEF Engaged
    <2>2. ASSUME NEW p \in Pids, Born(p)
          PROVE  /\ procJob'[q] = procJob[q] \/ procJob'[q] = j
                 /\ Engaged(q)' => \/ /\ procJob'[q] = j /\ status'[j] = "paused"
                                      /\ pid'[j] = q
                                   \/ /\ procState[q] # "dead" /\ procJob[q] # j
                                      /\ procJob'[q] = procJob[q]
                                      /\ procState'[q] = procState[q]
      BY <1>0, <1>1, <1>2, <2>2 DEF Engaged
    <2> QED
      BY <1>6, <2>1, <2>2
  <1> HIDE DEF Ended, Born
  <1>9. \A k \in Jobs : New(k)' => k # j /\ Unborn(k) /\ dbStatus[k] \in {"absent", "pending"}
    BY <1>0, <1>1, <1>2, <1>6, <1>7 DEF New, Unborn, LeftJob
  <1>10. CalmHost'
    BY <1>0, <1>1, <1>2 DEF CalmHost, LeftJob
  <1>11. Uncreated'
    BY <1>0, <1>1, <1>2, <1>6 DEF Uncreated, LeftJob
  <1>12. Untouched'
    BY <1>0, <1>2, <1>6, <1>7, <1>8, <1>9 DEF Untouched, LeftJob
  <1>13. OneActive'
    BY <1>5, <1>6 DEF OneActive
  <1>14. LaunchedJob'
    BY <1>0, <1>2 DEF LaunchedJob, Inside
  <1>15. Recorded'
    BY <1>0, <1>5, <1>6, <1>7 DEF Recorded, Active
  <1>16. OneProcess'
    BY <1>0, <1>1, <1>8 DEF OneProcess, LeftProcess
  <1>17. Known'
    BY <1>0, <1>1, <1>2, <1>4, <1>7, <1>8 DEF Known, Tracked, Engaged, Running, Active,
       LeftJob
  <1>18. RowsMatch'
    <2> SUFFICES ASSUME NEW k \in Jobs PROVE Agrees(k)'
      BY DEF RowsMatch
    <2>1. status'[k] = dbStatus'[k] /\ priority'[k] = dbPriority'[k]
      BY <1>1, <1>2, <1>6, <1>7
    <2>2. k > clock' => dbPriority'[k] = 0
      BY <1>0, <1>2 DEF LeftJob
    <2> QED
      BY <2>1, <2>2 DEF Agrees
  <1>19. AllSaved'
    <2> SUFFICES ASSUME NEW k \in Jobs PROVE Saved(k)'
      BY DEF AllSaved
    <2>1. ~ Preflight(k)'
      BY <1>0, <1>2 DEF Preflight
    <2>2. CASE k = j
      BY <1>0, <1>1, <1>2, <1>6, <1>7, <2>1, <2>2 DEF Saved, LeftJob, Active
    <2>3. CASE k # j
      BY <1>0, <1>2, <1>5, <1>6, <2>1, <2>3 DEF Saved, LeftJob, Active
    <2> QED
      BY <2>2, <2>3
  <1> QED
    BY <1>10, <1>11, <1>12, <1>13, <1>14, <1>15, <1>16, <1>17, <1>18, <1>19
    DEF Serving, CalmInv

\* While the backend boots with a job to relaunch, nothing but that relaunch, a crash
\* and the end of a process happens.
LEMMA ResumingNext ==
  ASSUME Recoverable, TypeOK, TypeOK', Resuming, [Next]_vars
  PROVE  Serving' \/ Off' \/ Resuming'
  <1> PICK j \in Jobs : Relaunching(j)
    BY DEF Resuming
  <1>1. /\ server = "booting" /\ ~ advancing /\ recovery = {j} /\ tailing = {}
        /\ timers = {} /\ rebuilding = {}
        /\ \A t \in Threads : launch[t].pc = "idle"
        /\ \A p \in Pids : watch[p] = "off"
    BY DEF Resuming, Relaunching, NothingRuns, Idle
  <1>2. \A p \in Pids : procState[p] \notin Running
    BY DEF Resuming, Relaunching, Left, LeftProcess, Running, Active
  <1>3. \/ Crash \/ Relaunch(j) \/ (\E p \in Pids : TrainerGone(p)) \/ UNCHANGED vars
    <2>1. \A t \in Threads : ~ LaunchStep(t) /\ ~ AdvanceQueue(t)
      BY <1>1
      DEF LaunchStep, BeginLaunch, Spawn, LaunchFails, Commit, Attach, AdvanceQueue
    <2>2. \A t \in Threads, k \in Jobs :
            ~ StartNow(t, k) /\ ~ RestartJob(t, k) /\ ~ FireTimer(t, k) /\ ~ RunRebuild(t, k)
      BY <1>1 DEF StartNow, RestartJob, FireTimer, RunRebuild, May
    <2>3. \A k \in Jobs : /\ ~ StopJob(k) /\ ~ DeleteJob(k) /\ ~ PauseJob(k)
                          /\ ~ ResumeJob(k) /\ ~ ReorderUp(k) /\ ~ HandleExit(k)
                          /\ Relaunch(k) => k = j
      BY <1>1
      DEF StopJob, DeleteJob, PauseJob, ResumeJob, ReorderUp, HandleExit, Relaunch,
         May
    <2>4. \A p \in Pids : /\ ~ WatchdogNotices(p) /\ ~ WatchdogFinalizes(p)
                          /\ ~ TrainerStarts(p)
                          /\ TrainerEnds(p) => TrainerGone(p)
      BY <1>1, <1>2 DEF WatchdogNotices, WatchdogFinalizes, TrainerStarts, TrainerEnds,
         TrainerExits, Running
    <2>5. /\ ~ AdvanceOff /\ ~ CreateJob /\ ~ (\E on \in BOOLEAN : SetAutoQueue(on))
          /\ ~ Boot /\ ~ BootDone
      BY <1>1 DEF AdvanceOff, CreateJob, SetAutoQueue, May, Boot, BootDone
    <2> QED
      BY <2>1, <2>2, <2>3, <2>4, <2>5 DEF Next
  <1>4. CASE Crash
    <2>1. UNCHANGED <<clock, dbStatus, dbPid, dbPriority, procState, procJob, log>>
      BY <1>4 DEF Crash, rows, procs
    <2>2. Left'
      BY <2>1 DEF Resuming, Left, LeftJob, LeftProcess, Unborn
    <2> QED
      BY <1>4, <2>2 DEF Crash, Off, NothingRuns
  <1>5. CASE Relaunch(j)
    BY <1>5, RelaunchServes
  <1>6. ASSUME NEW p \in Pids, TrainerGone(p)
        PROVE  Resuming'
    <2>1. UNCHANGED <<server, recovery, tailing, timers, rebuilding, starting, advancing,
                      watch, launch, status, pid, priority, dbStatus, dbPid, dbPriority,
                      procJob>>
      BY <1>6 DEF TrainerGone, registry, rows, queue, budgets, host
    <2>2. \A q \in Pids : procState'[q] = procState[q] \/ procState'[q] = "dead"
      BY <1>6 DEF TrainerGone, TypeOK, ProcsOK
    <2>3. Left'
      BY <1>6, LeftKept DEF TrainerEnds, Resuming
    <2>4. Relaunching(j)'
      BY <2>1, <2>2 DEF Relaunching
    <2> QED
      BY <2>1, <2>3, <2>4 DEF Resuming, NothingRuns
  <1>7. CASE UNCHANGED vars
    BY <1>7
    DEF vars, Resuming, Relaunching, NothingRuns, Left, LeftJob, LeftProcess, Unborn
  <1> QED
    BY <1>3, <1>4, <1>5, <1>6, <1>7

-----------------------------------------------------------------------------
(* Across crashes: the theorems.                                           *)

\* No job, no row, no process: the invariant holds.
LEMMA InitCrash == Init => CrashInv
  <1> SUFFICES ASSUME Init PROVE Serving
    BY DEF CrashInv
  <1>1. RowsMatch
    BY DEF Init, RowsMatch, Agrees
  <1>2. AllSaved
    BY DEF Init, AllSaved, Saved, Preflight, Idle, Active
  <1> QED
    BY <1>1, <1>2, InitCalm DEF Serving

\* Every step keeps the invariant, and none revives a job of a backend that serves.
LEMMA CrashNext ==
  ASSUME Recoverable, TypeOK, TypeOK', ClaimHeld, CrashInv, [Next]_vars
  PROVE  CrashInv' /\ (server = "up" /\ server' = "up" => NoneRevived)
  <1>1. CASE Serving /\ Crash
    BY <1>1, CrashLeaves DEF CrashInv, Off
  <1>2. CASE Serving /\ ~ Crash
    BY <1>2, ServingNext DEF CrashInv
  <1>3. CASE Off /\ Boot
    <2>1. CASE recovery' = {}
      BY <1>3, <2>1, BootAdopts DEF CrashInv, Off
    <2>2. CASE recovery' # {}
      BY <1>3, <2>2, BootResumes DEF CrashInv, Off
    <2> QED
      BY <2>1, <2>2
  <1>4. CASE Off /\ ~ Boot
    BY <1>4, OffNext DEF CrashInv, Off
  <1>5. CASE Resuming
    BY <1>5, ResumingNext DEF CrashInv, Resuming
  <1> QED
    BY <1>1, <1>2, <1>3, <1>4, <1>5 DEF CrashInv

\* In a recoverable instance the invariant holds in every state.
LEMMA SpecCrash == Recoverable /\ Spec => []CrashInv
  <1> SUFFICES ASSUME Recoverable PROVE Spec => []CrashInv
    OBVIOUS
  <1>1. TypeOK /\ TypeOK' /\ ClaimHeld /\ CrashInv /\ [Next]_vars => CrashInv'
    BY CrashNext
  <1> QED
    BY <1>1, InitCrash, TypeCorrect, ClaimCorrect, PTL DEF Spec

\* While a backend serves, a trainer on the GPU is known; otherwise it has the one
\* active row.
LEMMA TrainerHasRow ==
  ASSUME TypeOK, ClaimHeld, CrashInv
  PROVE  \A p, q \in Pids : procState[p] \in Running /\ procState[q] \in Running => p = q
  <1>1. CASE Serving
    BY <1>1, TrainerKnown DEF Serving, CalmInv, OneActive, OneProcess, Engaged, Running
  <1>2. CASE Left
    BY <1>2 DEF Left, LeftProcess, Running
  <1> QED
    BY <1>1, <1>2 DEF CrashInv, Off, Resuming

\* At most one trainer is loading or training, across crashes too (SingleTrainer):
\* the next backend adopts the trainer of the last one before it launches another.
THEOREM OneTrainerAcrossCrashes == Recoverable /\ Spec => []SingleTrainer
  <1>1. TypeOK /\ ClaimHeld /\ CrashInv => SingleTrainer
    <2> SUFFICES ASSUME TypeOK, ClaimHeld, CrashInv PROVE SingleTrainer
      OBVIOUS
    <2> DEFINE onGpu == {p \in Pids : procState[p] \in Running}
    <2>1. \A p, q \in onGpu : p = q
      BY TrainerHasRow
    <2>2. CASE onGpu = {}
      BY <2>2, FS_EmptySet DEF SingleTrainer
    <2>3. ASSUME NEW p \in onGpu PROVE SingleTrainer
      <3>1. onGpu = {p}
        BY <2>1, <2>3
      <3> QED
        BY <3>1, FS_Singleton DEF SingleTrainer
    <2> QED
      BY <2>2, <2>3
  <1> QED
    BY <1>1, SpecCrash, TypeCorrect, ClaimCorrect, PTL

\* No trainer on the GPU is unknown to a backend that serves, across crashes too
\* (NoOrphanTrainer).
THEOREM NoTrainerLostInCrash == Recoverable /\ Spec => []NoOrphanTrainer
  <1>1. TypeOK /\ ClaimHeld /\ CrashInv => NoOrphanTrainer
    BY TrainerKnown DEF NoOrphanTrainer, CrashInv, Serving, Off, Resuming
  <1> QED
    BY <1>1, SpecCrash, TypeCorrect, ClaimCorrect, PTL

\* In particular a trainer whose pid is in the row is adopted by the next backend
\* (RecordedTrainerAdopted).
THEOREM RecordedAdopted == Recoverable /\ Spec => []RecordedTrainerAdopted
  <1>1. NoOrphanTrainer => RecordedTrainerAdopted
    BY DEF NoOrphanTrainer, RecordedTrainerAdopted
  <1> QED
    BY <1>1, NoTrainerLostInCrash, PTL

\* Row and registry agree on every job that is neither launching nor active, whatever
\* crashes came before (DbAgrees).
THEOREM RowsTellAcrossCrashes == Recoverable /\ Spec => []DbAgrees
  <1>1. CrashInv => DbAgrees
    BY DEF CrashInv, Serving, Off, Resuming, RowsMatch, Agrees, DbAgrees
  <1> QED
    BY <1>1, SpecCrash, PTL

\* A finished job is not revived behind the user's back, in any life of the backend
\* (NoRevival).
THEOREM NothingRevivedAcrossCrashes == Recoverable /\ Spec => NoRevival
  <1> SUFFICES ASSUME Recoverable PROVE Spec => NoRevival
    OBVIOUS
  <1>1. TypeOK /\ TypeOK' /\ ClaimHeld /\ CrashInv /\ [Next]_vars =>
          [server = "up" /\ server' = "up" =>
             \A j \in Jobs : status[j] \in Terminal =>
               status'[j] \in Terminal \cup {"pending", "absent"}]_vars
    BY CrashNext DEF NoneRevived
  <1> QED
    BY <1>1, SpecCrash, TypeCorrect, ClaimCorrect, PTL DEF Spec, NoRevival
=============================================================================
