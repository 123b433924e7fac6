------------------------------ MODULE GpuQueue ------------------------------
(***************************************************************************)
(* What the job queue promises about the one GPU: jobs wait in an order,   *)
(* the first of them is granted the GPU and nobody else, and only when it  *)
(* is free or the process of the job that held it is gone.  The order      *)
(* changes by one exchange of neighbours at a time; a newcomer goes last   *)
(* unless the users have arranged the queue.                               *)
(***************************************************************************)
CONSTANTS Jobs

VARIABLES
  waiting,   \* jobs that wait for the GPU
  ahead,     \* <<j, k>>: j waits ahead of k
  onGpu,     \* jobs that have been granted it
  gone,      \* those of them whose process has ended unnoticed
  arranged   \* the users have put the waiting jobs in an order of their own

vars == <<waiting, ahead, onGpu, gone, arranged>>

Init == waiting = {} /\ ahead = {} /\ onGpu = {} /\ gone = {} /\ ~ arranged

\* A job enters behind the jobs of `front`.
Arrive(j) == \E front \in SUBSET waiting :
  /\ j \notin waiting \cup onGpu
  /\ \A k \in front, i \in waiting : <<i, k>> \in ahead => i \in front
  /\ front = waiting \/ arranged
  /\ waiting' = waiting \cup {j}
  /\ ahead' = ahead \cup (front \X {j}) \cup ({j} \X (waiting \ front))
  /\ UNCHANGED <<onGpu, gone, arranged>>

Neighbours(i, j) ==
  <<i, j>> \in ahead /\ ~ \E k \in waiting : <<i, k>> \in ahead /\ <<k, j>> \in ahead

Arrange ==
  /\ \/ ahead' = ahead
     \/ \E i, j \in waiting :
          Neighbours(i, j) /\ ahead' = (ahead \ {<<i, j>>}) \cup {<<j, i>>}
  /\ arranged' \in BOOLEAN
  /\ UNCHANGED <<waiting, onGpu, gone>>

Remove(j) ==
  /\ waiting' = waiting \ {j}
  /\ ahead' = {e \in ahead : j \notin {e[1], e[2]}}
  /\ arranged' => arranged

Leave(j) == j \in waiting /\ Remove(j) /\ UNCHANGED <<onGpu, gone>>

Grant(j) ==
  /\ j \in waiting /\ \A k \in waiting : <<k, j>> \notin ahead
  /\ onGpu \subseteq gone
  /\ Remove(j)
  /\ onGpu' = {j} /\ gone' = {}

Lost(j) ==
  /\ j \in onGpu \ gone /\ gone' = gone \cup {j}
  /\ UNCHANGED <<waiting, ahead, onGpu, arranged>>

Done(j) ==
  /\ j \in onGpu /\ onGpu' = onGpu \ {j} /\ gone' = gone \ {j}
  /\ UNCHANGED <<waiting, ahead, arranged>>

Next ==
  Arrange \/ \E j \in Jobs : Arrive(j) \/ Leave(j) \/ Grant(j) \/ Lost(j) \/ Done(j)

Spec == Init /\ [][Next]_vars
=============================================================================
