--------------------------- MODULE TaskLanesProofs ---------------------------
(***************************************************************************)
(* Machine-checked proofs about TaskLanes, for any lanes, tasks and lane   *)
(* threads (types, one writer per task, one runner per lane, FIFO order    *)
(* and final ends), and about SelfUpdate, which runs on the lanes.         *)
(*                                                                         *)
(* LanesInv joins the types to four parts: who owns a lane and what it has *)
(* in hand (Owned), what waits (Queued), that nothing is lost (Found), and *)
(* that a lane is worked off in the order of its queue (Ordered).          *)
(***************************************************************************)
EXTENDS SelfUpdate, TLAPS

\* Each thread at work owns its lane; what it has in hand is no other's.
Owned ==
  /\ \A th \in Threads : thread[th].pc # "idle" =>
       thread[th].lane \in Placed /\ laneThread[thread[th].lane] = th
  /\ \A l \in Placed : laneThread[l] # NoThread =>
       thread[laneThread[l]].pc # "idle" /\ thread[laneThread[l]].lane = l
  /\ \A th \in Threads : thread[th].pc \notin {"idle", "take"} =>
       /\ thread[th].task \in Tasks
       /\ lane[thread[th].task] = thread[th].lane
       /\ thread[th].pc \in {"taken", "start"}
            => status[thread[th].task] = "pending"
       /\ thread[th].pc = "work" => status[thread[th].task] = "running"
       /\ thread[th].pc = "close" => Ended(thread[th].task)

\* A waiting task is pending on its lane, and the queue is in task order.
Queued ==
  /\ \A l \in Placed, i \in Nat : i \in 1 .. Len(queue[l]) =>
       lane[queue[l][i]] = l /\ status[queue[l][i]] = "pending"
  /\ \A l \in Placed, i, j \in Nat :
       i \in 1 .. Len(queue[l]) /\ j \in 1 .. Len(queue[l]) /\ i < j =>
         queue[l][i] < queue[l][j]

\* A placed task waits, has ended, or is in the hands of a thread.
Found ==
  /\ \A t \in Tasks : t > clock <=> status[t] = "absent"
  /\ \A t \in Tasks : t > clock => lane[t] = NoLane
  /\ \A t \in Tasks : lane[t] = NoLane => status[t] \in {"absent", "pending"}
  /\ \A t \in Tasks : lane[t] # NoLane =>
       \/ InQueue(t, lane[t]) \/ Ended(t)
       \/ \E th \in Threads :
            thread[th].pc \in {"taken", "start", "work"} /\ thread[th].task = t

\* What left the queue of a lane is older than what is in it, and what a
\* thread has in hand is younger than what ended before it.
Ordered ==
  /\ \A l \in Placed, t \in Tasks, i \in Nat :
       lane[t] = l /\ ~InQueue(t, l) /\ i \in 1 .. Len(queue[l])
         => t < queue[l][i]
  /\ \A th \in Threads, u \in Tasks :
       /\ thread[th].pc \in {"taken", "start", "work"}
       /\ lane[u] = thread[th].lane /\ u # thread[th].task
       /\ ~InQueue(u, thread[th].lane)
       => u < thread[th].task /\ Ended(u)
  /\ \A th \in Threads :
       thread[th].pc \in {"taken", "start", "work"}
         => ~InQueue(thread[th].task, thread[th].lane)

\* Every record on the eviction list is an ended one, and is on it once.
Listed ==
  /\ \A i \in Nat : i \in 1 .. Len(terminalOrder)
       => status[terminalOrder[i]] \in Terminal
  /\ \A i, j \in Nat :
       i \in 1 .. Len(terminalOrder) /\ j \in 1 .. Len(terminalOrder) /\ i # j
         => terminalOrder[i] # terminalOrder[j]

LanesInv == LanesTypeOK /\ Owned /\ Queued /\ Found /\ Ordered /\ Listed

USE DEF Steps, Terminal, TaskStatus

-----------------------------------------------------------------------------
(* Operators of the model.                                                 *)

\* A lane is a pair, NoLane is none.
LEMMA PlacedIsLane == \A l \in Placed : l # NoLane
  BY DEF Placed, NoLane

\* Appending and dropping the first element, element by element.
LEMMA AppendAt ==
  ASSUME NEW S, NEW q \in Seq(S), NEW e \in S
  PROVE  /\ Append(q, e) \in Seq(S) /\ Len(Append(q, e)) = Len(q) + 1
         /\ \A i \in 1 .. Len(q) : Append(q, e)[i] = q[i]
         /\ Append(q, e)[Len(q) + 1] = e
  OBVIOUS

LEMMA TailAt ==
  ASSUME NEW S, NEW q \in Seq(S), q # <<>>
  PROVE  /\ Tail(q) \in Seq(S) /\ Len(Tail(q)) = Len(q) - 1 /\ Len(q) \in Nat
         /\ Len(q) > 0 /\ Head(q) = q[1] /\ Head(q) \in S
         /\ \A i \in 1 .. Len(q) - 1 : Tail(q)[i] = q[i + 1]
  OBVIOUS

\* Queue positions are natural numbers: a place in a list counts from one.
LEMMA RepositionedType ==
  ASSUME NEW l, NEW q \in Seq(Tasks), NEW a \in {0, 1},
         position \in [Tasks -> Nat]
  PROVE  Repositioned(l, q, a) \in [Tasks -> Nat]
  <1> SUFFICES ASSUME NEW t \in Tasks PROVE Repositioned(l, q, a)[t] \in Nat
    BY DEF Repositioned
  <1>1. CASE \E i \in 1 .. Len(q) : q[i] = t
    <2> DEFINE k == CHOOSE i \in 1 .. Len(q) : q[i] = t
    <2>1. k \in 1 .. Len(q)
      BY <1>1
    <2>2. Repositioned(l, q, a)[t] = k - 1 + a
      BY <1>1 DEF Repositioned
    <2> HIDE DEF k
    <2>3. k - 1 + a \in Nat
      BY <2>1
    <2> QED
      BY <2>2, <2>3
  <1>2. CASE ~ \E i \in 1 .. Len(q) : q[i] = t
    BY <1>2 DEF Repositioned
  <1> QED
    BY <1>1, <1>2

\* Ending a task: its record ends, at most one other ended record is evicted,
\* and the eviction list stays what it is.
LEMMA FinishEffect ==
  ASSUME LanesTypeOK, Listed, NEW t \in Tasks, NEW final \in Terminal,
         status[t] \notin Terminal, Finish(t, final)
  PROVE  /\ status' \in [Tasks -> TaskStatus] /\ cancels' \subseteq Tasks
         /\ terminalOrder' \in Seq(Tasks)
         /\ status'[t] = final
         /\ \A u \in Tasks \ {t} :
              status'[u] = status[u]
              \/ (status[u] \in Terminal /\ status'[u] = "evicted")
         /\ Listed'
  <1> DEFINE n == Len(terminalOrder)
             order == Append(terminalOrder, t)
  <1>1. /\ n \in Nat /\ terminalOrder \in Seq(Tasks)
        /\ status \in [Tasks -> TaskStatus] /\ cancels \subseteq Tasks
        /\ MaxTerminal \in Nat \ {0}
    BY TaskLanesAssumption DEF LanesTypeOK, TasksOK
  <1>2. /\ order \in Seq(Tasks) /\ Len(order) = n + 1 /\ order # <<>>
        /\ \A i \in 1 .. n : order[i] = terminalOrder[i]
        /\ order[n + 1] = t
    BY <1>1, AppendAt
  <1>3. \A i \in 1 .. n : terminalOrder[i] \in Tasks /\ terminalOrder[i] # t
    BY <1>1 DEF Listed
  <1> HIDE DEF order, n
  <1>4. CASE n + 1 > MaxTerminal
    <2>1. /\ terminalOrder' = Tail(order)
          /\ status' = [status EXCEPT ![t] = final, ![Head(order)] = "evicted"]
          /\ cancels' = cancels \ {Head(order)}
      BY <1>2, <1>4 DEF Finish, order
    <2>2. n \in Nat /\ n >= 1
      BY <1>1, <1>4
    <2>3. Head(order) = terminalOrder[1] /\ terminalOrder[1] \in Tasks
          /\ terminalOrder[1] # t
      BY <1>2, <1>3, <2>2, TailAt
    <2>4. /\ Tail(order) \in Seq(Tasks) /\ Len(Tail(order)) = n
          /\ \A i \in 1 .. n : Tail(order)[i] = order[i + 1]
      BY <1>2, <2>2, TailAt
    <2>5. status[terminalOrder[1]] \in Terminal
      BY <2>2 DEF Listed, n
    <2>6. /\ status' \in [Tasks -> TaskStatus] /\ status'[t] = final
          /\ status'[terminalOrder[1]] = "evicted"
          /\ \A u \in Tasks : u # t /\ u # terminalOrder[1]
               => status'[u] = status[u]
      BY <1>1, <2>1, <2>3
    <2>7. \A i \in 1 .. n : Tail(order)[i] =
            IF i = n THEN t ELSE terminalOrder[i + 1]
      BY <1>2, <2>2, <2>4
    <2>8. ASSUME NEW i \in Nat, i \in 1 .. n
          PROVE  status'[Tail(order)[i]] \in Terminal
      <3>1. CASE i = n
        BY <3>1, <2>6, <2>7, <2>2, <2>8
      <3>2. CASE i # n
        <4>1. i + 1 \in 1 .. n /\ i + 1 # 1 /\ i + 1 \in Nat /\ 1 \in 1 .. n
          BY <2>8, <3>2, <2>2
        <4>2. /\ terminalOrder[i + 1] # terminalOrder[1]
              /\ terminalOrder[i + 1] # t /\ terminalOrder[i + 1] \in Tasks
              /\ status[terminalOrder[i + 1]] \in Terminal
          BY <4>1, <1>3 DEF Listed, n
        <4> QED
          BY <4>2, <2>6, <2>7, <2>8, <3>2
      <3> QED
        BY <3>1, <3>2
    <2>9. ASSUME NEW i \in Nat, NEW j \in Nat, i \in 1 .. n, j \in 1 .. n, i # j
          PROVE  Tail(order)[i] # Tail(order)[j]
      <3>1. /\ i # n => i + 1 \in 1 .. n /\ terminalOrder[i + 1] # t
            /\ j # n => j + 1 \in 1 .. n /\ terminalOrder[j + 1] # t
        BY <1>3, <2>2, <2>9
      <3>2. i # n /\ j # n => terminalOrder[i + 1] # terminalOrder[j + 1]
        BY <3>1, <2>9 DEF Listed, n
      <3> QED
        BY <3>1, <3>2, <2>7, <2>9
    <2>10. Listed'
      BY <2>1, <2>4, <2>8, <2>9 DEF Listed
    <2> QED
      BY <1>1, <2>1, <2>3, <2>4, <2>5, <2>6, <2>10
  <1>5. CASE ~(n + 1 > MaxTerminal)
    <2>1. /\ terminalOrder' = order /\ cancels' = cancels
          /\ status' = [status EXCEPT ![t] = final]
      BY <1>2, <1>5 DEF Finish, order
    <2>2. \A i \in 1 .. n + 1 : order[i] = IF i = n + 1 THEN t
                                           ELSE terminalOrder[i]
      BY <1>1, <1>2
    <2>3. ASSUME NEW i \in Nat, i \in 1 .. n + 1
          PROVE  status'[order[i]] \in Terminal
      <3>1. i # n + 1 => i \in 1 .. n /\ terminalOrder[i] \in Tasks
                         /\ terminalOrder[i] # t
                         /\ status[terminalOrder[i]] \in Terminal
        BY <1>1, <1>3, <2>3 DEF Listed, n
      <3> QED
        BY <1>1, <2>1, <2>2, <2>3, <3>1
    <2>4. ASSUME NEW i \in Nat, NEW j \in Nat, i \in 1 .. n + 1,
                 j \in 1 .. n + 1, i # j
          PROVE  order[i] # order[j]
      <3>1. /\ i # n + 1 => i \in 1 .. n /\ terminalOrder[i] # t
            /\ j # n + 1 => j \in 1 .. n /\ terminalOrder[j] # t
        BY <1>1, <1>3, <2>4
      <3>2. i # n + 1 /\ j # n + 1 => terminalOrder[i] # terminalOrder[j]
        BY <3>1, <2>4 DEF Listed, n
      <3> QED
        BY <3>1, <3>2, <2>2, <2>4
    <2>5. Listed'
      BY <1>2, <2>1, <2>3, <2>4 DEF Listed
    <2> QED
      BY <1>1, <1>2, <2>1, <2>5
  <1> QED
    BY <1>1, <1>4, <1>5

-----------------------------------------------------------------------------
(* The invariant, action by action.                                        *)

LEMMA InitInv == LanesInit => LanesInv
  <1> SUFFICES ASSUME LanesInit PROVE LanesInv
    OBVIOUS
  <1> USE TaskLanesAssumption DEF LanesInit, Tasks
  <1>1. LanesTypeOK
    <2>1. TasksOK
      BY DEF TasksOK
    <2>2. ThreadsOK
      BY DEF ThreadsOK, Idle
    <2>3. queue \in [Placed -> Seq(Tasks)]
      <3> HIDE DEF Tasks
      <3> QED
        OBVIOUS
    <2> QED
      BY <2>1, <2>2, <2>3 DEF LanesTypeOK
  <1>2. Owned
    BY DEF Owned, Idle
  <1>3. Queued /\ Listed
    BY DEF Queued, Listed
  <1>4. Found
    BY DEF Found
  <1>5. Ordered
    BY DEF Ordered, Idle, NoLane
  <1> QED
    BY <1>1, <1>2, <1>3, <1>4, <1>5 DEF LanesInv

\* A new record: one more task, pending, of the next number.
LEMMA CreatedEffect ==
  ASSUME LanesInv, NEW t \in Tasks, Created(t)
  PROVE  /\ clock' = t /\ t = clock + 1 /\ clock' \in 0 .. NumTasks
         /\ clock \in Nat
         /\ status' \in [Tasks -> TaskStatus]
         /\ status[t] = "absent" /\ status'[t] = "pending"
         /\ \A u \in Tasks \ {t} : status'[u] = status[u]
         /\ lane[t] = NoLane
         /\ \A l \in Placed : ~InQueue(t, l)
         /\ \A th \in Threads : thread[th].pc \notin {"idle", "take"}
              => thread[th].task # t
         /\ \A i \in 1 .. Len(terminalOrder) : terminalOrder[i] # t
  <1>1. /\ clock' = t /\ t = clock + 1 /\ clock' \in 0 .. NumTasks
        /\ clock \in Nat /\ status \in [Tasks -> TaskStatus]
        /\ terminalOrder \in Seq(Tasks)
    BY DEF Created, Tasks, LanesInv, LanesTypeOK, TasksOK
  <1>2. status[t] = "absent" /\ lane[t] = NoLane
    BY <1>1 DEF LanesInv, Found, Tasks
  <1>3. /\ status' \in [Tasks -> TaskStatus] /\ status'[t] = "pending"
        /\ \A u \in Tasks \ {t} : status'[u] = status[u]
    BY <1>1 DEF Created
  <1>4. ASSUME NEW l \in Placed, InQueue(t, l) PROVE FALSE
    BY <1>2, <1>4 DEF LanesInv, Queued, InQueue
  <1>5. ASSUME NEW th \in Threads, thread[th].pc \notin {"idle", "take"},
               thread[th].task = t
        PROVE  FALSE
    <2>1. thread[th].pc \in {"taken", "start", "work", "close"}
      BY <1>5 DEF LanesInv, LanesTypeOK, ThreadsOK
    <2>2. status[t] \in {"pending", "running"} \cup Terminal \cup {"evicted"}
      BY <1>5, <2>1 DEF LanesInv, Owned, Ended
    <2> QED
      BY <1>2, <2>2
  <1>6. ASSUME NEW i \in 1 .. Len(terminalOrder), terminalOrder[i] = t
        PROVE  FALSE
    BY <1>1, <1>2, <1>6 DEF LanesInv, Listed
  <1> QED
    BY <1>1, <1>2, <1>3, <1>4, <1>5, <1>6

LEMMA RefusedInv ==
  ASSUME LanesInv, NEW kind \in Placed, SubmitRefused(kind)
  PROVE  LanesInv'
  <1> PICK t \in Tasks :
        /\ Created(t)
        /\ UNCHANGED <<lane, position, cancels, terminalOrder, laneVars,
                       draining>>
    BY DEF SubmitRefused
  <1> USE DEF laneVars
  <1>0. /\ clock' = t /\ t = clock + 1 /\ clock' \in 0 .. NumTasks
        /\ clock \in Nat
        /\ status' \in [Tasks -> TaskStatus]
        /\ status[t] = "absent" /\ status'[t] = "pending"
        /\ \A u \in Tasks \ {t} : status'[u] = status[u]
        /\ lane[t] = NoLane
        /\ \A l \in Placed : ~InQueue(t, l)
        /\ \A th \in Threads : thread[th].pc \notin {"idle", "take"}
             => thread[th].task # t
        /\ \A i \in 1 .. Len(terminalOrder) : terminalOrder[i] # t
    BY CreatedEffect
  <1>1. LanesTypeOK'
    BY <1>0 DEF LanesInv, LanesTypeOK, TasksOK, ThreadsOK
  <1>2. Owned'
    <2>1. ASSUME NEW th \in Threads, thread[th].pc \notin {"idle", "take"}
          PROVE  /\ thread[th].pc \in {"taken", "start"}
                      => status'[thread[th].task] = "pending"
                 /\ thread[th].pc = "work" => status'[thread[th].task] = "running"
                 /\ thread[th].pc = "close"
                      => status'[thread[th].task] \in Terminal \cup {"evicted"}
      <3>1. status'[thread[th].task] = status[thread[th].task]
        BY <1>0, <2>1 DEF LanesInv, Owned
      <3> QED
        BY <2>1, <3>1 DEF LanesInv, Owned, Ended
    <2> QED
      BY <1>0, <2>1 DEF LanesInv, Owned, Ended
  <1>3. Queued'
    <2>1. \A l \in Placed : \A i \in 1 .. Len(queue[l]) :
            queue[l][i] \in Tasks \ {t}
      BY <1>0 DEF LanesInv, InQueue, LanesTypeOK
    <2>2. ASSUME NEW l \in Placed, NEW i \in Nat, i \in 1 .. Len(queue[l])
          PROVE  lane[queue[l][i]] = l /\ status'[queue[l][i]] = "pending"
      <3>1. PICK w \in Tasks \ {t} : w = queue[l][i]
        BY <2>1, <2>2
      <3>2. lane[w] = l /\ status[w] = "pending"
        BY <2>2, <3>1 DEF LanesInv, Queued
      <3> QED
        BY <1>0, <3>1, <3>2
    <2> QED
      BY <2>2 DEF LanesInv, Queued
  <1>4. Found'
    <2>1. \A u \in Tasks : u > clock' <=> status'[u] = "absent"
      BY <1>0 DEF LanesInv, Found, Tasks
    <2>2. \A u \in Tasks : u > clock' => lane[u] = NoLane
      BY <1>0 DEF LanesInv, Found, Tasks
    <2> QED
      BY <1>0, <2>1, <2>2 DEF LanesInv, Found, InQueue, Ended
  <1>5. Ordered'
    BY <1>0 DEF LanesInv, Ordered, InQueue, Ended
  <1>6. Listed'
    <2>1. \A i \in 1 .. Len(terminalOrder) : terminalOrder[i] \in Tasks \ {t}
      BY <1>0 DEF LanesInv, LanesTypeOK, TasksOK
    <2> QED
      BY <1>0, <2>1 DEF LanesInv, Listed
  <1> QED
    BY <1>1, <1>2, <1>3, <1>4, <1>5, <1>6 DEF LanesInv

LEMMA CancelInv ==
  ASSUME LanesInv, NEW t \in Tasks, Cancel(t)
  PROVE  LanesInv'
  <1> USE DEF Cancel, laneVars
  <1>1. LanesTypeOK'
    BY DEF LanesInv, LanesTypeOK, TasksOK, ThreadsOK
  <1>2. Owned' /\ Queued' /\ Found' /\ Ordered' /\ Listed'
    BY DEF LanesInv, Owned, Queued, Found, Ordered, Listed, InQueue, Ended
  <1> QED
    BY <1>1, <1>2 DEF LanesInv

LEMMA DrainInv ==
  ASSUME LanesInv, NEW on \in BOOLEAN, SetDraining(on)
  PROVE  LanesInv'
  <1> USE DEF SetDraining, laneVars, taskVars
  <1>1. LanesTypeOK'
    BY DEF LanesInv, LanesTypeOK, TasksOK, ThreadsOK
  <1>2. Owned' /\ Queued' /\ Found' /\ Ordered' /\ Listed'
    BY DEF LanesInv, Owned, Queued, Found, Ordered, Listed, InQueue, Ended
  <1> QED
    BY <1>1, <1>2 DEF LanesInv

\* What a thread in the hand of a lane is allowed to rely on.
LEMMA AtWork ==
  ASSUME LanesInv, NEW th \in Threads, thread[th].pc # "idle"
  PROVE  /\ thread[th] \in [pc : Steps \cup {"idle"}, lane : Placed \cup {NoLane},
                            task : Tasks \cup {NoTask}]
         /\ thread[th].lane \in Placed /\ laneThread[thread[th].lane] = th
         /\ \A u \in Threads : thread[u].pc # "idle"
              /\ thread[u].lane = thread[th].lane => u = th
         /\ thread[th].pc # "take" => thread[th].task \in Tasks
         /\ queue[thread[th].lane] \in Seq(Tasks)
  BY DEF LanesInv, Owned, LanesTypeOK, ThreadsOK

\* Giving up an empty lane.
LEMMA RetireInv ==
  ASSUME LanesInv, NEW th \in Threads, Retire(th)
  PROVE  LanesInv'
  <1> DEFINE l == thread[th].lane
  <1> USE DEF taskVars
  <1>0. /\ thread[th].pc = "take" /\ queue[l] = <<>>
        /\ laneThread' = [laneThread EXCEPT ![l] = NoThread]
        /\ laneActive' = [laneActive EXCEPT ![l] = NoTask]
        /\ thread' = [thread EXCEPT ![th] = Idle]
        /\ UNCHANGED <<clock, status, lane, position, cancels, terminalOrder,
                       queue, draining>>
    BY DEF Retire
  <1>1. /\ l \in Placed /\ laneThread[l] = th
        /\ \A u \in Threads : thread[u].pc # "idle" /\ thread[u].lane = l => u = th
    BY <1>0, AtWork
  <1>2. /\ thread'[th] = Idle /\ \A u \in Threads \ {th} : thread'[u] = thread[u]
        /\ laneThread'[l] = NoThread
        /\ \A k \in Placed \ {l} : laneThread'[k] = laneThread[k]
    BY <1>0, <1>1 DEF LanesInv, LanesTypeOK, ThreadsOK
  <1> HIDE DEF l
  <1>3. LanesTypeOK'
    BY <1>0 DEF LanesInv, LanesTypeOK, TasksOK, ThreadsOK, Idle
  <1>4. Owned'
    BY <1>0, <1>1, <1>2, TaskLanesAssumption
    DEF LanesInv, Owned, Ended, Idle, LanesTypeOK, ThreadsOK
  <1>5. Queued' /\ Listed'
    BY <1>0 DEF LanesInv, Queued, Listed
  <1>6. Found'
    BY <1>0, <1>2 DEF LanesInv, Found, InQueue, Ended
  <1>7. Ordered'
    BY <1>0, <1>2 DEF LanesInv, Ordered, InQueue, Ended, Idle
  <1> QED
    BY <1>3, <1>4, <1>5, <1>6, <1>7 DEF LanesInv

\* Clearing the marker and going back to the queue.
LEMMA CloseInv ==
  ASSUME LanesInv, NEW th \in Threads, Close(th)
  PROVE  LanesInv'
  <1> USE DEF taskVars
  <1>0. /\ thread[th].pc = "close"
        /\ laneActive' = [laneActive EXCEPT ![thread[th].lane] = NoTask]
        /\ thread' = [thread EXCEPT ![th].pc = "take", ![th].task = NoTask]
        /\ UNCHANGED <<clock, status, lane, position, cancels, terminalOrder,
                       queue, laneThread, draining>>
    BY DEF Close
  <1>1. /\ thread[th].lane \in Placed
        /\ thread[th] \in [pc : Steps \cup {"idle"}, lane : Placed \cup {NoLane},
                           task : Tasks \cup {NoTask}]
    BY <1>0, AtWork
  <1>2. /\ thread'[th] = [thread[th] EXCEPT !.pc = "take", !.task = NoTask]
        /\ thread'[th].pc = "take" /\ thread'[th].lane = thread[th].lane
        /\ \A u \in Threads \ {th} : thread'[u] = thread[u]
    BY <1>0, <1>1 DEF LanesInv, LanesTypeOK, ThreadsOK
  <1>3. LanesTypeOK'
    <2>1. thread' \in [Threads -> [pc : Steps \cup {"idle"},
                                  lane : Placed \cup {NoLane},
                                  task : Tasks \cup {NoTask}]]
      BY <1>0, <1>1, <1>2 DEF LanesInv, LanesTypeOK, ThreadsOK
    <2> QED
      BY <1>0, <2>1 DEF LanesInv, LanesTypeOK, TasksOK, ThreadsOK
  <1>4. Owned'
    BY <1>0, <1>2 DEF LanesInv, Owned, Ended, LanesTypeOK, ThreadsOK
  <1>5. Queued' /\ Listed'
    BY <1>0 DEF LanesInv, Queued, Listed
  <1>6. \A u \in Threads :
          /\ thread[u].pc \in {"taken", "start", "work"} => thread'[u] = thread[u]
          /\ thread'[u].pc \in {"taken", "start", "work"} => thread'[u] = thread[u]
    BY <1>0, <1>2
  <1>7. Found'
    <2>1. ASSUME NEW t \in Tasks, lane[t] # NoLane
          PROVE  \/ InQueue(t, lane[t]) \/ Ended(t)
                 \/ \E u \in Threads :
                      thread'[u].pc \in {"taken", "start", "work"}
                      /\ thread'[u].task = t
      BY <1>6, <2>1 DEF LanesInv, Found
    <2> QED
      BY <1>0, <2>1 DEF LanesInv, Found, InQueue, Ended
  <1>8. Ordered'
    <2>1. ASSUME NEW u \in Threads, thread'[u].pc \in {"taken", "start", "work"}
          PROVE  thread'[u] = thread[u]
      BY <1>6, <2>1
    <2>2. /\ queue' = queue /\ lane' = lane
          /\ \A t \in Tasks, k \in Placed : InQueue(t, k)' <=> InQueue(t, k)
          /\ \A t \in Tasks : Ended(t)' <=> Ended(t)
      BY <1>0 DEF InQueue, Ended
    <2> QED
      BY <2>1, <2>2 DEF LanesInv, Ordered, Owned
  <1> QED
    BY <1>3, <1>4, <1>5, <1>7, <1>8 DEF LanesInv

\* A thread ends the task in its hand: no later step can touch the record but
\* an eviction, and the lane is free for the next in order.
LEMMA EndInv ==
  ASSUME LanesInv, NEW th \in Threads, thread[th].pc \in {"taken", "work"},
         NEW final \in Terminal, Finish(thread[th].task, final),
         thread' = [thread EXCEPT ![th].pc = "close"],
         UNCHANGED <<clock, lane, position, queue, laneThread, laneActive,
                     draining>>
  PROVE  LanesInv'
  <1> PICK t \in Tasks : t = thread[th].task
    BY AtWork
  <1>0. /\ thread[th].lane \in Placed /\ t \in Tasks
        /\ thread[th] \in [pc : Steps \cup {"idle"}, lane : Placed \cup {NoLane},
                           task : Tasks \cup {NoTask}]
        /\ \A u \in Threads : thread[u].pc # "idle"
             /\ thread[u].lane = thread[th].lane => u = th
    BY AtWork
  <1>1. lane[t] = thread[th].lane /\ status[t] \in {"pending", "running"}
    BY DEF LanesInv, Owned
  <1>2. /\ status' \in [Tasks -> TaskStatus] /\ cancels' \subseteq Tasks
        /\ terminalOrder' \in Seq(Tasks)
        /\ status'[t] = final
        /\ \A u \in Tasks \ {t} :
             status'[u] = status[u]
             \/ (status[u] \in Terminal /\ status'[u] = "evicted")
        /\ Listed'
    BY <1>0, <1>1, FinishEffect DEF LanesInv
  <1>3. /\ thread'[th] = [thread[th] EXCEPT !.pc = "close"]
        /\ thread'[th].pc = "close" /\ thread'[th].lane = thread[th].lane
        /\ thread'[th].task = t
        /\ \A u \in Threads \ {th} : thread'[u] = thread[u]
    BY <1>0 DEF LanesInv, LanesTypeOK, ThreadsOK
  <1>4. LanesTypeOK'
    <2>1. thread' \in [Threads -> [pc : Steps \cup {"idle"},
                                  lane : Placed \cup {NoLane},
                                  task : Tasks \cup {NoTask}]]
      BY <1>0, <1>3 DEF LanesInv, LanesTypeOK, ThreadsOK
    <2> QED
      BY <1>2, <2>1 DEF LanesInv, LanesTypeOK, TasksOK, ThreadsOK
  <1>5. \A u \in Threads \ {th} : thread[u].pc \notin {"idle", "take"}
          => thread[u].task \in Tasks /\ thread[u].task # t
    BY <1>0, <1>1 DEF LanesInv, Owned
  <1>6. \A u \in Tasks : /\ Ended(u) => Ended(u)'
                         /\ u # t /\ ~Ended(u) => status'[u] = status[u]
    BY <1>2 DEF Ended
  <1>7. Ended(t)'
    BY <1>2 DEF Ended
  <1>8. Owned'
    <2>1. ASSUME NEW u \in Threads, thread'[u].pc \notin {"idle", "take"}
          PROVE  /\ thread'[u].task \in Tasks
                 /\ lane[thread'[u].task] = thread'[u].lane
                 /\ thread'[u].pc \in {"taken", "start"}
                      => status'[thread'[u].task] = "pending"
                 /\ thread'[u].pc = "work" => status'[thread'[u].task] = "running"
                 /\ thread'[u].pc = "close"
                      => status'[thread'[u].task] \in Terminal \cup {"evicted"}
      <3>1. CASE u = th
        BY <1>0, <1>1, <1>2, <1>3, <3>1
      <3>2. CASE u # th
        <4>1. /\ thread'[u] = thread[u] /\ thread[u].task \in Tasks
              /\ thread[u].task # t
              /\ lane[thread[u].task] = thread[u].lane
          BY <1>3, <1>5, <2>1, <3>2 DEF LanesInv, Owned
        <4>2. /\ thread[u].pc \in {"taken", "start"}
                   => status[thread[u].task] = "pending"
              /\ thread[u].pc = "work" => status[thread[u].task] = "running"
              /\ thread[u].pc = "close" => Ended(thread[u].task)
          BY <2>1, <4>1 DEF LanesInv, Owned
        <4> QED
          BY <4>1, <4>2, <1>6 DEF Ended
      <3> QED
        BY <3>1, <3>2
    <2>2. /\ \A u \in Threads : thread'[u].pc # "idle" =>
               thread'[u].lane \in Placed /\ laneThread[thread'[u].lane] = u
          /\ \A k \in Placed : laneThread[k] # NoThread =>
               thread'[laneThread[k]].pc # "idle"
               /\ thread'[laneThread[k]].lane = k
      BY <1>0, <1>3 DEF LanesInv, Owned, LanesTypeOK, ThreadsOK
    <2> QED
      BY <2>1, <2>2 DEF Owned, Ended
  <1>9. \A k \in Placed : \A i \in 1 .. Len(queue[k]) :
          queue[k][i] \in Tasks \ {t}
    <2>1. ~InQueue(t, thread[th].lane) \/ status[t] # "pending"
      BY DEF LanesInv, Ordered
    <2>2. ASSUME NEW k \in Placed, NEW i \in 1 .. Len(queue[k])
          PROVE  queue[k][i] \in Tasks \ {t}
      <3>1. i \in Nat /\ queue[k][i] \in Tasks
        BY DEF LanesInv, LanesTypeOK
      <3>2. lane[queue[k][i]] = k /\ status[queue[k][i]] = "pending"
        BY <3>1 DEF LanesInv, Queued
      <3> QED
        BY <1>1, <2>1, <3>1, <3>2 DEF InQueue
    <2> QED
      BY <2>2
  <1>10. Queued'
    <2>1. ASSUME NEW k \in Placed, NEW i \in Nat, i \in 1 .. Len(queue[k])
          PROVE  lane[queue[k][i]] = k /\ status'[queue[k][i]] = "pending"
      <3>1. lane[queue[k][i]] = k /\ status[queue[k][i]] = "pending"
            /\ queue[k][i] \in Tasks \ {t}
        BY <1>9, <2>1 DEF LanesInv, Queued
      <3> QED
        BY <3>1, <1>6 DEF Ended
    <2> QED
      BY <2>1 DEF LanesInv, Queued
  <1>11. \A u \in Threads \ {th} : thread'[u] = thread[u]
    BY <1>3
  <1>12. Found'
    <2>1. \A u \in Tasks : u > clock <=> status'[u] = "absent"
      BY <1>1, <1>2 DEF LanesInv, Found
    <2>2. \A u \in Tasks : lane[u] = NoLane => status'[u] \in {"absent", "pending"}
      <3>1. lane[t] # NoLane
        BY <1>1 DEF LanesInv, Found, Owned, Placed, NoLane
      <3> QED
        BY <1>2, <3>1 DEF LanesInv, Found
    <2>3. ASSUME NEW u \in Tasks, lane[u] # NoLane
          PROVE  \/ InQueue(u, lane[u]) \/ Ended(u)'
                 \/ \E v \in Threads :
                      thread'[v].pc \in {"taken", "start", "work"}
                      /\ thread'[v].task = u
      <3>1. CASE u = t
        BY <1>7, <3>1
      <3>2. CASE u # t
        <4>1. \/ InQueue(u, lane[u]) \/ Ended(u)
              \/ \E v \in Threads :
                   thread[v].pc \in {"taken", "start", "work"} /\ thread[v].task = u
          BY <2>3 DEF LanesInv, Found
        <4> QED
          BY <4>1, <3>2, <1>6, <1>11
      <3> QED
        BY <3>1, <3>2
    <2> QED
      BY <2>1, <2>2, <2>3 DEF LanesInv, Found, InQueue
  <1>13. Ordered'
    <2>1. ASSUME NEW u \in Threads, thread'[u].pc \in {"taken", "start", "work"}
          PROVE  thread'[u] = thread[u]
      BY <1>3, <2>1
    <2>2. \A u \in Tasks, k \in Placed : InQueue(u, k)' <=> InQueue(u, k)
      BY DEF InQueue
    <2> QED
      BY <1>6, <2>1, <2>2 DEF LanesInv, Ordered, Owned
  <1> QED
    BY <1>2, <1>4, <1>8, <1>10, <1>12, <1>13 DEF LanesInv

LEMMA CheckInv ==
  ASSUME LanesInv, NEW th \in Threads, Check(th)
  PROVE  LanesInv'
  <1>1. CASE thread[th].task \in cancels
    BY <1>1, EndInv DEF Check
  <1>2. CASE thread[th].task \notin cancels
    <2>0. /\ thread[th].pc = "taken"
          /\ thread' = [thread EXCEPT ![th].pc = "start"]
          /\ UNCHANGED <<clock, status, lane, position, cancels, terminalOrder,
                         queue, laneThread, laneActive, draining>>
      BY <1>2 DEF Check
    <2>1. /\ thread[th].lane \in Placed /\ thread[th].task \in Tasks
          /\ thread[th] \in [pc : Steps \cup {"idle"}, lane : Placed \cup {NoLane},
                             task : Tasks \cup {NoTask}]
      BY <2>0, AtWork
    <2>2. /\ thread'[th] = [thread[th] EXCEPT !.pc = "start"]
          /\ thread'[th].pc = "start" /\ thread'[th].lane = thread[th].lane
          /\ thread'[th].task = thread[th].task
          /\ \A u \in Threads \ {th} : thread'[u] = thread[u]
      BY <2>0, <2>1 DEF LanesInv, LanesTypeOK, ThreadsOK
    <2>3. LanesTypeOK'
      <3>1. thread' \in [Threads -> [pc : Steps \cup {"idle"},
                                    lane : Placed \cup {NoLane},
                                    task : Tasks \cup {NoTask}]]
        BY <2>0, <2>1, <2>2 DEF LanesInv, LanesTypeOK, ThreadsOK
      <3> QED
        BY <2>0, <3>1 DEF LanesInv, LanesTypeOK, TasksOK, ThreadsOK
    <2>4. Owned'
      BY <2>0, <2>2 DEF LanesInv, Owned, Ended, LanesTypeOK, ThreadsOK
    <2>5. Queued' /\ Listed'
      BY <2>0 DEF LanesInv, Queued, Listed
    <2>6. \A u \in Threads :
            /\ thread'[u].lane = thread[u].lane /\ thread'[u].task = thread[u].task
            /\ thread'[u].pc \in {"taken", "start", "work"}
                 <=> thread[u].pc \in {"taken", "start", "work"}
      BY <2>0, <2>2
    <2>7. /\ \A t \in Tasks, k \in Placed : InQueue(t, k)' <=> InQueue(t, k)
          /\ \A t \in Tasks : Ended(t)' <=> Ended(t)
      BY <2>0 DEF InQueue, Ended
    <2>8. Found'
      <3>1. ASSUME NEW t \in Tasks, lane[t] # NoLane
            PROVE  \/ InQueue(t, lane[t]) \/ Ended(t)
                   \/ \E u \in Threads :
                        thread'[u].pc \in {"taken", "start", "work"}
                        /\ thread'[u].task = t
        BY <2>6, <3>1 DEF LanesInv, Found
      <3> QED
        BY <2>0, <3>1 DEF LanesInv, Found, InQueue, Ended
    <2>9. Ordered'
      <3>1. \A th2 \in Threads : thread'[th2].pc \in {"taken", "start", "work"}
              => ~InQueue(thread[th2].task, thread[th2].lane)
        BY <2>6 DEF LanesInv, Ordered
      <3>2. \A th2 \in Threads : thread'[th2].pc \in {"taken", "start", "work"}
              => ~InQueue(thread[th2].task, thread[th2].lane)'
        BY <2>0, <2>6, <3>1 DEF InQueue
      <3>3. ASSUME NEW v \in Threads, NEW u \in Tasks,
                   thread'[v].pc \in {"taken", "start", "work"},
                   lane'[u] = thread'[v].lane, u # thread'[v].task,
                   ~InQueue(u, thread[v].lane)'
            PROVE  u < thread'[v].task /\ Ended(u)'
        <4>1. ~InQueue(u, thread[v].lane)
          BY <2>0, <2>6, <3>3 DEF InQueue
        <4> QED
          BY <2>0, <2>6, <2>7, <3>3, <4>1 DEF LanesInv, Ordered
      <3>4. \A k \in Placed, t \in Tasks, i \in Nat :
              lane'[t] = k /\ ~InQueue(t, k)' /\ i \in 1 .. Len(queue'[k])
                => t < queue'[k][i]
        BY <2>0, <2>7 DEF LanesInv, Ordered
      <3> QED
        BY <3>2, <3>3, <3>4 DEF Ordered
    <2> QED
      BY <2>3, <2>4, <2>5, <2>8, <2>9 DEF LanesInv
  <1> QED
    BY <1>1, <1>2

\* start: the pending record in the hand of the thread runs.
LEMMA StartInv ==
  ASSUME LanesInv, NEW th \in Threads, Start(th)
  PROVE  LanesInv'
  <1> PICK t \in Tasks : t = thread[th].task
    BY AtWork DEF Start
  <1>0. /\ thread[th].pc = "start"
        /\ status' = [status EXCEPT ![t] = "running"]
        /\ position' = [position EXCEPT ![t] = 0]
        /\ thread' = [thread EXCEPT ![th].pc = "work"]
        /\ UNCHANGED <<clock, lane, cancels, terminalOrder, queue, laneThread,
                       laneActive, draining>>
    BY DEF Start
  <1>1. /\ thread[th].lane \in Placed
        /\ thread[th] \in [pc : Steps \cup {"idle"}, lane : Placed \cup {NoLane},
                           task : Tasks \cup {NoTask}]
        /\ \A u \in Threads : thread[u].pc # "idle"
             /\ thread[u].lane = thread[th].lane => u = th
        /\ lane[t] = thread[th].lane /\ status[t] = "pending"
    BY <1>0, AtWork DEF LanesInv, Owned
  <1>2. /\ thread'[th] = [thread[th] EXCEPT !.pc = "work"]
        /\ thread'[th].pc = "work" /\ thread'[th].lane = thread[th].lane
        /\ thread'[th].task = t
        /\ \A u \in Threads \ {th} : thread'[u] = thread[u]
        /\ status'[t] = "running" /\ status' \in [Tasks -> TaskStatus]
        /\ \A u \in Tasks \ {t} : status'[u] = status[u]
    BY <1>0, <1>1 DEF LanesInv, LanesTypeOK, ThreadsOK, TasksOK
  <1>3. LanesTypeOK'
    <2>1. thread' \in [Threads -> [pc : Steps \cup {"idle"},
                                  lane : Placed \cup {NoLane},
                                  task : Tasks \cup {NoTask}]]
      BY <1>0, <1>1, <1>2 DEF LanesInv, LanesTypeOK, ThreadsOK
    <2> QED
      BY <1>0, <1>2, <2>1 DEF LanesInv, LanesTypeOK, TasksOK, ThreadsOK
  <1>4. \A u \in Threads \ {th} : thread[u].pc \notin {"idle", "take"}
          => thread[u].task \in Tasks /\ thread[u].task # t
    BY <1>1 DEF LanesInv, Owned
  <1>5. Owned'
    <2>1. ASSUME NEW u \in Threads, thread'[u].pc \notin {"idle", "take"}
          PROVE  /\ thread'[u].task \in Tasks
                 /\ lane[thread'[u].task] = thread'[u].lane
                 /\ thread'[u].pc \in {"taken", "start"}
                      => status'[thread'[u].task] = "pending"
                 /\ thread'[u].pc = "work" => status'[thread'[u].task] = "running"
                 /\ thread'[u].pc = "close"
                      => status'[thread'[u].task] \in Terminal \cup {"evicted"}
      <3>1. CASE u = th
        BY <1>1, <1>2, <3>1
      <3>2. CASE u # th
        <4>1. /\ thread'[u] = thread[u] /\ thread[u].task \in Tasks
              /\ status'[thread[u].task] = status[thread[u].task]
              /\ lane[thread[u].task] = thread[u].lane
          BY <1>2, <1>4, <2>1, <3>2 DEF LanesInv, Owned
        <4> QED
          BY <2>1, <4>1 DEF LanesInv, Owned, Ended
      <3> QED
        BY <3>1, <3>2
    <2>2. /\ \A u \in Threads : thread'[u].pc # "idle" =>
               thread'[u].lane \in Placed /\ laneThread[thread'[u].lane] = u
          /\ \A k \in Placed : laneThread[k] # NoThread =>
               thread'[laneThread[k]].pc # "idle"
               /\ thread'[laneThread[k]].lane = k
      BY <1>0, <1>1, <1>2 DEF LanesInv, Owned, LanesTypeOK, ThreadsOK
    <2> QED
      BY <1>0, <2>1, <2>2 DEF Owned, Ended
  <1>6. ~InQueue(t, thread[th].lane)
    BY <1>0 DEF LanesInv, Ordered
  <1>7. Queued'
    <2>1. ASSUME NEW k \in Placed, NEW i \in Nat, i \in 1 .. Len(queue[k])
          PROVE  lane[queue[k][i]] = k /\ status'[queue[k][i]] = "pending"
      <3>1. lane[queue[k][i]] = k /\ status[queue[k][i]] = "pending"
            /\ queue[k][i] \in Tasks
        BY <2>1 DEF LanesInv, Queued, LanesTypeOK
      <3>2. queue[k][i] # t
        BY <1>1, <1>6, <2>1, <3>1 DEF InQueue
      <3> QED
        BY <1>2, <3>1, <3>2
    <2> QED
      BY <1>0, <2>1 DEF LanesInv, Queued
  <1>8. \A u \in Threads :
          /\ thread'[u].lane = thread[u].lane /\ thread'[u].task = thread[u].task
          /\ thread'[u].pc \in {"taken", "start", "work"}
               <=> thread[u].pc \in {"taken", "start", "work"}
    BY <1>0, <1>2
  <1>9. /\ \A u \in Tasks, k \in Placed : InQueue(u, k)' <=> InQueue(u, k)
        /\ \A u \in Tasks : Ended(u)' <=> Ended(u)
    <2>1. \A u \in Tasks : Ended(u)' <=> Ended(u)
      BY <1>1, <1>2 DEF Ended
    <2> QED
      BY <1>0, <2>1 DEF InQueue
  <1>10. Found'
    <2>1. ASSUME NEW u \in Tasks, lane[u] # NoLane
          PROVE  \/ InQueue(u, lane[u])' \/ Ended(u)'
                 \/ \E v \in Threads :
                      thread'[v].pc \in {"taken", "start", "work"}
                      /\ thread'[v].task = u
      <3>1. lane[u] \in Placed
        BY <2>1 DEF LanesInv, LanesTypeOK, TasksOK
      <3>2. \/ InQueue(u, lane[u]) \/ Ended(u)
            \/ \E v \in Threads :
                 thread[v].pc \in {"taken", "start", "work"}
                 /\ thread[v].task = u
        BY <2>1 DEF LanesInv, Found
      <3> QED
        BY <1>0, <1>8, <1>9, <3>1, <3>2 DEF InQueue
    <2>2. /\ \A u \in Tasks : u > clock <=> status'[u] = "absent"
          /\ \A u \in Tasks : lane[u] = NoLane
               => status'[u] \in {"absent", "pending"}
      BY <1>1, <1>2 DEF LanesInv, Found, Placed, NoLane
    <2> QED
      BY <1>0, <2>1, <2>2 DEF LanesInv, Found
  <1>11. Ordered'
    <2>1. \A v \in Threads : thread'[v].pc \in {"taken", "start", "work"}
            => ~InQueue(thread[v].task, thread[v].lane)'
      <3>1. \A v \in Threads : thread[v].pc \in {"taken", "start", "work"}
              => ~InQueue(thread[v].task, thread[v].lane)
        BY DEF LanesInv, Ordered
      <3> QED
        BY <1>0, <1>8, <3>1 DEF InQueue
    <2>2. ASSUME NEW v \in Threads, NEW u \in Tasks,
                 thread'[v].pc \in {"taken", "start", "work"},
                 lane'[u] = thread'[v].lane, u # thread'[v].task,
                 ~InQueue(u, thread[v].lane)'
          PROVE  u < thread'[v].task /\ Ended(u)'
      <3>1. ~InQueue(u, thread[v].lane)
        BY <1>0, <1>8, <2>2 DEF InQueue
      <3> QED
        BY <1>0, <1>8, <1>9, <2>2, <3>1 DEF LanesInv, Ordered
    <2>3. \A k \in Placed, u \in Tasks, i \in Nat :
            lane'[u] = k /\ ~InQueue(u, k)' /\ i \in 1 .. Len(queue'[k])
              => u < queue'[k][i]
      BY <1>0, <1>9 DEF LanesInv, Ordered
    <2> QED
      BY <2>1, <2>2, <2>3 DEF Ordered
  <1>12. Listed'
    <2>1. \A i \in 1 .. Len(terminalOrder) : terminalOrder[i] \in Tasks
      BY DEF LanesInv, LanesTypeOK, TasksOK
    <2>2. ASSUME NEW i \in Nat, i \in 1 .. Len(terminalOrder)
          PROVE  status'[terminalOrder[i]] \in Terminal
      <3>1. terminalOrder[i] \in Tasks /\ status[terminalOrder[i]] \in Terminal
        BY <2>1, <2>2 DEF LanesInv, Listed
      <3> QED
        BY <1>1, <1>2, <3>1
    <2> QED
      BY <1>0, <2>2 DEF LanesInv, Listed
  <1> QED
    BY <1>3, <1>5, <1>7, <1>10, <1>11, <1>12 DEF LanesInv

\* Taking the front task: the oldest waiting task of the lane is in hand.
LEMMA TakeInv ==
  ASSUME LanesInv, NEW th \in Threads, Take(th)
  PROVE  LanesInv'
  <1> PICK l \in Placed : l = thread[th].lane
    BY AtWork DEF Take
  <1> DEFINE q == queue[l]
             h == Head(q)
             n == Len(q)
  <1>0. /\ thread[th].pc = "take" /\ q # <<>>
        /\ queue' = [queue EXCEPT ![l] = Tail(q)]
        /\ laneActive' = [laneActive EXCEPT ![l] = h]
        /\ position' = Repositioned(l, Tail(q), 1)
        /\ thread' = [thread EXCEPT ![th].pc = "taken", ![th].task = h]
        /\ UNCHANGED <<clock, status, lane, cancels, terminalOrder, laneThread,
                       draining>>
    BY DEF Take
  <1>1. /\ thread[th] \in [pc : Steps \cup {"idle"}, lane : Placed \cup {NoLane},
                           task : Tasks \cup {NoTask}]
        /\ laneThread[l] = th
        /\ \A u \in Threads : thread[u].pc # "idle" /\ thread[u].lane = l => u = th
        /\ q \in Seq(Tasks)
    BY <1>0, AtWork
  <1>2. /\ Tail(q) \in Seq(Tasks) /\ Len(Tail(q)) = n - 1 /\ n \in Nat /\ n > 0
        /\ h = q[1] /\ h \in Tasks
        /\ \A i \in 1 .. n - 1 : Tail(q)[i] = q[i + 1]
    BY <1>0, <1>1, TailAt
  <1>3. /\ thread'[th] = [thread[th] EXCEPT !.pc = "taken", !.task = h]
        /\ thread'[th].pc = "taken" /\ thread'[th].lane = l
        /\ thread'[th].task = h
        /\ \A u \in Threads \ {th} : thread'[u] = thread[u]
        /\ queue'[l] = Tail(q)
        /\ \A k \in Placed \ {l} : queue'[k] = queue[k]
    BY <1>0, <1>1 DEF LanesInv, LanesTypeOK, ThreadsOK
  <1>4. lane[h] = l /\ status[h] = "pending" /\ InQueue(h, l)
    <2>1. 1 \in Nat /\ 1 \in 1 .. Len(queue[l])
      BY <1>2
    <2> QED
      BY <1>2, <2>1 DEF LanesInv, Queued, InQueue
  <1>5. LanesTypeOK'
    <2>1. thread' \in [Threads -> [pc : Steps \cup {"idle"},
                                  lane : Placed \cup {NoLane},
                                  task : Tasks \cup {NoTask}]]
      BY <1>0, <1>1, <1>2, <1>3 DEF LanesInv, LanesTypeOK, ThreadsOK
    <2>2. position' \in [Tasks -> Nat]
      BY <1>0, <1>2, RepositionedType DEF LanesInv, LanesTypeOK, TasksOK
    <2>3. /\ queue' \in [Placed -> Seq(Tasks)]
          /\ laneActive' \in [Placed -> Tasks \cup {NoTask}]
      BY <1>0, <1>2 DEF LanesInv, LanesTypeOK, ThreadsOK
    <2> QED
      BY <1>0, <2>1, <2>2, <2>3 DEF LanesInv, LanesTypeOK, TasksOK, ThreadsOK
  <1> HIDE DEF q, h, n
  <1>6. \A i, j \in 1 .. n : i < j => q[i] < q[j]
    <2>1. \A i \in 1 .. n : i \in Nat
      BY <1>2
    <2> QED
      BY <2>1 DEF LanesInv, Queued, q, n
  <1>14. /\ Len(queue'[l]) = n - 1 /\ n \in Nat /\ n > 0
         /\ \A i \in 1 .. n - 1 : queue'[l][i] = q[i + 1]
    BY <1>2, <1>3
  <1>7. \A u \in Tasks : InQueue(u, l)' <=> InQueue(u, l) /\ u # h
    <2>1. ASSUME NEW u \in Tasks, NEW i \in 1 .. n - 1, q[i + 1] = u
          PROVE  InQueue(u, l) /\ u # h
      <3>1. i + 1 \in 1 .. n /\ 1 \in 1 .. n /\ 1 < i + 1
        BY <1>2
      <3>2. q[1] < q[i + 1] /\ q[1] \in Nat
        BY <1>2, <1>6, <3>1 DEF Tasks
      <3> QED
        BY <1>2, <2>1, <3>1, <3>2 DEF InQueue, q, n
    <2>2. ASSUME NEW u \in Tasks, NEW i \in 1 .. n, q[i] = u, u # h
          PROVE  InQueue(u, l)'
      <3>1. i - 1 \in 1 .. n - 1 /\ (i - 1) + 1 = i
        BY <1>2, <2>2
      <3>2. Tail(q)[i - 1] = u
        BY <1>2, <2>2, <3>1
      <3> QED
        BY <1>2, <1>3, <3>1, <3>2 DEF InQueue
    <2> QED
      <3>1. ASSUME NEW u \in Tasks, InQueue(u, l)'
            PROVE  InQueue(u, l) /\ u # h
        BY <1>14, <2>1, <3>1 DEF InQueue
      <3>2. ASSUME NEW u \in Tasks, InQueue(u, l), u # h PROVE InQueue(u, l)'
        <4>1. \E i \in 1 .. n : q[i] = u
          BY <3>2 DEF InQueue, q, n
        <4> QED
          BY <2>2, <3>2, <4>1
      <3> QED
        BY <3>1, <3>2
  <1>8. \A u \in Tasks, k \in Placed \ {l} : InQueue(u, k)' <=> InQueue(u, k)
    BY <1>3 DEF InQueue
  <1>9. Owned'
    <2>1. ASSUME NEW u \in Threads, thread'[u].pc \notin {"idle", "take"}
          PROVE  /\ thread'[u].task \in Tasks
                 /\ lane[thread'[u].task] = thread'[u].lane
                 /\ thread'[u].pc \in {"taken", "start"}
                      => status[thread'[u].task] = "pending"
                 /\ thread'[u].pc = "work" => status[thread'[u].task] = "running"
                 /\ thread'[u].pc = "close" => Ended(thread'[u].task)
      <3>1. CASE u = th
        BY <1>2, <1>3, <1>4, <3>1
      <3>2. CASE u # th
        BY <1>3, <2>1, <3>2 DEF LanesInv, Owned
      <3> QED
        BY <3>1, <3>2
    <2>2. /\ \A u \in Threads : thread'[u].pc # "idle" =>
               thread'[u].lane \in Placed /\ laneThread[thread'[u].lane] = u
          /\ \A k \in Placed : laneThread[k] # NoThread =>
               thread'[laneThread[k]].pc # "idle"
               /\ thread'[laneThread[k]].lane = k
      <3>1. \A u \in Threads : thread'[u].lane = thread[u].lane
                               /\ (thread'[u].pc # "idle" <=> thread[u].pc # "idle")
        BY <1>0, <1>3
      <3>2. \A k \in Placed : laneThread[k] # NoThread => laneThread[k] \in Threads
        BY DEF LanesInv, LanesTypeOK, ThreadsOK
      <3> QED
        BY <3>1, <3>2 DEF LanesInv, Owned
    <2>3. laneThread' = laneThread /\ lane' = lane /\ status' = status
      BY <1>0
    <2> QED
      BY <2>1, <2>2, <2>3 DEF Owned, Ended
  <1>10. Queued'
    <2>1. ASSUME NEW k \in Placed, NEW i \in Nat, i \in 1 .. Len(queue'[k])
          PROVE  lane[queue'[k][i]] = k /\ status[queue'[k][i]] = "pending"
      <3>1. CASE k = l
        <4>1. i + 1 \in 1 .. n /\ i + 1 \in Nat /\ queue'[k][i] = q[i + 1]
          BY <1>14, <2>1, <3>1
        <4> QED
          BY <3>1, <4>1 DEF LanesInv, Queued, q, n
      <3>2. CASE k # l
        BY <1>3, <2>1, <3>2 DEF LanesInv, Queued
      <3> QED
        BY <3>1, <3>2
    <2>2. ASSUME NEW k \in Placed, NEW i \in Nat, NEW j \in Nat,
                 i \in 1 .. Len(queue'[k]), j \in 1 .. Len(queue'[k]), i < j
          PROVE  queue'[k][i] < queue'[k][j]
      <3>1. CASE k = l
        <4>1. /\ i + 1 \in 1 .. n /\ j + 1 \in 1 .. n /\ i + 1 < j + 1
              /\ queue'[k][i] = q[i + 1] /\ queue'[k][j] = q[j + 1]
          BY <1>14, <2>2, <3>1
        <4> QED
          BY <4>1, <1>6
      <3>2. CASE k # l
        BY <1>3, <2>2, <3>2 DEF LanesInv, Queued
      <3> QED
        BY <3>1, <3>2
    <2> QED
      BY <1>0, <2>1, <2>2 DEF Queued
  <1>11. Found'
    <2>1. ASSUME NEW u \in Tasks, lane[u] # NoLane
          PROVE  \/ InQueue(u, lane[u])' \/ Ended(u)'
                 \/ \E v \in Threads :
                      thread'[v].pc \in {"taken", "start", "work"}
                      /\ thread'[v].task = u
      <3>1. \/ InQueue(u, lane[u]) \/ Ended(u)
            \/ \E v \in Threads :
                 thread[v].pc \in {"taken", "start", "work"} /\ thread[v].task = u
        BY <2>1 DEF LanesInv, Found
      <3>2. CASE Ended(u)
        BY <1>0, <3>2 DEF Ended
      <3>3. ASSUME NEW v \in Threads,
                   thread[v].pc \in {"taken", "start", "work"}, thread[v].task = u
            PROVE  thread'[v].pc \in {"taken", "start", "work"}
                   /\ thread'[v].task = u
        BY <1>0, <1>3, <3>3
      <3>4. CASE InQueue(u, lane[u])
        <4>1. lane[u] \in Placed /\ lane'[u] = lane[u]
          BY <1>0, <2>1 DEF LanesInv, LanesTypeOK, TasksOK
        <4>2. CASE u = h
          BY <1>3, <4>2
        <4>3. CASE u # h /\ lane[u] = l
          <5>1. InQueue(u, l)'
            BY <1>7, <3>4, <4>3
          <5> QED
            BY <4>1, <4>3, <5>1 DEF InQueue
        <4>4. CASE lane[u] # l
          BY <1>3, <3>4, <4>1, <4>4 DEF InQueue
        <4> QED
          BY <4>2, <4>3, <4>4
      <3> QED
        BY <3>1, <3>2, <3>3, <3>4
    <2> QED
      BY <1>0, <2>1 DEF LanesInv, Found
  <1>12. Ordered'
    <2>1. ASSUME NEW k \in Placed, NEW u \in Tasks, NEW i \in Nat,
                 lane[u] = k, ~InQueue(u, k)', i \in 1 .. Len(queue'[k])
          PROVE  u < queue'[k][i]
      <3>1. CASE k = l
        <4>1. /\ i + 1 \in 1 .. n /\ i + 1 \in Nat /\ 1 \in 1 .. n /\ 1 < i + 1
              /\ queue'[k][i] = q[i + 1]
          BY <1>14, <2>1, <3>1
        <4>2. CASE u = h
          BY <1>2, <1>6, <4>1, <4>2
        <4>3. CASE u # h
          <5>1. ~InQueue(u, l)
            BY <1>7, <2>1, <3>1, <4>3
          <5> QED
            BY <2>1, <3>1, <4>1, <5>1 DEF LanesInv, Ordered, q, n
        <4> QED
          BY <4>2, <4>3
      <3>2. CASE k # l
        BY <1>3, <1>8, <2>1, <3>2 DEF LanesInv, Ordered
      <3> QED
        BY <3>1, <3>2
    <2>2. ASSUME NEW u \in Tasks, lane[u] = l, u # h, ~InQueue(u, l)'
          PROVE  u < h /\ Ended(u)
      <3>1. ~InQueue(u, l)
        BY <1>7, <2>2
      <3>2. u < q[1]
        BY <1>2, <2>2, <3>1 DEF LanesInv, Ordered, q, n
      <3>3. ASSUME NEW v \in Threads,
                   thread[v].pc \in {"taken", "start", "work"}, thread[v].task = u
            PROVE  FALSE
        <4>1. lane[u] = thread[v].lane
          BY <3>3 DEF LanesInv, Owned
        <4> QED
          BY <1>0, <1>1, <2>2, <3>3, <4>1
      <3>4. lane[u] # NoLane
        BY <2>2, PlacedIsLane
      <3> QED
        BY <1>2, <2>2, <3>1, <3>2, <3>3, <3>4 DEF LanesInv, Found
    <2>3. ASSUME NEW v \in Threads, NEW u \in Tasks,
                 thread'[v].pc \in {"taken", "start", "work"},
                 lane'[u] = thread'[v].lane, u # thread'[v].task,
                 ~InQueue(u, thread[v].lane)'
          PROVE  u < thread'[v].task /\ Ended(u)'
      <3>1. CASE v = th
        <4>1. ~InQueue(u, l)'
          BY <1>3, <2>3, <3>1 DEF InQueue
        <4>2. u < h /\ Ended(u)
          BY <1>0, <1>3, <2>2, <2>3, <3>1, <4>1
        <4> QED
          BY <1>0, <1>3, <3>1, <4>2 DEF Ended
      <3>2. CASE v # th
        <4>1. /\ thread'[v] = thread[v] /\ thread[v].lane \in Placed \ {l}
          BY <1>1, <1>3, <2>3, <3>2 DEF LanesInv, Owned
        <4>2. ~InQueue(u, thread[v].lane)
          BY <1>3, <2>3, <4>1 DEF InQueue
        <4> QED
          BY <1>0, <2>3, <4>1, <4>2 DEF LanesInv, Ordered, Ended
      <3> QED
        BY <3>1, <3>2
    <2>4. ASSUME NEW v \in Threads, thread'[v].pc \in {"taken", "start", "work"}
          PROVE  ~InQueue(thread[v].task, thread[v].lane)'
      <3>1. CASE v = th
        <4>1. PICK g \in Tasks : g = h
          BY <1>2
        <4>2. ~InQueue(g, l)'
          BY <1>7, <4>1
        <4> QED
          BY <1>3, <3>1, <4>1, <4>2 DEF InQueue
      <3>2. CASE v # th
        <4>1. /\ thread'[v] = thread[v] /\ thread[v].lane \in Placed \ {l}
          BY <1>1, <1>3, <2>4, <3>2 DEF LanesInv, Owned
        <4>2. ~InQueue(thread[v].task, thread[v].lane)
          BY <2>4, <4>1 DEF LanesInv, Ordered
        <4> QED
          BY <1>3, <4>1, <4>2 DEF InQueue
      <3> QED
        BY <3>1, <3>2
    <2> QED
      BY <1>0, <2>1, <2>3, <2>4 DEF Ordered
  <1>13. Listed'
    BY <1>0 DEF LanesInv, Listed
  <1> QED
    BY <1>5, <1>9, <1>10, <1>11, <1>12, <1>13 DEF LanesInv

\* A thread started for a lane that has none, or none started: what is at work
\* stays as it is, and each lane has one owner.
LEMMA WorkerStarted ==
  ASSUME LanesInv, NEW kind \in Placed,
         IF StartsWorker(kind)
         THEN /\ \E th \in Threads : thread[th].pc = "idle"
              /\ laneThread' = [laneThread EXCEPT ![kind] = NewThread]
              /\ thread' = [thread EXCEPT ![NewThread] =
                              [pc |-> "take", lane |-> kind, task |-> NoTask]]
         ELSE UNCHANGED <<laneThread, thread>>
  PROVE  /\ laneThread' \in [Placed -> Threads \cup {NoThread}]
         /\ thread' \in [Threads -> [pc : Steps \cup {"idle"},
                                     lane : Placed \cup {NoLane},
                                     task : Tasks \cup {NoTask}]]
         /\ \A u \in Threads : thread[u].pc # "idle" => thread'[u] = thread[u]
         /\ \A u \in Threads : thread'[u].pc \notin {"idle", "take"}
              => thread'[u] = thread[u]
         /\ \A u \in Threads : thread'[u].pc # "idle" =>
              thread'[u].lane \in Placed /\ laneThread'[thread'[u].lane] = u
         /\ \A l \in Placed : laneThread'[l] # NoThread =>
              thread'[laneThread'[l]].pc # "idle"
              /\ thread'[laneThread'[l]].lane = l
  <1>0. /\ laneThread \in [Placed -> Threads \cup {NoThread}]
        /\ thread \in [Threads -> [pc : Steps \cup {"idle"},
                                   lane : Placed \cup {NoLane},
                                   task : Tasks \cup {NoTask}]]
        /\ \A u \in Threads : thread[u].pc # "idle" =>
             thread[u].lane \in Placed /\ laneThread[thread[u].lane] = u
        /\ \A l \in Placed : laneThread[l] # NoThread =>
             thread[laneThread[l]].pc # "idle" /\ thread[laneThread[l]].lane = l
    BY DEF LanesInv, LanesTypeOK, ThreadsOK, Owned
  <1>1. CASE StartsWorker(kind)
    <2>1. PICK w \in Threads : w = NewThread /\ thread[w].pc = "idle"
      BY <1>1 DEF NewThread
    <2>2. /\ laneThread[kind] = NoThread
          /\ laneThread' = [laneThread EXCEPT ![kind] = w]
          /\ thread' = [thread EXCEPT ![w] =
                          [pc |-> "take", lane |-> kind, task |-> NoTask]]
      BY <1>1, <2>1 DEF StartsWorker
    <2>3. /\ thread'[w] = [pc |-> "take", lane |-> kind, task |-> NoTask]
          /\ \A u \in Threads \ {w} : thread'[u] = thread[u]
          /\ laneThread'[kind] = w
          /\ \A l \in Placed \ {kind} : laneThread'[l] = laneThread[l]
      BY <1>0, <2>2
    <2>4. \A u \in Threads : thread[u].pc # "idle" => thread[u].lane # kind
      BY <1>0, <2>2, TaskLanesAssumption
    <2> QED
      BY <1>0, <2>1, <2>2, <2>3, <2>4
  <1>2. CASE ~StartsWorker(kind)
    BY <1>0, <1>2
  <1> QED
    BY <1>1, <1>2

\* A new task at the end of its lane's queue.
LEMMA SubmitInv ==
  ASSUME LanesInv, NEW kind \in Placed, Submit(kind)
  PROVE  LanesInv'
  <1> DEFINE n == Len(queue[kind])
  <1> PICK t \in Tasks :
        /\ Created(t)
        /\ queue' = [queue EXCEPT ![kind] = Append(queue[kind], t)]
        /\ lane' = [lane EXCEPT ![t] = kind]
        /\ position' = Repositioned(kind, Append(queue[kind], t), Ahead(kind))
        /\ IF StartsWorker(kind)
           THEN /\ \E th \in Threads : thread[th].pc = "idle"
                /\ laneThread' = [laneThread EXCEPT ![kind] = NewThread]
                /\ thread' = [thread EXCEPT ![NewThread] =
                                [pc |-> "take", lane |-> kind, task |-> NoTask]]
           ELSE UNCHANGED <<laneThread, thread>>
        /\ UNCHANGED <<cancels, terminalOrder, laneActive, draining>>
    BY DEF Submit
  <1>0. /\ clock' = t /\ t = clock + 1 /\ clock' \in 0 .. NumTasks
        /\ clock \in Nat
        /\ status' \in [Tasks -> TaskStatus]
        /\ status[t] = "absent" /\ status'[t] = "pending"
        /\ \A u \in Tasks \ {t} : status'[u] = status[u]
        /\ lane[t] = NoLane
        /\ \A l \in Placed : ~InQueue(t, l)
        /\ \A th \in Threads : thread[th].pc \notin {"idle", "take"}
             => thread[th].task # t
        /\ \A i \in 1 .. Len(terminalOrder) : terminalOrder[i] # t
    BY CreatedEffect
  <1>1. /\ laneThread' \in [Placed -> Threads \cup {NoThread}]
        /\ thread' \in [Threads -> [pc : Steps \cup {"idle"},
                                    lane : Placed \cup {NoLane},
                                    task : Tasks \cup {NoTask}]]
        /\ \A u \in Threads : thread[u].pc # "idle" => thread'[u] = thread[u]
        /\ \A u \in Threads : thread'[u].pc \notin {"idle", "take"}
             => thread'[u] = thread[u]
        /\ \A u \in Threads : thread'[u].pc # "idle" =>
             thread'[u].lane \in Placed /\ laneThread'[thread'[u].lane] = u
        /\ \A l \in Placed : laneThread'[l] # NoThread =>
             thread'[laneThread'[l]].pc # "idle"
             /\ thread'[laneThread'[l]].lane = l
    BY WorkerStarted
  <1>2. /\ queue \in [Placed -> Seq(Tasks)] /\ n \in Nat
        /\ Append(queue[kind], t) \in Seq(Tasks)
        /\ queue' \in [Placed -> Seq(Tasks)]
        /\ Len(queue'[kind]) = n + 1
        /\ \A i \in 1 .. n : queue'[kind][i] = queue[kind][i]
        /\ queue'[kind][n + 1] = t
        /\ \A k \in Placed \ {kind} : queue'[k] = queue[k]
    <2>1. queue \in [Placed -> Seq(Tasks)]
      BY DEF LanesInv, LanesTypeOK
    <2>2. /\ Append(queue[kind], t) \in Seq(Tasks)
          /\ Len(Append(queue[kind], t)) = n + 1
          /\ \A i \in 1 .. n : Append(queue[kind], t)[i] = queue[kind][i]
          /\ Append(queue[kind], t)[n + 1] = t
      BY <2>1, AppendAt
    <2> QED
      BY <2>1, <2>2
  <1>3. /\ lane \in [Tasks -> Placed \cup {NoLane}]
        /\ lane' \in [Tasks -> Placed \cup {NoLane}]
        /\ lane'[t] = kind
        /\ \A u \in Tasks \ {t} : lane'[u] = lane[u]
    BY DEF LanesInv, LanesTypeOK, TasksOK
  <1>4. \A u \in Tasks : u # t /\ lane[u] # NoLane => u < t
    BY <1>0 DEF LanesInv, Found, Tasks
  <1>5. LanesTypeOK'
    <2>1. position' \in [Tasks -> Nat]
      <3>1. Ahead(kind) \in {0, 1}
        BY DEF Ahead
      <3> QED
        BY <1>2, <3>1, RepositionedType DEF LanesInv, LanesTypeOK, TasksOK
    <2> QED
      BY <1>0, <1>1, <1>2, <1>3, <2>1
      DEF LanesInv, LanesTypeOK, TasksOK, ThreadsOK
  <1> HIDE DEF n
  <1>6. \A l \in Placed, i \in Nat : i \in 1 .. Len(queue[l]) =>
          queue[l][i] \in Tasks \ {t} /\ queue[l][i] < t
    <2>1. ASSUME NEW l \in Placed, NEW i \in Nat, i \in 1 .. Len(queue[l])
          PROVE  queue[l][i] \in Tasks \ {t} /\ queue[l][i] < t
      <3>1. queue[l][i] \in Tasks /\ lane[queue[l][i]] = l
        BY <1>2, <2>1 DEF LanesInv, Queued
      <3>2. queue[l][i] # t
        BY <1>0, <2>1 DEF InQueue
      <3>3. l # NoLane
        BY PlacedIsLane
      <3> QED
        BY <1>4, <3>1, <3>2, <3>3
    <2> QED
      BY <2>1
  <1>7. /\ InQueue(t, kind)'
        /\ \A u \in Tasks \ {t}, l \in Placed : InQueue(u, l)' <=> InQueue(u, l)
    <2>1. n + 1 \in 1 .. Len(queue'[kind])
      BY <1>2
    <2>2. ASSUME NEW u \in Tasks \ {t}
          PROVE  InQueue(u, kind)' <=> InQueue(u, kind)
      <3>1. 1 .. Len(queue'[kind]) = (1 .. n) \cup {n + 1}
        BY <1>2
      <3> QED
        BY <1>2, <3>1 DEF InQueue, n
    <2> QED
      BY <1>2, <2>1, <2>2 DEF InQueue
  <1>8. Owned'
    <2>1. ASSUME NEW u \in Threads, thread'[u].pc \notin {"idle", "take"}
          PROVE  /\ thread'[u].task \in Tasks
                 /\ lane'[thread'[u].task] = thread'[u].lane
                 /\ thread'[u].pc \in {"taken", "start"}
                      => status'[thread'[u].task] = "pending"
                 /\ thread'[u].pc = "work" => status'[thread'[u].task] = "running"
                 /\ thread'[u].pc = "close"
                      => status'[thread'[u].task] \in Terminal \cup {"evicted"}
      <3>1. PICK w \in Tasks \ {t} : w = thread[u].task /\ thread'[u] = thread[u]
        BY <1>0, <1>1, <2>1 DEF LanesInv, Owned
      <3>2. lane'[w] = lane[w] /\ status'[w] = status[w]
        BY <1>0, <1>3
      <3>3. /\ lane[w] = thread[u].lane
            /\ thread[u].pc \in {"taken", "start"} => status[w] = "pending"
            /\ thread[u].pc = "work" => status[w] = "running"
            /\ thread[u].pc = "close" => status[w] \in Terminal \cup {"evicted"}
        BY <2>1, <3>1 DEF LanesInv, Owned, Ended
      <3> QED
        BY <3>1, <3>2, <3>3
    <2> QED
      BY <1>1, <2>1 DEF Owned, Ended
  <1>9. Queued'
    <2>1. ASSUME NEW k \in Placed, NEW i \in Nat, i \in 1 .. Len(queue'[k])
          PROVE  lane'[queue'[k][i]] = k /\ status'[queue'[k][i]] = "pending"
      <3>1. CASE k = kind /\ i = n + 1
        BY <1>0, <1>2, <1>3, <3>1
      <3>2. CASE ~(k = kind /\ i = n + 1)
        <4>1. i \in 1 .. Len(queue[k]) /\ queue'[k][i] = queue[k][i]
          BY <1>2, <2>1, <3>2 DEF n
        <4>2. PICK w \in Tasks \ {t} : w = queue[k][i]
          BY <1>6, <4>1
        <4>3. lane[w] = k /\ status[w] = "pending"
          BY <2>1, <4>1, <4>2 DEF LanesInv, Queued
        <4> QED
          BY <1>0, <1>3, <4>1, <4>2, <4>3
      <3> QED
        BY <3>1, <3>2
    <2>2. ASSUME NEW k \in Placed, NEW i \in Nat, NEW j \in Nat,
                 i \in 1 .. Len(queue'[k]), j \in 1 .. Len(queue'[k]), i < j
          PROVE  queue'[k][i] < queue'[k][j]
      <3>1. i \in 1 .. Len(queue[k]) /\ queue'[k][i] = queue[k][i]
        BY <1>2, <2>2 DEF n
      <3>2. CASE k = kind /\ j = n + 1
        BY <1>2, <1>6, <3>1, <3>2
      <3>3. CASE ~(k = kind /\ j = n + 1)
        <4>1. j \in 1 .. Len(queue[k]) /\ queue'[k][j] = queue[k][j]
          BY <1>2, <2>2, <3>3 DEF n
        <4> QED
          BY <2>2, <3>1, <4>1 DEF LanesInv, Queued
      <3> QED
        BY <3>2, <3>3
    <2> QED
      BY <2>1, <2>2 DEF Queued
  <1>10. Found'
    <2>1. ASSUME NEW u \in Tasks, lane'[u] # NoLane
          PROVE  \/ InQueue(u, lane[u])' \/ Ended(u)'
                 \/ \E v \in Threads :
                      thread'[v].pc \in {"taken", "start", "work"}
                      /\ thread'[v].task = u
      <3>1. CASE u = t
        BY <1>3, <1>7, <3>1 DEF InQueue
      <3>2. CASE u # t
        <4>1. lane'[u] = lane[u] /\ lane[u] \in Placed /\ status'[u] = status[u]
          BY <1>0, <1>3, <2>1, <3>2
        <4>2. \/ InQueue(u, lane[u]) \/ Ended(u)
              \/ \E v \in Threads :
                   thread[v].pc \in {"taken", "start", "work"}
                   /\ thread[v].task = u
          BY <2>1, <4>1 DEF LanesInv, Found
        <4>3. InQueue(u, lane[u]) =>
                \E i \in 1 .. Len(queue'[lane[u]]) : queue'[lane[u]][i] = u
          BY <1>7, <3>2, <4>1 DEF InQueue
        <4> QED
          BY <1>1, <4>1, <4>2, <4>3 DEF InQueue, Ended
      <3> QED
        BY <3>1, <3>2
    <2>2. \A u \in Tasks : u > clock' <=> status'[u] = "absent"
      BY <1>0 DEF LanesInv, Found, Tasks
    <2>3. \A u \in Tasks : u > clock' => lane'[u] = NoLane
      BY <1>0, <1>3 DEF LanesInv, Found, Tasks
    <2>4. \A u \in Tasks : lane'[u] = NoLane => status'[u] \in {"absent", "pending"}
      BY <1>0, <1>3 DEF LanesInv, Found
    <2> QED
      BY <2>1, <2>2, <2>3, <2>4 DEF Found
  <1>11. Ordered'
    <2>1. ASSUME NEW k \in Placed, NEW u \in Tasks, NEW i \in Nat,
                 lane'[u] = k, ~InQueue(u, k)', i \in 1 .. Len(queue'[k])
          PROVE  u < queue'[k][i]
      <3>1. u # t /\ lane[u] = k /\ k # NoLane
        BY <1>3, <1>7, <2>1, PlacedIsLane
      <3>2. CASE k = kind /\ i = n + 1
        BY <1>2, <1>4, <3>1, <3>2
      <3>3. CASE ~(k = kind /\ i = n + 1)
        <4>1. i \in 1 .. Len(queue[k]) /\ queue'[k][i] = queue[k][i]
          BY <1>2, <2>1, <3>3 DEF n
        <4>2. ~InQueue(u, k)
          BY <1>7, <2>1, <3>1
        <4> QED
          BY <2>1, <3>1, <4>1, <4>2 DEF LanesInv, Ordered
      <3> QED
        BY <3>2, <3>3
    <2>2. ASSUME NEW v \in Threads, thread'[v].pc \in {"taken", "start", "work"}
          PROVE  /\ thread'[v] = thread[v] /\ thread[v].task \in Tasks \ {t}
                 /\ thread[v].lane \in Placed
      BY <1>0, <1>1, <2>2 DEF LanesInv, Owned
    <2>3. ASSUME NEW v \in Threads, thread'[v].pc \in {"taken", "start", "work"}
          PROVE  ~InQueue(thread[v].task, thread[v].lane)'
      <3>1. PICK w \in Tasks \ {t}, k \in Placed :
              w = thread[v].task /\ k = thread[v].lane /\ thread'[v] = thread[v]
        BY <2>2, <2>3
      <3>2. ~InQueue(w, k)'
        BY <1>7, <2>3, <3>1 DEF LanesInv, Ordered
      <3> QED
        BY <3>1, <3>2 DEF InQueue
    <2>4. ASSUME NEW v \in Threads, NEW u \in Tasks,
                 thread'[v].pc \in {"taken", "start", "work"},
                 lane'[u] = thread'[v].lane, u # thread'[v].task,
                 ~InQueue(u, thread[v].lane)'
          PROVE  u < thread'[v].task /\ Ended(u)'
      <3>1. PICK k \in Placed : k = thread[v].lane /\ thread'[v] = thread[v]
        BY <2>2, <2>4
      <3>2. ~InQueue(u, k)'
        BY <2>4, <3>1 DEF InQueue
      <3>3. u # t /\ lane[u] = k /\ status'[u] = status[u]
        BY <1>0, <1>3, <1>7, <2>4, <3>1, <3>2
      <3>4. ~InQueue(u, k)
        BY <1>7, <3>2, <3>3
      <3> QED
        BY <2>4, <3>1, <3>3, <3>4 DEF LanesInv, Ordered, Ended
    <2> QED
      BY <2>1, <2>3, <2>4 DEF Ordered
  <1>12. Listed'
    <2>1. \A i \in 1 .. Len(terminalOrder) : terminalOrder[i] \in Tasks \ {t}
      BY <1>0 DEF LanesInv, LanesTypeOK, TasksOK
    <2> QED
      BY <1>0, <2>1 DEF LanesInv, Listed
  <1> QED
    BY <1>5, <1>8, <1>9, <1>10, <1>11, <1>12 DEF LanesInv

LEMMA WorkerEndsInv ==
  ASSUME LanesInv, NEW th \in Threads, WorkerEnds(th)
  PROVE  LanesInv'
  <1>1. PICK final \in Terminal :
          /\ thread[th].pc = "work"
          /\ Finish(thread[th].task, final)
          /\ thread' = [thread EXCEPT ![th].pc = "close"]
          /\ UNCHANGED <<clock, lane, position, queue, laneThread, laneActive,
                         draining>>
    BY DEF WorkerEnds
  <1> QED
    BY <1>1, EndInv

LEMMA StutterInv ==
  ASSUME LanesInv, UNCHANGED lanesVars
  PROVE  LanesInv'
  <1> USE DEF lanesVars
  <1>1. LanesTypeOK'
    BY DEF LanesInv, LanesTypeOK, TasksOK, ThreadsOK
  <1>2. Owned' /\ Queued' /\ Found' /\ Ordered' /\ Listed'
    BY DEF LanesInv, Owned, Queued, Found, Ordered, Listed, InQueue, Ended
  <1> QED
    BY <1>1, <1>2 DEF LanesInv

\* The invariant is inductive.
LEMMA NextInv == LanesInv /\ [LanesNext]_lanesVars => LanesInv'
  <1> SUFFICES ASSUME LanesInv, [LanesNext]_lanesVars PROVE LanesInv'
    OBVIOUS
  <1> Kinds \subseteq Placed
    BY TaskLanesAssumption DEF Placed
  <1>1. CASE Routes
    BY <1>1, SubmitInv, RefusedInv, CancelInv DEF Routes
  <1>2. ASSUME NEW th \in Threads, LaneStep(th) \/ WorkerEnds(th)
        PROVE  LanesInv'
    BY <1>2, RetireInv, TakeInv, CheckInv, StartInv, CloseInv, WorkerEndsInv
    DEF LaneStep
  <1>3. CASE \E on \in BOOLEAN : SetDraining(on)
    BY <1>3, DrainInv
  <1>4. CASE UNCHANGED lanesVars
    BY <1>4, StutterInv
  <1> QED
    BY <1>1, <1>2, <1>3, <1>4 DEF LanesNext

LEMMA Invariance == LanesSpec => []LanesInv
  BY InitInv, NextInv, PTL DEF LanesSpec

-----------------------------------------------------------------------------
(* What follows for every set of lanes, tasks and threads.                 *)

\* The variables of the task lanes keep their types: queue positions never
\* fall below zero and the thread of a lane is one that works on it.
THEOREM LanesTypeCorrect == LanesSpec => []LanesTypeOK
  BY Invariance, PTL DEF LanesInv

LEMMA InvSingleWriter == LanesInv => SingleWriter
  <1> SUFFICES ASSUME LanesInv PROVE SingleWriter
    OBVIOUS
  <1>1. ASSUME NEW a \in Threads, NEW b \in Threads, NEW t \in Tasks,
               Holds(a, t), Holds(b, t)
        PROVE  a = b
    BY <1>1 DEF Holds, LanesInv, Owned
  <1>2. ASSUME NEW th \in Threads, NEW t \in Tasks, Holds(th, t),
               NEW l \in Placed, InQueue(t, l)
        PROVE  FALSE
    <2>1. lane[t] = l /\ status[t] = "pending"
      BY <1>2 DEF LanesInv, Queued, InQueue, LanesTypeOK
    <2>2. thread[th].lane = l /\ thread[th].pc \in {"taken", "start"}
      BY <1>2, <2>1 DEF Holds, LanesInv, Owned, Ended
    <2> QED
      BY <1>2, <2>2 DEF Holds, LanesInv, Ordered
  <1> QED
    BY <1>1, <1>2 DEF SingleWriter, Waiting

\* At most one thread has a task in its hands, and none has while it waits.
THEOREM OneWriterCorrect == LanesSpec => []SingleWriter
  BY Invariance, InvSingleWriter, PTL

\* A running task is in the hands of the thread of its lane.
LEMMA RunningHeld ==
  ASSUME LanesInv, NEW t \in Tasks, status[t] = "running"
  PROVE  /\ lane[t] \in Placed
         /\ \E th \in Threads : /\ thread[th].pc = "work" /\ thread[th].task = t
                                /\ laneThread[lane[t]] = th
  <1>1. lane[t] # NoLane /\ lane[t] \in Placed
    <2>1. lane[t] # NoLane
      BY DEF LanesInv, Found
    <2> QED
      BY <2>1 DEF LanesInv, LanesTypeOK, TasksOK
  <1>2. ~InQueue(t, lane[t])
    BY <1>1 DEF LanesInv, Queued, InQueue, LanesTypeOK
  <1>3. PICK th \in Threads : /\ thread[th].pc \in {"taken", "start", "work"}
                              /\ thread[th].task = t
    BY <1>1, <1>2 DEF LanesInv, Found, Ended
  <1> QED
    BY <1>1, <1>3 DEF LanesInv, Owned

LEMMA InvOneRuns == LanesInv => OneRunsPerLane
  <1> SUFFICES ASSUME LanesInv, NEW t \in Tasks, NEW u \in Tasks,
                      status[t] = "running", status[u] = "running",
                      lane[t] = lane[u]
               PROVE  t = u
    BY DEF OneRunsPerLane
  <1> QED
    BY RunningHeld

\* Two tasks of one lane never run together.
THEOREM OneRunnerCorrect == LanesSpec => []OneRunsPerLane
  BY Invariance, InvOneRuns, PTL

LEMMA InvInOrder == LanesInv => StartsInOrder
  <1> SUFFICES ASSUME LanesInv, NEW t \in Tasks, NEW u \in Tasks, u < t,
                      lane[u] = lane[t], lane[t] # NoLane,
                      status[t] \notin {"absent", "pending"}
               PROVE  Ended(u)
    BY DEF StartsInOrder
  <1>1. lane[t] \in Placed /\ u \in Nat /\ t \in Nat
    BY DEF LanesInv, LanesTypeOK, TasksOK, Tasks
  <1>2. ~InQueue(t, lane[t])
    BY <1>1 DEF LanesInv, Queued, InQueue, LanesTypeOK
  <1>3. CASE InQueue(u, lane[u])
    BY <1>1, <1>2, <1>3 DEF LanesInv, Ordered, InQueue
  <1>4. ASSUME NEW th \in Threads, thread[th].pc \in {"taken", "start", "work"},
               thread[th].task = u
        PROVE  Ended(u)
    <2>1. thread[th].lane = lane[t]
      BY <1>4 DEF LanesInv, Owned
    <2> QED
      BY <1>1, <1>2, <1>4, <2>1 DEF LanesInv, Ordered
  <1> QED
    BY <1>3, <1>4 DEF LanesInv, Found

\* A task starts only when all tasks put on its lane before it have ended.
THEOREM FifoCorrect == LanesSpec => []StartsInOrder
  BY Invariance, InvInOrder, PTL

\* What a step may do to a record that has ended.
Final(t) ==
  /\ status[t] \in Terminal => status'[t] \in {status[t], "evicted"}
  /\ status[t] = "evicted" => status'[t] = "evicted"
  /\ status'[t] = "evicted" => Ended(t)

LEMMA FinishFinal ==
  ASSUME LanesInv, NEW th \in Threads, thread[th].pc \in {"taken", "work"},
         NEW final \in Terminal, Finish(thread[th].task, final), NEW u \in Tasks
  PROVE  Final(u)
  <1> PICK t \in Tasks : t = thread[th].task
    BY AtWork
  <1>1. status[t] \in {"pending", "running"}
    BY DEF LanesInv, Owned
  <1>2. /\ status'[t] = final
        /\ u # t => \/ status'[u] = status[u]
                    \/ status[u] \in Terminal /\ status'[u] = "evicted"
    BY <1>1, FinishEffect DEF LanesInv
  <1> QED
    BY <1>1, <1>2 DEF Final, Ended

LEMMA StepFinal ==
  ASSUME LanesInv, LanesNext, NEW u \in Tasks
  PROVE  Final(u)
  <1> Kinds \subseteq Placed
    BY TaskLanesAssumption DEF Placed
  <1>1. CASE status' = status
    BY <1>1 DEF Final, Ended
  <1>2. ASSUME NEW t \in Tasks, Created(t) PROVE Final(u)
    BY <1>2, CreatedEffect DEF Final, Ended
  <1>3. ASSUME NEW th \in Threads, Check(th) PROVE Final(u)
    BY <1>1, <1>3, FinishFinal DEF Check
  <1>4. ASSUME NEW th \in Threads, WorkerEnds(th) PROVE Final(u)
    BY <1>4, FinishFinal DEF WorkerEnds
  <1>5. ASSUME NEW th \in Threads, Start(th) PROVE Final(u)
    <2>1. PICK t \in Tasks : t = thread[th].task /\ status[t] = "pending"
      BY <1>5, AtWork DEF Start, LanesInv, Owned
    <2>2. status'[t] = "running" /\ (u # t => status'[u] = status[u])
      BY <1>5, <2>1 DEF Start, LanesInv, LanesTypeOK, TasksOK
    <2> QED
      BY <2>1, <2>2 DEF Final, Ended
  <1>6. CASE Routes
    BY <1>1, <1>2, <1>6 DEF Routes, Submit, SubmitRefused, Cancel
  <1>7. ASSUME NEW th \in Threads, LaneStep(th) PROVE Final(u)
    BY <1>1, <1>3, <1>5, <1>7 DEF LaneStep, Retire, Take, Close, taskVars
  <1>8. CASE \E on \in BOOLEAN : SetDraining(on)
    BY <1>1, <1>8 DEF SetDraining, taskVars
  <1> QED
    BY <1>4, <1>6, <1>7, <1>8 DEF LanesNext

\* An end is final: it is never rewritten, and only ended records are evicted.
THEOREM EndsAreFinal == LanesSpec => EndIsFinal
  <1>1. LanesInv /\ [LanesNext]_lanesVars
          => [\A t \in Tasks :
                /\ status[t] \in Terminal => status'[t] \in {status[t], "evicted"}
                /\ status[t] = "evicted" => status'[t] = "evicted"
                /\ status'[t] = "evicted" => Ended(t)]_lanesVars
    BY StepFinal DEF Final
  <1> QED
    BY <1>1, Invariance, PTL DEF LanesSpec, EndIsFinal

-----------------------------------------------------------------------------
(* The server.  The updater uses the lanes only through the drain flag, so  *)
(* that all that holds of the lanes holds while an update drains and        *)
(* restarts, and the flag is its own.                                       *)

\* Every step of the server is a step of the lanes or leaves them alone.
LEMMA StepOfLanes == [Next]_vars => [LanesNext]_lanesVars
  <1> SUFFICES ASSUME [Next]_vars PROVE [LanesNext]_lanesVars
    OBVIOUS
  <1>1. CASE UNCHANGED vars
    BY <1>1 DEF vars, lanesVars
  <1>2. CASE Tasking
    BY <1>2 DEF Tasking, LanesNext
  <1>3. ASSUME KeepLanes, draining' \in BOOLEAN PROVE [LanesNext]_lanesVars
    BY <1>3 DEF KeepLanes, LanesNext, SetDraining
  <1>4. ASSUME KeepLanes, draining' = draining PROVE [LanesNext]_lanesVars
    BY <1>4 DEF KeepLanes, lanesVars, taskVars, laneVars
  <1>5. CASE Apply \/ PullEnds \/ Exit
    BY <1>4, <1>5 DEF Apply, PullEnds, Exit
  <1>6. CASE BuildFails \/ BuildEnds \/ DrainTimeout \/ DrainEnds
    BY <1>3, <1>6 DEF BuildFails, BuildEnds, DrainTimeout, DrainEnds
  <1> QED
    BY <1>1, <1>2, <1>5, <1>6 DEF Next, Updater

\* The server with its updater implements the task lanes: nothing the updater
\* does to them goes beyond setting and clearing the drain flag.
THEOREM ServerRunsLanes == Spec => LanesSpec
  <1>1. Init => LanesInit
    BY DEF Init
  <1> QED
    BY <1>1, StepOfLanes, PTL DEF Spec, LanesSpec

\* No update, drain or time-out makes two tasks of a lane run together.
THEOREM OneRunnerUnderUpdate == Spec => []OneRunsPerLane
  BY ServerRunsLanes, OneRunnerCorrect

\* No update, drain or time-out lets a task overtake another of its lane.
THEOREM FifoUnderUpdate == Spec => []StartsInOrder
  BY ServerRunsLanes, FifoCorrect

-----------------------------------------------------------------------------
\* Routes and lane threads never touch the flag.
LEMMA TaskingKeepsFlag == Tasking => draining' = draining
  <1>1. Routes => draining' = draining
    BY DEF Routes, Submit, SubmitRefused, Cancel
  <1>2. ASSUME NEW th \in Threads, LaneStep(th) \/ WorkerEnds(th)
        PROVE  draining' = draining
    BY <1>2 DEF LaneStep, Retire, Take, Check, Start, Close, WorkerEnds
  <1> QED
    BY <1>1, <1>2 DEF Tasking

LEMMA DrainOwnedStep == TypeOK /\ DrainOwned /\ [Next]_vars => DrainOwned'
  <1> SUFFICES ASSUME TypeOK, DrainOwned, [Next]_vars PROVE DrainOwned'
    OBVIOUS
  <1> USE DEF DrainOwned, TypeOK, LanesTypeOK
  <1>1. CASE UNCHANGED vars
    BY <1>1 DEF vars
  <1>2. CASE Tasking /\ UNCHANGED updateVars
    BY <1>2, TaskingKeepsFlag DEF updateVars
  <1>3. CASE Apply \/ PullEnds \/ Exit
    BY <1>3 DEF Apply, PullEnds, Exit, Moves
  <1>4. CASE Updater
    BY <1>3, <1>4 DEF Updater, BuildFails, BuildEnds, DrainTimeout, DrainEnds,
                      Moves
  <1> QED
    BY <1>1, <1>2, <1>3, <1>4 DEF Next

\* The updater's own variables keep their types.
LEMMA UpdateTypes ==
  ASSUME TypeOK, [Next]_vars
  PROVE  /\ update' \in UpdateState /\ updates' \in 0 .. MaxUpdates
         /\ server' \in {"up", "updated", "gone"}
  <1> USE SelfUpdateAssumption DEF TypeOK, UpdateState
  <1>1. CASE UNCHANGED vars
    BY <1>1 DEF vars
  <1>2. CASE Tasking /\ UNCHANGED updateVars
    BY <1>2 DEF updateVars
  <1>3. CASE Apply
    BY <1>3 DEF Apply
  <1>4. CASE Updater \/ Exit
    BY <1>4 DEF Updater, PullEnds, BuildFails, BuildEnds, DrainTimeout, DrainEnds,
                Exit, Moves
  <1> QED
    BY <1>1, <1>2, <1>3, <1>4 DEF Next

\* Every variable of the server keeps its type.
THEOREM ServerTypeCorrect == Spec => []TypeOK
  <1>1. Init => TypeOK
    BY InitInv, SelfUpdateAssumption DEF Init, TypeOK, UpdateState, LanesInv
  <1>2. TypeOK /\ LanesTypeOK' /\ [Next]_vars => TypeOK'
    BY UpdateTypes DEF TypeOK
  <1> QED
    BY <1>1, <1>2, ServerRunsLanes, LanesTypeCorrect, PTL DEF Spec

\* The gpu lane is closed exactly while an update waits for tasks to end.
THEOREM DrainOwnedCorrect == Spec => []DrainOwned
  <1>1. Init => DrainOwned
    BY DEF Init, LanesInit, DrainOwned
  <1> QED
    BY <1>1, DrainOwnedStep, ServerTypeCorrect, PTL DEF Spec
=============================================================================
