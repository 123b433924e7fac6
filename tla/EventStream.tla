----------------------------- MODULE EventStream -----------------------------
(***************************************************************************)
(* One browser's event stream: the server's bounded queue and sender task  *)
(* for its connection, and the service that holds the socket, retries when *)
(* it is lost and tells the stores when it is back.                        *)
(*   events.py             connect, broadcast, _enqueue_drop_oldest,       *)
(*                         _sender_loop, disconnect                        *)
(*   websocket.service.ts  connect, scheduleReconnect, forceReconnect,     *)
(*                         the handlers and the reconnect timer            *)
(* Sockets are numbered as the service numbers its connections.  How long  *)
(* a retry waits, and what the banner says of it, is left out, and so is   *)
(* the server_hello: the stores that reload on it are not modelled.        *)
(***************************************************************************)
EXTENDS Integers, Sequences

CONSTANTS
  MaxQueue,      \* _QUEUE_MAXSIZE
  MaxWire,       \* bound: messages a socket takes before send_text waits
  MaxReconnects  \* bound: connections made after the first

ASSUME StreamBounds ==
  MaxQueue \in Nat \ {0} /\ MaxWire \in Nat \ {0} /\ MaxReconnects \in Nat

Sockets == 1 .. MaxReconnects + 1

VARIABLES
  socket,      \* the browser's socket objects
  generation,  \* the newest of them
  held,        \* this.socket is not null
  retry,       \* the reconnect timer is armed
  expired,     \* the session is, and the page leaves for the sign-in
  link,        \* the server's end of the newest socket
  queue,       \* its outbound queue
  wire         \* messages sent and not yet handled by the browser

streamVars == <<socket, generation, held, retry, expired, link, queue, wire>>

StreamTypeOK ==
  /\ socket \in [Sockets -> {"none", "connecting", "open", "refused", "closing", "closed"}]
  /\ generation \in Sockets
  /\ {held, retry, expired} \subseteq BOOLEAN
  /\ link \in {"down", "accepted", "registered"}
  /\ Len(queue) <= MaxQueue /\ Len(wire) <= MaxWire

\* The page has loaded and its first connection is made.
StreamInit ==
  /\ socket = [s \in Sockets |-> IF s = 1 THEN "open" ELSE "none"]
  /\ generation = 1 /\ held = TRUE
  /\ retry = FALSE /\ expired = FALSE
  /\ link = "registered" /\ queue = << >> /\ wire = << >>

Live(s)   == socket[s] \in {"connecting", "open"}
Ending(s) == socket[s] \in {"refused", "closing"}
Cut       == link' = "down" /\ queue' = << >> /\ wire' = << >>

-----------------------------------------------------------------------------
(* The service.                                                            *)

\* scheduleReconnect
Schedule == retry' = ~expired

\* Faulty variant: a constructor that throws is left to the handlers.
ConnectAndHope ==
  LET rest == [s \in Sockets |-> IF held /\ s = generation /\ Live(s) THEN "closing" ELSE socket[s]]
  IN  /\ ~expired /\ generation <= MaxReconnects
      /\ generation' = generation + 1 /\ retry' = FALSE
      /\ \/ /\ socket' = [rest EXCEPT ![generation + 1] = "connecting"] /\ held' = TRUE
         \/ /\ socket' = rest /\ held' = FALSE
      /\ Cut
      /\ UNCHANGED expired

\* connect(): the timer is cancelled, the old socket loses its handlers and is
\* closed, and a new one is made, or its constructor throws.
Connect ==
  LET rest == [s \in Sockets |-> IF held /\ s = generation /\ Live(s) THEN "closing" ELSE socket[s]]
  IN  /\ ~expired /\ generation <= MaxReconnects
      /\ generation' = generation + 1
      /\ \/ /\ socket' = [rest EXCEPT ![generation + 1] = "connecting"] /\ held' = TRUE
            /\ retry' = FALSE
         \/ /\ socket' = rest /\ held' = FALSE
            /\ Schedule
      /\ Cut
      /\ UNCHANGED expired

RetryFires == retry /\ Connect

\* forceReconnect: the banner's button, which does nothing to a live socket.
ForceReconnect == ~(held /\ Live(generation)) /\ Connect

-----------------------------------------------------------------------------
(* The connection.                                                         *)

\* event_manager.connect accepts, and onopen fires ...
Accept ==
  /\ socket[generation] = "connecting"
  /\ socket' = [socket EXCEPT ![generation] = "open"]
  /\ link' = "accepted"
  /\ UNCHANGED <<generation, held, retry, expired, queue, wire>>

\* ... then registers a queue with a sender of its own.
Register ==
  /\ link = "accepted" /\ link' = "registered"
  /\ UNCHANGED <<socket, generation, held, retry, expired, queue, wire>>

\* _sender_loop
Send ==
  /\ queue # << >> /\ Len(wire) < MaxWire
  /\ wire' = Append(wire, Head(queue)) /\ queue' = Tail(queue)
  /\ UNCHANGED <<socket, generation, held, retry, expired, link>>

\* The server refuses the socket, goes away, or the network does; what was
\* under way is lost.
Lose ==
  /\ Live(generation)
  /\ socket' = [socket EXCEPT ![generation] =
                  IF @ = "connecting" THEN "refused" ELSE "closing"]
  /\ Cut
  /\ UNCHANGED <<generation, held, retry, expired>>

\* onclose: only of the current generation.  A refusal may carry the code of a
\* rejected session.
OnClose(s) ==
  /\ Ending(s)
  /\ socket' = [socket EXCEPT ![s] = "closed"]
  /\ \/ /\ s = generation /\ held' = FALSE
        /\ \/ Schedule /\ UNCHANGED expired
           \/ socket[s] = "refused" /\ expired' = TRUE /\ UNCHANGED retry
     \/ s # generation /\ UNCHANGED <<held, retry, expired>>
  /\ UNCHANGED <<generation, link, queue, wire>>

\* onmessage of the next message; the rest is the receiver's.
Arrives(msg) ==
  /\ wire # << >> /\ msg = Head(wire) /\ wire' = Tail(wire)
  /\ UNCHANGED <<socket, generation, held, retry, expired, link, queue>>

Joined == link = "registered"

\* Faulty variant: a full queue takes one more.
EnqueuedLate(event) ==
  IF ~Joined THEN queue
  ELSE Append(IF Len(queue) <= MaxQueue THEN queue ELSE Tail(queue), event)

\* Faulty variant: a full queue stays as it is.
EnqueuedOrNot(event) ==
  IF ~Joined \/ Len(queue) = MaxQueue THEN queue ELSE Append(queue, event)

\* broadcast: enqueue, dropping the oldest of a full queue, and never wait.
Enqueued(event) ==
  IF ~Joined THEN queue
  ELSE Append(IF Len(queue) < MaxQueue THEN queue ELSE Tail(queue), event)

StreamStep ==
  \/ RetryFires \/ Accept \/ Register \/ Send
  \/ \E s \in Sockets : OnClose(s)

StreamTrouble == ForceReconnect \/ Lose

-----------------------------------------------------------------------------
(* What must hold.                                                         *)

\* However closes, retries and the button interleave, a browser whose session
\* lasts has exactly one way to the server: a live socket, the only one, or a
\* close still to be reported that will arm a retry, or else the retry.
OneWayBack ==
  /\ \A s \in Sockets : Live(s) => s = generation /\ held
  /\ expired \/ (retry <=> ~ (Live(generation) \/ Ending(generation)))
=============================================================================
