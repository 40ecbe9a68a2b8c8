------------------------------- MODULE UdpServer -------------------------------
(***************************************************************************)
(* The UDP server in event mode:                                           *)
(* src/wisun_node_monitoring/app_udp_server.c.                             *)
(*                                                                         *)
(* The stack's event task calls back once per datagram it has buffered.    *)
(* The callback moves one datagram from the socket into a block of a fixed *)
(* memory pool and queues the block; the worker thread handles the queued  *)
(* datagrams one by one and gives the blocks back.  All of this is set up  *)
(* before the device joins a network (app.c 1190 and 1198), so that the    *)
(* first datagram finds the server ready.                                  *)
(***************************************************************************)
EXTENDS Integers, Sequences, FiniteSets

CONSTANTS
  QueueLen,   \* UDP_WORKER_QUEUE_LEN, of the pool and of the queue
  SocketCap,  \* how many datagrams the stack buffers for the socket
  MaxArrived, \* bound: datagrams that arrive; they are numbered from 1
  MaxErrors,  \* bound: recvfrom calls that fail
  None

ASSUME UdpAssumption ==
  /\ QueueLen \in Nat \ {0} /\ SocketCap \in Nat \ {0}
  /\ MaxArrived \in Nat /\ MaxErrors \in Nat
  /\ None \notin 1 .. QueueLen

VARIABLES
  arrived,   \* how many datagrams have arrived
  socket,    \* the datagrams buffered by the stack
  events,    \* data-available indications not yet delivered
  pool,      \* the free blocks of udp_rx_pool_id
  content,   \* the datagram in each block's buff, 0 once it is cleared
  queue,     \* udp_rx_queue_id
  callback,  \* where the event task stands in _udp_custom_callback
  filling,   \* its local msg
  worker,    \* where _udp_worker_task stands
  msg,       \* its local msg
  handled,   \* the datagrams handled, in order
  drops,     \* count_udp_drop
  errors     \* failed recvfrom calls

netVars == <<arrived, socket, events>>
blockVars == <<pool, content, queue>>
cbVars == <<callback, filling, drops, errors>>
workerVars == <<worker, msg, handled>>
vars == <<netVars, blockVars, cbVars, workerVars>>

Blocks == 1 .. QueueLen

-----------------------------------------------------------------------------
(* The network and the stack.                                              *)

Arrive ==
  /\ arrived < MaxArrived
  /\ arrived' = arrived + 1
  /\ IF Len(socket) < SocketCap
     THEN socket' = Append(socket, arrived') /\ events' = events + 1
     ELSE UNCHANGED <<socket, events>>
  /\ UNCHANGED <<blockVars, cbVars, workerVars>>

-----------------------------------------------------------------------------
(* The event task: _udp_custom_callback.                                   *)

Allocate ==
  /\ callback = "idle"
  /\ events > 0
  /\ events' = events - 1
  /\ \E b \in pool :
       /\ pool' = pool \ {b}
       /\ content' = [content EXCEPT ![b] = 0]
       /\ filling' = b
  /\ callback' = "receive"
  /\ UNCHANGED <<arrived, socket, queue, drops, errors, workerVars>>

DropTakes ==
  /\ callback = "idle"
  /\ events > 0
  /\ pool = {}
  /\ events' = events - 1
  /\ drops' = drops + 1
  /\ socket' = Tail(socket)
  /\ UNCHANGED <<arrived, blockVars, callback, filling, errors, workerVars>>

(* No block is free: counted, and the datagram stays in the socket.        *)
Drop ==
  /\ callback = "idle"
  /\ events > 0
  /\ pool = {}
  /\ events' = events - 1
  /\ drops' = drops + 1
  /\ UNCHANGED <<arrived, socket, blockVars, callback, filling, errors, workerVars>>

(* recvfrom takes the oldest datagram.                                     *)
Recvfrom ==
  /\ callback = "receive"
  /\ socket # <<>>
  /\ content' = [content EXCEPT ![filling] = Head(socket)]
  /\ socket' = Tail(socket)
  /\ callback' = "put"
  /\ UNCHANGED <<arrived, events, pool, queue, filling, drops, errors, workerVars>>

RecvfromFails ==
  /\ callback = "receive"
  /\ errors < MaxErrors
  /\ errors' = errors + 1
  /\ pool' = pool \cup {filling}
  /\ filling' = None
  /\ callback' = "idle"
  /\ UNCHANGED <<netVars, content, queue, drops, workerVars>>

PutInFront ==
  /\ callback = "put"
  /\ queue' = <<filling>> \o queue
  /\ filling' = None
  /\ callback' = "idle"
  /\ UNCHANGED <<netVars, pool, content, drops, errors, workerVars>>

PutOnlyFirst ==
  /\ callback = "put"
  /\ IF queue = <<>>
     THEN queue' = <<filling>> /\ UNCHANGED pool
     ELSE pool' = pool \cup {filling} /\ UNCHANGED queue
  /\ filling' = None
  /\ callback' = "idle"
  /\ UNCHANGED <<netVars, content, drops, errors, workerVars>>

(* osMessageQueuePut.  It would fail if the queue were full, which it      *)
(* never is: OneHolder.                                                    *)
Put ==
  /\ callback = "put"
  /\ queue' = Append(queue, filling)
  /\ filling' = None
  /\ callback' = "idle"
  /\ UNCHANGED <<netVars, pool, content, drops, errors, workerVars>>

-----------------------------------------------------------------------------
(* The worker: _udp_worker_task and _udp_handle_rx_payload.                *)

GetFreesEarly ==
  /\ worker = "get"
  /\ queue # <<>>
  /\ msg' = Head(queue)
  /\ queue' = Tail(queue)
  /\ pool' = pool \cup {Head(queue)}
  /\ worker' = "handle"
  /\ UNCHANGED <<netVars, content, cbVars, handled>>

Get ==
  /\ worker = "get"
  /\ queue # <<>>
  /\ msg' = Head(queue)
  /\ queue' = Tail(queue)
  /\ worker' = "handle"
  /\ UNCHANGED <<netVars, pool, content, cbVars, handled>>

(* It is handled: as a firmware chunk, as a command, or as text.           *)
Handle ==
  /\ worker = "handle"
  /\ handled' = Append(handled, content[msg])
  /\ worker' = "free"
  /\ UNCHANGED <<netVars, blockVars, cbVars, msg>>

Free ==
  /\ worker = "free"
  /\ pool' = pool \cup {msg}
  /\ msg' = None
  /\ worker' = "get"
  /\ UNCHANGED <<netVars, content, queue, cbVars, handled>>

-----------------------------------------------------------------------------
Init ==
  /\ arrived = 0
  /\ socket = <<>>
  /\ events = 0
  /\ pool = Blocks
  /\ content = [b \in Blocks |-> 0]
  /\ queue = <<>>
  /\ callback = "idle"
  /\ filling = None
  /\ worker = "get"
  /\ msg = None
  /\ handled = <<>>
  /\ drops = 0
  /\ errors = 0

Callback == Allocate \/ Drop \/ Recvfrom \/ RecvfromFails \/ Put

Worker == Get \/ Handle \/ Free

Next == Arrive \/ Callback \/ Worker

Spec == Init /\ [][Next]_vars

-----------------------------------------------------------------------------
TypeOK ==
  /\ arrived \in 0 .. MaxArrived
  /\ socket \in Seq(1 .. MaxArrived) /\ Len(socket) <= SocketCap
  /\ events \in Nat
  /\ pool \subseteq Blocks
  /\ content \in [Blocks -> 0 .. MaxArrived]
  /\ queue \in Seq(Blocks)
  /\ callback \in {"idle", "receive", "put"}
  /\ filling \in Blocks \cup {None}
  /\ callback = "idle" <=> filling = None
  /\ worker \in {"get", "handle", "free"}
  /\ msg \in Blocks \cup {None}
  /\ worker = "get" <=> msg = None
  /\ handled \in Seq(0 .. MaxArrived)
  /\ drops \in Nat
  /\ errors \in 0 .. MaxErrors

Queued == {queue[i] : i \in DOMAIN queue}

(* No block leaks and none is shared: each block is free, being filled,    *)
(* queued once or being handled, whatever fails.  Hence the queue has room *)
(* for every block the pool hands out, and putting one there never fails.  *)
OneHolder ==
  /\ Blocks \subseteq pool \cup Queued \cup {filling, msg}
  /\ pool \cap Queued = {} /\ {filling, msg} \cap (pool \cup Queued) = {}
  /\ filling = msg => msg = None
  /\ \A i, j \in DOMAIN queue : queue[i] = queue[j] => i = j
  /\ callback = "put" => Len(queue) < QueueLen

(* The datagrams that were accepted and are not handled yet: the worker    *)
(* has one, others are queued, the callback may have one, and the rest is  *)
(* in the socket.                                                          *)
InHand == IF worker = "handle" THEN <<content[msg]>> ELSE <<>>
Waiting == [i \in DOMAIN queue |-> content[queue[i]]]
Received == IF callback = "put" THEN <<content[filling]>> ELSE <<>>
Pending == InHand \o (Waiting \o (Received \o socket))

Fifo == INSTANCE DatagramFifo WITH pending <- Pending

(* The pool, the queue and the two threads make up one queue: a datagram   *)
(* the socket accepted is handled once, in order and as it was received,   *)
(* and none gets lost, whatever is dropped and whichever recvfrom fails.   *)
ImplementsFifo == Fifo!FifoSpec

(* A counted drop does not discard a datagram.  It spends the indication   *)
(* and leaves the datagram in the socket, where the next indication finds  *)
(* it: the server stays one datagram behind per drop or failed recvfrom.   *)
(* And every variable keeps its type.                                      *)
DropsStayBehind ==
  /\ TypeOK
  /\ Len(socket) = events + drops + errors + IF callback = "receive" THEN 1 ELSE 0
=============================================================================
