------------------------------ MODULE DatagramFifo ------------------------------
(***************************************************************************)
(* What the UDP server does with the datagrams, without the stack's        *)
(* indications, the memory pool, the message queue and the two threads: a  *)
(* queue.  What was accepted is handled, once and in order; nothing is     *)
(* refused while there is room in the socket.                              *)
(* UdpServer implements it (ImplementsFifo).                               *)
(***************************************************************************)
EXTENDS Integers, Sequences

CONSTANTS QueueLen, SocketCap

VARIABLES
  arrived,  \* how many datagrams have arrived; they are numbered from 1
  pending,  \* the datagrams accepted and not yet handled
  handled   \* the datagrams handled, in order

fifoVars == <<arrived, pending, handled>>

FifoInit == arrived = 0 /\ pending = <<>> /\ handled = <<>>

(* A datagram has room in the socket or in a block.                        *)
Accept ==
  /\ Len(pending) < SocketCap + QueueLen
  /\ arrived' = arrived + 1
  /\ pending' = Append(pending, arrived')
  /\ UNCHANGED handled

(* The socket is full, whatever became of the blocks.                      *)
Refuse ==
  /\ Len(pending) >= SocketCap
  /\ arrived' = arrived + 1
  /\ UNCHANGED <<pending, handled>>

HandleNext ==
  /\ pending # <<>>
  /\ handled' = Append(handled, Head(pending))
  /\ pending' = Tail(pending)
  /\ UNCHANGED arrived

FifoNext == Accept \/ Refuse \/ HandleNext

FifoSpec == FifoInit /\ [][FifoNext]_fifoVars

(* What follows for the datagrams: those handled and those to be handled,  *)
(* one after the other, are in the order they arrived, each once.          *)
Order == handled \o pending

OnceAndInOrder ==
  /\ \A i, j \in DOMAIN Order : i < j => Order[i] < Order[j]
  /\ \A i \in DOMAIN Order : Order[i] \in 1 .. arrived
=============================================================================
