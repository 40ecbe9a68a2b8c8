------------------------------- MODULE TcpServer -------------------------------
(***************************************************************************)
(* The TCP server in event mode:                                           *)
(* src/wisun_node_monitoring/app_tcp_server.c.                             *)
(*                                                                         *)
(* The stack's event task accepts a client and receives what it sent into  *)
(* the only buffer; app_task looks at a flag and prints the buffer.  There *)
(* is no lock, one flag, and one client at a time: tcp_client_sockid.      *)
(*                                                                         *)
(* A client's bytes are cells that hold the number of the segment they     *)
(* came in, so that a text shows where it is from; 0 ends a string.        *)
(***************************************************************************)
EXTENDS Integers, Sequences, FiniteSets

CONSTANTS
  BuffSize,    \* SL_WISUN_TCP_SERVER_BUFF_SIZE
  SegmentLen,  \* SegmentLen[n]: the cells of the n-th segment sent
  MaxClients,  \* bound: clients that connect
  MaxFailures, \* bound: calls of accept and recv that fail
  Failed,      \* -1, as a socket and, in a uint16_t, as a length
  Listener     \* the socket of connection-available indications

Segments == DOMAIN SegmentLen
Sockets == 1 .. MaxClients

(* A segment fits the buffer, with the 0 that ends it.                     *)
TcpAssumption ==
  /\ BuffSize \in Nat \ {0} /\ MaxClients \in Nat /\ MaxFailures \in Nat
  /\ SegmentLen \in Seq(1 .. BuffSize - 1)
  /\ Failed \notin Sockets \cup Nat /\ Listener \notin Sockets

VARIABLES
  clients, sent, failures,  \* counted for the bounds
  open,       \* the client sockets that are open
  stream,     \* what each has received and not yet been asked for
  fin,        \* the sockets whose client has closed
  indications,\* of the stack, not yet delivered: Listener or a client socket
  step,       \* where the event task stands in _tcp_custom_callback
  client,     \* tcp_client_sockid
  taken,      \* what recv has returned
  buff,       \* tcp_buff
  length,     \* tcp_data_length
  received,   \* tcp_socket_data_received
  printer,    \* where app_task stands in check_tcp_server_messages
  shown,      \* the text it printed last
  latest,     \* auxiliary: the text received last
  calm,       \* auxiliary: printing has not overlapped with the last recv
  overlapped  \* auxiliary: a client connected while another was

stackVars == <<clients, sent, open, stream, fin, indications>>
callbackVars == <<failures, step, client, taken, length, received>>
printVars == <<printer, shown>>
auxVars == <<latest, calm, overlapped>>
vars == <<stackVars, callbackVars, buff, printVars, auxVars>>

-----------------------------------------------------------------------------
(* The clients and the stack.                                              *)

Connect ==
  /\ clients < MaxClients
  /\ clients' = clients + 1
  /\ indications' = Append(indications, Listener)
  /\ UNCHANGED <<sent, open, stream, fin, callbackVars, buff, printVars, auxVars>>

(* Each segment is indicated.                                              *)
Segment(s) ==
  /\ s \in open \ fin
  /\ sent < Len(SegmentLen)
  /\ sent' = sent + 1
  /\ stream' = [stream EXCEPT ![s] = @ \o [i \in 1 .. SegmentLen[sent'] |-> sent']]
  /\ indications' = Append(indications, s)
  /\ UNCHANGED <<clients, open, fin, callbackVars, buff, printVars, auxVars>>

Finish(s) ==
  /\ s \in open \ fin
  /\ fin' = fin \cup {s}
  /\ indications' = Append(indications, s)
  /\ UNCHANGED <<clients, sent, open, stream, callbackVars, buff, printVars, auxVars>>

-----------------------------------------------------------------------------
(* The event task: _tcp_custom_callback.                                   *)

Deliver(i) ==
  /\ step = "idle"
  /\ indications # <<>> /\ Head(indications) = i
  /\ indications' = Tail(indications)

(* accept: the stack gives the connection a socket that is free.           *)
Accept ==
  /\ Deliver(Listener)
  /\ \E s \in Sockets \ open :
       /\ \A r \in Sockets \ open : s <= r
       /\ open' = open \cup {s}
       /\ client' = s
  /\ overlapped' = (overlapped \/ open # {})
  /\ UNCHANGED <<clients, sent, stream, fin, failures, step, taken, length, received,
                 buff, printVars, latest, calm>>

AcceptFails ==
  /\ Deliver(Listener)
  /\ failures < MaxFailures
  /\ failures' = failures + 1
  /\ client' = Failed
  /\ UNCHANGED <<clients, sent, open, stream, fin, step, taken, length, received,
                 buff, printVars, auxVars>>

(* Data for another socket is left where it is.                            *)
NotForTheServer ==
  /\ \E s \in Sockets : s # client /\ Deliver(s)
  /\ UNCHANGED <<clients, sent, open, stream, fin, callbackVars, buff, printVars, auxVars>>

CallRecv ==
  /\ client # Failed
  /\ Deliver(client)
  /\ step' = "receive"
  /\ UNCHANGED <<clients, sent, open, stream, fin, failures, client, taken, length, received,
                 buff, printVars, auxVars>>

Least(a, b) == IF a < b THEN a ELSE b

(* recv waits until there is something, the end of the stream included,    *)
(* takes what fits the buffer, and does not end it with a 0.               *)
Recv ==
  LET n == Least(Len(stream[client]), BuffSize - 1) IN
  /\ step = "receive"
  /\ client \in open
  /\ stream[client] # <<>> \/ client \in fin
  /\ taken' = n
  /\ buff' = [i \in 1 .. BuffSize |-> IF i <= n THEN stream[client][i] ELSE buff[i]]
  /\ stream' = [stream EXCEPT ![client] = SubSeq(@, n + 1, Len(@))]
  /\ step' = "received"
  /\ latest' = SubSeq(stream[client], 1, n)
  /\ calm' = (printer = "rest")
  /\ UNCHANGED <<clients, sent, open, fin, indications, failures, client, length, received,
                 printVars, overlapped>>

(* It fails on a socket that is closed, and may fail on one that is not.   *)
RecvFails ==
  /\ step = "receive"
  /\ IF client \in open THEN failures < MaxFailures /\ failures' = failures + 1
                        ELSE UNCHANGED failures
  /\ taken' = Failed
  /\ step' = "received"
  /\ latest' = <<>>
  /\ calm' = FALSE
  /\ UNCHANGED <<stackVars, client, length, received, buff, printVars, overlapped>>

(* tcp_data_length is set; a failure becomes a length of 65535.            *)
StoreLength ==
  /\ step = "received"
  /\ length' = taken
  /\ step' = "stored"
  /\ UNCHANGED <<stackVars, failures, client, taken, received, buff, printVars, auxVars>>

TakeNoFlag ==
  /\ step = "stored"
  /\ IF length = 0
     THEN /\ open' = open \ {client}
          /\ fin' = fin \ {client}
          /\ received' = FALSE
     ELSE UNCHANGED <<open, fin, received>>
  /\ step' = "idle"
  /\ UNCHANGED <<clients, sent, stream, indications, failures, client, taken, length, buff,
                 printVars, auxVars>>

TakeKeepsOpen ==
  /\ step = "stored"
  /\ received' = (length # 0)
  /\ step' = "idle"
  /\ UNCHANGED <<stackVars, failures, client, taken, length, buff, printVars, auxVars>>

(* The flag: a failure counts as received.  A length of 0 is the end of    *)
(* the client, whose socket is closed but stays the one that is compared   *)
(* with.                                                                   *)
Take ==
  /\ step = "stored"
  /\ received' = (length # 0)
  /\ IF length = 0
     THEN /\ open' = open \ {client}
          /\ fin' = fin \ {client}
     ELSE UNCHANGED <<open, fin>>
  /\ step' = "idle"
  /\ UNCHANGED <<clients, sent, stream, indications, failures, client, taken, length, buff,
                 printVars, auxVars>>

-----------------------------------------------------------------------------
(* app_task, while the device is connected: check_tcp_server_messages.     *)

EndTextNot ==
  /\ printer = "rest"
  /\ received
  /\ calm' = (calm /\ step # "received")
  /\ printer' = "print"
  /\ UNCHANGED <<stackVars, callbackVars, buff, shown, latest, overlapped>>

(* The text is ended; after a failure, far outside the buffer.             *)
EndText ==
  /\ printer = "rest"
  /\ received
  /\ buff' = IF length = Failed THEN buff ELSE [buff EXCEPT ![length + 1] = 0]
  /\ calm' = (calm /\ step # "received")
  /\ printer' = "print"
  /\ UNCHANGED <<stackVars, callbackVars, shown, latest, overlapped>>

(* What printf makes of the buffer: all cells before the first 0.          *)
Text ==
  LET ends == {i \in 1 .. BuffSize : buff[i] = 0}
  IN SubSeq(buff, 1, (CHOOSE i \in ends : \A j \in ends : i <= j) - 1)

PrintText ==
  /\ printer = "print"
  /\ shown' = Text
  /\ printer' = "clear"
  /\ UNCHANGED <<stackVars, callbackVars, buff, auxVars>>

Clear ==
  /\ printer = "clear"
  /\ received' = FALSE
  /\ printer' = "rest"
  /\ UNCHANGED <<stackVars, failures, step, client, taken, length, buff, shown, auxVars>>

-----------------------------------------------------------------------------
Init ==
  /\ clients = 0 /\ sent = 0 /\ failures = 0
  /\ open = {} /\ stream = [s \in Sockets |-> <<>>] /\ fin = {}
  /\ indications = <<>>
  /\ step = "idle" /\ client = Failed
  /\ taken = 0 /\ length = 0 /\ received = FALSE
  /\ buff = [i \in 1 .. BuffSize |-> 0]
  /\ printer = "rest" /\ shown = <<>>
  /\ latest = <<>> /\ calm = TRUE /\ overlapped = FALSE

Client == Connect \/ \E s \in Sockets : Segment(s) \/ Finish(s)

Callback ==
  \/ Accept \/ AcceptFails \/ NotForTheServer
  \/ CallRecv \/ Recv \/ RecvFails \/ StoreLength \/ Take

Printer == EndText \/ PrintText \/ Clear

Next == Client \/ Callback \/ Printer

Spec == Init /\ [][Next]_vars

-----------------------------------------------------------------------------
TypeOK ==
  /\ open \subseteq Sockets /\ fin \subseteq open
  /\ stream \in [Sockets -> Seq(Segments)]
  /\ indications \in Seq(Sockets \cup {Listener})
  /\ step \in {"idle", "receive", "received", "stored"}
  /\ client \in Sockets \cup {Failed}
  /\ {taken, length} \subseteq 0 .. BuffSize - 1 \cup {Failed}
  /\ buff \in [1 .. BuffSize -> Segments \cup {0}] /\ buff[BuffSize] = 0
  /\ received \in BOOLEAN
  /\ printer \in {"rest", "print", "clear"}

(* A printed text is what the last recv returned, all of it and nothing    *)
(* of an older and longer one, unless that recv overlapped with printing   *)
(* or failed.                                                              *)
TextIsWhole ==
  printer = "clear" /\ calm => shown = latest

(* The server keeps up with its client: whatever the client has sent, its  *)
(* end included, is taken by an indication that is still to come, and a    *)
(* socket whose client has left does not stay open; unless a call failed   *)
(* or another client was connected at the same time.                       *)
KeepsUpWithClient ==
  failures = 0 /\ ~overlapped =>
    \A s \in open :
      /\ s = client
      /\ stream[s] # <<>> \/ s \in fin =>
           step # "idle" \/ \E i \in DOMAIN indications : indications[i] = s

(* What is received while nothing is printed, or waits to be, is printed,  *)
(* unless something else is received before.                               *)
ReceivedIsPrinted ==
  \A n \in Segments :
    step = "received" /\ taken \notin {0, Failed} /\ latest[1] = n /\ calm /\ ~received
      ~> shown = latest \/ latest = <<>> \/ latest[1] # n
=============================================================================
