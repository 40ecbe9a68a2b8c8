-------------------------------- MODULE Servers --------------------------------
(***************************************************************************)
(* The UDP and the TCP server together.  Both run in callbacks of the one  *)
(* event task, which delivers an indication when the callbacks of the one  *)
(* before have returned: src/wisun_node_monitoring/app.c starts both       *)
(* before the device joins, and each tells its data by the socket.         *)
(***************************************************************************)
EXTENDS UdpServer

CONSTANTS
  BuffSize, SegmentLen, MaxClients, MaxFailures, Failed, Listener,
  Loads  \* bound: what may arrive together, [datagrams, clients, segments]

VARIABLES
  clients, sent, failures, open, stream, fin, indications, step, client, taken, buff,
  length, received, printer, shown, latest, calm, overlapped

Tcp == INSTANCE TcpServer

ASSUME ServersAssumption == Tcp!TcpAssumption

udpVars == vars
tcpVars == <<clients, sent, failures, open, stream, fin, indications, step, client, taken, buff,
             length, received, printer, shown, latest, calm, overlapped>>
allVars == <<udpVars, tcpVars>>

ServersInit == Init /\ Tcp!Init

UdpCallback == step = "idle" /\ Callback /\ UNCHANGED tcpVars

TcpCallback == callback = "idle" /\ Tcp!Callback /\ UNCHANGED udpVars

UdpWorker == Worker /\ UNCHANGED tcpVars

TcpPrinter == Tcp!Printer /\ UNCHANGED udpVars

Environment ==
  /\ \/ Arrive /\ UNCHANGED tcpVars
     \/ Tcp!Client /\ UNCHANGED udpVars
  /\ \E l \in Loads :
       arrived' <= l.datagrams /\ clients' <= l.clients /\ sent' <= l.segments

ServersNext == UdpCallback \/ TcpCallback \/ UdpWorker \/ TcpPrinter \/ Environment

(* The kernel schedules the event task, the worker and app_task; nothing   *)
(* is assumed about the network and the clients, and a recv that finds     *)
(* nothing waits: it does not have to fail.                                *)
ServersSpec ==
  /\ ServersInit /\ [][ServersNext]_allVars
  /\ WF_allVars(UdpCallback) /\ WF_allVars(TcpCallback /\ failures' = failures)
  /\ WF_allVars(UdpWorker) /\ WF_allVars(TcpPrinter)

-----------------------------------------------------------------------------
(* A text that is printed is what the last recv returned: the terminator   *)
(* is where it ends and nothing of an older text shows, unless printing    *)
(* overlapped with that recv, or it failed.                                *)
TextIsWhole == Tcp!TextIsWhole

(* No byte of the client, and no end of it, is left behind without an      *)
(* indication to come, and no socket stays open after its client, although *)
(* the event task serves UDP in between; and every variable of the TCP     *)
(* server keeps its type.                                                  *)
KeepsUpWithClient == Tcp!TypeOK /\ Tcp!KeepsUpWithClient

(* What recv returns while no text is waiting is printed by app_task in    *)
(* the end, unless more is received first.                                 *)
ReceivedIsPrinted == Tcp!ReceivedIsPrinted

(* The event task sits in a recv of the TCP server that finds nothing.     *)
TcpWaits ==
  step = "receive" /\ client \in open \ fin /\ stream[client] = <<>>

(* Every datagram the stack has buffered is handled in the end, as long as *)
(* no indication was wasted on an empty pool or a failed recvfrom, and the *)
(* TCP server does not keep the event task waiting.                        *)
BufferedIsHandled ==
  \A d \in 1 .. MaxArrived :
    (\E i \in DOMAIN socket : socket[i] = d)
      ~> ((\E i \in DOMAIN handled : handled[i] = d) \/ drops + errors > 0 \/ TcpWaits)
=============================================================================
