----------------------------- MODULE DirectConnect -----------------------------
(***************************************************************************)
(* Direct Connect, src/wisun_node_monitoring/app_direct_connect.c, on top  *)
(* of the reporter: a commissioning tool may connect to the device over a  *)
(* link of its own, also before the device has joined a network.  While    *)
(* the link is up all traces are reported to the tool, by the reporter     *)
(* that CoAP requests start and stop as well.                              *)
(***************************************************************************)
EXTENDS Reporter

CONSTANTS
  Coap, EventTask, \* the starters
  CoapRequests,    \* what CoAP requests ask the reporter for
  Tool,            \* the link-local address of the tool
  MaxLinks         \* bound: links offered

LinkRequest == [dest |-> Tool, match |-> <<All>>]

(* Nothing in the code keeps the strings of two starts that run into each  *)
(* other inside the array: requests are taken to leave one slot.           *)
ASSUME DirectConnectAssumption ==
  /\ Starters = {Coap, EventTask} /\ Coap # EventTask
  /\ Requests = CoapRequests \cup {LinkRequest}
  /\ \A r \in CoapRequests : r.dest # Tool /\ Len(r.match) + 1 <= MatchSlots
  /\ MaxLinks \in Nat

VARIABLES
  allowed,     \* sl_wisun_set_direct_connect_state: None until it is called
  link,        \* of the stack, with the tool
  links,       \* counted for the bound
  indications  \* of the stack, not yet delivered

linkVars == <<allowed, link, links, indications>>
allVars == <<vars, linkVars>>

-----------------------------------------------------------------------------
(* app_direct_connect(true), called once by app_task: the key is imported  *)
(* and set, and links are allowed unless one of these fails.               *)
Enable ==
  /\ allowed = None
  /\ allowed' \in BOOLEAN
  /\ UNCHANGED <<vars, link, links, indications>>

(* The tool and the stack.                                                 *)
Offer ==
  /\ allowed = TRUE
  /\ link = "none"
  /\ links < MaxLinks
  /\ links' = links + 1
  /\ link' = "offered"
  /\ indications' = Append(indications, "available")
  /\ UNCHANGED <<vars, allowed>>

(* A link that was accepted comes up, or fails.                            *)
LinkUp ==
  /\ link = "accepted"
  /\ \/ link' = "connected" /\ indications' = Append(indications, "connected")
     \/ link' = "none" /\ indications' = Append(indications, "error")
  /\ UNCHANGED <<vars, allowed, links>>

LinkLost ==
  /\ link = "connected"
  /\ link' = "none"
  /\ indications' = Append(indications, "disconnected")
  /\ UNCHANGED <<vars, allowed, links>>

-----------------------------------------------------------------------------
(* The event task: app_direct_connect_custom_callback.                     *)

Deliver(i) ==
  /\ ~Starting(EventTask)
  /\ indications # <<>> /\ Head(indications) = i
  /\ indications' = Tail(indications)
  /\ UNCHANGED <<allowed, links>>

(* Every link is accepted; the stack may refuse.                           *)
LinkAvailable ==
  /\ Deliver("available")
  /\ link' \in {"accepted", "none"}
  /\ UNCHANGED vars

LinkConnected ==
  /\ Deliver("connected")
  /\ Start(EventTask, LinkRequest)
  /\ UNCHANGED link

LinkError ==
  /\ Deliver("error")
  /\ UNCHANGED <<vars, link>>

LinkDisconnectedIgnored ==
  /\ Deliver("disconnected")
  /\ UNCHANGED <<vars, link>>

(* Whoever started the reporter, it is stopped.                            *)
LinkDisconnected ==
  /\ Deliver("disconnected")
  /\ IF timer THEN Stop(EventTask) ELSE UNCHANGED vars
  /\ UNCHANGED link

(* The rest of a call of app_start_reporter, of either thread.             *)
GoOnStarting(c) ==
  /\ ClearMatches(c) \/ AddMatch(c) \/ StartTimer(c)
  /\ UNCHANGED linkVars

CoapRequest ==
  /\ \/ \E r \in CoapRequests : Start(Coap, r)
     \/ Stop(Coap)
  /\ UNCHANGED linkVars

-----------------------------------------------------------------------------
LinkInit ==
  /\ Init
  /\ allowed = None /\ link = "none" /\ links = 0 /\ indications = <<>>

Stack == Offer \/ LinkUp \/ LinkLost

LinkCallback == LinkAvailable \/ LinkConnected \/ LinkError \/ LinkDisconnected

Reporting ==
  /\ \/ TimerExpires \/ Setup \/ SetupFails \/ Report
     \/ \E l \in Lines : Trace(l)
  /\ UNCHANGED linkVars

LinkNext ==
  /\ ~failed
  /\ \/ Enable \/ Stack \/ LinkCallback \/ CoapRequest \/ Reporting
     \/ \E c \in Starters : GoOnStarting(c)

(* The thread, if it can be set up at all, gets to run between the calls,  *)
(* and a running timer expires again and again.                            *)
LinkSpec ==
  /\ LinkInit /\ [][LinkNext]_allVars
  /\ WF_allVars(~failed /\ Report /\ UNCHANGED linkVars)
  /\ WF_allVars(~failed /\ TimerExpires /\ UNCHANGED linkVars)

-----------------------------------------------------------------------------
LinkTypeOK ==
  /\ allowed \in BOOLEAN \cup {None}
  /\ link \in {"none", "offered", "accepted", "connected"}
  /\ indications \in Seq({"available", "connected", "error", "disconnected"})

(* The reporter does not go on sending to a tool whose link is lost,       *)
(* however the link comes and goes and whatever CoAP requests start and    *)
(* stop, unless a CoAP start and that of the link ran into each other: the *)
(* one may start the timer when the other has been stopped.                *)
NoReportsToLostTool ==
  /\ LinkTypeOK
  /\ timer /\ dest = Tool /\ latest # None =>
       link = "connected" \/ \E i \in DOMAIN indications : indications[i] = "disconnected"
=============================================================================
