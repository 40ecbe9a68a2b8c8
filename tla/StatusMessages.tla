----------------------------- MODULE StatusMessages -----------------------------
(***************************************************************************)
(* The messages that the connected device sends by itself:                 *)
(* src/wisun_node_monitoring/app.c, the loop of app_task,                  *)
(* app_do_your_things and print_and_send_messages, the connection message  *)
(* of the join state callback, and the CoAP requests of app_coap.c that    *)
(* share its variables.                                                    *)
(*                                                                         *)
(* Three threads build their text in the same json_string, and two of them *)
(* send it from the same udp_msg; the period of the status messages and    *)
(* the flag that asks for one at once are written by requests at any time. *)
(* None of this is locked.  Each use of a buffer is one step, and so is    *)
(* each access to the counter that numbers the messages.  The loop, which  *)
(* on a router runs every millisecond, runs once a second here.            *)
(***************************************************************************)
EXTENDS Integers

CONSTANTS
  PeriodLimit,   \* 2^15: auto_send_sec, an int16_t, is below
  SecondsLimit,  \* 2^64: next_status_sec, a uint64_t, is below
  LongestDelay,  \* the seconds after which a delay in milliseconds wraps
  IdleDelay,     \* the delay of the loop when the period is 0, 60 seconds
  FirstPeriod,   \* auto_send_sec when the device connects
  Periods,       \* the seconds a request may ask for
  MaxRequests,   \* bound: requests
  MaxLosses,     \* bound: lost connections
  MaxTime,       \* bound: the clock stops here
  None

ASSUME MessagesAssumption ==
  /\ PeriodLimit \in Nat \ {0} /\ SecondsLimit \in Nat
  /\ MaxTime < SecondsLimit
  /\ LongestDelay \in Nat \ {0} /\ IdleDelay \in Nat \ {0}
  /\ FirstPeriod \in Nat /\ Periods \subseteq Nat
  /\ MaxRequests \in Nat /\ MaxLosses \in Nat /\ MaxTime \in Nat

Threads == {"app", "event", "coap"}

VARIABLES
  clock,     \* seconds since the connection, connected_delay_sec when read
  router,    \* the network is joined as a router, not as an LFN
  operational,  \* join_state is SL_WISUN_JOIN_STATE_OPERATIONAL
  sockets,   \* udp_notification_socket_id: none yet, open, or invalid
  toUdp,     \* to_udp
  json,      \* json_string, as the message it holds
  udpMsg,    \* udp_msg, as the message it holds
  count,     \* msg_count
  loaded,    \* what each thread has read: msg_count, to increment it, and to_udp
  period,    \* auto_send_sec
  next,      \* next_status_sec
  asap,      \* send_asap
  at,        \* where each thread stands
  due,       \* time_to_send_status
  wake,      \* when the delay of the loop ends
  requests, losses,  \* counted for the bounds
  built,     \* auxiliary: the message each thread built last
  overlapped,  \* auxiliary: another thread made or sent a message meanwhile
  lost,      \* auxiliary: an increment of msg_count was overwritten by another
  sent,      \* auxiliary: the number of the last numbered message sent
  wanted,    \* auxiliary: the period last asked for
  agreed,    \* auxiliary: the period wanted when a status last fell due
  last,      \* auxiliary: when the last status was built, or None
  nap,       \* auxiliary: the longest delay of the loop since
  asked      \* auxiliary: when a status was asked for at once, or None

settingVars == <<router, period>>
bufferVars == <<json, udpMsg, count, loaded>>
loopVars == <<next, due, wake>>
counts == <<requests, losses>>
buildGhosts == <<built, overlapped, lost>>
timeGhosts == <<wanted, agreed, last, nap, asked>>
ghosts == <<buildGhosts, sent, timeGhosts>>
vars == <<clock, settingVars, operational, sockets, toUdp, bufferVars, asap, at, loopVars,
          counts, ghosts>>

Larger(a, b) == IF a > b THEN a ELSE b

(* The conversion of a number of seconds to an int16_t.                    *)
Signed(seconds) ==
  LET low == seconds % (2 * PeriodLimit)
  IN  IF low < PeriodLimit THEN low ELSE low - 2 * PeriodLimit

(* A sum of a uint64_t and an int16_t.                                     *)
Later(seconds, delay) == (seconds + delay) % SecondsLimit

-----------------------------------------------------------------------------
(* Making, copying and sending a message.                                  *)

Using(t) == at[t] \in {"store", "text", "copy", "send", "sendcrash", "reply"}

(* Thread t starts to make a message.                                      *)
Enter(t) ==
  overlapped' = [u \in Threads |-> IF u = t THEN \E v \in Threads \ {t} : Using(v)
                                  ELSE overlapped[u] \/ Using(u)]

(* _connection_json_string and _status_json_string count the message,      *)
(* reading msg_count ...                                                   *)
LoadCount(t) ==
  /\ Enter(t)
  /\ loaded' = [loaded EXCEPT ![t] = [count |-> count, toUdp |-> toUdp]]
  /\ at' = [at EXCEPT ![t] = "store"]

(* ... and writing it; calls of the stack follow ...                       *)
StoreCount(t) ==
  /\ at[t] = "store"
  /\ count' = loaded[t].count + 1
  /\ lost' = (lost \/ count # loaded[t].count)
  /\ at' = [at EXCEPT ![t] = "text"]
  /\ UNCHANGED <<clock, settingVars, operational, sockets, toUdp, json, udpMsg, loaded, asap,
                 loopVars, counts, built, overlapped, sent, timeGhosts>>

(* ... before the text with the msg_count of then goes to json_string.     *)
(* The message is sent where to_udp is set: the call reads it before or    *)
(* after making the text, its other argument.                              *)
Text(t, then) ==
  /\ at[t] = "text"
  /\ json' = [by |-> t, number |-> count]
  /\ built' = [built EXCEPT ![t] = json']
  /\ \E udp \in {loaded[t].toUdp, toUdp} :
       at' = [at EXCEPT ![t] = IF udp THEN "copy" ELSE then]
  /\ loaded' = [loaded EXCEPT ![t] = None]
  /\ UNCHANGED <<clock, settingVars, operational, sockets, toUdp, udpMsg, count, asap, loopVars,
                 counts, overlapped, lost, sent, timeGhosts>>

CopyOnce(t) ==
  /\ at[t] = "copy"
  /\ udpMsg' = IF udpMsg = None THEN json ELSE udpMsg
  /\ at' = [at EXCEPT ![t] = "send"]
  /\ UNCHANGED <<clock, settingVars, operational, sockets, toUdp, json, count, loaded, asap,
                 loopVars, counts, ghosts>>

(* print_and_send_messages copies json_string to udp_msg ...               *)
Copy(t) ==
  /\ at[t] = "copy"
  /\ udpMsg' = json
  /\ at' = [at EXCEPT ![t] = "send"]
  /\ UNCHANGED <<clock, settingVars, operational, sockets, toUdp, json, count, loaded, asap,
                 loopVars, counts, ghosts>>

(* ... and sends it.                                                       *)
Send(t, from, then) ==
  /\ at[t] = from
  /\ sent' = IF sockets = "open" /\ udpMsg.number > 0 THEN udpMsg.number ELSE sent
  /\ at' = [at EXCEPT ![t] = then]
  /\ UNCHANGED <<clock, settingVars, operational, sockets, toUdp, bufferVars, asap, loopVars,
                 counts, buildGhosts, timeGhosts>>

-----------------------------------------------------------------------------
(* app_task, once connected.                                               *)

(* _open_udp_sockets, whose failure is not looked at.                      *)
OpenSockets ==
  /\ at["app"] = "open"
  /\ sockets' \in {"open", "invalid"}
  /\ at' = [at EXCEPT !["app"] = "opened"]
  /\ UNCHANGED <<clock, settingVars, operational, toUdp, bufferVars, asap, loopVars, counts,
                 ghosts>>

AllowUdp ==
  /\ at["app"] = "opened"
  /\ toUdp' = TRUE
  /\ at' = [at EXCEPT !["app"] = "connected"]
  /\ UNCHANGED <<clock, settingVars, operational, sockets, bufferVars, asap, loopVars, counts,
                 ghosts>>

(* The connection message.                                                 *)
FirstMessage ==
  /\ at["app"] = "connected"
  /\ LoadCount("app")
  /\ UNCHANGED <<clock, settingVars, operational, sockets, toUdp, json, udpMsg, count, asap,
                 loopVars, counts, built, lost, sent, timeGhosts>>

(* crash_info_string, unless it is empty: a text without a number that     *)
(* goes to udp_msg without passing json_string.                            *)
CrashMessage ==
  /\ at["app"] = "crash" /\ toUdp
  /\ Enter("app")
  /\ udpMsg' = [by |-> "app", number |-> 0]
  /\ built' = [built EXCEPT !["app"] = udpMsg']
  /\ at' = [at EXCEPT !["app"] = "sendcrash"]
  /\ UNCHANGED <<clock, settingVars, operational, sockets, toUdp, json, count, loaded, asap,
                 loopVars, counts, lost, sent, timeGhosts>>

NoCrashMessage ==
  /\ at["app"] = "crash"
  /\ at' = [at EXCEPT !["app"] = "enter"]
  /\ UNCHANGED <<clock, settingVars, operational, sockets, toUdp, bufferVars, asap, loopVars,
                 counts, ghosts>>

EnterLoop ==
  /\ at["app"] = "enter"
  /\ next' = clock
  /\ at' = [at EXCEPT !["app"] = "pass"]
  /\ last' = clock
  /\ UNCHANGED <<clock, settingVars, operational, sockets, toUdp, bufferVars, asap, due, wake,
                 counts, buildGhosts, sent, wanted, agreed, nap, asked>>

PassClears ==
  /\ at["app"] = "pass"
  /\ toUdp' = operational
  /\ asap' = FALSE
  /\ at' = [at EXCEPT !["app"] = "decide"]
  /\ UNCHANGED <<clock, settingVars, operational, sockets, bufferVars, loopVars, counts,
                 ghosts>>

(* app_do_your_things: messages go out by UDP while connected.             *)
Pass ==
  /\ at["app"] = "pass"
  /\ toUdp' = operational
  /\ at' = [at EXCEPT !["app"] = "decide"]
  /\ UNCHANGED <<clock, settingVars, operational, sockets, bufferVars, asap, loopVars, counts,
                 ghosts>>

DecideAlwaysLater ==
  /\ at["app"] = "decide"
  /\ due' = (clock >= next \/ asap)
  /\ next' = Later(clock, period)
  /\ agreed' = IF due' THEN wanted ELSE agreed
  /\ at' = [at EXCEPT !["app"] = "clear"]
  /\ UNCHANGED <<clock, settingVars, operational, sockets, toUdp, bufferVars, asap, wake,
                 counts, buildGhosts, sent, wanted, last, nap, asked>>

(* Is it time for a status?  Then the next one is a period later.          *)
Decide ==
  /\ at["app"] = "decide"
  /\ due' = (clock >= next \/ asap)
  /\ next' = IF due' THEN Later(clock, period) ELSE next
  /\ agreed' = IF due' THEN wanted ELSE agreed
  /\ at' = [at EXCEPT !["app"] = "clear"]
  /\ UNCHANGED <<clock, settingVars, operational, sockets, toUdp, bufferVars, asap, wake,
                 counts, buildGhosts, sent, wanted, last, nap, asked>>

(* The flag is cleared whether it was set before or after that.            *)
Clear ==
  /\ at["app"] = "clear"
  /\ asap' = FALSE
  /\ at' = [at EXCEPT !["app"] = IF due THEN "status" ELSE "rest"]
  /\ UNCHANGED <<clock, settingVars, operational, sockets, toUdp, bufferVars, loopVars, counts,
                 ghosts>>

StatusMessage ==
  /\ at["app"] = "status"
  /\ LoadCount("app")
  /\ last' = clock
  /\ nap' = 0
  /\ asked' = None
  /\ UNCHANGED <<clock, settingVars, operational, sockets, toUdp, json, udpMsg, count, asap,
                 loopVars, counts, built, lost, sent, wanted, agreed>>

(* What app_task does after a numbered message: the first one has been     *)
(* sent when the loop has not been entered.                                *)
AfterMessage == IF next = None THEN "crash" ELSE "rest"

(* How long the loop rests: a router hardly, an LFN for a period.          *)
Delay ==
  IF router THEN 1
  ELSE IF period = 0 THEN IdleDelay
  ELSE period % LongestDelay

Rest ==
  /\ at["app"] = "rest"
  /\ wake' = clock + Delay
  /\ nap' = Larger(nap, Delay)
  /\ at' = [at EXCEPT !["app"] = "delay"]
  /\ UNCHANGED <<clock, settingVars, operational, sockets, toUdp, bufferVars, asap, next, due,
                 counts, buildGhosts, sent, wanted, agreed, last, asked>>

Wake ==
  /\ at["app"] = "delay"
  /\ clock >= wake
  /\ at' = [at EXCEPT !["app"] = "pass"]
  /\ UNCHANGED <<clock, settingVars, operational, sockets, toUdp, bufferVars, asap, loopVars,
                 counts, ghosts>>

Tick ==
  /\ at["app"] = "delay"
  /\ clock < wake /\ clock < MaxTime
  /\ clock' = clock + 1
  /\ UNCHANGED <<settingVars, operational, sockets, toUdp, bufferVars, asap, at, loopVars,
                 counts, ghosts>>

-----------------------------------------------------------------------------
(* The event task: _join_state_custom_callback.                            *)

Lose ==
  /\ at["event"] = "idle" /\ operational
  /\ losses < MaxLosses
  /\ losses' = losses + 1
  /\ operational' = FALSE
  /\ UNCHANGED <<clock, settingVars, sockets, toUdp, bufferVars, asap, at, loopVars, requests,
                 ghosts>>

Rejoin ==
  /\ at["event"] = "idle" /\ ~operational
  /\ operational' = TRUE
  /\ at' = [at EXCEPT !["event"] = "announce"]
  /\ UNCHANGED <<clock, settingVars, sockets, toUdp, bufferVars, asap, loopVars, counts, ghosts>>

(* Once app_task has opened the sockets, or tried to.                      *)
Announce ==
  /\ at["event"] = "announce"
  /\ toUdp' = (toUdp \/ sockets # "none")
  /\ at' = [at EXCEPT !["event"] = IF sockets # "none" THEN "build" ELSE "idle"]
  /\ UNCHANGED <<clock, settingVars, operational, sockets, bufferVars, asap, loopVars, counts,
                 ghosts>>

Announcement ==
  /\ at["event"] = "build"
  /\ LoadCount("event")
  /\ UNCHANGED <<clock, settingVars, operational, sockets, toUdp, json, udpMsg, count, asap,
                 loopVars, counts, built, lost, sent, timeGhosts>>

-----------------------------------------------------------------------------
(* The CoAP thread.                                                        *)

RequestArrives ==
  /\ at["coap"] = "idle" /\ operational
  /\ requests < MaxRequests
  /\ requests' = requests + 1

(* /status/send.  A flag set after app_task decided, and before it clears  *)
(* the flag, is lost.                                                      *)
PutStatusSend ==
  /\ RequestArrives
  /\ asap' = TRUE
  /\ asked' = IF asked # None \/ at["app"] = "clear" THEN asked ELSE clock
  /\ UNCHANGED <<clock, settingVars, operational, sockets, toUdp, bufferVars, at, loopVars,
                 losses, buildGhosts, sent, wanted, agreed, last, nap>>

(* /settings/auto_send, and auto_send_sec of /settings/parameter.          *)
PutAutoSend(seconds) ==
  /\ RequestArrives
  /\ period' = Signed(seconds)
  /\ wanted' = seconds
  /\ UNCHANGED <<clock, router, operational, sockets, toUdp, bufferVars, asap, at, loopVars,
                 losses, buildGhosts, sent, agreed, last, nap, asked>>

(* A neighbour's information is built in json_string, then copied to the   *)
(* response.                                                               *)
GetNeighbor ==
  /\ RequestArrives
  /\ Enter("coap")
  /\ json' = [by |-> "coap", number |-> 0]
  /\ built' = [built EXCEPT !["coap"] = json']
  /\ at' = [at EXCEPT !["coap"] = "reply"]
  /\ UNCHANGED <<clock, settingVars, operational, sockets, toUdp, udpMsg, count, loaded, asap,
                 loopVars, losses, lost, sent, timeGhosts>>

Reply ==
  /\ at["coap"] = "reply"
  /\ at' = [at EXCEPT !["coap"] = "idle"]
  /\ UNCHANGED <<clock, settingVars, operational, sockets, toUdp, bufferVars, asap, loopVars,
                 counts, ghosts>>

-----------------------------------------------------------------------------
Init ==
  /\ clock = 0
  /\ router \in BOOLEAN
  /\ period = Signed(FirstPeriod)
  /\ operational = TRUE
  /\ sockets = "none"
  /\ toUdp = FALSE
  /\ json = None /\ udpMsg = None /\ count = 0 /\ loaded = [t \in Threads |-> None]
  /\ asap = FALSE
  /\ at = [t \in Threads |-> IF t = "app" THEN "open" ELSE "idle"]
  /\ next = None /\ due = FALSE /\ wake = 0
  /\ requests = 0 /\ losses = 0
  /\ built = [t \in Threads |-> None]
  /\ overlapped = [t \in Threads |-> FALSE]
  /\ lost = FALSE /\ sent = 0
  /\ wanted = FirstPeriod /\ agreed = 0 /\ last = None /\ nap = 0 /\ asked = None

(* A numbered message, from its number to its datagram.                    *)
MakeAndSend(t, then) ==
  StoreCount(t) \/ Text(t, then) \/ Copy(t) \/ Send(t, "send", then)

AppTask ==
  \/ OpenSockets \/ AllowUdp \/ FirstMessage
  \/ CrashMessage \/ NoCrashMessage \/ Send("app", "sendcrash", "enter") \/ EnterLoop
  \/ Pass \/ Decide \/ Clear \/ StatusMessage \/ Rest \/ Wake
  \/ MakeAndSend("app", AfterMessage)

Callback == Lose \/ Rejoin \/ Announce \/ Announcement \/ MakeAndSend("event", "idle")

Coap ==
  \/ PutStatusSend
  \/ \E seconds \in Periods : PutAutoSend(seconds)
  \/ GetNeighbor \/ Reply

Next == AppTask \/ Callback \/ Coap \/ Tick

Spec == Init /\ [][Next]_vars

-----------------------------------------------------------------------------
Message == [by : Threads, number : Nat]
Register == [count : Nat, toUdp : BOOLEAN]

(* None is no message, nothing read and no time.                           *)
ASSUME NoneAssumption == None \notin Message \cup Register \cup Nat

TypeOK ==
  /\ clock \in 0 .. MaxTime
  /\ router \in BOOLEAN /\ operational \in BOOLEAN /\ toUdp \in BOOLEAN
  /\ asap \in BOOLEAN /\ due \in BOOLEAN
  /\ sockets \in {"none", "open", "invalid"}
  /\ json \in Message \cup {None}
  /\ udpMsg \in Message \cup {None}
  /\ at["app"] \in {"send", "sendcrash"} \/ at["event"] = "send" => udpMsg # None
  /\ count \in Nat
  /\ loaded \in [Threads -> Register \cup {None}]
  /\ \A t \in Threads : at[t] \in {"store", "text"} => loaded[t] # None
  /\ period \in -PeriodLimit .. PeriodLimit - 1
  /\ next \in 0 .. SecondsLimit - 1 \cup {None}
  /\ at["app"] \in {"open", "opened", "connected", "store", "text", "copy", "send", "crash",
                    "sendcrash", "enter", "pass", "decide", "clear", "status", "rest", "delay"}
  /\ at["event"] \in {"idle", "announce", "build", "store", "text", "copy", "send"}
  /\ at["coap"] \in {"idle", "reply"}
  /\ wake \in Nat
  /\ sent \in Nat

(* Every datagram and every response is the text its own thread made, as   *)
(* long as no other thread was making or sending a message meanwhile.      *)
(* Whatever the threads do at the same time, the msg_count of the          *)
(* datagrams never goes down, and it goes up when none was; only where     *)
(* two threads run into each other in msg_count++, so that one increment   *)
(* is lost, may it go back.                                                *)
WholeAndInOrder ==
  [][\A t \in Threads : at[t] \in {"send", "sendcrash", "reply"} /\ at'[t] # at[t] =>
       /\ ~overlapped[t] => IF t = "coap" THEN json = built[t] ELSE udpMsg = built[t]
       /\ ~lost => sent' >= sent
       /\ ~lost /\ ~overlapped[t] /\ at[t] = "send" /\ sockets = "open" => sent' > sent]_vars

(* "Every auto_send seconds [...] the connected devices send a status":    *)
(* however requests change the period, the next status is built a period   *)
(* after the last one, or at the next pass of the loop thereafter.  Only a *)
(* period beyond the range of auto_send_sec, which becomes negative, is    *)
(* excepted: while the clock is below its absolute value next_status_sec   *)
(* wraps and the messages stop, later there is one at every pass.  Every   *)
(* variable keeps its type.                                                *)
StatusInTime ==
  /\ TypeOK
  /\ at["app"] = "delay" /\ Signed(agreed) = agreed => clock <= last + agreed + nap

(* "/status/send": a status that is asked for is built at the next pass of *)
(* the loop, unless the flag was set just before app_task clears it.       *)
AsapInTime ==
  asked # None => clock <= asked + nap
=============================================================================
