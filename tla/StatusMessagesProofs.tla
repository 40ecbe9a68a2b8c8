-------------------------- MODULE StatusMessagesProofs --------------------------
(***************************************************************************)
(* Proofs about StatusMessages, for any periods and delays, any limits of  *)
(* the integer types, and any number of requests and lost connections.     *)
(***************************************************************************)
EXTENDS StatusMessages, TLAPS

USE MessagesAssumption, NoneAssumption
USE DEF settingVars, bufferVars, loopVars, counts, buildGhosts, timeGhosts, ghosts

-----------------------------------------------------------------------------
(* Arithmetic.                                                             *)

LEMMA Remainder ==
  ASSUME NEW x \in Int, NEW n \in Nat, n > 0
  PROVE  x % n \in 0 .. n - 1
OBVIOUS

LEMMA RemainderBelow ==
  ASSUME NEW x \in Nat, NEW n \in Nat, n > 0
  PROVE  x % n <= x
OBVIOUS

LEMMA SignedType ==
  ASSUME NEW seconds \in Int
  PROVE  Signed(seconds) \in -PeriodLimit .. PeriodLimit - 1
<1> DEFINE low == seconds % (2 * PeriodLimit)
<1>1. low \in 0 .. 2 * PeriodLimit - 1
  BY Remainder
<1> HIDE DEF low
<1>2. Signed(seconds) = IF low < PeriodLimit THEN low ELSE low - 2 * PeriodLimit
  BY DEF Signed, low
<1> QED
  BY <1>1, <1>2

LEMMA LaterType ==
  ASSUME NEW seconds \in Nat, NEW delay \in Int
  PROVE  /\ Later(seconds, delay) \in 0 .. SecondsLimit - 1
         /\ delay >= 0 => Later(seconds, delay) <= seconds + delay
<1>1. SecondsLimit > 0
  OBVIOUS
<1>2. Later(seconds, delay) \in 0 .. SecondsLimit - 1
  BY <1>1, Remainder DEF Later
<1>3. delay >= 0 => (seconds + delay) % SecondsLimit <= seconds + delay
  BY <1>1, RemainderBelow
<1> QED
  BY <1>2, <1>3 DEF Later

LEMMA DelayType == ASSUME period \in Int PROVE Delay \in Nat
<1>1. period % LongestDelay \in Nat
  BY Remainder
<1> QED
  BY <1>1 DEF Delay

-----------------------------------------------------------------------------
(* Types, with those of the auxiliary variables.  A message to copy has    *)
(* been built, and auto_send_sec is what a request asked for, converted.   *)
Places == {"open", "opened", "connected", "store", "text", "copy", "send", "crash", "sendcrash",
           "enter", "pass", "decide", "clear", "status", "rest", "delay", "idle", "announce",
           "build", "reply"}

TypeInv ==
  /\ TypeOK
  /\ at \in [Threads -> Places]
  /\ built \in [Threads -> Message \cup {None}]
  /\ overlapped \in [Threads -> BOOLEAN]
  /\ lost \in BOOLEAN
  /\ at["app"] = "copy" \/ at["event"] = "copy" => json # None
  /\ wanted \in Nat /\ agreed \in Nat /\ nap \in Nat
  /\ last \in Nat \cup {None} /\ asked \in Nat \cup {None}
  /\ period = Signed(wanted)

BoolOK ==
  /\ router \in BOOLEAN /\ operational \in BOOLEAN /\ toUdp \in BOOLEAN
  /\ asap \in BOOLEAN /\ due \in BOOLEAN /\ lost \in BOOLEAN

(* What the steps of making a message leave behind.                        *)
LEMMA EnterType ==
  ASSUME TypeInv, NEW t \in Threads, Enter(t)
  PROVE  overlapped' \in [Threads -> BOOLEAN]
<1>1. \A u \in Threads :
        (IF u = t THEN \E v \in Threads \ {t} : Using(v) ELSE overlapped[u] \/ Using(u)) \in BOOLEAN
  BY Zenon DEF Using
<1> QED
  BY <1>1, Zenon DEF Enter

LEMMA LoadType ==
  ASSUME TypeInv, NEW t \in {"app", "event"}, LoadCount(t)
  PROVE  /\ overlapped' \in [Threads -> BOOLEAN]
         /\ loaded' \in [Threads -> Register \cup {None}]
         /\ \A u \in Threads : at'[u] \in {"store", "text"} => loaded'[u] # None
         /\ at' \in [Threads -> Places]
         /\ at'[t] = "store"
         /\ \A u \in Threads : u # t => at'[u] = at[u]
<1>1. t \in Threads /\ overlapped' \in [Threads -> BOOLEAN]
  BY EnterType DEF LoadCount, Threads
<1>2. [count |-> count, toUdp |-> toUdp] \in Register
  BY Zenon DEF TypeInv, TypeOK, Register
<1>3. \A x \in Register : x # None
  OBVIOUS
<1>4. loaded' = [loaded EXCEPT ![t] = [count |-> count, toUdp |-> toUdp]]
      /\ at' = [at EXCEPT ![t] = "store"]
  BY DEF LoadCount
<1>5. /\ at \in [Threads -> Places] /\ loaded \in [Threads -> Register \cup {None}]
      /\ \A u \in Threads : at[u] \in {"store", "text"} => loaded[u] # None
  BY DEF TypeInv, TypeOK
<1>6. "store" \in Places
  BY DEF Places
<1> QED
  BY <1>1, <1>2, <1>3, <1>4, <1>5, <1>6

LEMMA TextType ==
  ASSUME TypeInv, NEW t \in {"app", "event"}, NEW then \in Places \ {"store", "text"}, Text(t, then)
  PROVE  /\ json' \in Message /\ json' # None /\ json' = [by |-> t, number |-> count]
         /\ built' \in [Threads -> Message \cup {None}] /\ built'[t] = json'
         /\ loaded' \in [Threads -> Register \cup {None}]
         /\ \A u \in Threads : at'[u] \in {"store", "text"} => loaded'[u] # None
         /\ at' \in [Threads -> Places]
         /\ at'[t] \in {"copy", then}
         /\ \A u \in Threads : u # t => at'[u] = at[u]
<1>1. t \in Threads /\ [by |-> t, number |-> count] \in Message
  BY DEF Threads, Message, TypeInv, TypeOK
<1>2. json' = [by |-> t, number |-> count] /\ built' = [built EXCEPT ![t] = json']
      /\ loaded' = [loaded EXCEPT ![t] = None]
  BY DEF Text
<1>3. at' = [at EXCEPT ![t] = "copy"] \/ at' = [at EXCEPT ![t] = then]
  BY DEF Text
<1>4. /\ at \in [Threads -> Places] /\ loaded \in [Threads -> Register \cup {None}]
      /\ built \in [Threads -> Message \cup {None}]
      /\ \A u \in Threads : at[u] \in {"store", "text"} => loaded[u] # None
  BY DEF TypeInv, TypeOK
<1>5. "copy" \in Places
  BY DEF Places
<1>6. json' \in Message /\ json' # None
  BY <1>1, <1>2
<1> QED
  BY <1>1, <1>2, <1>3, <1>4, <1>5, <1>6

LEMMA TypeStep == TypeInv /\ [Next]_vars => TypeInv'
<1> SUFFICES ASSUME TypeInv, [Next]_vars
             PROVE  TypeInv'
  OBVIOUS
<1>t. /\ at \in [Threads -> Places] /\ period \in Int /\ period = Signed(wanted)
      /\ clock \in Nat /\ wanted \in Nat
  BY DEF TypeInv, TypeOK
<1> USE DEF TypeInv, TypeOK
<1>1. CASE OpenSockets \/ AllowUdp \/ NoCrashMessage
  <2>1. BoolOK'
    BY <1>1, Zenon DEF OpenSockets, AllowUdp, NoCrashMessage, BoolOK
  <2>2. at' \in [Threads -> Places] /\ at'["app"] \in {"opened", "connected", "enter"}
        /\ at'["event"] = at["event"] /\ at'["coap"] = at["coap"]
    BY <1>1, <1>t DEF OpenSockets, AllowUdp, NoCrashMessage, Threads, Places
  <2> QED
    BY <1>1, <2>1, <2>2 DEF OpenSockets, AllowUdp, NoCrashMessage, BoolOK, Threads
<1>2. CASE FirstMessage \/ Announcement \/ StatusMessage
  <2>1. PICK t \in {"app", "event"} : LoadCount(t)
    BY <1>2 DEF FirstMessage, Announcement, StatusMessage
  <2>2. BoolOK'
    BY <1>2, Zenon DEF FirstMessage, Announcement, StatusMessage, BoolOK
  <2>3. /\ at'["app"] \in {at["app"], "store"} /\ at'["event"] \in {at["event"], "store"}
        /\ at'["coap"] = at["coap"]
    BY <2>1, LoadType DEF Threads
  <2> QED
    BY <1>2, <2>1, <2>2, <2>3, LoadType DEF FirstMessage, Announcement, StatusMessage, BoolOK
<1>3. CASE EnterLoop
  BY <1>3 DEF EnterLoop, Threads, Places
<1>4. CASE Pass
  BY <1>4 DEF Pass, Threads, Places
<1>5. CASE Decide
  <2>1. BoolOK'
    BY <1>5, Zenon DEF Decide, BoolOK
  <2>2. next' \in 0 .. SecondsLimit - 1 \cup {None} /\ agreed' \in Nat
    BY <1>5, <1>t, LaterType DEF Decide
  <2>3. at' \in [Threads -> Places] /\ at'["app"] = "clear"
        /\ at'["event"] = at["event"] /\ at'["coap"] = at["coap"]
    BY <1>5, <1>t DEF Decide, Threads, Places
  <2> QED
    BY <1>5, <2>1, <2>2, <2>3 DEF Decide, BoolOK
<1>6. CASE Clear
  <2>1. BoolOK'
    BY <1>6, Zenon DEF Clear, BoolOK
  <2>2. at' \in [Threads -> Places] /\ at'["app"] \in {"status", "rest"}
        /\ at'["event"] = at["event"] /\ at'["coap"] = at["coap"]
    BY <1>6, <1>t DEF Clear, Threads, Places
  <2> QED
    BY <1>6, <2>1, <2>2 DEF Clear, BoolOK
<1>7. CASE CrashMessage
  <2>1. [by |-> "app", number |-> 0] \in Message /\ "app" \in Threads
    BY DEF Message, Threads
  <2>2. BoolOK'
    BY <1>7, Zenon DEF CrashMessage, BoolOK
  <2>3. udpMsg' \in Message /\ udpMsg' # None
    BY <1>7, <2>1 DEF CrashMessage
  <2>4. built' \in [Threads -> Message \cup {None}] /\ overlapped' \in [Threads -> BOOLEAN]
    BY <1>7, <2>1, <2>3, EnterType DEF CrashMessage
  <2>5. at' \in [Threads -> Places] /\ at'["app"] = "sendcrash"
        /\ at'["event"] = at["event"] /\ at'["coap"] = at["coap"]
        /\ \A t \in Threads : at'[t] \in {"store", "text"} => at[t] \in {"store", "text"}
    BY <1>7, <1>t DEF CrashMessage, Threads, Places
  <2> QED
    BY <1>7, <2>2, <2>3, <2>4, <2>5 DEF CrashMessage, BoolOK
<1>8. CASE Rest
  BY <1>8, <1>t, DelayType DEF Rest, Larger, Threads, Places
<1>9. CASE Wake
  BY <1>9 DEF Wake, Threads, Places
<1>10. ASSUME NEW t \in {"app", "event"}, Copy(t)
       PROVE  TypeInv'
  <2>1. at' \in [Threads -> Places] /\ at'[t] = "send" /\ at[t] = "copy"
        /\ \A u \in Threads : u # t => at'[u] = at[u]
    BY <1>10, <1>t DEF Copy, Threads, Places
  <2>2. BoolOK'
    BY <1>10, Zenon DEF Copy, BoolOK
  <2>3. udpMsg' \in Message \cup {None} /\ udpMsg' # None
    BY <1>10, <2>1 DEF Copy
  <2> QED
    BY <1>10, <2>1, <2>2, <2>3 DEF Copy, BoolOK, Threads
<1>11. ASSUME NEW t \in {"app", "event"}, NEW from \in {"send", "sendcrash"},
              NEW then \in {"crash", "rest", "enter", "idle"}, Send(t, from, then),
              t = "event" <=> then = "idle", t = "event" => from = "send"
       PROVE  TypeInv'
  <2>1. at' \in [Threads -> Places] /\ at'[t] = then /\ at[t] = from
        /\ \A u \in Threads : u # t => at'[u] = at[u]
    BY <1>11, <1>t DEF Send, Threads, Places
  <2>2. BoolOK'
    BY <1>11, Zenon DEF Send, BoolOK
  <2>3. sent' \in Nat
    <3>1. udpMsg \in Message
      BY <1>11, <2>1
    <3> QED
      BY <1>11, <3>1 DEF Send, Message
  <2> QED
    BY <1>11, <2>1, <2>2, <2>3 DEF Send, BoolOK, Threads
<1>21. ASSUME NEW t \in {"app", "event"}, StoreCount(t)
       PROVE  TypeInv'
  <2>1. at' \in [Threads -> Places] /\ at'[t] = "text" /\ at[t] = "store"
        /\ \A u \in Threads : u # t => at'[u] = at[u]
    BY <1>21, <1>t DEF StoreCount, Threads, Places
  <2>2. BoolOK'
    BY <1>21, Zenon DEF StoreCount, BoolOK
  <2>3. count' \in Nat
    <3>1. loaded[t] \in Register
      BY <2>1 DEF Threads
    <3> QED
      BY <1>21, <3>1 DEF StoreCount, Register
  <2> QED
    BY <1>21, <2>1, <2>2, <2>3 DEF StoreCount, BoolOK, Threads
<1>22. ASSUME NEW t \in {"app", "event"}, NEW then, Text(t, then),
              then = IF t = "app" THEN AfterMessage ELSE "idle"
       PROVE  TypeInv'
  <2>1. then \in Places \ {"store", "text"} /\ (t = "app" => then \in {"crash", "rest"})
        /\ (t = "event" => then = "idle")
    BY <1>22 DEF AfterMessage, Places
  <2>2. BoolOK'
    BY <1>22, Zenon DEF Text, BoolOK
  <2>3. \A u \in Threads : u # t => at'[u] = at[u]
    BY <1>22, <2>1, TextType
  <2>4. at'[t] \in {"copy", then}
    BY <1>22, <2>1, TextType
  <2>5. /\ at'["app"] \in {at["app"], "copy", "crash", "rest"}
        /\ at'["event"] \in {at["event"], "copy", "idle"} /\ at'["coap"] = at["coap"]
    BY <2>1, <2>3, <2>4 DEF Threads
  <2>6. /\ json' \in Message /\ json' # None /\ at' \in [Threads -> Places]
        /\ built' \in [Threads -> Message \cup {None}]
        /\ loaded' \in [Threads -> Register \cup {None}]
        /\ \A u \in Threads : at'[u] \in {"store", "text"} => loaded'[u] # None
    BY <1>22, <2>1, TextType
  <2> HIDE DEF TypeInv, TypeOK
  <2>7. UNCHANGED <<clock, settingVars, operational, sockets, udpMsg, count, loopVars, counts,
                    overlapped, sent, timeGhosts>>
    BY <1>22 DEF Text
  <2> USE DEF TypeInv, TypeOK
  <2> QED
    BY <2>2, <2>5, <2>6, <2>7 DEF BoolOK
<1>12. CASE Lose
  <2>1. BoolOK'
    BY <1>12, Zenon DEF Lose, BoolOK
  <2> QED
    BY <1>12, <2>1 DEF Lose, BoolOK
<1>13. CASE Rejoin \/ Announce
  <2>1. BoolOK'
    BY <1>13, Zenon DEF Rejoin, Announce, BoolOK
  <2>2. at' \in [Threads -> Places] /\ at'["event"] \in {"announce", "build", "idle"}
        /\ at'["app"] = at["app"] /\ at'["coap"] = at["coap"]
    BY <1>13, <1>t DEF Rejoin, Announce, Threads, Places
  <2> QED
    BY <1>13, <2>1, <2>2 DEF Rejoin, Announce, BoolOK
<1>15. CASE PutStatusSend
  BY <1>15 DEF PutStatusSend, RequestArrives
<1>16. ASSUME NEW seconds \in Periods, PutAutoSend(seconds)
       PROVE  TypeInv'
  BY <1>16, SignedType DEF PutAutoSend, RequestArrives, Signed
<1>17. CASE GetNeighbor
  <2>1. [by |-> "coap", number |-> 0] \in Message /\ "coap" \in Threads
    BY DEF Message, Threads
  <2>2. BoolOK'
    BY <1>17, Zenon DEF GetNeighbor, RequestArrives, BoolOK
  <2>3. json' \in Message /\ json' # None
    BY <1>17, <2>1 DEF GetNeighbor
  <2>4. built' \in [Threads -> Message \cup {None}] /\ overlapped' \in [Threads -> BOOLEAN]
    BY <1>17, <2>1, <2>3, EnterType DEF GetNeighbor
  <2>5. at' \in [Threads -> Places] /\ at'["coap"] = "reply"
        /\ at'["app"] = at["app"] /\ at'["event"] = at["event"]
        /\ \A t \in Threads : at'[t] \in {"store", "text"} => at[t] \in {"store", "text"}
    BY <1>17, <1>t DEF GetNeighbor, Threads, Places
  <2> QED
    BY <1>17, <2>2, <2>3, <2>4, <2>5 DEF GetNeighbor, BoolOK
<1>18. CASE Reply
  BY <1>18 DEF Reply, Threads, Places
<1>19. CASE Tick
  BY <1>19 DEF Tick
<1>20. CASE UNCHANGED vars
  BY <1>20 DEF vars
<1>23. AfterMessage \in {"crash", "rest"}
  BY DEF AfterMessage
<1> QED
  BY <1>1, <1>2, <1>3, <1>4, <1>5, <1>6, <1>7, <1>8, <1>9, <1>10, <1>11, <1>12, <1>13,
     <1>15, <1>16, <1>17, <1>18, <1>19, <1>20, <1>21, <1>22, <1>23
     DEF Next, AppTask, Callback, MakeAndSend, Coap

LEMMA InitType == Init => TypeInv
<1> SUFFICES ASSUME Init
             PROVE  TypeInv
  OBVIOUS
<1>1. period \in -PeriodLimit .. PeriodLimit - 1 /\ period = Signed(wanted)
  BY SignedType DEF Init
<1>2. BoolOK
  BY Zenon DEF Init, BoolOK
<1>3. at \in [Threads -> Places] /\ at["app"] = "open" /\ at["event"] = "idle" /\ at["coap"] = "idle"
  BY DEF Init, Threads, Places
<1> QED
  BY <1>1, <1>2, <1>3 DEF Init, TypeInv, TypeOK, BoolOK

-----------------------------------------------------------------------------
(* Whole messages, in order.                                               *)

Number(m) == IF m = None THEN 0 ELSE m.number

(* As long as no increment was lost, a number is never smaller than those  *)
(* that have gone further on its way from msg_count to the datagrams.      *)
NumberInv ==
  ~lost =>
    /\ sent <= count /\ Number(udpMsg) <= count /\ Number(json) <= count
    /\ Number(json) > 0 => sent <= Number(json) /\ Number(udpMsg) <= Number(json)
    /\ Number(udpMsg) > 0 => sent <= Number(udpMsg)

(* A message that has the counter and the buffers to itself is whole, and  *)
(* has been numbered after all that were sent.                             *)
Alone(t) ==
  /\ \A u \in Threads \ {t} : ~Using(u)
  /\ at[t] \in {"copy", "send", "reply"} => json = built[t]
  /\ at[t] \in {"send", "sendcrash"} => udpMsg = built[t]
  /\ ~lost => /\ at[t] = "text" => sent < count
              /\ at[t] \in {"copy", "send"} => sent < Number(json)

BufferInv == \A t \in Threads : Using(t) /\ ~overlapped[t] => Alone(t)

LEMMA NumberTypes ==
  ASSUME TypeInv
  PROVE  /\ count \in Nat /\ sent \in Nat /\ lost \in BOOLEAN
         /\ Number(json) \in Nat /\ Number(udpMsg) \in Nat
         /\ at["app"] = "copy" \/ at["event"] = "copy" => json # None
         /\ at["app"] \in {"send", "sendcrash"} \/ at["event"] = "send" => udpMsg # None
<1>1. \A m \in Message \cup {None} : Number(m) \in Nat
  BY DEF Number, Message
<1> QED
  BY <1>1 DEF TypeInv, TypeOK

(* No step of another action touches the numbers.                          *)
LEMMA NumbersUnchanged ==
  ASSUME \/ OpenSockets \/ AllowUdp \/ FirstMessage \/ NoCrashMessage \/ EnterLoop
         \/ Pass \/ Decide \/ Clear \/ StatusMessage \/ Rest \/ Wake
         \/ Lose \/ Rejoin \/ Announce \/ Announcement \/ PutStatusSend \/ Reply \/ Tick
         \/ (\E seconds \in Periods : PutAutoSend(seconds)) \/ UNCHANGED vars
  PROVE  UNCHANGED <<json, udpMsg, count, built, lost, sent>>
<1>1. CASE OpenSockets \/ AllowUdp \/ FirstMessage \/ NoCrashMessage \/ EnterLoop \/ Pass
  BY <1>1 DEF OpenSockets, AllowUdp, FirstMessage, NoCrashMessage, EnterLoop, Pass
<1>2. CASE Decide \/ Clear \/ StatusMessage \/ Rest \/ Wake \/ Lose \/ Rejoin
  BY <1>2 DEF Decide, Clear, StatusMessage, Rest, Wake, Lose, Rejoin
<1>3. CASE Announce \/ Announcement \/ PutStatusSend \/ Reply \/ Tick
  BY <1>3 DEF Announce, Announcement, PutStatusSend, RequestArrives, Reply, Tick
<1>4. CASE (\E seconds \in Periods : PutAutoSend(seconds)) \/ UNCHANGED vars
  BY <1>4 DEF PutAutoSend, RequestArrives, vars
<1> QED
  BY <1>1, <1>2, <1>3, <1>4

LEMMA NumberStep == TypeInv /\ NumberInv /\ [Next]_vars => NumberInv'
<1> SUFFICES ASSUME TypeInv, NumberInv, [Next]_vars, ~lost'
             PROVE  NumberInv'
  BY DEF NumberInv
<1>t. /\ count \in Nat /\ sent \in Nat
      /\ Number(json) \in Nat /\ Number(udpMsg) \in Nat
  BY NumberTypes
<1>1. ASSUME NEW t \in {"app", "event"}, StoreCount(t)
      PROVE  NumberInv'
  <2>1. ~lost /\ count = loaded[t].count
    BY <1>1, Zenon DEF StoreCount
  <2>2. count' = count + 1 /\ UNCHANGED <<json, udpMsg, sent>>
    BY <1>1, <2>1 DEF StoreCount
  <2> QED
    BY <1>t, <2>1, <2>2 DEF NumberInv, Number
<1>2. ASSUME NEW t \in {"app", "event"}, NEW then, Text(t, then)
      PROVE  NumberInv'
  <2>1. json' = [by |-> t, number |-> count] /\ UNCHANGED <<udpMsg, count, lost, sent>>
    BY <1>2 DEF Text
  <2>2. json'.number = count /\ (json' # None => Number(json)' = count)
    BY <2>1 DEF Number
  <2>3. json' # None
    <3>1. json' \in Message
      BY <1>t, <2>1 DEF Message, Threads
    <3> QED
      BY <3>1
  <2> QED
    BY <1>t, <2>1, <2>2, <2>3 DEF NumberInv, Number
<1>3. ASSUME NEW t \in {"app", "event"}, Copy(t)
      PROVE  NumberInv'
  <2>1. udpMsg' = json /\ UNCHANGED <<json, count, lost, sent>>
    BY <1>3 DEF Copy
  <2> QED
    BY <1>t, <2>1 DEF NumberInv, Number
<1>4. ASSUME NEW t \in {"app", "event"}, NEW from \in {"send", "sendcrash"}, NEW then,
             Send(t, from, then), t = "event" => from = "send"
      PROVE  NumberInv'
  <2>1. udpMsg # None
    BY <1>4, NumberTypes DEF Send
  <2>2. UNCHANGED <<json, udpMsg, count, lost>>
    BY <1>4 DEF Send
  <2>3. sent' = sent \/ (Number(udpMsg) > 0 /\ sent' = Number(udpMsg))
    BY <1>4, <2>1 DEF Send, Number
  <2> QED
    BY <1>t, <2>2, <2>3 DEF NumberInv, Number
<1>5. CASE GetNeighbor
  <2>1. Number(json)' = 0 /\ UNCHANGED <<udpMsg, count, lost, sent>>
    BY <1>5 DEF GetNeighbor, Number
  <2> QED
    BY <1>t, <2>1 DEF NumberInv, Number
<1>6. CASE CrashMessage
  <2>1. Number(udpMsg)' = 0 /\ UNCHANGED <<json, count, lost, sent>>
    BY <1>6 DEF CrashMessage, Number
  <2> QED
    BY <1>t, <2>1 DEF NumberInv, Number
<1>7. CASE UNCHANGED <<json, udpMsg, count, built, lost, sent>>
  BY <1>7 DEF NumberInv, Number
<1> QED
  BY <1>1, <1>2, <1>3, <1>4, <1>5, <1>6, <1>7, NumbersUnchanged
     DEF Next, AppTask, Callback, MakeAndSend, Coap

(* Steps inside a message, from one of its places to another.              *)
LEMMA OwnStep ==
  ASSUME TypeInv, BufferInv, NEW t \in Threads, Using(t), UNCHANGED overlapped,
         \A u \in Threads \ {t} : at'[u] = at[u],
         Alone(t) => Alone(t)'
  PROVE  BufferInv'
<1> SUFFICES ASSUME NEW u \in Threads, Using(u)', ~overlapped'[u]
             PROVE  Alone(u)'
  BY DEF BufferInv
<1>1. CASE u = t
  BY <1>1 DEF BufferInv
<1>2. CASE u # t
  <2>1. Alone(u)
    BY <1>2 DEF BufferInv, Using
  <2> QED
    BY <1>2, <2>1 DEF Alone
<1> QED
  BY <1>1, <1>2

LEMMA BufferStep == TypeInv /\ NumberInv /\ BufferInv /\ [Next]_vars => BufferInv'
<1> SUFFICES ASSUME TypeInv, NumberInv, BufferInv, [Next]_vars
             PROVE  BufferInv'
  OBVIOUS
<1>t. /\ at \in [Threads -> Places] /\ built \in [Threads -> Message \cup {None}]
      /\ count \in Nat /\ sent \in Nat
      /\ "app" \in Threads /\ "event" \in Threads /\ "coap" \in Threads
  BY DEF TypeInv, TypeOK, Threads
<1>1. ASSUME NEW t \in Threads, Enter(t), NEW then \in {"store", "sendcrash", "reply"},
             at' = [at EXCEPT ![t] = then],
             then = "reply" => json' = built'[t],
             then = "sendcrash" => udpMsg' = built'[t]
      PROVE  BufferInv'
  <2>0. at'[t] = then /\ \A u \in Threads \ {t} : at'[u] = at[u]
    BY <1>1, <1>t
  <2>1. ASSUME NEW u \in Threads, u # t, Using(u)', ~overlapped'[u]
        PROVE  FALSE
    <3>1. overlapped'[u] <=> overlapped[u] \/ Using(u)
      BY <1>1, <2>1, Zenon DEF Enter
    <3> QED
      BY <2>0, <2>1, <3>1 DEF Using
  <2>2. ASSUME ~overlapped'[t]
        PROVE  Alone(t)'
    <3>1. overlapped'[t] <=> \E v \in Threads \ {t} : Using(v)
      BY <1>1, Zenon DEF Enter
    <3>2. \A v \in Threads \ {t} : ~Using(v)'
      BY <2>0, <2>2, <3>1 DEF Using
    <3> QED
      BY <1>1, <2>0, <3>2 DEF Alone
  <2> QED
    BY <2>1, <2>2 DEF BufferInv
<1>2. CASE FirstMessage \/ StatusMessage \/ Announcement
  <2>1. PICK t \in {"app", "event"} : LoadCount(t)
    BY <1>2 DEF FirstMessage, StatusMessage, Announcement
  <2> QED
    BY <1>1, <1>t, <2>1 DEF LoadCount
<1>3. CASE CrashMessage
  BY <1>1, <1>3, <1>t DEF CrashMessage
<1>4. CASE GetNeighbor
  BY <1>1, <1>4, <1>t DEF GetNeighbor
<1>5. ASSUME NEW t \in {"app", "event"}, StoreCount(t)
      PROVE  BufferInv'
  <2>1. /\ at[t] = "store" /\ at' = [at EXCEPT ![t] = "text"] /\ t \in Threads
        /\ UNCHANGED <<json, udpMsg, sent, built, overlapped>>
    BY <1>5, <1>t DEF StoreCount
  <2>2. Using(t) /\ at'[t] = "text" /\ \A u \in Threads \ {t} : at'[u] = at[u]
    BY <1>t, <2>1 DEF Using
  <2>3. ~lost' => sent < count'
    <3> SUFFICES ASSUME ~lost'
                 PROVE  sent < count'
      OBVIOUS
    <3>1. ~lost /\ count = loaded[t].count
      BY <1>5, Zenon DEF StoreCount
    <3>2. count' = count + 1 /\ sent <= count
      BY <1>5, <3>1 DEF StoreCount, NumberInv
    <3> QED
      BY <1>t, <3>2
  <2>4. Alone(t) => Alone(t)'
    BY <2>1, <2>2, <2>3 DEF Alone, Using
  <2> QED
    BY <2>1, <2>2, <2>4, OwnStep
<1>6. ASSUME NEW t \in {"app", "event"}, NEW then \in Places \ {"store", "text", "send", "sendcrash", "reply"},
             Text(t, then)
      PROVE  BufferInv'
  <2>1. /\ at[t] = "text" /\ t \in Threads
        /\ UNCHANGED <<udpMsg, count, lost, sent, overlapped>>
    BY <1>6, <1>t DEF Text
  <2>2. /\ json' # None /\ json' = [by |-> t, number |-> count] /\ built'[t] = json'
        /\ at'[t] \in {"copy", then} /\ \A u \in Threads \ {t} : at'[u] = at[u]
    BY <1>6, TextType
  <2>3. Using(t) /\ Number(json)' = count
    BY <2>1, <2>2 DEF Using, Number
  <2>4. Alone(t) => Alone(t)'
    BY <2>1, <2>2, <2>3 DEF Alone, Using
  <2> QED
    BY <2>1, <2>2, <2>3, <2>4, OwnStep
<1>7. ASSUME NEW t \in {"app", "event"}, Copy(t)
      PROVE  BufferInv'
  <2>1. /\ at[t] = "copy" /\ at' = [at EXCEPT ![t] = "send"] /\ t \in Threads
        /\ udpMsg' = json /\ UNCHANGED <<json, count, lost, sent, built, overlapped>>
    BY <1>7, <1>t DEF Copy
  <2>2. Using(t) /\ at'[t] = "send" /\ \A u \in Threads \ {t} : at'[u] = at[u]
    BY <1>t, <2>1 DEF Using
  <2>3. Alone(t) => Alone(t)'
    BY <2>1, <2>2 DEF Alone, Using, Number
  <2> QED
    BY <2>1, <2>2, <2>3, OwnStep
<1>8. ASSUME NEW t \in Threads, UNCHANGED overlapped,
             Using(t), ~Using(t)', \A u \in Threads \ {t} : at'[u] = at[u]
      PROVE  BufferInv'
  BY <1>8 DEF BufferInv, Alone, Using
<1>9. ASSUME NEW t \in {"app", "event"}, NEW from \in {"send", "sendcrash"},
             NEW then \in {"crash", "enter", "rest", "idle"}, Send(t, from, then)
      PROVE  BufferInv'
  <2>1. at[t] = from /\ at' = [at EXCEPT ![t] = then] /\ t \in Threads /\ UNCHANGED overlapped
    BY <1>9, <1>t DEF Send
  <2>2. Using(t) /\ ~Using(t)' /\ \A u \in Threads \ {t} : at'[u] = at[u]
    BY <1>t, <2>1 DEF Using
  <2> QED
    BY <1>8, <2>1, <2>2
<1>10. CASE Reply
  <2>1. at["coap"] = "reply" /\ at' = [at EXCEPT !["coap"] = "idle"] /\ UNCHANGED overlapped
    BY <1>10 DEF Reply
  <2>2. Using("coap") /\ ~Using("coap")' /\ \A u \in Threads \ {"coap"} : at'[u] = at[u]
    BY <1>t, <2>1 DEF Using
  <2> QED
    BY <1>8, <1>t, <2>1, <2>2
<1>11. ASSUME UNCHANGED <<json, udpMsg, count, built, lost, sent, overlapped>>,
              \A u \in Threads : at'[u] = at[u] \/ (~Using(u) /\ ~Using(u)')
       PROVE  BufferInv'
  <2> SUFFICES ASSUME NEW u \in Threads, Using(u)', ~overlapped'[u]
               PROVE  Alone(u)'
    BY DEF BufferInv
  <2>1. at'[u] = at[u] /\ Using(u)
    BY <1>11 DEF Using
  <2>2. Alone(u)
    BY <1>11, <2>1 DEF BufferInv
  <2>3. \A v \in Threads \ {u} : ~Using(v)'
    BY <1>11, <2>2 DEF Alone, Using
  <2> QED
    BY <1>11, <2>1, <2>2, <2>3 DEF Alone, Number
<1>12. ASSUME \/ OpenSockets \/ AllowUdp \/ NoCrashMessage \/ EnterLoop \/ Pass \/ Decide
              \/ Clear \/ Rest \/ Wake \/ Rejoin \/ Announce
       PROVE  BufferInv'
  <2>1. UNCHANGED <<json, udpMsg, count, built, lost, sent>>
    BY <1>12, NumbersUnchanged
  <2>2. UNCHANGED overlapped
    BY <1>12 DEF OpenSockets, AllowUdp, NoCrashMessage, EnterLoop, Pass, Decide, Clear, Rest, Wake,
       Rejoin, Announce
  <2> DEFINE Out == Places \ {"store", "text", "copy", "send", "sendcrash", "reply"}
  <2>3. PICK t \in Threads, then \in Out : at[t] \in Out /\ at' = [at EXCEPT ![t] = then]
    <3>1. CASE OpenSockets \/ AllowUdp \/ NoCrashMessage \/ EnterLoop
      BY <3>1 DEF OpenSockets, AllowUdp, NoCrashMessage, EnterLoop, Threads, Places
    <3>2. CASE Pass \/ Decide \/ Clear
      BY <3>2 DEF Pass, Decide, Clear, Threads, Places
    <3>3. CASE Rest \/ Wake
      BY <3>3 DEF Rest, Wake, Threads, Places
    <3>4. CASE Rejoin \/ Announce
      BY <3>4 DEF Rejoin, Announce, Threads, Places
    <3> QED
      BY <1>12, <3>1, <3>2, <3>3, <3>4
  <2>4. \A u \in Threads : at'[u] = at[u] \/ (~Using(u) /\ ~Using(u)')
    BY <1>t, <2>3 DEF Using
  <2> QED
    BY <1>11, <2>1, <2>2, <2>4
<1>13. ASSUME \/ Lose \/ PutStatusSend \/ Tick \/ UNCHANGED vars
              \/ \E seconds \in Periods : PutAutoSend(seconds)
       PROVE  BufferInv'
  <2>1. UNCHANGED <<json, udpMsg, count, built, lost, sent>>
    BY <1>13, NumbersUnchanged
  <2>2. UNCHANGED <<overlapped, at>>
    BY <1>13 DEF Lose, PutStatusSend, PutAutoSend, RequestArrives, Tick, vars
  <2> QED
    BY <1>11, <2>1, <2>2
<1>14. AfterMessage \in {"crash", "rest"} /\ {"crash", "rest", "idle"} \subseteq Places
  BY DEF AfterMessage, Places
<1> QED
  BY <1>2, <1>3, <1>4, <1>5, <1>6, <1>7, <1>9, <1>10, <1>12, <1>13, <1>14
     DEF Next, AppTask, Callback, MakeAndSend, Coap

(* A step that takes a thread out of the last place of a message is the    *)
(* one that sends it, or replies.                                          *)
LEMMA LastSteps ==
  ASSUME TypeInv, Next, NEW t \in Threads, at[t] \in {"send", "sendcrash", "reply"}, at'[t] # at[t]
  PROVE  IF t = "coap" THEN at[t] = "reply" /\ UNCHANGED sent
         ELSE \E then : Send(t, at[t], then)
<1>t. /\ at \in [Threads -> Places] /\ at["coap"] \in {"idle", "reply"}
      /\ at["app"] # "reply" /\ at["event"] # "reply"
  BY DEF TypeInv, TypeOK
<1>1. ASSUME NEW u, NEW then, at' = [at EXCEPT ![u] = then]
      PROVE  u = t
  BY <1>t, <1>1
<1> DEFINE Out == {"send", "sendcrash", "reply"}
<1>2. ASSUME NEW u, NEW then, at' = [at EXCEPT ![u] = then], at[u] \notin Out
      PROVE  FALSE
  BY <1>1, <1>2
<1>3. ~(OpenSockets \/ AllowUdp \/ NoCrashMessage \/ CrashMessage \/ EnterLoop \/ Pass)
  BY <1>2 DEF OpenSockets, AllowUdp, NoCrashMessage, CrashMessage, EnterLoop, Pass
<1>4. ~(Decide \/ Clear \/ Rest \/ Wake \/ Rejoin \/ Announce)
  BY <1>2 DEF Decide, Clear, Rest, Wake, Rejoin, Announce
<1>5. ~(FirstMessage \/ StatusMessage \/ Announcement)
  BY <1>2 DEF FirstMessage, StatusMessage, Announcement, LoadCount
<1>6. ~(Lose \/ PutStatusSend \/ Tick \/ \E seconds \in Periods : PutAutoSend(seconds))
  BY DEF Lose, PutStatusSend, PutAutoSend, Tick
<1>7. ASSUME NEW u
      PROVE  ~(StoreCount(u) \/ Copy(u) \/ \E then : Text(u, then))
  <2>1. ~(StoreCount(u) \/ Copy(u))
    BY <1>2 DEF StoreCount, Copy
  <2>2. ASSUME NEW then, Text(u, then)
        PROVE  FALSE
    BY <1>2, <2>2 DEF Text
  <2> QED
    BY <2>1, <2>2
<1>8. ~GetNeighbor
  BY <1>2 DEF GetNeighbor, RequestArrives
<1>9. CASE Reply
  BY <1>1, <1>9 DEF Reply
<1>10. ASSUME NEW u \in {"app", "event"}, NEW from, NEW then, Send(u, from, then)
       PROVE  t # "coap" /\ Send(t, at[t], then)
  <2>1. u = t /\ from = at[u]
    BY <1>1, <1>10 DEF Send
  <2> QED
    BY <1>10, <2>1
<1> QED
  BY <1>3, <1>4, <1>5, <1>6, <1>7, <1>8, <1>9, <1>10 DEF Next, AppTask, Callback, MakeAndSend, Coap

(* A datagram or a response is the text its own thread made, unless        *)
(* another thread was making or sending a message meanwhile, and the       *)
(* numbers of the datagrams never go down unless an increment was lost:    *)
(* for any number of messages, requests and lost connections.              *)
THEOREM MessagesAreWhole == Spec => WholeAndInOrder
<1>1. TypeInv /\ NumberInv /\ BufferInv /\ [Next]_vars
        => [\A t \in Threads : at[t] \in {"send", "sendcrash", "reply"} /\ at'[t] # at[t] =>
              /\ ~overlapped[t] => IF t = "coap" THEN json = built[t] ELSE udpMsg = built[t]
              /\ ~lost => sent' >= sent
              /\ ~lost /\ ~overlapped[t] /\ at[t] = "send" /\ sockets = "open" => sent' > sent]_vars
  <2> SUFFICES ASSUME TypeInv, NumberInv, BufferInv, Next, NEW t \in Threads,
                      at[t] \in {"send", "sendcrash", "reply"}, at'[t] # at[t]
               PROVE  /\ ~overlapped[t] => IF t = "coap" THEN json = built[t] ELSE udpMsg = built[t]
                      /\ ~lost => sent' >= sent
                      /\ ~lost /\ ~overlapped[t] /\ at[t] = "send" /\ sockets = "open"
                           => sent' > sent
    OBVIOUS
  <2>t. /\ count \in Nat /\ sent \in Nat /\ Number(json) \in Nat /\ Number(udpMsg) \in Nat
        /\ t # "coap" => at[t] # "reply"
    BY NumberTypes DEF TypeInv, TypeOK, Threads
  <2>1. ~overlapped[t] => Alone(t)
    BY DEF BufferInv, Using
  <2>2. CASE t = "coap"
    BY <2>1, <2>2, <2>t, LastSteps DEF Alone
  <2>3. CASE t # "coap"
    <3>1. PICK then : Send(t, at[t], then)
      BY <2>3, LastSteps
    <3>2. udpMsg # None
      BY <2>3, <2>t, NumberTypes DEF Threads, TypeInv, TypeOK
    <3>3. sent' = IF sockets = "open" /\ Number(udpMsg) > 0 THEN Number(udpMsg) ELSE sent
      BY <3>1, <3>2 DEF Send, Number
    <3>4. ~lost => sent' >= sent
      BY <2>t, <3>3 DEF NumberInv
    <3>5. ~overlapped[t] => udpMsg = built[t]
      BY <2>1, <2>3, <2>t DEF Alone
    <3>6. ASSUME ~lost, ~overlapped[t], at[t] = "send", sockets = "open"
          PROVE  sent' > sent
      <4>1. sent < Number(json) /\ json = udpMsg
        BY <2>1, <3>6 DEF Alone
      <4> QED
        BY <2>t, <3>3, <3>6, <4>1
    <3> QED
      BY <2>3, <3>4, <3>5, <3>6
  <2> QED
    BY <2>2, <2>3
<1>2. Init => TypeInv /\ NumberInv /\ BufferInv
  <2> SUFFICES ASSUME Init
               PROVE  NumberInv /\ BufferInv
    BY InitType
  <2>1. NumberInv
    BY DEF Init, NumberInv, Number
  <2>2. \A t \in Threads : ~Using(t)
    BY DEF Init, Using
  <2> QED
    BY <2>1, <2>2 DEF BufferInv
<1>3. TypeInv /\ NumberInv /\ BufferInv /\ [Next]_vars => (TypeInv /\ NumberInv /\ BufferInv)'
  BY TypeStep, NumberStep, BufferStep
<1> QED
  BY <1>1, <1>2, <1>3, PTL DEF Spec, WholeAndInOrder

-----------------------------------------------------------------------------
(* Messages in time.                                                       *)

Before == {"open", "opened", "connected", "crash", "sendcrash", "enter"}
Making == {"store", "text", "copy", "send"}
Within == {"pass", "decide", "clear", "status", "rest", "delay"}

(* app_task has decided that a status is due and has not built it yet.     *)
Deciding == at["app"] = "status" \/ (at["app"] = "clear" /\ due)

(* When the next status is due, in each place of the loop: a period after  *)
(* the last, as long as the period is in the range of auto_send_sec.  The  *)
(* clock only goes on while the loop rests, and not beyond its delay.      *)
PeriodInv ==
  Signed(agreed) = agreed /\ next # None =>
    /\ Deciding => next <= clock + agreed
    /\ ~Deciding => next <= last + agreed
    /\ at["app"] \in Making \cup {"clear", "rest"} /\ ~Deciding => clock <= last + agreed
    /\ at["app"] = "delay" => wake <= last + agreed + nap

TimeInv ==
  /\ next \in Nat <=> last \in Nat
  /\ at["app"] \in Before => next = None
  /\ at["app"] \in Within => next # None
  /\ last # None => last <= clock
  /\ at["app"] = "delay" => clock <= wake /\ wake <= clock + nap
  /\ at["app"] = "status" => due
  /\ PeriodInv

(* A status that was asked for at once: the flag is set until app_task has *)
(* decided, and no time has passed since but that of a delay of the loop.  *)
AskedInv ==
  asked # None =>
    /\ at["app"] = "clear" => due
    /\ at["app"] \notin {"clear", "status"} => asap
    /\ asked <= clock /\ clock <= asked + nap
    /\ at["app"] = "delay" => wake <= asked + nap
    /\ at["app"] \in Before \cup Making \cup {"rest"} => asked = clock

LEMMA AppPlaces ==
  ASSUME TypeInv
  PROVE  /\ at \in [Threads -> Places] /\ "app" \in Threads /\ "event" \in Threads
         /\ at["app"] \in Before \cup Within \cup Making
         /\ clock \in Nat /\ agreed \in Nat /\ wanted \in Nat /\ nap \in Nat /\ wake \in Nat
         /\ next \in Nat \cup {None} /\ last \in Nat \cup {None} /\ asked \in Nat \cup {None}
         /\ period \in Int /\ Signed(wanted) = period
         /\ due \in BOOLEAN /\ asap \in BOOLEAN
BY DEF TypeInv, TypeOK, Before, Within, Making, Threads

(* The callback leaves the loop alone.                                     *)
LEMMA CallbackTimes ==
  ASSUME TypeInv, Callback
  PROVE  UNCHANGED <<clock, asap, loopVars, timeGhosts>> /\ at'["app"] = at["app"]
<1>t. at \in [Threads -> Places] /\ "app" \in Threads /\ "event" \in Threads
  BY AppPlaces
<1>1. CASE Lose \/ Rejoin \/ Announce \/ Announcement
  BY <1>1, <1>t DEF Lose, Rejoin, Announce, Announcement, LoadCount
<1>2. CASE StoreCount("event") \/ Copy("event") \/ Send("event", "send", "idle")
  BY <1>2, <1>t DEF StoreCount, Copy, Send
<1>3. CASE Text("event", "idle")
  BY <1>3, <1>t DEF Text
<1> QED
  BY <1>1, <1>2, <1>3 DEF Callback, MakeAndSend

LEMMA TimeStep == TypeInv /\ TimeInv /\ [Next]_vars => TimeInv'
<1> SUFFICES ASSUME TypeInv, TimeInv, [Next]_vars
             PROVE  TimeInv'
  OBVIOUS
<1>r. TypeInv'
  BY TypeStep
<1>t. /\ at \in [Threads -> Places] /\ "app" \in Threads /\ "event" \in Threads
      /\ at["app"] \in Before \cup Within \cup Making
      /\ clock \in Nat /\ agreed \in Nat /\ wanted \in Nat /\ nap \in Nat /\ wake \in Nat
      /\ next \in Nat \cup {None} /\ last \in Nat \cup {None}
      /\ period \in Int /\ Signed(wanted) = period
  BY AppPlaces
<1>1. CASE UNCHANGED <<clock, loopVars, agreed, last, nap>> /\ at'["app"] = at["app"]
  BY <1>1 DEF TimeInv, PeriodInv, Deciding
<1>2. CASE OpenSockets \/ AllowUdp \/ CrashMessage \/ NoCrashMessage
           \/ Send("app", "sendcrash", "enter")
  <2>1. UNCHANGED <<clock, loopVars, agreed, last, nap>> /\ at["app"] \in Before
        /\ at'["app"] \in Before
    BY <1>2, <1>t DEF OpenSockets, AllowUdp, CrashMessage, NoCrashMessage, Send, Before
  <2> QED
    BY <1>t, <2>1 DEF TimeInv, PeriodInv, Deciding, Before, Within, Making
<1>3. CASE FirstMessage
  <2>1. UNCHANGED <<clock, loopVars, agreed, last, nap>> /\ at["app"] = "connected"
        /\ at'["app"] = "store"
    BY <1>3, <1>t DEF FirstMessage, LoadCount
  <2> QED
    BY <1>t, <2>1 DEF TimeInv, PeriodInv, Deciding, Before, Within, Making
<1>4. CASE EnterLoop
  <2>1. UNCHANGED <<clock, agreed>> /\ at'["app"] = "pass" /\ next' = clock /\ last' = clock
    BY <1>4, <1>t DEF EnterLoop
  <2> QED
    BY <1>t, <2>1 DEF TimeInv, PeriodInv, Deciding, Before, Within, Making
<1>5. CASE Pass
  <2>1. UNCHANGED <<clock, loopVars, agreed, last, nap>> /\ at["app"] = "pass"
        /\ at'["app"] = "decide"
    BY <1>5, <1>t DEF Pass
  <2> QED
    BY <1>t, <2>1 DEF TimeInv, PeriodInv, Deciding, Before, Within, Making
<1>6. CASE Decide
  <2>1. UNCHANGED <<clock, last>> /\ at["app"] = "decide" /\ at'["app"] = "clear"
        /\ next \in Nat /\ last \in Nat
    BY <1>6, <1>t DEF Decide, TimeInv, Within
  <2>2. CASE clock >= next \/ asap
    <3>1. next' = Later(clock, period) /\ agreed' = wanted /\ due'
      BY <1>6, <2>2 DEF Decide
    <3>2. next' \in Nat /\ next' # None
      BY <1>t, <3>1, LaterType
    <3>3. Signed(agreed') = agreed' => next' <= clock + agreed'
      BY <1>t, <3>1, LaterType
    <3> QED
      BY <1>t, <2>1, <3>1, <3>2, <3>3 DEF TimeInv, PeriodInv, Deciding, Before, Within, Making
  <2>3. CASE ~(clock >= next \/ asap)
    <3>1. due' = (clock >= next \/ asap) /\ next' = (IF due' THEN Later(clock, period) ELSE next)
          /\ agreed' = IF due' THEN wanted ELSE agreed
      BY <1>6 DEF Decide
    <3>2. ~due'
      BY <2>3, <3>1, Zenon
    <3>3. next' = next /\ agreed' = agreed
      BY <3>1, <3>2, Zenon
    <3>4. clock < next
      BY <1>t, <2>1, <2>3
    <3>5. ~Deciding /\ ~Deciding'
      BY <2>1, <3>2 DEF Deciding
    <3>6. PeriodInv'
      BY <1>t, <2>1, <3>3, <3>4, <3>5 DEF TimeInv, PeriodInv
    <3> QED
      BY <1>t, <2>1, <3>3, <3>6 DEF TimeInv, Before, Within, Making
  <2> QED
    BY <2>2, <2>3
<1>7. CASE Clear
  <2>1. UNCHANGED <<clock, loopVars, agreed, last, nap>> /\ at["app"] = "clear"
        /\ at'["app"] = IF due THEN "status" ELSE "rest"
    BY <1>7, <1>t DEF Clear
  <2> QED
    BY <1>t, <2>1 DEF TimeInv, PeriodInv, Deciding, Before, Within, Making
<1>8. CASE StatusMessage
  <2>1. UNCHANGED <<clock, loopVars, agreed>> /\ at["app"] = "status" /\ last' = clock /\ nap' = 0
        /\ at'["app"] = "store"
    BY <1>8, <1>t DEF StatusMessage, LoadCount
  <2> QED
    BY <1>t, <2>1 DEF TimeInv, PeriodInv, Deciding, Before, Within, Making
<1>9. CASE Rest
  <2>1. UNCHANGED <<clock, next, due, agreed, last>> /\ at["app"] = "rest" /\ at'["app"] = "delay"
        /\ wake' = clock + Delay /\ nap' = Larger(nap, Delay)
    BY <1>9, <1>t DEF Rest
  <2>2. Delay \in Nat
    BY <1>t, DelayType
  <2>3. Delay <= nap' /\ nap' \in Nat
    BY <1>t, <2>1, <2>2 DEF Larger
  <2> QED
    BY <1>t, <2>1, <2>2, <2>3 DEF TimeInv, PeriodInv, Deciding, Before, Within, Making
<1>10. CASE Wake
  <2>1. UNCHANGED <<clock, loopVars, agreed, last, nap>> /\ at["app"] = "delay"
        /\ at'["app"] = "pass"
    BY <1>10, <1>t DEF Wake
  <2> QED
    BY <1>t, <2>1 DEF TimeInv, PeriodInv, Deciding, Before, Within, Making
<1>11. CASE StoreCount("app") \/ Copy("app")
  <2>1. UNCHANGED <<clock, loopVars, agreed, last, nap>> /\ at["app"] \in Making
        /\ at'["app"] \in Making
    BY <1>11, <1>t DEF StoreCount, Copy, Making
  <2> QED
    BY <1>t, <2>1 DEF TimeInv, PeriodInv, Deciding, Before, Within, Making
<1>12. CASE Text("app", AfterMessage) \/ Send("app", "send", AfterMessage)
  <2>1. UNCHANGED <<clock, loopVars, agreed, last, nap>> /\ at["app"] \in Making
    BY <1>12 DEF Text, Send, Making
  <2>2. at'["app"] \in {"copy", AfterMessage}
    BY <1>12, <1>t DEF Text, Send
  <2> QED
    BY <1>t, <2>1, <2>2 DEF AfterMessage, TimeInv, PeriodInv, Deciding, Before, Within, Making
<1>13. CASE Callback
  <2>1. UNCHANGED <<clock, loopVars, agreed, last, nap>> /\ at'["app"] = at["app"]
    BY <1>13, CallbackTimes
  <2> QED
    BY <1>1, <2>1
<1>14. CASE Coap
  <2>1. UNCHANGED <<clock, loopVars, agreed, last, nap>> /\ at'["app"] = at["app"]
    BY <1>14, <1>t DEF Coap, PutStatusSend, PutAutoSend, RequestArrives, GetNeighbor, Reply
  <2> QED
    BY <1>1, <2>1
<1>15. CASE Tick
  <2>1. UNCHANGED <<loopVars, agreed, last, nap, at>> /\ at["app"] = "delay"
        /\ clock' = clock + 1 /\ clock < wake
    BY <1>15, <1>t DEF Tick
  <2> QED
    BY <1>t, <2>1 DEF TimeInv, PeriodInv, Deciding, Before, Within, Making
<1>16. CASE UNCHANGED vars
  BY <1>1, <1>16 DEF vars
<1> QED
  BY <1>2, <1>3, <1>4, <1>5, <1>6, <1>7, <1>8, <1>9, <1>10, <1>11, <1>12, <1>13, <1>14, <1>15,
     <1>16 DEF Next, AppTask, MakeAndSend

LEMMA AskedStep == TypeInv /\ TimeInv /\ AskedInv /\ [Next]_vars => AskedInv'
<1> SUFFICES ASSUME TypeInv, TimeInv, AskedInv, [Next]_vars
             PROVE  AskedInv'
  OBVIOUS
<1>t. /\ at \in [Threads -> Places] /\ "app" \in Threads /\ "event" \in Threads
      /\ at["app"] \in Before \cup Within \cup Making
      /\ clock \in Nat /\ nap \in Nat /\ wake \in Nat /\ asked \in Nat \cup {None}
      /\ period \in Int /\ asap \in BOOLEAN
  BY AppPlaces
<1>1. CASE UNCHANGED <<clock, asap, due, wake, nap, asked>> /\ at'["app"] = at["app"]
  BY <1>1 DEF AskedInv
<1>2. ASSUME UNCHANGED <<clock, asap, due, wake, nap, asked>>,
             at["app"] \in Before \cup Making,
             at'["app"] \in Before \cup Making \cup {"rest", "pass"}
      PROVE  AskedInv'
  BY <1>t, <1>2 DEF AskedInv, Before, Making
<1>3. CASE OpenSockets \/ AllowUdp \/ FirstMessage \/ CrashMessage \/ NoCrashMessage
           \/ Send("app", "sendcrash", "enter") \/ EnterLoop
  <2>1. UNCHANGED <<clock, asap, due, wake, nap, asked>> /\ at["app"] \in Before
    BY <1>3 DEF OpenSockets, AllowUdp, FirstMessage, CrashMessage, NoCrashMessage, Send, EnterLoop,
       Before
  <2>2. at'["app"] \in Before \cup {"store", "pass"}
    BY <1>3, <1>t DEF OpenSockets, AllowUdp, FirstMessage, CrashMessage, NoCrashMessage, Send,
       EnterLoop, LoadCount, Before
  <2> QED
    BY <1>2, <2>1, <2>2 DEF Making
<1>4. CASE MakeAndSend("app", AfterMessage)
  <2>1. UNCHANGED <<clock, asap, due, wake, nap, asked>> /\ at["app"] \in Making
    BY <1>4 DEF MakeAndSend, StoreCount, Text, Copy, Send, Making
  <2>2. at'["app"] \in Making \cup {AfterMessage}
    BY <1>4, <1>t DEF MakeAndSend, StoreCount, Text, Copy, Send, Making
  <2> QED
    BY <1>2, <2>1, <2>2 DEF AfterMessage, Before
<1>5. CASE Pass
  <2>1. UNCHANGED <<clock, asap, due, wake, nap, asked>> /\ at["app"] = "pass"
        /\ at'["app"] = "decide"
    BY <1>5, <1>t DEF Pass
  <2> QED
    BY <1>t, <2>1 DEF AskedInv, Before, Making
<1>6. CASE Decide
  <2>1. UNCHANGED <<clock, asap, wake, nap, asked>> /\ at["app"] = "decide"
        /\ at'["app"] = "clear"
    BY <1>6, <1>t DEF Decide
  <2>2. asap => due'
    BY <1>6, Zenon DEF Decide
  <2> QED
    BY <1>t, <2>1, <2>2 DEF AskedInv, Before, Making
<1>7. CASE Clear
  <2>1. UNCHANGED <<clock, due, wake, nap, asked>> /\ at["app"] = "clear"
        /\ at'["app"] = IF due THEN "status" ELSE "rest"
    BY <1>7, <1>t DEF Clear
  <2> QED
    BY <1>t, <2>1 DEF AskedInv, Before, Making
<1>8. CASE StatusMessage
  BY <1>8 DEF StatusMessage, AskedInv
<1>9. CASE Rest
  <2>1. UNCHANGED <<clock, asap, due, asked>> /\ at["app"] = "rest" /\ at'["app"] = "delay"
        /\ wake' = clock + Delay /\ nap' = Larger(nap, Delay)
    BY <1>9, <1>t DEF Rest
  <2>2. Delay \in Nat
    BY <1>t, DelayType
  <2>3. Delay <= nap' /\ nap <= nap' /\ nap' \in Nat
    BY <1>t, <2>1, <2>2 DEF Larger
  <2> QED
    BY <1>t, <2>1, <2>2, <2>3 DEF AskedInv, Before, Making
<1>10. CASE Wake
  <2>1. UNCHANGED <<clock, asap, due, wake, nap, asked>> /\ at["app"] = "delay"
        /\ at'["app"] = "pass"
    BY <1>10, <1>t DEF Wake
  <2> QED
    BY <1>t, <2>1 DEF AskedInv, Before, Making
<1>11. CASE Callback
  <2>1. UNCHANGED <<clock, asap, due, wake, nap, asked>> /\ at'["app"] = at["app"]
    BY <1>11, CallbackTimes
  <2> QED
    BY <1>1, <2>1
<1>12. CASE PutStatusSend
  <2>1. UNCHANGED <<clock, due, wake, nap, at>> /\ asap'
        /\ asked' = IF asked # None \/ at["app"] = "clear" THEN asked ELSE clock
    BY <1>12 DEF PutStatusSend
  <2>2. CASE asked # None
    BY <1>t, <2>1, <2>2 DEF AskedInv
  <2>3. CASE asked = None /\ at["app"] = "clear"
    BY <2>1, <2>3 DEF AskedInv
  <2>4. CASE asked = None /\ at["app"] # "clear"
    BY <1>t, <2>1, <2>4 DEF AskedInv, TimeInv
  <2> QED
    BY <2>2, <2>3, <2>4
<1>13. CASE GetNeighbor \/ Reply \/ \E seconds \in Periods : PutAutoSend(seconds)
  <2>1. UNCHANGED <<clock, asap, due, wake, nap, asked>> /\ at'["app"] = at["app"]
    BY <1>13, <1>t DEF PutAutoSend, GetNeighbor, Reply
  <2> QED
    BY <1>1, <2>1
<1>14. CASE Tick
  <2>1. UNCHANGED <<asap, due, wake, nap, asked, at>> /\ at["app"] = "delay"
        /\ clock' = clock + 1 /\ clock < wake
    BY <1>14, <1>t DEF Tick
  <2> QED
    BY <1>t, <2>1 DEF AskedInv, Before, Making
<1>15. CASE UNCHANGED vars
  BY <1>1, <1>15 DEF vars
<1> QED
  BY <1>3, <1>4, <1>5, <1>6, <1>7, <1>8, <1>9, <1>10, <1>11, <1>12, <1>13, <1>14, <1>15
     DEF Next, AppTask, Coap

LEMMA TimeInvariant == Spec => [](TypeInv /\ TimeInv /\ AskedInv)
<1>1. Init => TypeInv /\ TimeInv /\ AskedInv
  <2> SUFFICES ASSUME Init
               PROVE  TimeInv /\ AskedInv
    BY InitType
  <2>1. at["app"] = "open" /\ next = None /\ last = None /\ asked = None
    BY DEF Init, Threads
  <2> QED
    BY <2>1 DEF TimeInv, PeriodInv, AskedInv, Before, Within, Making
<1> QED
  BY <1>1, TypeStep, TimeStep, AskedStep, PTL DEF Spec

(* The next status is built a period after the last one, or at the next    *)
(* pass of the loop thereafter, however requests change the period and ask *)
(* for statuses, for any periods, delays and limits.                       *)
THEOREM StatusesInTime == Spec => []StatusInTime
<1>1. TypeInv /\ TimeInv => StatusInTime
  <2> SUFFICES ASSUME TypeInv, TimeInv, at["app"] = "delay", Signed(agreed) = agreed
               PROVE  clock <= last + agreed + nap
    BY DEF StatusInTime, TypeInv
  <2>1. clock \in Nat /\ wake \in Nat /\ agreed \in Nat /\ nap \in Nat /\ next \in Nat \cup {None}
        /\ last \in Nat \cup {None}
    BY AppPlaces
  <2>2. next # None /\ clock <= wake /\ wake <= last + agreed + nap /\ last \in Nat
    BY <2>1 DEF TimeInv, PeriodInv, Within
  <2> QED
    BY <2>1, <2>2
<1> QED
  BY <1>1, TimeInvariant, PTL

(* A status that is asked for is built at the next pass of the loop.       *)
THEOREM AskedInTime == Spec => []AsapInTime
<1>1. AskedInv => AsapInTime
  BY DEF AskedInv, AsapInTime
<1> QED
  BY <1>1, TimeInvariant, PTL
=============================================================================
