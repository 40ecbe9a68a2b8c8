---------------------------- MODULE JoinStateProofs ----------------------------
(***************************************************************************)
(* Proofs about JoinState for any number of join states, indications and   *)
(* resets.                                                                 *)
(***************************************************************************)
EXTENDS JoinState, SequenceTheorems, WellFoundedInduction, TLAPS

USE JoinAssumption

-----------------------------------------------------------------------------
(* Types.                                                                  *)

(* With the types that TypeOK leaves open: only a race brings a step on    *)
(* the way to Operational into the callback's later steps.                 *)
TypeInv ==
  /\ TypeOK
  /\ connectedTotal \in Int /\ disconnectedTotal \in Int
  /\ entered \in Nat /\ reentered \in Nat
  /\ deepest \in States
  /\ since \in Nat \cup {None}
  /\ forgot \in BOOLEAN /\ raced \in BOOLEAN
  /\ app = "copied" => copy # None
  /\ callback # "idle" /\ ~raced => joinState \in States

LEMMA InitType == Init => TypeInv
BY DEF Init, TypeInv, TypeOK, States, Intermediate

LEMMA NextType == TypeInv /\ [Next]_vars => TypeInv'
<1> SUFFICES ASSUME TypeInv, [Next]_vars
             PROVE  TypeInv'
  OBVIOUS
<1> USE DEF TypeInv, TypeOK, States, Intermediate, stackVars, stampVars, countVars, timeVars,
            appVars, truth, times
<1>1. CASE Move
  <2>1. stack' \in 0 .. Operational + 1
    BY <1>1 DEF Move
  <2>2. events' \in Seq(0 .. Operational \cup {Operational + 1})
    BY <1>1, <2>1 DEF Move
  <2> QED
    BY <1>1, <2>1, <2>2 DEF Move
<1>2. CASE Tick
  BY <1>2 DEF Tick
<1>3. CASE Indicate
  <2>1. events \in Seq(0 .. Operational \cup {Operational + 1}) /\ events # <<>>
    BY <1>3 DEF Indicate
  <2>2. /\ Head(events) \in 0 .. Operational \cup {Operational + 1}
        /\ Tail(events) \in Seq(0 .. Operational \cup {Operational + 1})
    BY ONLY <2>1, HeadTailProperties, Zenon
  <2>3. deepest' \in States /\ entered' \in Nat /\ reentered' \in Nat
    <3>1. CASE Head(events) = Operational
      BY <1>3, <3>1 DEF Indicate, Witness
    <3>2. CASE Head(events) # Operational
      <4>1. deepest' = Smaller(deepest, Head(events)) /\ UNCHANGED <<entered, reentered>>
        BY <1>3, <3>2 DEF Indicate, Witness
      <4>2. deepest' \in 0 .. Operational
        BY ONLY JoinAssumption, TypeInv, <2>2, <4>1 DEF TypeInv, States, Intermediate, Smaller
      <4> QED
        BY <4>1, <4>2
    <3> QED
      BY <3>1, <3>2
  <2> QED
    BY <1>3, <2>2, <2>3 DEF Indicate
<1>4. CASE Stamp
  <2>1. lowest' \in States
    BY <1>4 DEF Stamp, Smaller
  <2>2. stateSec' \in [States -> Nat] /\ delaySec' \in [1 .. Operational -> Int]
    <3>1. CASE joinState \in 1 .. Operational
      <4>1. stateSec' = [stateSec EXCEPT ![joinState] = clock]
        BY <1>4, <3>1 DEF Stamp
      <4>2. delaySec' = [delaySec EXCEPT ![joinState] = clock - stateSec[joinState - 1]]
        BY <1>4, <3>1 DEF Stamp
      <4>3. clock \in Nat /\ stateSec[joinState - 1] \in Nat
        BY <3>1
      <4>4. stateSec' \in [States -> Nat]
        BY <4>1, <4>3
      <4>5. delaySec' \in [1 .. Operational -> Int]
        <5>1. clock - stateSec[joinState - 1] \in Int
          BY <4>3
        <5> QED
          BY <4>2, <5>1
      <4> QED
        BY <4>4, <4>5
    <3>2. CASE joinState \notin 1 .. Operational
      BY <1>4, <3>2 DEF Stamp
    <3> QED
      BY <3>1, <3>2
  <2> QED
    BY <1>4, <2>1, <2>2 DEF Stamp
<1>5. CASE Connect
  <2>1. stateSec[Operational] \in Nat
    OBVIOUS
  <2>2. CASE joinState = Operational
    BY <1>5, <2>1, <2>2 DEF Connect
  <2>3. CASE joinState # Operational
    BY <1>5, <2>3 DEF Connect
  <2> QED
    BY <2>2, <2>3
<1>6. CASE Disconnect
  <2>1. CASE previous = Operational
    <3>1. stateSec' = [i \in States |-> IF i \in Cleared(joinState) THEN clock ELSE stateSec[i]]
      BY <1>6, <2>1 DEF Disconnect
    <3>2. stateSec' \in [States -> Nat]
      BY <3>1
    <3>3. delaySec' = [i \in 1 .. Operational |->
                         IF i - 1 \in 0 .. joinState THEN stateSec'[i] - stateSec'[i - 1]
                         ELSE delaySec[i]]
      BY <1>6, <2>1 DEF Disconnect
    <3>4. \A i \in 1 .. Operational : stateSec'[i] \in Nat /\ stateSec'[i - 1] \in Nat
      BY <3>2
    <3>5. delaySec' \in [1 .. Operational -> Int]
      BY <3>3, <3>4
    <3> QED
      BY <1>6, <2>1, <3>2, <3>5 DEF Disconnect
  <2>2. CASE previous # Operational
    BY <1>6, <2>2 DEF Disconnect
  <2> QED
    BY <2>1, <2>2
<1>7. CASE Connected
  BY <1>7 DEF Connected
<1>8. CASE ReadJoinState
  BY <1>8 DEF ReadJoinState
<1>9. CASE StorePrevious
  BY <1>9 DEF StorePrevious
<1>10. CASE Status
  BY <1>10 DEF Status
<1>11. CASE ResetStatistics
  BY <1>11 DEF ResetStatistics
<1>12. CASE UNCHANGED vars
  BY <1>12 DEF vars
<1> QED
  BY <1>1, <1>2, <1>3, <1>4, <1>5, <1>6, <1>7, <1>8, <1>9, <1>10, <1>11, <1>12
  DEF Next, Callback, AppTask
-----------------------------------------------------------------------------
(* The indications in flight.                                              *)

(* The last of them is the stack's join state, and Operational is followed *)
(* by a lower state.                                                       *)
FlightInv ==
  /\ IF events = <<>> THEN joinState = stack ELSE events[Len(events)] = stack
  /\ \A i \in 1 .. Len(events) - 1 : events[i] = Operational => events[i + 1] < Operational

LEMMA InitFlight == Init => FlightInv
BY DEF Init, FlightInv

LEMMA NextFlight == TypeInv /\ FlightInv /\ [Next]_vars => FlightInv'
<1> SUFFICES ASSUME TypeInv, FlightInv, [Next]_vars
             PROVE  FlightInv'
  OBVIOUS
<1> USE DEF stackVars, stampVars, countVars, timeVars, appVars, truth, times
<1>t. stack \in Nat /\ events \in Seq(Nat)
  <2>1. events \in Seq(States \cup {Intermediate}) /\ States \cup {Intermediate} \subseteq Nat
    BY DEF TypeInv, TypeOK, States, Intermediate
  <2>2. events \in Seq(Nat)
    BY <2>1, SeqMonotonic
  <2> QED
    BY <2>1, <2>2 DEF TypeInv, TypeOK
<1>1. CASE Move
  <2>1. stack = Operational => stack' < Operational
    BY <1>1 DEF Move, States, Intermediate
  <2>2. stack' \in Nat
    <3>1. stack' \in States \cup {Intermediate}
      BY NextType DEF TypeInv, TypeOK
    <3> QED
      BY <3>1 DEF States, Intermediate
  <2>3. events' = Append(events, stack')
    BY <1>1 DEF Move
  <2>4. /\ Len(events) \in Nat /\ Len(events') = Len(events) + 1
        /\ \A i \in 1 .. Len(events) : events'[i] = events[i]
        /\ events'[Len(events) + 1] = stack'
        /\ events # <<>> => Len(events) >= 1
    BY <1>t, <2>2, <2>3
  <2>5. events' # <<>> /\ events'[Len(events')] = stack'
    BY <2>2, <2>3, <2>4
  <2>6. ASSUME NEW i \in 1 .. Len(events') - 1, events'[i] = Operational
        PROVE  events'[i + 1] < Operational
    <3>1. i \in 1 .. Len(events) /\ events[i] = Operational
      BY <2>4, <2>6
    <3>2. CASE i = Len(events)
      BY <2>1, <2>4, <3>1, <3>2 DEF FlightInv
    <3>3. CASE i # Len(events)
      BY <2>4, <3>1, <3>3 DEF FlightInv
    <3> QED
      BY <3>2, <3>3
  <2> QED
    BY <2>5, <2>6 DEF FlightInv
<1>2. CASE Indicate
  <2>1. /\ events # <<>> /\ events' = Tail(events) /\ joinState' = Head(events)
        /\ stack' = stack
    BY <1>2 DEF Indicate
  <2>2. /\ Len(events) \in Nat \ {0} /\ Len(events') = Len(events) - 1
        /\ Head(events) = events[1]
        /\ \A i \in 1 .. Len(events) - 1 : events'[i] = events[i + 1]
    BY <1>t, <2>1
  <2>e. events' = <<>> <=> Len(events') = 0
    <3>1. events' \in Seq(Nat)
      BY <1>t, <2>1
    <3> QED
      BY <3>1
  <2>3. IF events' = <<>> THEN joinState' = stack' ELSE events'[Len(events')] = stack'
    BY <2>1, <2>2, <2>e DEF FlightInv
  <2>4. \A i \in 1 .. Len(events') - 1 : events'[i] = Operational => events'[i + 1] < Operational
    <3> SUFFICES ASSUME NEW i \in 1 .. Len(events') - 1, events'[i] = Operational
                 PROVE  events'[i + 1] < Operational
      OBVIOUS
    <3>1. i + 1 \in 1 .. Len(events) - 1 /\ i \in 1 .. Len(events) - 1
      BY <2>2
    <3>2. events'[i] = events[i + 1] /\ events'[i + 1] = events[i + 1 + 1]
      BY <2>2, <3>1
    <3> QED
      BY <3>1, <3>2 DEF FlightInv
  <2> QED
    BY <2>3, <2>4 DEF FlightInv
<1>3. CASE Status
  BY <1>3 DEF Status, FlightInv
<1>4. CASE Tick \/ ResetStatistics \/ UNCHANGED vars
  BY <1>4 DEF Tick, ResetStatistics, vars, FlightInv
<1>5. CASE Stamp \/ Connect \/ Disconnect
  <2>1. UNCHANGED <<joinState, stack, events>>
    BY <1>5 DEF Stamp, Connect, Disconnect
  <2> QED
    BY <2>1 DEF FlightInv
<1>6. CASE Connected \/ ReadJoinState \/ StorePrevious
  BY <1>6 DEF Connected, ReadJoinState, StorePrevious, FlightInv
<1> QED
  BY <1>1, <1>2, <1>3, <1>4, <1>5, <1>6 DEF Next, Callback, AppTask

(* Once all indications are handled the application has the stack's join   *)
(* state, whatever the callback and the application task overwrote, for    *)
(* any number of states and of indications in flight.                      *)
THEOREM JoinStateFollows == Spec => []JoinStateSettles
<1> DEFINE IInv == TypeInv /\ FlightInv
<1>1. Init => IInv
  BY InitType, InitFlight
<1>2. IInv /\ [Next]_vars => IInv'
  BY NextType, NextFlight
<1>3. IInv => JoinStateSettles
  BY DEF TypeInv, FlightInv, JoinStateSettles
<1> QED
  BY <1>1, <1>2, <1>3, PTL DEF Spec
-----------------------------------------------------------------------------
(* The statistics of connections.                                          *)

(* The state whose indication was processed last.                          *)
Current == IF callback = "idle" THEN previous ELSE joinState

(* A connection was indicated and is not counted yet.                      *)
Pending == callback \in {"stamp", "connect"} /\ joinState = Operational

(* Unless there was a race, the callback processes changes only; between   *)
(* two connections another state is processed; what is counted lags behind *)
(* what was indicated while a connection is pending, and the lowest state  *)
(* behind the deepest until it is stamped.                                 *)
CountInv == ~raced =>
  /\ callback # "idle" => joinState # previous
  /\ Current = Operational =>
       IF events = <<>> THEN stack = Operational ELSE events[1] < Operational
  /\ Pending =>
       /\ entered = connections + 1 /\ deepest = Operational
       /\ reentered = networkConnections + IF lowest <= PanConfig THEN 1 ELSE 0
  /\ ~Pending =>
       /\ entered = connections /\ reentered = networkConnections
       /\ deepest = IF callback = "stamp" THEN Smaller(lowest, joinState) ELSE lowest
  /\ Current < Operational /\ callback # "stamp" => lowest <= Current

(* A connection is processed, and no disconnection since.                  *)
Online == previous = Operational \/ (callback = "disconnect" /\ joinState = Operational)

(* The totals account for the time up to the last connection or            *)
(* disconnection; before the first connection after a reset there is none. *)
TimeInv == ~raced /\ ~forgot =>
  /\ since = None => connections = 0 /\ connectedTotal = 0 /\ ~Online
  /\ since # None =>
       /\ connections >= 1
       /\ connectedTotal + disconnectedTotal + since
            = IF Online THEN connectionTime ELSE disconnectionTime

LEMMA InitCount == Init => CountInv /\ TimeInv
BY DEF Init, CountInv, TimeInv, Current, Pending, Online, Smaller

(* A step that leaves alone what CountInv speaks of, unless it is a race.  *)
LEMMA SameCounts ==
  ASSUME CountInv, ~raced' => ~raced,
         ~raced' => callback' = "idle" \/ joinState' = joinState,
         ~raced' => previous' = previous,
         UNCHANGED <<callback, stack, events, lowest, deepest,
                     connections, networkConnections, entered, reentered>>
  PROVE  CountInv'
BY DEF CountInv, Current, Pending, Smaller

LEMMA NextCount == TypeInv /\ FlightInv /\ CountInv /\ [Next]_vars => CountInv'
<1> SUFFICES ASSUME TypeInv, FlightInv, CountInv, [Next]_vars
             PROVE  CountInv'
  OBVIOUS
<1> USE DEF stackVars, stampVars, countVars, timeVars, appVars, truth, times
<1>t. /\ stack \in Nat /\ events \in Seq(Nat) /\ joinState \in Nat /\ previous \in Nat
      /\ lowest \in Nat /\ lowest <= Operational /\ deepest \in Nat
      /\ connections \in Nat /\ networkConnections \in Nat
      /\ entered \in Nat /\ reentered \in Nat
      /\ raced \in BOOLEAN
      /\ callback # "idle" /\ ~raced => joinState <= Operational
      /\ ~raced => previous <= Operational
  <2>1. events \in Seq(States \cup {Intermediate}) /\ States \cup {Intermediate} \subseteq Nat
    BY DEF TypeInv, TypeOK, States, Intermediate
  <2>2. events \in Seq(Nat)
    BY <2>1, SeqMonotonic
  <2> QED
    BY <2>2 DEF TypeInv, TypeOK, States, Intermediate
<1>1. CASE Move
  <2>1. stack' \in Nat /\ (stack = Operational => stack' < Operational)
    <3>1. stack' \in States \cup {Intermediate}
      BY NextType DEF TypeInv, TypeOK
    <3> QED
      BY <1>1, <3>1 DEF Move, States, Intermediate
  <2>2. events' = Append(events, stack') /\ events' # <<>>
    BY <1>t, <1>1, <2>1 DEF Move
  <2>3. events'[1] = IF events = <<>> THEN stack' ELSE events[1]
    BY <1>t, <2>1, <2>2
  <2>4. UNCHANGED <<raced, callback, joinState, previous, lowest, deepest, connections,
                    networkConnections, entered, reentered>>
    BY <1>1 DEF Move
  <2> QED
    BY <2>1, <2>2, <2>3, <2>4 DEF CountInv, Current, Pending, Smaller
<1>2. CASE Indicate
  <2> SUFFICES ASSUME ~raced
               PROVE  CountInv'
    BY <1>2 DEF Indicate, CountInv
  <2> DEFINE s == Head(events)
  <2>1. /\ callback = "idle" /\ events # <<>> /\ events' = Tail(events) /\ joinState' = s
        /\ callback' = IF s <= Operational /\ s # previous THEN "stamp" ELSE "idle"
        /\ UNCHANGED <<raced, stack, previous, lowest, connections, networkConnections>>
        /\ Witness(s)
    BY <1>2 DEF Indicate
  <2>2. /\ Len(events) \in Nat \ {0} /\ s = events[1] /\ s \in Nat
        /\ Len(events') = Len(events) - 1 /\ events' \in Seq(Nat)
        /\ Len(events) > 1 => events'[1] = events[2]
    BY <1>t, <2>1
  <2>3. events' = <<>> <=> Len(events) = 1
    BY <2>2
  <2>4. s = Operational => IF events' = <<>> THEN stack' = Operational ELSE events'[1] < Operational
    <3>1. CASE Len(events) = 1
      BY <2>1, <2>2, <2>3, <3>1 DEF FlightInv
    <3>2. CASE Len(events) > 1
      <4>1. events[1] = Operational => events[1 + 1] < Operational
        BY <2>2, <3>2 DEF FlightInv
      <4> QED
        BY <2>2, <2>3, <3>2, <4>1
    <3> QED
      BY <2>2, <3>1, <3>2
  <2>5. previous = Operational => s < Operational
    BY <2>1, <2>2 DEF CountInv, Current
  <2>6. /\ entered = connections /\ reentered = networkConnections /\ deepest = lowest
        /\ previous < Operational => lowest <= previous
    BY <2>1 DEF CountInv, Current, Pending
  <2> HIDE DEF s
  <2>7. CASE s = Operational
    <3>1. previous < Operational
      BY <1>t, <2>5, <2>7
    <3>2. callback' = "stamp"
      BY <1>t, <2>1, <2>7, <3>1
    <3>3. /\ entered' = connections + 1 /\ deepest' = Operational
          /\ reentered' = networkConnections + IF lowest <= PanConfig THEN 1 ELSE 0
      BY <1>t, <2>1, <2>6, <2>7 DEF Witness
    <3> QED
      BY <1>t, <2>1, <2>4, <2>7, <3>1, <3>2, <3>3 DEF CountInv, Current, Pending
  <2>8. CASE s < Operational
    <3>1. UNCHANGED <<entered, reentered>> /\ deepest' = Smaller(deepest, s)
      BY <2>1, <2>2, <2>8 DEF Witness
    <3>2. CASE s = previous
      <4>1. deepest' = lowest /\ callback' = "idle"
        BY <1>t, <2>1, <2>2, <2>6, <2>8, <3>1, <3>2 DEF Smaller
      <4> QED
        BY <1>t, <2>1, <2>6, <2>8, <3>1, <3>2, <4>1 DEF CountInv, Current, Pending
    <3>3. CASE s # previous
      <4>1. callback' = "stamp"
        BY <1>t, <2>1, <2>2, <2>8, <3>3
      <4> QED
        BY <1>t, <2>1, <2>2, <2>6, <2>8, <3>1, <3>3, <4>1 DEF CountInv, Current, Pending, Smaller
    <3> QED
      BY <3>2, <3>3
  <2>9. CASE s > Operational
    <3>1. previous < Operational
      BY <1>t, <2>2, <2>5, <2>9
    <3>2. callback' = "idle" /\ deepest' = lowest /\ UNCHANGED <<entered, reentered>>
      BY <1>t, <2>1, <2>2, <2>6, <2>9 DEF Witness, Smaller
    <3> QED
      BY <1>t, <2>1, <2>6, <3>1, <3>2 DEF CountInv, Current, Pending
  <2> QED
    BY <1>t, <2>2, <2>7, <2>8, <2>9
<1>3. CASE Stamp
  <2>1. /\ callback = "stamp" /\ callback' = "connect" /\ lowest' = Smaller(lowest, joinState)
        /\ UNCHANGED <<raced, stack, events, joinState, previous, deepest, connections,
                       networkConnections, entered, reentered>>
    BY <1>3 DEF Stamp
  <2> QED
    BY <1>t, <2>1 DEF CountInv, Current, Pending, Smaller
<1>4. CASE Connect
  <2>1. /\ callback = "connect" /\ callback' = "disconnect"
        /\ UNCHANGED <<raced, stack, events, joinState, previous, deepest, entered, reentered>>
    BY <1>4 DEF Connect
  <2>2. CASE joinState = Operational
    <3>1. /\ connections' = connections + 1 /\ lowest' = Operational
          /\ networkConnections' = networkConnections + IF lowest <= PanConfig THEN 1 ELSE 0
      BY <1>4, <2>2 DEF Connect
    <3> QED
      BY <1>t, <2>1, <2>2, <3>1 DEF CountInv, Current, Pending
  <2>3. CASE joinState # Operational
    <3>1. UNCHANGED <<connections, networkConnections, lowest>>
      BY <1>4, <2>3 DEF Connect
    <3> QED
      BY <1>t, <2>1, <2>3, <3>1 DEF CountInv, Current, Pending
  <2> QED
    BY <2>2, <2>3
<1>5. CASE Disconnect
  <2>1. /\ callback = "disconnect" /\ callback' = "idle" /\ previous' = joinState
        /\ UNCHANGED <<raced, stack, events, joinState, lowest, deepest, connections,
                       networkConnections, entered, reentered>>
    BY <1>5 DEF Disconnect
  <2> QED
    BY <1>t, <2>1 DEF CountInv, Current, Pending
<1>6. CASE Tick \/ Connected \/ ReadJoinState \/ UNCHANGED vars
  <2>1. UNCHANGED <<raced, callback, joinState, previous, stack, events, lowest, deepest,
                    connections, networkConnections, entered, reentered>>
    BY <1>6 DEF Tick, Connected, ReadJoinState, vars
  <2> QED
    BY <2>1, SameCounts
<1>7. CASE StorePrevious
  <2>1. /\ raced' = (raced \/ previous' # previous)
        /\ UNCHANGED <<callback, joinState, stack, events, lowest, deepest, connections,
                       networkConnections, entered, reentered>>
    BY <1>7 DEF StorePrevious
  <2> QED
    BY <2>1, SameCounts
<1>8. CASE Status
  <2>1. /\ raced' = (raced \/ (callback # "idle" /\ joinState' # joinState))
        /\ UNCHANGED <<callback, previous, stack, events, lowest, deepest, connections,
                       networkConnections, entered, reentered>>
    BY <1>8 DEF Status
  <2> QED
    BY <2>1, SameCounts
<1>9. CASE ResetStatistics
  <2>1. /\ raced' = (raced \/ callback # "idle")
        /\ connections' = 0 /\ entered' = 0
        /\ UNCHANGED <<callback, joinState, previous, stack, events, lowest, deepest,
                       networkConnections, reentered>>
    BY <1>9 DEF ResetStatistics
  <2> QED
    BY <2>1 DEF CountInv, Current, Pending
<1> QED
  BY <1>1, <1>2, <1>3, <1>4, <1>5, <1>6, <1>7, <1>8, <1>9 DEF Next, Callback, AppTask

LEMMA NextTime == TypeInv /\ CountInv /\ TimeInv /\ [Next]_vars => TimeInv'
<1> SUFFICES ASSUME TypeInv, CountInv, TimeInv, [Next]_vars
             PROVE  TimeInv'
  OBVIOUS
<1> USE DEF stackVars, stampVars, countVars, timeVars, appVars, truth, times
<1>t. /\ clock \in Nat /\ connections \in Nat /\ stateSec[Operational] \in Nat
      /\ connectionTime \in Nat /\ disconnectionTime \in Nat
      /\ connectedTotal \in Int /\ disconnectedTotal \in Int
      /\ since \in Nat \cup {None}
  BY DEF TypeInv, TypeOK, States
<1>n. callback # "idle" /\ ~raced => joinState # previous
  BY DEF CountInv
<1>1. CASE Connect
  <2>1. /\ callback = "connect" /\ callback' = "disconnect"
        /\ UNCHANGED <<raced, forgot, joinState, previous, disconnectionTime, connectedTotal>>
    BY <1>1 DEF Connect
  <2>2. CASE joinState = Operational
    <3>1. /\ connectionTime' = stateSec[Operational] /\ connections' = connections + 1
          /\ disconnectedTotal' = IF connections' = 1 THEN 0
               ELSE disconnectedTotal + connectionTime' - disconnectionTime
          /\ since' = IF since = None THEN connectionTime' ELSE since
      BY <1>1, <2>2 DEF Connect
    <3>2. ~raced => ~Online /\ Online'
      BY <1>n, <2>1, <2>2 DEF Online
    <3> SUFFICES ASSUME ~raced, ~forgot
                 PROVE  TimeInv'
      BY <2>1 DEF TimeInv
    <3>3. CASE since = None
      <4>1. connections = 0 /\ connectedTotal = 0
        BY <3>3 DEF TimeInv
      <4> QED
        BY <1>t, <2>1, <3>1, <3>2, <3>3, <4>1 DEF TimeInv
    <3>4. CASE since # None
      <4>1. connections >= 1 /\ connectedTotal + disconnectedTotal + since = disconnectionTime
        BY <3>2, <3>4 DEF TimeInv
      <4> QED
        BY <1>t, <2>1, <3>1, <3>2, <3>4, <4>1 DEF TimeInv
    <3> QED
      BY <3>3, <3>4
  <2>3. CASE joinState # Operational
    <3>1. UNCHANGED <<connectionTime, connections, disconnectedTotal, since>>
      BY <1>1, <2>3 DEF Connect
    <3>2. Online' = Online
      BY <2>1, <2>3 DEF Online
    <3> QED
      BY <2>1, <3>1, <3>2 DEF TimeInv
  <2> QED
    BY <2>2, <2>3
<1>2. CASE Disconnect
  <2>1. /\ callback = "disconnect" /\ callback' = "idle" /\ previous' = joinState
        /\ UNCHANGED <<raced, forgot, connections, since, connectionTime, disconnectedTotal>>
    BY <1>2 DEF Disconnect
  <2>2. CASE previous = Operational
    <3>1. disconnectionTime' = clock /\ connectedTotal' = connectedTotal + clock - connectionTime
      BY <1>2, <2>2 DEF Disconnect
    <3>2. Online /\ (~raced => ~Online')
      BY <1>n, <2>1, <2>2 DEF Online
    <3> SUFFICES ASSUME ~raced, ~forgot
                 PROVE  TimeInv'
      BY <2>1 DEF TimeInv
    <3>3. /\ since # None /\ connections >= 1
          /\ connectedTotal + disconnectedTotal + since = connectionTime
      BY <3>2 DEF TimeInv
    <3> QED
      BY <1>t, <2>1, <3>1, <3>2, <3>3 DEF TimeInv
  <2>3. CASE previous # Operational
    <3>1. UNCHANGED <<disconnectionTime, connectedTotal>>
      BY <1>2, <2>3 DEF Disconnect
    <3>2. Online' = Online
      BY <2>1, <2>3 DEF Online
    <3> QED
      BY <2>1, <3>1, <3>2 DEF TimeInv
  <2> QED
    BY <2>2, <2>3
<1>3. CASE ResetStatistics
  <2>1. /\ connections' = 0 /\ connectedTotal' = 0 /\ forgot' = (previous = Operational)
        /\ since' = IF previous = Operational THEN clock ELSE None
        /\ raced' = (raced \/ callback # "idle") /\ UNCHANGED <<callback, previous, joinState>>
    BY <1>3 DEF ResetStatistics
  <2>2. ~raced' /\ ~forgot' => since' = None /\ ~Online'
    BY <2>1 DEF Online
  <2> QED
    BY <2>1, <2>2 DEF TimeInv
<1>4. CASE Move \/ Tick \/ Indicate \/ Stamp \/ Connected \/ ReadJoinState \/ StorePrevious
             \/ Status \/ UNCHANGED vars
  <2>1. UNCHANGED <<forgot, connections, since, connectionTime, disconnectionTime,
                    connectedTotal, disconnectedTotal>>
    BY <1>4 DEF Move, Tick, Indicate, Stamp, Connected, ReadJoinState, StorePrevious, Status, vars
  <2>2. ~raced' => ~raced /\ Online' = Online
    <3>1. CASE Move \/ Tick \/ Connected \/ ReadJoinState \/ UNCHANGED vars
      BY <3>1 DEF Move, Tick, Connected, ReadJoinState, vars, Online
    <3>2. CASE Indicate \/ Stamp
      BY <3>2 DEF Indicate, Stamp, Online
    <3>3. CASE StorePrevious
      BY <3>3 DEF StorePrevious, Online
    <3>4. CASE Status
      BY <3>4 DEF Status, Online
    <3> QED
      BY <1>4, <3>1, <3>2, <3>3, <3>4
  <2> QED
    BY <2>1, <2>2 DEF TimeInv
<1> QED
  BY <1>1, <1>2, <1>3, <1>4 DEF Next, Callback, AppTask

LEMMA StatisticsInvariant == Spec => [](TypeInv /\ FlightInv /\ CountInv /\ TimeInv)
<1>1. Init => TypeInv /\ FlightInv /\ CountInv /\ TimeInv
  BY InitType, InitFlight, InitCount
<1>2. (TypeInv /\ FlightInv /\ CountInv /\ TimeInv) /\ [Next]_vars
        => (TypeInv /\ FlightInv /\ CountInv /\ TimeInv)'
  BY NextType, NextFlight, NextCount, NextTime
<1> QED
  BY <1>1, <1>2, PTL DEF Spec

(* Unless there was a race, every indicated connection is counted once,    *)
(* and so is each one after the PAN was lost, for any number of states.    *)
THEOREM CountsAreTrue == Spec => []ConnectionsCounted
<1>1. CountInv => ConnectionsCounted
  BY DEF CountInv, Pending, ConnectionsCounted
<1> QED
  BY <1>1, StatisticsInvariant, PTL

(* The totals of the time connected and disconnected account for all the   *)
(* time, unless there was a race or a reset while connected, however long  *)
(* the device runs.                                                        *)
THEOREM TotalsAreTrue == Spec => []TotalsAddUpUnlessForgotten
<1>1. TypeInv /\ TimeInv => TotalsAddUpUnlessForgotten
  <2> SUFFICES ASSUME TypeInv, TimeInv, callback = "idle", ~raced, ~forgot, since # None
               PROVE  connectedTotal + disconnectedTotal
                        + (clock - IF previous = Operational THEN connectionTime
                                   ELSE disconnectionTime) = clock - since
    BY DEF TotalsAddUpUnlessForgotten
  <2>1. connectedTotal + disconnectedTotal + since
          = IF previous = Operational THEN connectionTime ELSE disconnectionTime
    BY DEF TimeInv, Online
  <2> QED
    BY <2>1 DEF TypeInv, TypeOK
<1> QED
  BY <1>1, StatisticsInvariant, PTL
-----------------------------------------------------------------------------
(* The delays.                                                             *)

(* A join goes up state by state, from the one processed last through the  *)
(* indications in flight; only a state next to Operational may be followed *)
(* by a step beyond it, and then by any state.                             *)
ChainInv ==
  /\ \A i \in 1 .. Len(events) - 1 :
       events[i] < Operational - 1 => events[i + 1] <= events[i] + 1
  /\ ~raced /\ Current < Operational - 1 =>
       IF events = <<>> THEN stack <= Current ELSE events[1] <= Current + 1

(* The last state that was stamped.                                        *)
Stamped == IF callback \in {"idle", "stamp"} THEN previous ELSE joinState

(* The delays up to that state are the differences of the times at which   *)
(* it and those before it were reached; state 0 was reached when the last  *)
(* disconnection was handled.                                              *)
DelayInv ==
  /\ stateSec[0] = lost
  /\ \A i \in States : stateSec[i] <= clock
  /\ ~raced =>
       /\ callback = "stamp" => joinState <= previous + 1
       /\ \A i \in 1 .. Stamped :
            delaySec[i] >= 0 /\ delaySec[i] = stateSec[i] - stateSec[i - 1]

LEMMA InitDelay == Init => ChainInv /\ DelayInv
<1> SUFFICES ASSUME Init
             PROVE  ChainInv /\ DelayInv
  OBVIOUS
<1>1. ChainInv
  BY DEF Init, ChainInv, Current
<1>2. DelayInv
  BY DEF Init, DelayInv, Stamped, States
<1> QED
  BY <1>1, <1>2

LEMMA NextChain == TypeInv /\ FlightInv /\ ChainInv /\ [Next]_vars => ChainInv'
<1> SUFFICES ASSUME TypeInv, FlightInv, ChainInv, [Next]_vars
             PROVE  ChainInv'
  OBVIOUS
<1> USE DEF stackVars, stampVars, countVars, timeVars, appVars, truth, times
<1>t. /\ stack \in Nat /\ events \in Seq(Nat) /\ joinState \in Nat /\ previous \in Nat
      /\ stack <= Operational + 1
      /\ ~raced => previous <= Operational
      /\ raced \in BOOLEAN
  <2>1. events \in Seq(States \cup {Intermediate}) /\ States \cup {Intermediate} \subseteq Nat
    BY DEF TypeInv, TypeOK, States, Intermediate
  <2>2. events \in Seq(Nat)
    BY <2>1, SeqMonotonic
  <2> QED
    BY <2>2 DEF TypeInv, TypeOK, States, Intermediate
<1>1. CASE Move
  <2>1. stack' \in Nat /\ (stack < Operational - 1 => stack' <= stack + 1)
    <3>1. stack' \in States \cup {Intermediate}
      BY NextType DEF TypeInv, TypeOK
    <3> QED
      BY <1>1, <1>t, <3>1 DEF Move, States, Intermediate
  <2>2. /\ events' = Append(events, stack')
        /\ UNCHANGED <<raced, callback, joinState, previous>>
    BY <1>1 DEF Move
  <2>3. /\ events' # <<>> /\ Len(events) \in Nat /\ Len(events') = Len(events) + 1
        /\ \A i \in 1 .. Len(events) : events'[i] = events[i] /\ events[i] \in Nat
        /\ events'[Len(events) + 1] = stack'
        /\ events = <<>> <=> Len(events) = 0
    BY <1>t, <2>1, <2>2
  <2>4. ASSUME NEW i \in 1 .. Len(events') - 1, events'[i] < Operational - 1
        PROVE  events'[i + 1] <= events'[i] + 1
    <3>1. i \in 1 .. Len(events) /\ events'[i] = events[i]
      BY <2>3
    <3>2. CASE i = Len(events)
      BY <2>1, <2>3, <2>4, <3>1, <3>2 DEF FlightInv
    <3>3. CASE i # Len(events)
      <4>1. i \in 1 .. Len(events) - 1 /\ i + 1 \in 1 .. Len(events)
        BY <2>3, <3>1, <3>3
      <4> QED
        BY <2>3, <2>4, <3>1, <4>1 DEF ChainInv
    <3> QED
      BY <3>2, <3>3
  <2>5. Current' = Current /\ Current \in Nat
    BY <1>t, <2>2 DEF Current
  <2>6. ASSUME ~raced, Current < Operational - 1
        PROVE  events'[1] <= Current + 1
    <3>1. CASE events = <<>>
      BY <1>t, <2>1, <2>3, <2>5, <2>6, <3>1 DEF ChainInv
    <3>2. CASE events # <<>>
      BY <2>3, <2>6, <3>2 DEF ChainInv
    <3> QED
      BY <3>1, <3>2
  <2> QED
    BY <2>2, <2>3, <2>4, <2>5, <2>6 DEF ChainInv
<1>2. CASE Indicate
  <2> DEFINE s == Head(events)
  <2>1. /\ callback = "idle" /\ events # <<>> /\ events' = Tail(events) /\ joinState' = s
        /\ callback' = IF s <= Operational /\ s # previous THEN "stamp" ELSE "idle"
        /\ UNCHANGED <<raced, stack, previous>>
    BY <1>2 DEF Indicate
  <2>2. /\ Len(events) \in Nat \ {0} /\ s = events[1] /\ s \in Nat
        /\ Len(events') = Len(events) - 1 /\ events' \in Seq(Nat)
        /\ \A i \in 1 .. Len(events) - 1 : events'[i] = events[i + 1]
    BY <1>t, <2>1
  <2>3. events' = <<>> <=> Len(events) = 1
    BY <2>2
  <2>4. ASSUME NEW i \in 1 .. Len(events') - 1, events'[i] < Operational - 1
        PROVE  events'[i + 1] <= events'[i] + 1
    <3>1. i + 1 \in 1 .. Len(events) - 1 /\ i \in 1 .. Len(events) - 1
      BY <2>2
    <3>2. events'[i] = events[i + 1] /\ events'[i + 1] = events[i + 1 + 1]
      BY <2>2, <3>1
    <3> QED
      BY <2>4, <3>1, <3>2 DEF ChainInv
  <2>5. ASSUME ~raced, Current' < Operational - 1
        PROVE  IF events' = <<>> THEN stack' <= Current' ELSE events'[1] <= Current' + 1
    <3>1. previous < Operational - 1 => s <= previous + 1
      BY <2>1, <2>2, <2>5 DEF ChainInv, Current
    <3>2. s <= Operational => Current' = s
      BY <2>1 DEF Current
    <3>3. s > Operational => Current' = previous
      BY <2>1, <2>2 DEF Current
    <3>4. s <= Operational
      BY <1>t, <2>2, <2>5, <3>1, <3>3
    <3>5. CASE Len(events) = 1
      BY <2>1, <2>2, <2>3, <3>2, <3>4, <3>5 DEF FlightInv
    <3>6. CASE Len(events) # 1
      <4>1. 1 \in 1 .. Len(events) - 1 /\ events'[1] = events[1 + 1]
        BY <2>2, <3>6
      <4>2. events[1] < Operational - 1 => events[1 + 1] <= events[1] + 1
        BY <4>1 DEF ChainInv
      <4> QED
        BY <2>2, <2>3, <2>5, <3>2, <3>4, <3>6, <4>1, <4>2
    <3> QED
      BY <3>5, <3>6
  <2> QED
    BY <2>1, <2>4, <2>5 DEF ChainInv
<1>3. ASSUME UNCHANGED <<stack, events>>, ~raced' => ~raced /\ Current' = Current
      PROVE  ChainInv'
  BY <1>3 DEF ChainInv
<1>4. CASE Tick \/ Stamp \/ Connect \/ Disconnect \/ Connected \/ ReadJoinState \/ UNCHANGED vars
  <2>1. UNCHANGED <<stack, events, raced>>
    BY <1>4 DEF Tick, Stamp, Connect, Disconnect, Connected, ReadJoinState, vars
  <2>2. Current' = Current
    BY <1>4 DEF Tick, Stamp, Connect, Disconnect, Connected, ReadJoinState, vars, Current
  <2> QED
    BY <1>3, <2>1, <2>2
<1>5. CASE StorePrevious
  <2>1. UNCHANGED <<stack, events, callback, joinState>> /\ raced' = (raced \/ previous' # previous)
    BY <1>5 DEF StorePrevious
  <2>2. ~raced' => ~raced /\ Current' = Current
    BY <2>1 DEF Current
  <2> QED
    BY <1>3, <2>1, <2>2
<1>6. CASE Status
  <2>1. /\ UNCHANGED <<stack, events, callback, previous>>
        /\ raced' = (raced \/ (callback # "idle" /\ joinState' # joinState))
    BY <1>6 DEF Status
  <2>2. ~raced' => ~raced /\ Current' = Current
    BY <2>1 DEF Current
  <2> QED
    BY <1>3, <2>1, <2>2
<1>7. CASE ResetStatistics
  <2>1. /\ UNCHANGED <<stack, events, callback, joinState, previous>>
        /\ raced' = (raced \/ callback # "idle")
    BY <1>7 DEF ResetStatistics
  <2>2. ~raced' => ~raced /\ Current' = Current
    BY <2>1 DEF Current
  <2> QED
    BY <1>3, <2>1, <2>2
<1> QED
  BY <1>1, <1>2, <1>4, <1>5, <1>6, <1>7 DEF Next, Callback, AppTask

LEMMA NextDelay == TypeInv /\ CountInv /\ ChainInv /\ DelayInv /\ [Next]_vars => DelayInv'
<1> SUFFICES ASSUME TypeInv, CountInv, ChainInv, DelayInv, [Next]_vars
             PROVE  DelayInv'
  OBVIOUS
<1> USE DEF stackVars, stampVars, countVars, timeVars, appVars, truth, times
<1>t. /\ clock \in Nat /\ joinState \in Nat /\ previous \in Nat
      /\ stateSec \in [States -> Nat] /\ delaySec \in [1 .. Operational -> Int]
      /\ callback # "idle" /\ ~raced => joinState <= Operational
      /\ ~raced => previous <= Operational
      /\ raced \in BOOLEAN
      /\ callback # "idle" /\ ~raced => joinState # previous
      /\ 0 \in States
  BY DEF TypeInv, TypeOK, CountInv, States, Intermediate
<1>s. \A i \in 1 .. Operational : i \in States /\ i - 1 \in States
  BY DEF States
<1>1. ASSUME UNCHANGED <<stampVars, lost>>, clock' \in Nat, clock <= clock',
             ~raced' => /\ ~raced /\ Stamped' = Stamped
                        /\ callback' = "stamp" => joinState' <= previous' + 1
      PROVE  DelayInv'
  <2>1. \A i \in States : stateSec[i] <= clock'
    BY <1>1, <1>t DEF DelayInv
  <2> QED
    BY <1>1, <2>1 DEF DelayInv
<1>2. CASE Indicate
  <2> DEFINE s == Head(events)
  <2>1. /\ callback = "idle" /\ events # <<>> /\ joinState' = s
        /\ callback' = IF s <= Operational /\ s # previous THEN "stamp" ELSE "idle"
        /\ UNCHANGED <<raced, previous, stampVars, lost, clock>>
    BY <1>2 DEF Indicate
  <2>2. Stamped' = Stamped
    BY <2>1 DEF Stamped
  <2>3. s \in Nat /\ s = events[1]
    <3>1. events \in Seq(Nat)
      <4>1. /\ events \in Seq(States \cup {Intermediate})
            /\ States \cup {Intermediate} \subseteq Nat
        BY DEF TypeInv, TypeOK, States, Intermediate
      <4> QED
        BY <4>1, SeqMonotonic
    <3> QED
      BY <2>1, <3>1
  <2>4. ~raced /\ s <= Operational => s <= previous + 1
    <3> SUFFICES ASSUME ~raced, s <= Operational
                 PROVE  s <= previous + 1
      OBVIOUS
    <3>1. previous < Operational - 1 => s <= previous + 1
      BY <2>1, <2>3 DEF ChainInv, Current
    <3> QED
      BY <1>t, <2>3, <3>1
  <2> QED
    BY <1>1, <1>t, <2>1, <2>2, <2>4
<1>3. CASE Stamp
  <2>1. /\ callback = "stamp" /\ callback' = "connect"
        /\ UNCHANGED <<clock, raced, joinState, previous, lost>>
    BY <1>3 DEF Stamp
  <2>2. Stamped = previous /\ Stamped' = joinState
    BY <2>1 DEF Stamped
  <2>3. CASE joinState \in 1 .. Operational
    <3>1. /\ stateSec' = [stateSec EXCEPT ![joinState] = clock]
          /\ delaySec' = [delaySec EXCEPT ![joinState] = clock - stateSec[joinState - 1]]
      BY <1>3, <2>3 DEF Stamp
    <3>2. \A i \in States : stateSec'[i] = IF i = joinState THEN clock ELSE stateSec[i]
      BY <1>t, <3>1
    <3>3. \A i \in 1 .. Operational :
            delaySec'[i] = IF i = joinState THEN clock - stateSec[joinState - 1] ELSE delaySec[i]
      BY <1>t, <3>1
    <3>4. stateSec'[0] = lost'
      BY <1>t, <2>1, <2>3, <3>2 DEF DelayInv
    <3>5. \A i \in States : stateSec'[i] <= clock'
      BY <1>t, <2>1, <3>2 DEF DelayInv
    <3>6. ASSUME ~raced, NEW i \in 1 .. joinState
          PROVE  delaySec'[i] >= 0 /\ delaySec'[i] = stateSec'[i] - stateSec'[i - 1]
      <4>1. i \in 1 .. Operational /\ i \in States /\ i - 1 \in States /\ joinState <= previous + 1
        BY <1>s, <2>1, <2>3, <3>6 DEF DelayInv
      <4>2. stateSec[i] \in Nat /\ stateSec[i - 1] \in Nat /\ stateSec[i - 1] <= clock
        BY <1>t, <4>1 DEF DelayInv
      <4>3. stateSec'[i - 1] = stateSec[i - 1]
        BY <2>3, <3>2, <4>1
      <4>4. CASE i = joinState
        BY <1>t, <3>2, <3>3, <4>1, <4>2, <4>3, <4>4
      <4>5. CASE i # joinState
        <5>1. i \in 1 .. previous
          BY <1>t, <4>1, <4>5
        <5>2. delaySec[i] >= 0 /\ delaySec[i] = stateSec[i] - stateSec[i - 1]
          BY <2>2, <3>6, <5>1 DEF DelayInv
        <5> QED
          BY <3>2, <3>3, <4>1, <4>3, <4>5, <5>2
      <4> QED
        BY <4>4, <4>5
    <3> QED
      BY <2>1, <2>2, <3>4, <3>5, <3>6 DEF DelayInv
  <2>4. CASE joinState \notin 1 .. Operational
    <3>1. UNCHANGED stampVars
      BY <1>3, <2>4 DEF Stamp
    <3>2. ~raced => 1 .. Stamped' = {}
      BY <1>t, <2>1, <2>2, <2>4
    <3> QED
      BY <2>1, <3>1, <3>2 DEF DelayInv
  <2> QED
    BY <2>3, <2>4
<1>4. CASE Disconnect
  <2>1. /\ callback = "disconnect" /\ callback' = "idle" /\ previous' = joinState
        /\ UNCHANGED <<clock, raced, joinState>>
    BY <1>4 DEF Disconnect
  <2>2. Stamped' = Stamped /\ Stamped = joinState
    BY <2>1 DEF Stamped
  <2>3. CASE previous = Operational
    <3>1. /\ stateSec' = [i \in States |-> IF i \in Cleared(joinState) THEN clock ELSE stateSec[i]]
          /\ delaySec' = [i \in 1 .. Operational |->
                            IF i - 1 \in 0 .. joinState THEN stateSec'[i] - stateSec'[i - 1]
                            ELSE delaySec[i]]
          /\ lost' = clock
      BY <1>4, <2>3 DEF Disconnect
    <3>2. \A i \in States : stateSec'[i] = IF i <= joinState THEN clock ELSE stateSec[i]
      BY <1>t, <3>1 DEF Cleared, States
    <3>3. stateSec'[0] = lost'
      BY <1>t, <3>1, <3>2
    <3>4. \A i \in States : stateSec'[i] <= clock'
      BY <1>t, <2>1, <3>2 DEF DelayInv
    <3>5. ASSUME ~raced, NEW i \in 1 .. joinState
          PROVE  delaySec'[i] >= 0 /\ delaySec'[i] = stateSec'[i] - stateSec'[i - 1]
      <4>1. i \in 1 .. Operational /\ i \in States /\ i - 1 \in States /\ i - 1 \in 0 .. joinState
        BY <1>s, <1>t, <2>1, <3>5
      <4>2. stateSec'[i] = clock /\ stateSec'[i - 1] = clock
        BY <1>t, <3>2, <4>1
      <4>3. delaySec'[i] = stateSec'[i] - stateSec'[i - 1]
        BY <3>1, <4>1
      <4> QED
        BY <1>t, <4>2, <4>3
    <3> QED
      BY <2>1, <2>2, <3>3, <3>4, <3>5 DEF DelayInv
  <2>4. CASE previous # Operational
    <3>1. UNCHANGED <<stampVars, lost>>
      BY <1>4, <2>4 DEF Disconnect
    <3> QED
      BY <1>1, <1>t, <2>1, <2>2, <3>1
  <2> QED
    BY <2>3, <2>4
<1>5. CASE Move \/ Connected \/ ReadJoinState \/ UNCHANGED vars
  <2>1. UNCHANGED <<clock, callback, joinState, previous, raced, stampVars, lost>>
    BY <1>5 DEF Move, Connected, ReadJoinState, vars
  <2>2. Stamped' = Stamped
    BY <2>1 DEF Stamped
  <2> QED
    BY <2>1, <2>2 DEF DelayInv
<1>6. CASE Tick
  <2>1. /\ UNCHANGED <<callback, joinState, previous, raced, stampVars, lost>>
        /\ clock' = clock + 1
    BY <1>6 DEF Tick
  <2>2. Stamped' = Stamped
    BY <2>1 DEF Stamped
  <2> QED
    BY <1>1, <1>t, <2>1, <2>2 DEF DelayInv
<1>7. CASE Connect
  <2>1. /\ UNCHANGED <<clock, joinState, previous, raced, stampVars, lost>>
        /\ callback = "connect" /\ callback' = "disconnect"
    BY <1>7 DEF Connect
  <2>2. Stamped' = Stamped
    BY <2>1 DEF Stamped
  <2> QED
    BY <1>1, <1>t, <2>1, <2>2
<1>8. CASE StorePrevious
  <2>1. /\ UNCHANGED <<clock, callback, joinState, stampVars, lost>>
        /\ raced' = (raced \/ previous' # previous)
    BY <1>8 DEF StorePrevious
  <2>2. ~raced' => ~raced /\ Stamped' = Stamped /\ previous' = previous
    BY <2>1 DEF Stamped
  <2> QED
    BY <1>1, <1>t, <2>1, <2>2 DEF DelayInv
<1>9. CASE Status
  <2>1. /\ UNCHANGED <<clock, callback, previous, stampVars, lost>>
        /\ raced' = (raced \/ (callback # "idle" /\ joinState' # joinState))
    BY <1>9 DEF Status
  <2>2. ~raced' => /\ ~raced /\ Stamped' = Stamped
                   /\ callback = "stamp" => joinState' = joinState
    BY <2>1 DEF Stamped
  <2> QED
    BY <1>1, <1>t, <2>1, <2>2 DEF DelayInv
<1>10. CASE ResetStatistics
  <2>1. /\ UNCHANGED <<clock, callback, joinState, previous, stampVars, lost>>
        /\ raced' = (raced \/ callback # "idle")
    BY <1>10 DEF ResetStatistics
  <2>2. ~raced' => ~raced /\ Stamped' = Stamped /\ callback' # "stamp"
    BY <2>1 DEF Stamped
  <2> QED
    BY <1>1, <1>t, <2>1, <2>2
<1> QED
  BY <1>2, <1>3, <1>4, <1>5, <1>6, <1>7, <1>8, <1>9, <1>10 DEF Next, Callback, AppTask

(* Every nonempty set of naturals has a least element, without induction   *)
(* over a predicate, which would need an operator parameter.               *)
LEMMA LeastNat ==
  ASSUME NEW S, S \subseteq Nat, S # {}
  PROVE  \E m \in S : \A n \in S : m <= n
<1> DEFINE R == OpToRel(<, Nat)
<1>1. IsWellFoundedOn(R, Nat)
  BY NatLessThanWellFounded
<1>2. PICK m \in S : \A n \in S : ~(<<n, m>> \in R)
  <2> HIDE DEF R
  <2> QED
    BY <1>1, WFMin
<1>3. \A n \in S : ~(n < m)
  BY <1>2 DEF OpToRel
<1> QED
  BY <1>3

(* Delays that are differences of times add up to the difference of the    *)
(* last time and the first: the differences themselves show that the       *)
(* recursive Sum is a function, and its least wrong value would not be.    *)
LEMMA SumOfDifferences ==
  ASSUME NEW f, \A i \in 0 .. Operational : f[i] \in Int,
         \A i \in 1 .. Operational : delaySec[i] = f[i] - f[i - 1]
  PROVE  Sum[Operational] = f[Operational] - f[0]
<1> DEFINE g == [i \in 0 .. Operational |-> f[i] - f[0]]
           Adds(h) == h = [i \in 0 .. Operational |-> IF i = 0 THEN 0 ELSE h[i - 1] + delaySec[i]]
<1>1. Adds(g)
  <2>1. ASSUME NEW i \in 0 .. Operational
        PROVE  f[i] - f[0] = IF i = 0 THEN 0 ELSE g[i - 1] + delaySec[i]
    <3>1. CASE i = 0
      BY <3>1
    <3>2. CASE i # 0
      <4>1. i \in 1 .. Operational /\ i - 1 \in 0 .. Operational
        BY <3>2
      <4>2. f[i] \in Int /\ f[i - 1] \in Int /\ f[0] \in Int
        BY <4>1
      <4>3. g[i - 1] = f[i - 1] - f[0] /\ delaySec[i] = f[i] - f[i - 1]
        BY <4>1
      <4> HIDE DEF g
      <4> QED
        BY <3>2, <4>2, <4>3
    <3> QED
      BY <3>1, <3>2
  <2> QED
    BY <2>1, Zenon
<1>2. Adds(Sum)
  <2>1. Sum = CHOOSE h : Adds(h)
    BY DEF Sum
  <2> HIDE DEF Adds, g
  <2> QED
    BY <1>1, <2>1
<1>3. \A i \in 0 .. Operational :
        /\ g[i] = IF i = 0 THEN 0 ELSE g[i - 1] + delaySec[i]
        /\ Sum[i] = IF i = 0 THEN 0 ELSE Sum[i - 1] + delaySec[i]
  <2> HIDE DEF g
  <2> QED
    BY <1>1, <1>2
<1>4. \A i \in 0 .. Operational : Sum[i] = g[i]
  <2> HIDE DEF g, Adds
  <2> DEFINE Wrong == {i \in 0 .. Operational : Sum[i] # g[i]}
  <2> SUFFICES ASSUME Wrong # {} PROVE FALSE
    OBVIOUS
  <2>1. PICK m \in Wrong : \A n \in Wrong : m <= n
    <3>1. Wrong \subseteq Nat
      OBVIOUS
    <3> HIDE DEF Wrong
    <3> QED
      BY <3>1, LeastNat
  <2>2. m \in 0 .. Operational /\ Sum[m] # g[m]
    BY <2>1
  <2>3. m # 0
    BY <1>3, <2>2
  <2>4. m - 1 \in 0 .. Operational /\ m - 1 < m
    BY <2>2, <2>3
  <2>5. m - 1 \notin Wrong
    <3>1. m - 1 \in Wrong => m <= m - 1
      <4> HIDE DEF Wrong
      <4> QED
        BY <2>1
    <3> HIDE DEF Wrong
    <3> QED
      BY <2>2, <2>4, <3>1
  <2>6. Sum[m - 1] = g[m - 1]
    BY <2>4, <2>5
  <2> QED
    BY <1>3, <2>2, <2>3, <2>6
<1>5. g[Operational] = f[Operational] - f[0]
  OBVIOUS
<1> QED
  BY <1>4, <1>5

(* Once connected, the delays are those of the last way up: none is        *)
(* negative, and they add up to the time since the last disconnection, for *)
(* any number of states and however the join went back and forth.          *)
THEOREM DelaysAreTrue == Spec => []DelaysAddUp
<1>1. TypeInv /\ DelayInv => DelaysAddUp
  <2> SUFFICES ASSUME TypeInv, DelayInv, callback = "idle", ~raced, previous = Operational
               PROVE  /\ \A i \in 1 .. Operational : delaySec[i] >= 0
                      /\ Sum[Operational] = stateSec[Operational] - lost
    BY DEF DelaysAddUp
  <2>1. \A i \in 1 .. Operational :
          delaySec[i] >= 0 /\ delaySec[i] = stateSec[i] - stateSec[i - 1]
    BY DEF DelayInv, Stamped
  <2>2. \A i \in 0 .. Operational : stateSec[i] \in Int
    BY DEF TypeInv, TypeOK, States
  <2>3. Sum[Operational] = stateSec[Operational] - stateSec[0]
    BY <2>1, <2>2, SumOfDifferences
  <2> QED
    BY <2>1, <2>3 DEF DelayInv
<1>2. Init => ChainInv /\ DelayInv
  BY InitDelay
<1>3. (TypeInv /\ FlightInv /\ CountInv /\ TimeInv) /\ (ChainInv /\ DelayInv) /\ [Next]_vars
        => (ChainInv /\ DelayInv)'
  BY NextChain, NextDelay
<1> QED
  BY <1>1, <1>2, <1>3, StatisticsInvariant, PTL DEF Spec
=============================================================================
