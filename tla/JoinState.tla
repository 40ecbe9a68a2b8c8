-------------------------------- MODULE JoinState --------------------------------
(***************************************************************************)
(* The join state of the device and the connection statistics:             *)
(* src/wisun_node_monitoring/app.c, _join_state_custom_callback, the part  *)
(* of app_task and app_do_your_things that shares its variables, and       *)
(* app_reset_statistics.                                                   *)
(*                                                                         *)
(* The event task runs the callback once per indication of the stack; the  *)
(* application task copies the join state once connected and asks the      *)
(* stack for it with every status message; a CoAP request resets the       *)
(* statistics.  All of them write the same globals without a lock.  The    *)
(* callback may be preempted where it prints, hence its four steps.        *)
(***************************************************************************)
EXTENDS Integers, Sequences

CONSTANTS
  Operational,  \* SL_WISUN_JOIN_STATE_OPERATIONAL (5)
  PanConfig,    \* SL_WISUN_JOIN_STATE_ACQUIRE_PAN_CONFIG (3)
  MaxEvents,    \* bound: indications in flight
  MaxMoves,     \* bound: changes of the stack's join state
  MaxResets,    \* bound: resets of the statistics
  MaxTime,      \* bound: the clock stops here
  None

ASSUME JoinAssumption ==
  /\ PanConfig \in Nat /\ Operational \in Nat
  /\ 0 < PanConfig /\ PanConfig < Operational
  /\ MaxEvents \in Nat /\ MaxMoves \in Nat /\ MaxResets \in Nat /\ MaxTime \in Nat
  /\ None \notin Nat

VARIABLES
  clock,       \* now_sec()
  stack,       \* the join state of the Wi-SUN stack
  events,      \* indications not handled yet
  joinState,   \* join_state
  previous,    \* previous_join_state
  lowest,      \* min_join_state
  stateSec,    \* app_join_state_sec
  delaySec,    \* app_join_state_delay_sec; below zero where the code wraps
  connections, networkConnections,  \* connection_count, network_connection_count
  connectionTime, disconnectionTime, connectedTotal, disconnectedTotal,
  callback,    \* where the event task stands in _join_state_custom_callback
  app,         \* where app_task stands
  copy,        \* the join state it has read and not yet stored
  moves, resets,  \* counted for the bounds
  entered,     \* auxiliary: indications of Operational since the last reset
  reentered,   \* auxiliary: those after the PAN was lost, since the start
  deepest,     \* auxiliary: the lowest state indicated since the last connection
  lost,        \* auxiliary: when the last disconnection was handled
  since,       \* auxiliary: from when the totals should count, or None
  forgot,      \* auxiliary: the statistics were reset while connected
  raced        \* auxiliary: another thread changed a global under the callback

stackVars == <<stack, events, moves>>
stampVars == <<stateSec, delaySec>>
countVars == <<connections, networkConnections>>
timeVars == <<connectionTime, disconnectionTime, connectedTotal, disconnectedTotal>>
appVars == <<app, copy>>
truth == <<entered, reentered, deepest>>
times == <<lost, since, forgot>>
vars == <<clock, stackVars, joinState, previous, lowest, stampVars, countVars, timeVars,
          callback, appVars, resets, truth, times, raced>>

States == 0 .. Operational

(* The stack also indicates steps on the way to Operational (41, 42, ...). *)
Intermediate == Operational + 1

-----------------------------------------------------------------------------
(* The stack: joining goes up state by state, losing the network may lead  *)
(* back to any lower one.                                                  *)

Move ==
  /\ moves < MaxMoves /\ Len(events) < MaxEvents
  /\ moves' = moves + 1
  /\ stack' \in IF stack = Intermediate THEN States
                ELSE (0 .. stack - 1) \cup ({stack + 1} \cap States)
                       \cup (IF stack = Operational - 1 THEN {Intermediate} ELSE {})
  /\ events' = Append(events, stack')
  /\ UNCHANGED <<clock, joinState, previous, lowest, stampVars, countVars, timeVars,
                 callback, appVars, resets, truth, times, raced>>

Tick ==
  /\ clock < MaxTime
  /\ clock' = clock + 1
  /\ UNCHANGED <<stackVars, joinState, previous, lowest, stampVars, countVars, timeVars,
                 callback, appVars, resets, truth, times, raced>>

-----------------------------------------------------------------------------
(* The event task: _join_state_custom_callback.                            *)

Smaller(a, b) == IF a < b THEN a ELSE b

(* What the indications say, for comparison with the statistics.           *)
Witness(s) ==
  IF s = Operational
  THEN /\ entered' = entered + 1
       /\ reentered' = IF deepest <= PanConfig THEN reentered + 1 ELSE reentered
       /\ deepest' = Operational
  ELSE /\ deepest' = Smaller(deepest, s)
       /\ UNCHANGED <<entered, reentered>>

IndicateMainOnly ==
  /\ callback = "idle" /\ events # <<>>
  /\ events' = Tail(events)
  /\ joinState' = IF Head(events) <= Operational THEN Head(events) ELSE joinState
  /\ callback' = IF Head(events) <= Operational /\ Head(events) # previous
                 THEN "stamp" ELSE "idle"
  /\ Witness(Head(events))
  /\ UNCHANGED <<clock, stack, moves, previous, lowest, stampVars, countVars, timeVars,
                 appVars, resets, times, raced>>

(* The join state is taken over; an intermediate or unchanged one is not   *)
(* processed any further.                                                  *)
Indicate ==
  /\ callback = "idle" /\ events # <<>>
  /\ events' = Tail(events)
  /\ joinState' = Head(events)
  /\ callback' = IF joinState' <= Operational /\ joinState' # previous
                 THEN "stamp" ELSE "idle"
  /\ Witness(Head(events))
  /\ UNCHANGED <<clock, stack, moves, previous, lowest, stampVars, countVars, timeVars,
                 appVars, resets, times, raced>>

Stamp ==
  /\ callback = "stamp"
  /\ lowest' = Smaller(lowest, joinState)
  /\ IF joinState \in 1 .. Operational
     THEN /\ stateSec' = [stateSec EXCEPT ![joinState] = clock]
          /\ delaySec' = [delaySec EXCEPT ![joinState] = clock - stateSec[joinState - 1]]
     ELSE UNCHANGED stampVars
  /\ callback' = "connect"
  /\ UNCHANGED <<clock, stackVars, joinState, previous, countVars, timeVars, appVars,
                 resets, truth, times, raced>>

ConnectKeepsLowest ==
  /\ callback = "connect"
  /\ IF joinState = Operational
     THEN /\ connectionTime' = stateSec[Operational]
          /\ connections' = connections + 1
          /\ networkConnections' = networkConnections + IF lowest <= PanConfig THEN 1 ELSE 0
          /\ disconnectedTotal' = IF connections' = 1 THEN 0
               ELSE disconnectedTotal + connectionTime' - disconnectionTime
          /\ since' = IF since = None THEN connectionTime' ELSE since
     ELSE UNCHANGED <<connectionTime, countVars, disconnectedTotal, since>>
  /\ callback' = "disconnect"
  /\ UNCHANGED <<clock, stackVars, joinState, previous, lowest, stampVars, disconnectionTime,
                 connectedTotal, appVars, resets, truth, lost, forgot, raced>>

ConnectCountsLate ==
  /\ callback = "connect"
  /\ IF joinState = Operational
     THEN /\ connectionTime' = stateSec[Operational]
          /\ connections' = connections + 1
          /\ networkConnections' = networkConnections + IF lowest <= PanConfig THEN 1 ELSE 0
          /\ lowest' = Operational
          /\ disconnectedTotal' = IF connections = 1 THEN 0
               ELSE disconnectedTotal + connectionTime' - disconnectionTime
          /\ since' = IF since = None THEN connectionTime' ELSE since
     ELSE UNCHANGED <<connectionTime, countVars, lowest, disconnectedTotal, since>>
  /\ callback' = "disconnect"
  /\ UNCHANGED <<clock, stackVars, joinState, previous, stampVars, disconnectionTime,
                 connectedTotal, appVars, resets, truth, lost, forgot, raced>>

(* A connection: the time without one counts from the second on.           *)
Connect ==
  /\ callback = "connect"
  /\ IF joinState = Operational
     THEN /\ connectionTime' = stateSec[Operational]
          /\ connections' = connections + 1
          /\ networkConnections' = networkConnections + IF lowest <= PanConfig THEN 1 ELSE 0
          /\ lowest' = Operational
          /\ disconnectedTotal' = IF connections' = 1 THEN 0
               ELSE disconnectedTotal + connectionTime' - disconnectionTime
          /\ since' = IF since = None THEN connectionTime' ELSE since
     ELSE UNCHANGED <<connectionTime, countVars, lowest, disconnectedTotal, since>>
  /\ callback' = "disconnect"
  /\ UNCHANGED <<clock, stackVars, joinState, previous, stampVars, disconnectionTime,
                 connectedTotal, appVars, resets, truth, lost, forgot, raced>>

ClearedBelow(s) == 0 .. s - 1

(* The states a disconnection to s clears.                                 *)
Cleared(s) == 0 .. s

(* A disconnection, then the state becomes the previous one.  With a join  *)
(* state of Operational or more, which only a race can bring here, the     *)
(* code also writes behind the arrays; that part is left out.              *)
Disconnect ==
  /\ callback = "disconnect"
  /\ IF previous = Operational
     THEN /\ stateSec' = [i \in States |-> IF i \in Cleared(joinState) THEN clock ELSE stateSec[i]]
          /\ delaySec' = [i \in 1 .. Operational |->
                            IF i - 1 \in 0 .. joinState THEN stateSec'[i] - stateSec'[i - 1]
                            ELSE delaySec[i]]
          /\ disconnectionTime' = clock
          /\ connectedTotal' = connectedTotal + clock - connectionTime
          /\ lost' = clock
     ELSE UNCHANGED <<stampVars, disconnectionTime, connectedTotal, lost>>
  /\ previous' = joinState
  /\ callback' = "idle"
  /\ UNCHANGED <<clock, stackVars, joinState, lowest, countVars, connectionTime,
                 disconnectedTotal, appVars, resets, truth, since, forgot, raced>>

-----------------------------------------------------------------------------
(* The application task: app_task and app_do_your_things.                  *)

(* The loop that waits for the connection ends: sockets are opened,        *)
(* messages are sent ...                                                   *)
Connected ==
  /\ app = "joining"
  /\ joinState = Operational
  /\ app' = "connected"
  /\ UNCHANGED <<clock, stackVars, joinState, previous, lowest, stampVars, countVars,
                 timeVars, callback, copy, resets, truth, times, raced>>

(* ... and then previous_join_state = join_state: it is read ...           *)
ReadJoinState ==
  /\ app = "connected"
  /\ copy' = joinState
  /\ app' = "copied"
  /\ UNCHANGED <<clock, stackVars, joinState, previous, lowest, stampVars, countVars,
                 timeVars, callback, resets, truth, times, raced>>

(* ... and stored.                                                         *)
StorePrevious ==
  /\ app = "copied"
  /\ previous' = copy
  /\ copy' = None
  /\ app' = "loop"
  /\ raced' = (raced \/ previous' # previous)
  /\ UNCHANGED <<clock, stackVars, joinState, lowest, stampVars, countVars, timeVars,
                 callback, resets, truth, times>>

(* _status_json_string asks the stack for the join state.                  *)
Status ==
  /\ app = "loop"
  /\ joinState' = stack
  /\ raced' = (raced \/ (callback # "idle" /\ joinState' # joinState))
  /\ UNCHANGED <<clock, stackVars, previous, lowest, stampVars, countVars, timeVars,
                 callback, appVars, resets, truth, times>>

(* app_reset_statistics, called by the CoAP thread.                        *)
ResetStatistics ==
  /\ resets < MaxResets
  /\ resets' = resets + 1
  /\ connectionTime' = clock
  /\ disconnectionTime' = clock
  /\ connections' = 0
  /\ connectedTotal' = 0
  /\ disconnectedTotal' = 0
  /\ entered' = 0
  /\ since' = IF previous = Operational THEN clock ELSE None
  /\ forgot' = (previous = Operational)
  /\ raced' = (raced \/ callback # "idle")
  /\ UNCHANGED <<clock, stackVars, joinState, previous, lowest, stampVars,
                 networkConnections, callback, appVars, reentered, deepest, lost>>

-----------------------------------------------------------------------------
(* app_task has just called app_join_network.                              *)
Init ==
  /\ clock = 0
  /\ stack = 0 /\ events = <<>> /\ moves = 0
  /\ joinState = 0 /\ previous = 0 /\ lowest = 0
  /\ stateSec = [i \in States |-> 0]
  /\ delaySec = [i \in 1 .. Operational |-> 0]
  /\ connections = 0 /\ networkConnections = 0
  /\ connectionTime = 0 /\ disconnectionTime = 0
  /\ connectedTotal = 0 /\ disconnectedTotal = 0
  /\ callback = "idle"
  /\ app = "joining" /\ copy = None
  /\ resets = 0
  /\ entered = 0 /\ reentered = 0 /\ deepest = 0
  /\ lost = 0 /\ since = None /\ forgot = FALSE
  /\ raced = FALSE

Callback == Indicate \/ Stamp \/ Connect \/ Disconnect
AppTask == Connected \/ ReadJoinState \/ StorePrevious \/ Status

Next == Move \/ Tick \/ Callback \/ AppTask \/ ResetStatistics

Spec == Init /\ [][Next]_vars

-----------------------------------------------------------------------------
TypeOK ==
  /\ clock \in 0 .. MaxTime
  /\ stack \in States \cup {Intermediate}
  /\ events \in Seq(States \cup {Intermediate})
  /\ joinState \in States \cup {Intermediate}
  /\ previous \in States \cup {Intermediate}
  /\ previous = Intermediate => raced
  /\ lowest \in States
  /\ stateSec \in [States -> Nat]
  /\ delaySec \in [1 .. Operational -> Int]
  /\ connections \in Nat /\ networkConnections \in Nat
  /\ connectionTime \in Nat /\ disconnectionTime \in Nat
  /\ callback \in {"idle", "stamp", "connect", "disconnect"}
  /\ app \in {"joining", "connected", "copied", "loop"}
  /\ copy \in States \cup {Intermediate, None}

(* Whatever the application task and the callback overwrite, the join      *)
(* state settles on that of the stack once all indications are handled;    *)
(* and every variable keeps its type.                                      *)
JoinStateSettles ==
  /\ TypeOK
  /\ events = <<>> /\ callback = "idle" => joinState = stack

(* connection_count is the "number of connections (moving to Join State    *)
(* 5)", and network_connection_count that of connections after the PAN was *)
(* lost, unless another thread changed a global under the callback.        *)
ConnectionsCounted ==
  callback = "idle" /\ ~raced =>
    connections = entered /\ networkConnections = reentered

(* The time connected, the time disconnected and the time in the current   *)
(* state, which the status and CoAP replies add, account for all the time, *)
(* unless the statistics are reset while connected: the next disconnection *)
(* is then taken for the time before the first connection, and forgotten.  *)
TotalsAddUpUnlessForgotten ==
  callback = "idle" /\ ~raced /\ ~forgot /\ since # None =>
    connectedTotal + disconnectedTotal
      + (clock - IF previous = Operational THEN connectionTime ELSE disconnectionTime)
      = clock - since

(* The "seconds spent to reach each join state" are, once connected, the   *)
(* parts of the time since the last disconnection, through whatever states *)
(* the join went back and forth.                                           *)
Sum[i \in 0 .. Operational] == IF i = 0 THEN 0 ELSE Sum[i - 1] + delaySec[i]

DelaysAddUp ==
  callback = "idle" /\ ~raced /\ previous = Operational =>
    /\ \A i \in 1 .. Operational : delaySec[i] >= 0
    /\ Sum[Operational] = stateSec[Operational] - lost
=============================================================================
