------------------------ MODULE ActionSchedulerHistory ------------------------
(***************************************************************************)
(* ActionScheduler with history variables that remember what the callers   *)
(* last asked for each callback, so that "stop all scheduled instances"    *)
(* and "repeated execution" of app_action_scheduler.h can be stated.  The  *)
(* history never restricts the scheduler's steps.                          *)
(***************************************************************************)
EXTENDS ActionScheduler

VARIABLES
  stopped,   \* callbacks whose stop returned after the last schedule of them
  settled,   \* those of them that were not executing when stop was called
  periodic   \* callbacks with an accepted periodic action not stopped since

history == <<stopped, settled, periodic>>

HInit ==
  /\ Init
  /\ stopped = {}
  /\ settled = {}
  /\ periodic = {}

Executing(f) == inflight # None /\ inflight.fn = f

(* A stop that found no instance returns false and changes nothing, but    *)
(* the caller is told that nothing is scheduled any more all the same.     *)
HStop(f) ==
  /\ \/ Stop(f)
     \/ (\A i \in DOMAIN queue : queue[i].fn # f) /\ UNCHANGED vars
  /\ stopped' = stopped \cup {f}
  /\ settled' = IF Executing(f) THEN settled ELSE settled \cup {f}
  /\ periodic' = periodic \ {f}

HScheduleInsert(c) ==
  /\ ScheduleInsert(c)
  /\ stopped' = stopped \ {call[c].fn}
  /\ settled' = settled \ {call[c].fn}
  /\ periodic' = IF call[c].period # 0 THEN periodic \cup {call[c].fn} ELSE periodic

HNext ==
  \/ \E c \in Clients, f \in Fns, d \in Delays, p \in Periods :
       ScheduleCall(c, f, d, p) /\ UNCHANGED history
  \/ \E c \in Clients : ScheduleRefused(c) /\ UNCHANGED history
  \/ \E c \in Clients : HScheduleInsert(c)
  \/ \E f \in Fns : HStop(f)
  \/ (TimerExpires \/ Worker \/ Tick) /\ UNCHANGED history

HSpec == HInit /\ [][HNext]_<<vars, history>>

-----------------------------------------------------------------------------
(* "Stop all scheduled instances of the given callback": once stop has     *)
(* returned, no instance is pending until the callback is scheduled again. *)
StopIsFinal ==
  \A f \in stopped, i \in DOMAIN queue : queue[i].fn # f

(* What the code does guarantee: if the callback was not executing when it *)
(* was stopped, it is neither pending nor executed until scheduled again.  *)
StopSettles ==
  \A f \in settled :
    /\ ~Executing(f)
    /\ \A i \in DOMAIN queue : queue[i].fn # f

Repeats(f) ==
  \/ Executing(f) /\ inflight.period # 0
  \/ \E i \in DOMAIN queue : queue[i].fn = f /\ queue[i].period # 0

(* "Period for repeated execution": a periodic action that was accepted    *)
(* stays pending or executing until it is stopped, and is lost only when   *)
(* the array is full at the moment the worker wants to queue it again.     *)
PeriodicLostOnlyWhenFull ==
  [][\A f \in periodic \cap periodic' :
       Repeats(f) => Repeats(f)' \/ (worker = "requeue" /\ Full(queue))]_<<vars, history>>
=============================================================================
