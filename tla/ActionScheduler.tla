---------------------------- MODULE ActionScheduler ----------------------------
(***************************************************************************)
(* The delayed-action scheduler of the node monitoring application:        *)
(* src/wisun_node_monitoring/app_action_scheduler.c.                       *)
(*                                                                         *)
(* A fixed array of pending actions, ordered by deadline, is shared by the *)
(* threads that call the API (the CoAP handler thread, the UDP worker, the *)
(* application task), by a sleeptimer that is armed for the head of the    *)
(* array, and by one worker task that runs the callbacks.  Every critical  *)
(* section of the code is one action of this module; a thread may be       *)
(* preempted, and time may pass, between any two of them.                  *)
(***************************************************************************)
EXTENDS Integers, Sequences, FiniteSets

CONSTANTS
  MaxSlots,    \* APP_SCHEDULER_MAX_SLOTS
  Clients,     \* the threads that call the API
  Fns,         \* the callbacks they schedule (never NULL)
  Delays,      \* the delay_ms arguments
  Periods,     \* the period_ms arguments, 0 for a one-shot action
  TimerSlack,  \* how many ms early the tick-based timer may be seen to expire
  MaxCalls,    \* bound: no schedule call once this many entries were queued
  MaxTime,     \* bound: the clock stops here
  None         \* no call in progress, or no callback in progress

ASSUME SchedulerAssumption ==
  /\ MaxSlots \in Nat \ {0}
  /\ Delays \subseteq Nat
  /\ Periods \subseteq Nat
  /\ TimerSlack \in Nat
  /\ MaxCalls \in Nat
  /\ MaxTime \in Nat

VARIABLES
  clock,       \* now_ms()
  queue,       \* g_scheduler_queue[0 .. g_scheduler_count - 1]
  timer,       \* when g_scheduler_timer expires, or NotArmed
  flag,        \* APP_SCHEDULER_FLAG_EXECUTE of g_scheduler_flags
  worker,      \* where scheduler_task stands
  inflight,    \* the worker's local copy of the entry it is executing
  call,        \* per client, the state a schedule call built before it locks
  issued       \* how many entries were ever queued; numbers the entries

vars == <<clock, queue, timer, flag, worker, inflight, call, issued>>

NotArmed == -1

(***************************************************************************)
(* app_scheduler_action_state_t.  The field stamp is an auxiliary number   *)
(* that tells two entries of one callback apart.                           *)
(***************************************************************************)
Entry == [fn : Fns, period : Periods, deadline : Nat, stamp : Nat]
Request == [fn : Fns, period : Periods, deadline : Nat]

-----------------------------------------------------------------------------
(* The queue.                                                              *)

FullPast(q) == Len(q) > MaxSlots

Full(q) == Len(q) >= MaxSlots

Due(q) == q # <<>> /\ q[1].deadline <= clock

LastBefore(q, d) ==
  CHOOSE p \in 0 .. Len(q) :
    /\ p = 0 \/ q[p].deadline < d
    /\ \A j \in p + 1 .. Len(q) : q[j].deadline >= d

(* How many entries stay in front of a new one: it goes behind every entry *)
(* that is not later than itself, equal deadlines included.                *)
LastNotLater(q, d) ==
  CHOOSE p \in 0 .. Len(q) :
    /\ p = 0 \/ q[p].deadline <= d
    /\ \A j \in p + 1 .. Len(q) : q[j].deadline > d

InsertFirst(q, e) == <<e>> \o q

Insert(q, e) ==
  LET p == LastNotLater(q, e.deadline)
  IN  [k \in 1 .. Len(q) + 1 |->
         IF k <= p THEN q[k] ELSE IF k = p + 1 THEN e ELSE q[k - 1]]

(* What get_remaining answers for a callback that is queued: it stops at   *)
(* the first match of the array.                                           *)
Remaining(f) ==
  LET found == {i \in DOMAIN queue : queue[i].fn = f}
      i == CHOOSE i \in found : \A j \in found : i <= j
  IN  IF queue[i].deadline > clock THEN queue[i].deadline - clock ELSE 0

(* The new queue q with the entries at the indices keep, packed in order.  *)
Pack(q, keep) ==
  \E h \in [1 .. Cardinality(keep) -> keep] :
    /\ \A i, j \in DOMAIN h : i < j => h[i] < h[j]
    /\ queue' = [i \in DOMAIN h |-> q[h[i]]]

RearmSilently(q) ==
  /\ timer' = IF q # <<>> /\ ~Due(q) THEN q[1].deadline ELSE NotArmed
  /\ UNCHANGED flag

(* Stops the timer, then arms it for the head of q or, when the head is    *)
(* already due, signals the worker instead of starting a 0 ms timer.       *)
Rearm(q) ==
  /\ timer' = IF q # <<>> /\ ~Due(q) THEN q[1].deadline ELSE NotArmed
  /\ flag' = (flag \/ Due(q))

-----------------------------------------------------------------------------
(* The API, called by any thread.                                          *)

(* schedule reads the clock and fills in the entry before it locks.        *)
ScheduleCall(c, f, delay, period) ==
  /\ call[c] = None
  /\ issued < MaxCalls
  /\ call' = [call EXCEPT ![c] =
                [fn |-> f, period |-> period, deadline |-> clock + delay]]
  /\ UNCHANGED <<clock, queue, timer, flag, worker, inflight, issued>>

(* The critical section of schedule when the array is full: returns false. *)
ScheduleRefused(c) ==
  /\ call[c] # None
  /\ Full(queue)
  /\ call' = [call EXCEPT ![c] = None]
  /\ UNCHANGED <<clock, queue, timer, flag, worker, inflight, issued>>

Stamped(r) == [fn |-> r.fn, period |-> r.period, deadline |-> r.deadline,
               stamp |-> issued + 1]

(* The critical section of schedule when there is room: returns true.      *)
ScheduleInsert(c) ==
  /\ call[c] # None
  /\ ~Full(queue)
  /\ queue' = Insert(queue, Stamped(call[c]))
  /\ Rearm(queue')
  /\ issued' = issued + 1
  /\ call' = [call EXCEPT ![c] = None]
  /\ UNCHANGED <<clock, worker, inflight>>

StopFirst(f) ==
  LET found == {i \in DOMAIN queue : queue[i].fn = f}
  IN  /\ found # {}
      /\ Pack(queue, DOMAIN queue \ {CHOOSE i \in found : \A j \in found : i <= j})
      /\ Rearm(queue')
      /\ UNCHANGED <<clock, worker, inflight, call, issued>>

(* stop: every queued instance of f goes.  Without one the call changes    *)
(* nothing and returns false.                                              *)
Stop(f) ==
  LET keep == {i \in DOMAIN queue : queue[i].fn # f}
  IN  /\ keep # DOMAIN queue
      /\ Pack(queue, keep)
      /\ Rearm(queue')
      /\ UNCHANGED <<clock, worker, inflight, call, issued>>

-----------------------------------------------------------------------------
(* The timer interrupt and the passing of time.                            *)

(* scheduler_timer_cb, in interrupt context: only signals the worker.      *)
TimerExpires ==
  /\ timer # NotArmed
  /\ timer <= clock + TimerSlack
  /\ timer' = NotArmed
  /\ flag' = TRUE
  /\ UNCHANGED <<clock, queue, worker, inflight, call, issued>>

Tick ==
  /\ clock < MaxTime
  /\ clock' = clock + 1
  /\ UNCHANGED <<queue, timer, flag, worker, inflight, call, issued>>

-----------------------------------------------------------------------------
(* The worker: scheduler_task and process_due_actions.                     *)

(* osEventFlagsWait returns and clears the flag.                           *)
WorkerWakes ==
  /\ worker = "wait"
  /\ flag
  /\ flag' = FALSE
  /\ worker' = "check"
  /\ UNCHANGED <<clock, queue, timer, inflight, call, issued>>

(* The head is due: it leaves the queue and its callback starts.           *)
WorkerStarts ==
  /\ worker = "check"
  /\ Due(queue)
  /\ inflight' = queue[1]
  /\ queue' = Tail(queue)
  /\ worker' = "run"
  /\ UNCHANGED <<clock, timer, flag, call, issued>>

WorkerRestsUnarmed ==
  /\ worker = "check"
  /\ ~Due(queue)
  /\ worker' = "wait"
  /\ UNCHANGED <<clock, queue, timer, flag, inflight, call, issued>>

(* Nothing is due: the timer is armed for the head and the worker waits.   *)
WorkerRests ==
  /\ worker = "check"
  /\ ~Due(queue)
  /\ Rearm(queue)
  /\ worker' = "wait"
  /\ UNCHANGED <<clock, queue, inflight, call, issued>>

(* The callback of a one-shot action returns, whatever it returns.         *)
OneShotReturns ==
  /\ worker = "run"
  /\ inflight.period = 0
  /\ inflight' = None
  /\ worker' = "check"
  /\ UNCHANGED <<clock, queue, timer, flag, call, issued>>

(* The callback of a periodic action returns; its next deadline counts     *)
(* from now, and is computed before the worker locks.                      *)
PeriodicReturns ==
  /\ worker = "run"
  /\ inflight.period # 0
  /\ inflight' = [inflight EXCEPT !.deadline = clock + inflight.period]
  /\ worker' = "requeue"
  /\ UNCHANGED <<clock, queue, timer, flag, call, issued>>

WorkerRequeuesBelowLast ==
  /\ worker = "requeue"
  /\ IF Len(queue) >= MaxSlots - 1
     THEN UNCHANGED <<queue, issued>>
     ELSE /\ queue' = Insert(queue, Stamped(inflight))
          /\ issued' = issued + 1
  /\ Rearm(queue')
  /\ inflight' = None
  /\ worker' = "check"
  /\ UNCHANGED <<clock, call>>

(* The periodic action goes back into the queue if there is room.          *)
WorkerRequeues ==
  /\ worker = "requeue"
  /\ IF Full(queue)
     THEN UNCHANGED <<queue, issued>>
     ELSE /\ queue' = Insert(queue, Stamped(inflight))
          /\ issued' = issued + 1
  /\ Rearm(queue')
  /\ inflight' = None
  /\ worker' = "check"
  /\ UNCHANGED <<clock, call>>

-----------------------------------------------------------------------------
(* app_scheduler_action_init, which app_init runs before any caller.       *)
Init ==
  /\ clock = 0
  /\ queue = <<>>
  /\ timer = NotArmed
  /\ flag = FALSE
  /\ worker = "wait"
  /\ inflight = None
  /\ call = [c \in Clients |-> None]
  /\ issued = 0

Worker ==
  WorkerWakes \/ WorkerStarts \/ WorkerRests
    \/ OneShotReturns \/ PeriodicReturns \/ WorkerRequeues

ScheduleEnds(c) == ScheduleRefused(c) \/ ScheduleInsert(c)

Next ==
  \/ \E c \in Clients, f \in Fns, d \in Delays, p \in Periods : ScheduleCall(c, f, d, p)
  \/ \E c \in Clients : ScheduleEnds(c)
  \/ \E f \in Fns : Stop(f)
  \/ TimerExpires
  \/ Worker
  \/ Tick

Spec == Init /\ [][Next]_vars

(***************************************************************************)
(* The kernel schedules the above-normal worker and the calling threads,   *)
(* an expired sleeptimer raises its interrupt, time passes, and callbacks  *)
(* return (those of the application do, with or without success).          *)
(***************************************************************************)
Fairness ==
  /\ WF_vars(Worker)
  /\ \A c \in Clients : WF_vars(ScheduleEnds(c))
  /\ WF_vars(TimerExpires)
  /\ WF_vars(Tick)

FairSpec == Spec /\ Fairness

-----------------------------------------------------------------------------
(* Types: the array never overflows and each local copy is there exactly   *)
(* while the code that owns it runs.                                       *)
TypeOK ==
  /\ clock \in Nat
  /\ queue \in Seq(Entry)
  /\ Len(queue) <= MaxSlots
  /\ timer \in Nat \cup {NotArmed}
  /\ flag \in BOOLEAN
  /\ worker \in {"wait", "check", "run", "requeue"}
  /\ inflight \in Entry \cup {None}
  /\ worker \in {"run", "requeue"} => inflight \in Entry
  /\ call \in [Clients -> Request \cup {None}]
  /\ issued \in Nat

InOrder(q) ==
  \A i, j \in DOMAIN q : i < j =>
    \/ q[i].deadline < q[j].deadline
    \/ q[i].deadline = q[j].deadline /\ q[i].stamp < q[j].stamp

(* The array is in deadline order, and entries of equal deadline are in    *)
(* the order they were queued ("queue[0] is always the next due item").    *)
QueueInOrder == InOrder(queue)

(* No lost wake-up: while an action is pending, the worker is on its way   *)
(* to the queue, or is signalled, or the timer is armed no later than the  *)
(* first deadline, whatever the callers, the interrupt and the worker      *)
(* interleave.                                                             *)
WakeupPending ==
  queue # <<>> =>
    \/ worker # "wait"
    \/ flag
    \/ timer # NotArmed /\ timer <= queue[1].deadline

(* get_remaining, which scans for the first match, reports the earliest of *)
(* all the queued instances of a callback.                                 *)
RemainingIsEarliest ==
  \A i \in DOMAIN queue :
    queue[i].deadline >= clock => clock + Remaining(queue[i].fn) <= queue[i].deadline

(* A callback starts no earlier than its deadline and never overtakes a    *)
(* pending action that was due before it, at the time it starts.           *)
EarliestFirst ==
  [][worker = "check" /\ worker' = "run" =>
       /\ inflight'.deadline <= clock
       /\ \A i \in DOMAIN queue : inflight'.deadline <= queue[i].deadline]_vars

(* Every action whose deadline the clock reaches is executed or stopped:   *)
(* no interleaving leaves it in the queue for good.                        *)
PendingActionsLeave ==
  \A s \in 1 .. MaxCalls :
    (\E i \in DOMAIN queue : queue[i].stamp = s /\ queue[i].deadline <= MaxTime)
      ~> (\A i \in DOMAIN queue : queue[i].stamp # s)
=============================================================================
