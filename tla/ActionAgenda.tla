----------------------------- MODULE ActionAgenda -----------------------------
(***************************************************************************)
(* What the action scheduler promises its callers, without the array, the  *)
(* timer, the event flag or the worker's steps: an unordered agenda of at  *)
(* most MaxSlots actions from which the earliest due one is executed, one  *)
(* at a time, the older one first when deadlines are equal.                *)
(* ActionScheduler implements it (module ActionSchedulerRefinement).       *)
(***************************************************************************)
EXTENDS Integers, FiniteSets

CONSTANTS MaxSlots, Fns, Delays, Periods, None

VARIABLES
  clock,    \* the time, in ms
  pending,  \* the actions accepted and not yet started, as a set
  running,  \* the action being executed, or None
  issued    \* numbers the actions in the order they were accepted

agendaVars == <<clock, pending, running, issued>>

Action(f, period, deadline, stamp) ==
  [fn |-> f, period |-> period, deadline |-> deadline, stamp |-> stamp]

(* a is to be executed before b.                                           *)
Before(a, b) ==
  \/ a.deadline < b.deadline
  \/ a.deadline = b.deadline /\ a.stamp < b.stamp

HasRoom == Cardinality(pending) < MaxSlots

AgendaInit ==
  /\ clock = 0
  /\ pending = {}
  /\ running = None
  /\ issued = 0

(* A caller's request is accepted.  Its deadline may already have passed:  *)
(* it counts from the start of the call.                                   *)
Accept(f, period, deadline) ==
  /\ HasRoom
  /\ pending' = pending \cup {Action(f, period, deadline, issued + 1)}
  /\ issued' = issued + 1
  /\ UNCHANGED <<clock, running>>

(* Every pending instance of f is withdrawn.                               *)
Withdraw(f) ==
  /\ \E a \in pending : a.fn = f
  /\ pending' = {a \in pending : a.fn # f}
  /\ UNCHANGED <<clock, running, issued>>

(* The first action of the agenda, once due, is executed.                  *)
Begin ==
  /\ running = None
  /\ \E a \in pending :
       /\ a.deadline <= clock
       /\ \A b \in pending \ {a} : Before(a, b)
       /\ running' = a
       /\ pending' = pending \ {a}
  /\ UNCHANGED <<clock, issued>>

EndOneShot ==
  /\ running # None
  /\ running.period = 0
  /\ running' = None
  /\ UNCHANGED <<clock, pending, issued>>

(* A periodic action ends: its next deadline is one period away.           *)
EndRound ==
  /\ running # None
  /\ running.period # 0
  /\ running' = [running EXCEPT !.deadline = clock + running.period]
  /\ UNCHANGED <<clock, pending, issued>>

(* It is accepted again, or dropped for want of room.                      *)
Renew ==
  /\ running # None
  /\ running.period # 0
  /\ running' = None
  /\ IF HasRoom
     THEN /\ pending' = pending \cup
                          {Action(running.fn, running.period, running.deadline, issued + 1)}
          /\ issued' = issued + 1
     ELSE UNCHANGED <<pending, issued>>
  /\ UNCHANGED clock

Pass ==
  /\ clock' = clock + 1
  /\ UNCHANGED <<pending, running, issued>>

AgendaNext ==
  \/ \E f \in Fns, p \in Periods, called \in 0 .. clock, d \in Delays :
       Accept(f, p, called + d)
  \/ \E f \in Fns : Withdraw(f)
  \/ Begin \/ EndOneShot \/ EndRound \/ Renew
  \/ Pass

(* A due action does not wait forever, and execution is never stuck.       *)
AgendaSpec ==
  /\ AgendaInit
  /\ [][AgendaNext]_agendaVars
  /\ WF_agendaVars(Begin)
  /\ WF_agendaVars(EndOneShot \/ Renew)
=============================================================================
