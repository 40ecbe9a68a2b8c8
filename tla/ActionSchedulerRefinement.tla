----------------------- MODULE ActionSchedulerRefinement -----------------------
(* ActionScheduler implements ActionAgenda: the agenda is the content of   *)
(* the array, and the executing action is the worker's local copy.         *)
EXTENDS ActionScheduler

Pending == {queue[i] : i \in DOMAIN queue}

Agenda == INSTANCE ActionAgenda WITH pending <- Pending, running <- inflight

(* No action is taken for none.                                            *)
ASSUME NoneAssumption == None \notin Entry

(* The scheduler does what the agenda does, and what the agenda is sure to *)
(* do the scheduler does in the end: each accepted action is in exactly    *)
(* one place, leaves the agenda by being executed once, in order, or by    *)
(* being stopped, and a due one does not wait forever.                     *)
ImplementsAgenda == Agenda!AgendaSpec
=============================================================================
