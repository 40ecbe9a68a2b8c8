-------------------------- MODULE MCActionScheduler --------------------------
(* Instances of ActionScheduler and its history for TLC.                   *)
EXTENDS ActionSchedulerHistory, TLC

CONSTANTS c1, c2, f, g

MCClients == {c1, c2}
MCFns == {f, g}

(* Clients only hold a call in progress; callbacks are only compared.      *)
Symmetry == Permutations(MCClients) \cup Permutations(MCFns)
=============================================================================
