--------------------------- MODULE MCAppParameters ---------------------------
(* Instances of AppParameters for TLC.                                     *)
EXTENDS AppParameters

(* A firmware, a later one with a new version and networks as large, and   *)
(* one that also changed the size of the networks.                         *)
ThreeFirmwares ==
  {[version |-> 1, size |-> 1], [version |-> 2, size |-> 1], [version |-> 2, size |-> 2]}
=============================================================================
