----------------------------- MODULE MCDirectConnect -----------------------------
(* Instances of DirectConnect for TLC.                                     *)
EXTENDS DirectConnect

CONSTANTS b, x, o

(* A string of one character and a longer one, or no string ("|").         *)
MCCoapRequests == {[dest |-> b, match |-> <<o, x>>], [dest |-> b, match |-> <<>>]}
MCRequests == MCCoapRequests \cup {LinkRequest}

(* The first is as long as ByteLimit.                                      *)
MCLines == {[strings |-> {o, x}, length |-> 4], [strings |-> {o}, length |-> 1]}
=============================================================================
