------------------------- MODULE NetworkSelectionProofs -------------------------
(***************************************************************************)
(* The selection of a network, for any number of networks and trusted CAs: *)
(* whichever call of the stack fails, and whatever requests and resets do, *)
(* app_join_network gives everything back, its result is true, and the     *)
(* next start joins the network that was asked for.                        *)
(***************************************************************************)
EXTENDS NetworkSelection, TLAPS

USE NetworkAssumption DEF OK, FAIL

-----------------------------------------------------------------------------
(* The lines that app_join_network returns: none of them is cut to         *)
(* SL_STATUS_OK by the byte it is returned in.                             *)

Things == {None, "trustedca", "credential"}
NotOk == {c \in [line : Nat, on : Things] : c.line % 256 # 0}

LEMMA LineNotOk ==
  ASSUME NEW line \in Nat, line % 256 # 0, NEW what \in Things
  PROVE  Check(line) \in NotOk /\ CheckOn(what, line) \in NotOk
BY DEF Check, CheckOn, NotOk, Things

LEMMA SettingsNotOk == ASSUME NEW n PROVE Settings(n) \in Seq(NotOk)
<1>1. /\ Check(629) \in NotOk /\ Check(693) \in NotOk /\ Check(708) \in NotOk
      /\ Check(715) \in NotOk /\ Check(722) \in NotOk /\ Check(758) \in NotOk
      /\ Check(764) \in NotOk /\ Check(740) \in NotOk /\ Check(745) \in NotOk
  BY LineNotOk DEF Things
<1> QED
  BY <1>1 DEF Settings

LEMMA CredentialsNotOk ==
  ASSUME authorities \in Nat
  PROVE  Credentials \in Seq(NotOk)
<1>1. CASE authorities = 0
  <2>1. Check(783) \in NotOk /\ Check(792) \in NotOk /\ Check(803) \in NotOk
    BY LineNotOk DEF Things
  <2> QED
    BY <1>1, <2>1 DEF Credentials
<1>2. CASE authorities # 0
  <2>1. /\ Check(812) \in NotOk /\ CheckOn("trustedca", 825) \in NotOk
        /\ CheckOn("credential", 849) \in NotOk /\ Check(861) \in NotOk
    BY LineNotOk DEF Things
  <2>2. Authorities \in Seq(NotOk)
    BY <2>1 DEF Authorities
  <2>3. <<CheckOn("credential", 849), Check(861)>> \in Seq(NotOk)
    BY <2>1
  <2> QED
    BY <1>2, <2>2, <2>3 DEF Credentials
<1> QED
  BY <1>1, <1>2

LEMMA ChecksNotOk ==
  ASSUME authorities \in Nat, NEW n
  PROVE  Checks(n) \in Seq(NotOk)
<1>1. Check(877) \in NotOk /\ Check(896) \in NotOk /\ Check(901) \in NotOk
  BY LineNotOk DEF Things
<1>2. Radio(n) \in Seq(NotOk)
  <2>1. <<Check(877)>> \in Seq(NotOk) /\ <<Check(896), Check(901)>> \in Seq(NotOk)
        /\ <<>> \in Seq(NotOk)
    BY <1>1
  <2> QED
    BY <2>1 DEF Radio
<1> QED
  BY <1>2, SettingsNotOk, CredentialsNotOk DEF Checks

-----------------------------------------------------------------------------
LEMMA Reduced ==
  ASSUME NEW i \in Nat
  PROVE  i % MaxNetworks \in Networks /\ i % MaxNetworks \in 0 .. 255 /\ i % 256 \in 0 .. 255
BY DEF Networks

LEMMA InitType == Init => TypeOK
<1> SUFFICES ASSUME Init
             PROVE  TypeOK
  OBVIOUS
<1>1. locked \in BOOLEAN /\ complete \in BOOLEAN
  BY Zenon DEF Init
<1> QED
  BY <1>1 DEF Init, TypeOK, Tasks, Calling

InCleanup == task \in {"firstcleanup", "nextcleanup"}

(* From the start to the first join there is no connection, and thus no    *)
(* request; what was promised is in NVM, and then in RAM.                  *)
StartInv ==
  /\ task \in {"start", "buttons", "first"} => stack = "disconnected" /\ saving = None
  /\ promised # None => stored = promised /\ complete
  /\ promised # None /\ task \in {"buttons", "first"} => index = promised

(* The result is known from ret, cut to a byte, before it is returned.     *)
ResultInv ==
  /\ pos >= 1
  /\ Calling => joined = None /\ (index = chosen \/ asked)
  /\ InCleanup => (ret % 256 = OK <=> joined # None)
  /\ InCleanup /\ joined # None => index = joined \/ asked

NetworkInv == NothingKept /\ StartInv /\ ResultInv /\ JoinReportedTruly

LEMMA InitInv == Init => NetworkInv
<1> SUFFICES ASSUME Init
             PROVE  NetworkInv
  OBVIOUS
<1>1. ~locked /\ held = {}
  BY Zenon DEF Init
<1>2. TypeOK
  BY InitType
<1>3. promised = None /\ saving = None /\ stack = "disconnected" /\ task = "start" /\ pos = 1
  BY DEF Init
<1> QED
  BY <1>1, <1>2, <1>3
  DEF NetworkInv, NothingKept, StartInv, ResultInv, JoinReportedTruly, Calling, InCleanup

(* What a check returns, and what it may have allocated.                   *)
LEMMA CheckResult ==
  ASSUME NetworkInv, Checking
  PROVE  /\ Checks(chosen)[pos].line \in Nat /\ Checks(chosen)[pos].line % 256 # 0
         /\ \A loaded \in Loaded : loaded \subseteq {"trustedca", "credential"}
<1>1. Checks(chosen) \in Seq(NotOk) /\ pos \in 1 .. Len(Checks(chosen))
  <2>1. Checks(chosen) \in Seq(NotOk)
    BY ChecksNotOk DEF NetworkInv, NothingKept, TypeOK
  <2> QED
    BY <2>1 DEF NetworkInv, NothingKept, TypeOK, ResultInv, Checking
<1>2. Checks(chosen)[pos] \in NotOk
  BY <1>1
<1>3. Checks(chosen)[pos].on \in Things
  BY <1>2 DEF NotOk
<1> QED
  BY <1>2, <1>3 DEF NotOk, Things, Loaded

LEMMA NextInv == NetworkInv /\ [Next]_vars => NetworkInv'
<1> SUFFICES ASSUME NetworkInv, [Next]_vars
             PROVE  NetworkInv'
  OBVIOUS
<1> USE DEF paramVars, callVars, coapVars, ghosts
<1>t. NothingKept /\ TypeOK /\ StartInv /\ ResultInv /\ JoinReportedTruly
  BY DEF NetworkInv, NothingKept
<1> USE DEF NetworkInv, NothingKept, TypeOK, Tasks, Calling, InCleanup
<1>1. CASE Boot
  <2>1. index' \in 0 .. 255 /\ stored' \in 0 .. 255 \cup {None}
    BY <1>t, <1>1 DEF Boot, DefaultNetworkIndex
  <2>4. complete' \in BOOLEAN
    BY <1>t, <1>1, Zenon DEF Boot
  <2>5. promised # None => complete'
    <3>1. SUFFICES ASSUME promised # None
                   PROVE  complete'
      OBVIOUS
    <3>2. stored # None /\ complete
      BY <1>t, <3>1 DEF StartInv
    <3> QED
      BY <1>1, <3>2 DEF Boot
  <2>2. task = "start" /\ task' = "buttons" /\ pos' = pos /\ ret' = ret /\ joinRes' = joinRes
        /\ UNCHANGED <<authorities, stack, joinState, chosen, held, locked, saving, install, joined,
                       promised, asked>>
    BY <1>1 DEF Boot
  <2>3. promised # None => stored' = promised /\ index' = promised
    BY <1>t, <1>1 DEF Boot, StartInv
  <2> QED
    BY <1>t, <2>1, <2>2, <2>3, <2>4, <2>5 DEF StartInv, ResultInv, JoinReportedTruly
<1>2. ASSUME NEW option \in 0 .. 3, Buttons(option)
      PROVE  NetworkInv'
  BY <1>t, <1>2 DEF Buttons, StartInv, ResultInv, JoinReportedTruly
<1>3. CASE JoinCalled
  <2>1. index' \in Networks /\ index' \in 0 .. 255
    <3>1. index' = index % MaxNetworks
      BY <1>3 DEF JoinCalled
    <3>2. index \in Nat
      BY <1>t
    <3> QED
      BY <3>1, <3>2, Reduced
  <2>2. /\ task \in {"first", "next"} /\ task' \in {"firstcall", "nextcall"}
        /\ locked' \in BOOLEAN /\ chosen' = index' /\ stack' = "disconnected" /\ pos' = 1
        /\ joined' = None
        /\ UNCHANGED <<stored, authorities, joinState, ret, held, joinRes, saving, install,
                       complete, promised, asked>>
    BY <1>3 DEF JoinCalled
  <2> QED
    BY <1>t, <2>1, <2>2 DEF StartInv, ResultInv, JoinReportedTruly
<1>4. CASE CheckPasses
  <2>1. held' \subseteq {"trustedca", "credential"}
    BY <1>t, <1>4, CheckResult DEF CheckPasses
  <2>2. Calling /\ task' = task /\ pos' = pos + 1
        /\ UNCHANGED <<index, stored, authorities, stack, joinState, chosen, ret, locked, joinRes,
                       saving, install, complete, joined, promised, asked>>
    BY <1>4 DEF CheckPasses, Checking
  <2> QED
    BY <1>t, <2>1, <2>2 DEF StartInv, ResultInv, JoinReportedTruly
<1>5. CASE CheckFails
  <2>1. Calling /\ task' \in {"firstcleanup", "nextcleanup"}
        /\ UNCHANGED <<index, stored, authorities, stack, joinState, chosen, pos, locked, joinRes,
                       saving, install, complete, joined, promised, asked>>
    BY <1>5 DEF CheckFails, Checking, Cleaning
  <2>2. held' \subseteq {"trustedca", "credential"} /\ ret' \in Nat /\ ret' % 256 # 0
    BY <1>t, <1>5, CheckResult DEF CheckFails
  <2>5. TypeOK' /\ held' \subseteq {"trustedca", "credential"}
    BY <1>t, <2>1, <2>2
  <2>6. StartInv'
    BY <1>t, <2>1, <2>2 DEF StartInv
  <2>7. ResultInv'
    BY <1>t, <2>1, <2>2 DEF ResultInv
  <2>8. JoinReportedTruly'
    BY <1>t, <2>1, <2>2 DEF JoinReportedTruly
  <2> QED
    BY <1>t, <2>1, <2>2, <2>5, <2>6, <2>7, <2>8
<1>6. CASE JoinAccepted
  <2>1. Calling /\ task' \in {"firstcleanup", "nextcleanup"} /\ stack' = "joining" /\ ret' = 0
        /\ joined' = chosen
        /\ UNCHANGED <<index, stored, authorities, joinState, chosen, pos, held, locked, joinRes,
                       saving, install, complete, promised, asked>>
    BY <1>6 DEF JoinAccepted, Joining, Cleaning
  <2>2. joined' # None /\ (index = chosen \/ asked) /\ ret' % 256 = 0
    BY <1>t, <2>1 DEF ResultInv, Networks
  <2> QED
    BY <1>t, <2>1, <2>2 DEF StartInv, ResultInv, JoinReportedTruly
<1>7. ASSUME NEW status \in JoinErrors \cup {FAIL}, JoinRefused(status)
      PROVE  NetworkInv'
  <2>1. Calling /\ task' \in {"firstcleanup", "nextcleanup"}
        /\ UNCHANGED <<index, stored, authorities, stack, joinState, chosen, pos, held, locked, joinRes,
                       saving, install, complete, joined, promised, asked>>
    BY <1>7 DEF JoinRefused, Joining, Cleaning
  <2>2. ret' \in Nat /\ ret' % 256 # 0
    <3>1. status = FAIL \/ status \in 2 .. 255
      OBVIOUS
    <3>2. 953 % 256 # 0 /\ \A k \in 2 .. 255 : k \in Nat /\ k % 256 = k
      OBVIOUS
    <3>3. ret' = 953 \/ ret' \in 2 .. 255
      BY <1>7, <3>1 DEF JoinRefused
    <3> QED
      BY <3>2, <3>3
  <2>5. TypeOK' /\ held' \subseteq {"trustedca", "credential"}
    BY <1>t, <2>1, <2>2
  <2>6. StartInv'
    BY <1>t, <2>1, <2>2 DEF StartInv
  <2>7. ResultInv'
    BY <1>t, <2>1, <2>2 DEF ResultInv
  <2>8. JoinReportedTruly'
    BY <1>t, <2>1, <2>2 DEF JoinReportedTruly
  <2> QED
    BY <1>t, <2>1, <2>2, <2>5, <2>6, <2>7, <2>8
<1>8. CASE Cleanup
  <2>1. InCleanup /\ task' \in {"decide", "wait"} /\ held' = {} /\ joinRes' = ret % 256
        /\ UNCHANGED <<index, stored, authorities, stack, joinState, chosen, pos, ret,
                       saving, install, complete, joined, promised, asked>>
    BY <1>8 DEF Cleanup
  <2>2. ~locked' /\ locked' \in BOOLEAN
    BY <1>8, Zenon DEF Cleanup
  <2>3. joinRes' \in 0 .. 255
    BY <1>t, <2>1, Reduced
  <2>5. TypeOK' /\ held' \subseteq {"trustedca", "credential"}
    BY <1>t, <2>1, <2>2, <2>3
  <2>6. StartInv'
    BY <1>t, <2>1, <2>2, <2>3 DEF StartInv
  <2>7. ResultInv'
    BY <1>t, <2>1, <2>2, <2>3 DEF ResultInv
  <2>8. JoinReportedTruly'
    BY <1>t, <2>1, <2>2, <2>3 DEF ResultInv, JoinReportedTruly
  <2> QED
    BY <1>t, <2>1, <2>2, <2>3, <2>5, <2>6, <2>7, <2>8
<1>9. CASE Decide
  <2>1. /\ task = "decide" /\ task' \in {"connected", "wait", "next"}
        /\ task' # "next" => index' = index
        /\ UNCHANGED <<stored, authorities, stack, joinState, chosen, pos, ret, held, locked, joinRes,
                       saving, install, complete, joined, promised, asked>>
    BY <1>9 DEF Decide
  <2>2. index' \in 0 .. 255
    <3>1. index + 1 \in Nat
      BY <1>t
    <3>2. (index + 1) % MaxNetworks \in 0 .. 255
      BY <3>1, Reduced
    <3> QED
      BY <1>t, <1>9, <3>2 DEF Decide
  <2> QED
    BY <1>t, <2>1, <2>2 DEF StartInv, ResultInv, JoinReportedTruly
<1>10. CASE Wait
  BY <1>t, <1>10 DEF Wait, StartInv, ResultInv, JoinReportedTruly
<1>11. CASE StackMoves \/ JoinStateCallback
  <2>1. /\ stack' \in {"disconnected", "joining", "operational"}
        /\ joinState' \in {"disconnected", "joining", "operational"}
        /\ stack = "disconnected" => stack' = stack
        /\ UNCHANGED <<index, stored, authorities, task, chosen, pos, ret, held, locked, joinRes,
                       saving, install, complete, joined, promised, asked>>
    BY <1>t, <1>11 DEF StackMoves, JoinStateCallback
  <2> QED
    BY <1>t, <2>1 DEF StartInv, ResultInv, JoinReportedTruly
<1>12. ASSUME NEW value \in Requested, PutNetworkIndex(value)
       PROVE  NetworkInv'
  <2>1. index' \in 0 .. 255
    BY <1>12, Reduced DEF PutNetworkIndex
  <2>2. asked'
    BY <1>12, Zenon DEF PutNetworkIndex
  <2> QED
    BY <1>t, <1>12, <2>1, <2>2
    DEF PutNetworkIndex, RequestArrives, StartInv, ResultInv, JoinReportedTruly
<1>13. CASE PutDefaults
  <2>1. asked'
    BY <1>13, Zenon DEF PutDefaults
  <2> QED
    BY <1>t, <1>13, <2>1
    DEF PutDefaults, RequestArrives, DefaultNetworkIndex, StartInv, ResultInv, JoinReportedTruly
<1>14. CASE PutSave
  BY <1>t, <1>14 DEF PutSave, RequestArrives, StartInv, ResultInv, JoinReportedTruly
<1>15. CASE SaveHeader
  <2>1. /\ stored' = index /\ saving # None /\ saving' = "networks"
        /\ promised' # None => promised' = index /\ complete
        /\ UNCHANGED <<index, authorities, stack, joinState, task, chosen, pos, ret, held, locked,
                       joinRes, install, complete, joined, asked>>
    BY <1>15 DEF SaveHeader
  <2>2. TypeOK' /\ held' \subseteq {"trustedca", "credential"}
    BY <1>t, <2>1
  <2>3. StartInv'
    BY <1>t, <2>1 DEF StartInv
  <2>4. ResultInv' /\ JoinReportedTruly'
    BY <1>t, <2>1 DEF ResultInv, JoinReportedTruly
  <2> QED
    BY <1>t, <2>1, <2>2, <2>3, <2>4
<1>18. CASE SaveHeaderFails
  BY <1>t, <1>18 DEF SaveHeaderFails, StartInv, ResultInv, JoinReportedTruly
<1>19. CASE SaveNetworks
  <2>1. complete' \in BOOLEAN /\ (complete => complete')
    BY <1>t, <1>19, Zenon DEF SaveNetworks
  <2> QED
    BY <1>t, <1>19, <2>1 DEF SaveNetworks, StartInv, ResultInv, JoinReportedTruly
<1>20. CASE ScheduleInstall
  BY <1>t, <1>20 DEF ScheduleInstall, RequestArrives, StartInv, ResultInv, JoinReportedTruly
<1>21. CASE DeleteHeader \/ DeleteFails
  <2>1. /\ stored' \in {stored, None} /\ install' \in {None, "deleting"}
        /\ promised' # None => promised' = promised /\ stored' = stored
        /\ UNCHANGED <<index, authorities, stack, joinState, task, chosen, pos, ret, held, locked,
                       joinRes, saving, complete, joined, asked>>
    BY <1>21 DEF DeleteHeader, DeleteFails
  <2>2. TypeOK' /\ held' \subseteq {"trustedca", "credential"}
    BY <1>t, <2>1
  <2>3. StartInv'
    BY <1>t, <2>1 DEF StartInv
  <2>4. ResultInv' /\ JoinReportedTruly'
    BY <1>t, <2>1 DEF ResultInv, JoinReportedTruly
  <2> QED
    BY <1>t, <2>1, <2>2, <2>3, <2>4
<1>22. CASE DeleteNetworks
  <2>1. complete' \in BOOLEAN
    BY <1>t, <1>22, Zenon DEF DeleteNetworks
  <2> QED
    BY <1>t, <1>22, <2>1 DEF DeleteNetworks, StartInv, ResultInv, JoinReportedTruly
<1>16. CASE Reset
  <2>1. ~locked' /\ locked' \in BOOLEAN
    BY <1>16, Zenon DEF Reset
  <2>5. TypeOK' /\ held' \subseteq {"trustedca", "credential"}
    BY <1>t, <1>16, <2>1 DEF Reset
  <2>6. StartInv'
    BY <1>t, <1>16, <2>1 DEF Reset, StartInv
  <2>7. ResultInv'
    BY <1>t, <1>16, <2>1 DEF Reset, ResultInv
  <2>8. JoinReportedTruly'
    BY <1>t, <1>16, <2>1 DEF Reset, JoinReportedTruly
  <2> QED
    BY <1>t, <1>16, <2>1, <2>5, <2>6, <2>7, <2>8 DEF Reset
<1>17. CASE UNCHANGED vars
  BY <1>t, <1>17 DEF vars, StartInv, ResultInv, JoinReportedTruly
<1> QED
  BY <1>1, <1>2, <1>3, <1>4, <1>5, <1>6, <1>7, <1>8, <1>9, <1>10, <1>11, <1>12, <1>13, <1>14,
     <1>15, <1>16, <1>17, <1>18, <1>19, <1>20, <1>21, <1>22
  DEF Next, AppTask, JoinNetwork, Request, Install

LEMMA NetworkInvariant == Spec => []NetworkInv
BY InitInv, NextInv, PTL DEF Spec

(* The mutex and all memory are given back, whichever call fails and       *)
(* however many trusted CAs there are.                                     *)
THEOREM NothingIsKept == Spec => []NothingKept
<1>1. NetworkInv => NothingKept
  BY DEF NetworkInv
<1> QED
  BY <1>1, NetworkInvariant, PTL

(* No failure is returned as SL_STATUS_OK, and what is joined is what the  *)
(* index selects.                                                          *)
THEOREM ResultIsTrue == Spec => []JoinReportedTruly
<1>1. NetworkInv => JoinReportedTruly
  BY DEF NetworkInv
<1> QED
  BY <1>1, NetworkInvariant, PTL

(* An index that was asked for and saved is the one of the next start.     *)
THEOREM RequestedIsJoined == Spec => RestartsOnRequested
<1>1. NetworkInv /\ [Next]_vars =>
        [task = "first" /\ task' = "firstcall" /\ promised # None
         => chosen' = promised % MaxNetworks]_vars
  <2> SUFFICES ASSUME NetworkInv, Next, task = "first", task' = "firstcall", promised # None
               PROVE  chosen' = promised % MaxNetworks
    OBVIOUS
  <2> USE DEF paramVars, callVars, coapVars, ghosts
  <2>1. index = promised
    BY DEF NetworkInv, StartInv
  <2>2. JoinCalled
    BY DEF Next, AppTask, JoinNetwork, Request, Install, Boot, Buttons, CheckPasses, CheckFails,
           JoinAccepted, JoinRefused, Cleanup, Decide, Wait, StackMoves, JoinStateCallback,
           PutNetworkIndex, PutDefaults, PutSave, RequestArrives, SaveHeader, SaveHeaderFails,
           SaveNetworks, ScheduleInstall, DeleteHeader, DeleteFails, DeleteNetworks, Reset,
           Checking, Joining, Calling
  <2> QED
    BY <2>1, <2>2 DEF JoinCalled
<1> QED
  BY <1>1, NetworkInvariant, PTL DEF Spec, RestartsOnRequested
=============================================================================
