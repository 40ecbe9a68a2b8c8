-------------------------- MODULE AppParametersProofs --------------------------
(***************************************************************************)
(* Proofs about AppParameters and the CrashHandler it contains, for any    *)
(* number of networks, firmwares and kinds of crash, and however often     *)
(* resets, failures and deletions come.                                    *)
(***************************************************************************)
EXTENDS AppParameters, TLAPS

USE ParametersAssumption, NoneAssumption

-----------------------------------------------------------------------------
(* Types.                                                                  *)

LEMMA ValuesType ==
  /\ \A f \in Firmwares : Default(f) \in Values /\ Zeroes(f) \in Values
  /\ \A v \in Values : v.by \in Firmwares /\ [v EXCEPT !.settings = "custom"] \in Values
  /\ \A v \in Values : [v EXCEPT !.settings = "custom"].by = v.by
BY DEF Values, Default, Zeroes

LEMMA InitType == Init => TypeOK
<1> SUFFICES ASSUME Init
             PROVE  TypeOK
  OBVIOUS
<1>1. torn \in BOOLEAN /\ moved \in BOOLEAN
  BY Zenon DEF Init, Crash!Init
<1>2. network \in [Networks -> Values]
  BY ValuesType DEF Init
<1>3. object \in [Networks -> Values \cup {None}]
  BY DEF Init
<1>4. Crash!TypeOK
  BY <1>1 DEF Init, Crash!Init, Crash!TypeOK, Crash!RecordTypes, Crash!Causes
<1> QED
  BY <1>1, <1>2, <1>3, <1>4 DEF Init, TypeOK, Networks, NoLoop, Saving

(* The variables of the crash handler.                                     *)
LEMMA CrashType ==
  ASSUME Crash!TypeOK,
         \/ \E t \in CrashTypes : Crash!Crash(t)
         \/ Crash!SoftReset \/ Crash!PinReset \/ Crash!PowerCycle \/ Crash!Install
         \/ Crash!HandlerInit \/ Crash!CheckPreviousCrash
  PROVE  Crash!TypeOK'
<1> USE DEF Crash!TypeOK, Crash!RecordTypes, Crash!Causes, Crash!StartAgain
<1>1. ASSUME NEW t \in CrashTypes, Crash!Crash(t)
      PROVE  Crash!TypeOK'
  <2>1. moved' \in BOOLEAN
    BY <1>1, Zenon DEF Crash!Crash
  <2> QED
    BY <1>1, <2>1 DEF Crash!Crash
<1>2. CASE Crash!SoftReset
  BY <1>2 DEF Crash!SoftReset
<1>3. CASE Crash!PinReset
  BY <1>3 DEF Crash!PinReset
<1>4. CASE Crash!PowerCycle
  BY <1>4 DEF Crash!PowerCycle
<1>5. CASE Crash!Install
  <2>1. moved' \in BOOLEAN
    BY <1>5, Zenon DEF Crash!Install
  <2> QED
    BY <1>5, <2>1 DEF Crash!Install
<1>6. CASE Crash!HandlerInit
  <2>1. moved' \in BOOLEAN
    BY <1>6, Zenon DEF Crash!HandlerInit
  <2> QED
    BY <1>6, <2>1 DEF Crash!HandlerInit, Crash!Readable
<1>7. CASE Crash!CheckPreviousCrash
  <2>1. moved' \in BOOLEAN
    BY <1>7, Zenon DEF Crash!CheckPreviousCrash
  <2> QED
    BY <1>7, <2>1 DEF Crash!CheckPreviousCrash, Crash!Readable
<1> QED
  BY <1>1, <1>2, <1>3, <1>4, <1>5, <1>6, <1>7

LEMMA CrashTypeSame == Crash!TypeOK /\ UNCHANGED crashVars => Crash!TypeOK'
BY DEF crashVars, Crash!TypeOK, Crash!RecordTypes

LEMMA SetDefaultsType ==
  ASSUME TypeOK, SetDefaults
  PROVE  /\ params' \in Stored /\ network' \in [Networks -> Values]
         /\ pc' = "initsave" /\ key' = 0 /\ status' = "ok" /\ saved' = None
BY ValuesType DEF TypeOK, SetDefaults, SaveFor, Stored

LEMMA NextType == TypeOK /\ [Next]_vars => TypeOK'
<1> SUFFICES ASSUME TypeOK, [Next]_vars
             PROVE  TypeOK'
  OBVIOUS
<1> USE DEF nvmVars, ramVars, loopVars, counts, ghosts, Networks
<1>c. Crash!TypeOK /\ (UNCHANGED crashVars => Crash!TypeOK')
  BY CrashTypeSame DEF TypeOK
<1>1. CASE HandlerInit
  <2>1. Crash!TypeOK'
    BY <1>c, <1>1, CrashType DEF HandlerInit
  <2> QED
    BY <1>1, <2>1 DEF HandlerInit, TypeOK, Saving
<1>2. CASE ReadHeader
  <2>1. CASE header # None /\ header.by = firmware
    BY <1>c, <1>2, <2>1 DEF ReadHeader, TypeOK, Saving
  <2>2. CASE SetDefaults
    BY <1>c, <1>2, <2>2, SetDefaultsType DEF ReadHeader, TypeOK, Saving
  <2> QED
    BY <1>2, <2>1, <2>2 DEF ReadHeader
<1>3. CASE ReadNetwork
  <2>1. network' \in [Networks -> Values]
    BY <1>3 DEF ReadNetwork, TypeOK, CanRead
  <2> QED
    BY <1>c, <1>3, <2>1 DEF ReadNetwork, TypeOK, Saving
<1>4. CASE ReadLastNetwork
  <2>1. CASE CanRead(key)
    <3>1. network' \in [Networks -> Values]
      BY <1>4, <2>1 DEF ReadLastNetwork, TypeOK, CanRead
    <3> QED
      BY <1>c, <1>4, <2>1, <3>1 DEF ReadLastNetwork, TypeOK, Saving
  <2>2. CASE SetDefaults
    BY <1>c, <1>4, <2>2, SetDefaultsType DEF ReadLastNetwork, TypeOK, Saving
  <2> QED
    BY <1>4, <2>1, <2>2 DEF ReadLastNetwork
<1>5. CASE CountCrash
  <2>1. Crash!TypeOK'
    BY <1>c, <1>5, CrashType DEF CountCrash
  <2>2. params' \in Stored
    <3>1. params \in Stored
      BY <1>5 DEF CountCrash, TypeOK
    <3>2. params' = params \/ params' = [params EXCEPT !.crashes = @ + 1]
      BY <1>5 DEF CountCrash
    <3> QED
      BY <3>1, <3>2 DEF Stored
  <2> QED
    BY <1>5, <2>1, <2>2 DEF CountCrash, SaveFor, TypeOK, Saving
<1>6. CASE SaveHeader
  <2>1. params \in Stored
    BY <1>6 DEF SaveHeader, Saving, TypeOK
  <2> QED
    BY <1>c, <1>6, <2>1 DEF SaveHeader, TypeOK, Saving
<1>7. CASE SaveHeaderFails
  <2>1. torn' \in BOOLEAN
    BY <1>7, Zenon DEF SaveHeaderFails
  <2> QED
    BY <1>c, <1>7, <2>1 DEF SaveHeaderFails, AfterSave, TypeOK, Saving
<1>n. ASSUME Saving, key \in Networks, NextSave
      PROVE  /\ key' \in 0 .. MaxNetworks + 1 /\ (Saving' => key' <= MaxNetworks)
             /\ pc' \in {"start", "reading", "initsave", "loaded", "crashsave", "running",
                         "requestsave"}
             /\ pc' # "start"
  BY <1>n DEF NextSave, AfterSave, TypeOK, Saving
<1>8. CASE SaveNetwork
  <2>1. torn' \in BOOLEAN
    BY <1>8, Zenon DEF SaveNetwork
  <2>2. object' \in [Networks -> Values \cup {None}]
    BY <1>8 DEF SaveNetwork, TypeOK
  <2>3. saved' \in [Networks -> Values] \cup {None}
    BY <1>8 DEF SaveNetwork, TypeOK
  <2>4. params \in Stored
    BY <1>8 DEF SaveNetwork, Saving, TypeOK
  <2> QED
    BY <1>c, <1>n, <1>8, <2>1, <2>2, <2>3, <2>4 DEF SaveNetwork, TypeOK
<1>9. CASE SaveNetworkFails
  <2>1. torn' \in BOOLEAN
    BY <1>9, Zenon DEF SaveNetworkFails
  <2>2. params \in Stored
    BY <1>9 DEF SaveNetworkFails, Saving, TypeOK
  <2> QED
    BY <1>c, <1>n, <1>9, <2>1, <2>2 DEF SaveNetworkFails, TypeOK
<1>10. ASSUME NEW i \in Networks, PutSetting(i)
       PROVE  TypeOK'
  <2>1. network' \in [Networks -> Values]
    BY <1>10, ValuesType DEF PutSetting, TypeOK
  <2> QED
    BY <1>c, <1>10, <2>1 DEF PutSetting, TypeOK, Saving
<1>11. CASE PutSave
  BY <1>c, <1>11 DEF PutSave, SaveFor, TypeOK, Saving
<1>12. ASSUME NEW selection, PutDefaults(selection)
       PROVE  TypeOK'
  <2>1. network' \in [Networks -> Values]
    BY <1>12, ValuesType DEF PutDefaults, TypeOK
  <2>2. CASE selection # {}
    BY <1>c, <1>12, <2>1, <2>2 DEF PutDefaults, SaveFor, TypeOK, Saving
  <2>3. CASE selection = {}
    BY <1>c, <1>12, <2>1, <2>3 DEF PutDefaults, TypeOK, Saving
  <2> QED
    BY <2>2, <2>3
<1>13. CASE DeleteBegins
  <2>1. torn' \in BOOLEAN
    BY <1>13 DEF DeleteBegins, TypeOK
  <2> QED
    BY <1>c, <1>13, <2>1 DEF DeleteBegins, TypeOK, Saving
<1>14. CASE DeleteNetwork
  <2>1. object' \in [Networks -> Values \cup {None}]
    BY <1>14 DEF DeleteNetwork, TypeOK
  <2> QED
    BY <1>c, <1>14, <2>1 DEF DeleteNetwork, TypeOK, Saving, NoLoop, Install
<1>20. CASE DeleteNetworkFails
  <2>1. failures' \in 0 .. MaxFailures /\ deleting' \in 0 .. MaxNetworks + 1
    BY <1>20 DEF DeleteNetworkFails, TypeOK, Networks, NoLoop
  <2> QED
    BY <1>c, <1>20, <2>1 DEF DeleteNetworkFails, TypeOK, Saving
<1>15. ASSUME Reset, firmware' \in Firmwares, Crash!TypeOK', crashed' \in Nat
       PROVE  TypeOK'
  <2>1. network' \in [Networks -> Values]
    BY <1>15, ValuesType DEF Reset
  <2>2. torn' \in BOOLEAN
    BY <1>15, Zenon DEF Reset
  <2> QED
    BY <1>15, <2>1, <2>2 DEF Reset, TypeOK, Saving, NoLoop
<1>16. CASE Crashes
  <2>1. Crash!TypeOK'
    BY <1>c, <1>16, CrashType DEF Crashes
  <2> QED
    BY <1>15, <1>16, <2>1 DEF Crashes, TypeOK
<1>17. CASE Restarts
  <2>1. Crash!TypeOK'
    BY <1>c, <1>17, CrashType DEF Restarts
  <2> QED
    BY <1>15, <1>17, <2>1 DEF Restarts, TypeOK
<1>18. CASE Installs
  <2>1. Crash!TypeOK'
    BY <1>c, <1>18, CrashType DEF Installs
  <2> QED
    BY <1>15, <1>18, <2>1 DEF Installs, TypeOK
<1>19. CASE UNCHANGED vars
  BY <1>c, <1>19 DEF vars, TypeOK, Saving
<1> QED
  BY <1>1, <1>2, <1>3, <1>4, <1>5, <1>6, <1>7, <1>8, <1>9, <1>10, <1>11, <1>12, <1>13,
     <1>14, <1>16, <1>17, <1>18, <1>19, <1>20
  DEF Next, Start, Save, Request

-----------------------------------------------------------------------------
(* Crashes.                                                                *)

(* The record of a crash that the next look at it reports.                 *)
Pending ==
  /\ noinit \in CrashTypes
  /\ stage = "started" \/ (stage = "reset" /\ "sysreq" \in cause)

CrashInv ==
  /\ stage # "reset" => cause = {}
  /\ stage = "checked" => noinit \notin CrashTypes
  /\ Pending => noinit \in unreported \/ moved
  /\ lastReset \in CrashTypes /\ stage # "checked" => Pending /\ noinit = lastReset

(* Room is left for the pending one.                                       *)
Counted(n) == n + (IF Pending THEN 1 ELSE 0) <= crashed

CountInv ==
  /\ Counted(0)
  /\ header # None => Counted(header.crashes)
  /\ params # None => Counted(params.crashes)

LEMMA InitCrash == Init => CrashInv /\ CountInv
BY DEF Init, Crash!Init, CrashInv, CountInv, Counted, Pending

(* A restart can only forget the pending crash; a crash puts itself in its *)
(* place, and an installation may look like one.                           *)
LEMMA ResetPending ==
  ASSUME CrashInv, Crash!TypeOK,
         Crash!PinReset \/ Crash!PowerCycle \/ Crash!SoftReset
  PROVE  CrashInv' /\ (Pending' => Pending)
<1> USE DEF Crash!TypeOK, Crash!StartAgain, CrashInv, Pending
<1>1. CASE Crash!PinReset
  BY <1>1 DEF Crash!PinReset
<1>2. CASE Crash!PowerCycle
  BY <1>2 DEF Crash!PowerCycle
<1>3. CASE Crash!SoftReset
  BY <1>3 DEF Crash!SoftReset
<1> QED
  BY <1>1, <1>2, <1>3

LEMMA NextCrash == TypeOK /\ CrashInv /\ [Next]_vars => CrashInv'
<1> SUFFICES ASSUME TypeOK, CrashInv, [Next]_vars
             PROVE  CrashInv'
  OBVIOUS
<1>t. Crash!TypeOK
  BY DEF TypeOK
<1>1. CASE UNCHANGED crashVars
  BY <1>1 DEF crashVars, CrashInv, Pending
<1>2. CASE HandlerInit
  BY <1>t, <1>2 DEF HandlerInit, Crash!HandlerInit, Crash!Readable, Crash!TypeOK, CrashInv, Pending
<1>3. CASE CountCrash
  BY <1>t, <1>3
  DEF CountCrash, Crash!CheckPreviousCrash, Crash!Readable, Crash!TypeOK, CrashInv, Pending
<1>4. ASSUME NEW t \in CrashTypes, Crash!Crash(t)
      PROVE  CrashInv'
  BY <1>4 DEF Crash!Crash, Crash!StartAgain, CrashInv, Pending
<1>5. CASE Restarts
  BY <1>t, <1>5, ResetPending DEF Restarts
<1>6. CASE Installs
  <2>1. moved'
    BY <1>6, Zenon DEF Installs, Crash!Install
  <2> QED
    BY <1>6, <2>1 DEF Installs, Crash!Install, Crash!StartAgain, CrashInv, Pending
<1> QED
  BY <1>1, <1>2, <1>3, <1>4, <1>5, <1>6
  DEF Next, Start, Save, Request, Crashes, vars, ReadHeader, ReadNetwork, ReadLastNetwork,
      SaveHeader, SaveHeaderFails, SaveNetwork, SaveNetworkFails, PutSetting, PutSave,
      PutDefaults, DeleteBegins, DeleteNetwork, DeleteNetworkFails

LEMMA NextCount == TypeOK /\ CrashInv /\ CountInv /\ [Next]_vars => CountInv'
<1> SUFFICES ASSUME TypeOK, CrashInv, CountInv, [Next]_vars
             PROVE  CountInv'
  OBVIOUS
<1> USE DEF nvmVars, ramVars, loopVars, counts, ghosts
<1>t. /\ Crash!TypeOK /\ crashed \in Nat
      /\ header # None => header.crashes \in Nat
      /\ params # None => params.crashes \in Nat
  BY DEF TypeOK, Stored
<1>s. ASSUME UNCHANGED <<crashVars, crashed>>
      PROVE  Pending' = Pending /\ \A n : Counted(n)' = Counted(n)
  BY <1>s DEF crashVars, Pending, Counted
<1>d. ASSUME SetDefaults, UNCHANGED <<crashVars, crashed, header>>
      PROVE  CountInv'
  <2>1. params'.crashes = 0
    BY <1>d DEF SetDefaults
  <2> QED
    BY <1>s, <1>d, <2>1 DEF CountInv
<1>1. CASE UNCHANGED <<crashVars, crashed, header, params>>
  BY <1>s, <1>1 DEF CountInv
<1>2. CASE HandlerInit
  <2>1. Pending' => Pending
    BY <1>t, <1>2 DEF HandlerInit, Crash!HandlerInit, Crash!Readable, Crash!TypeOK, Pending
  <2> QED
    BY <1>t, <1>2, <2>1 DEF HandlerInit, CountInv, Counted
<1>3. CASE ReadHeader
  BY <1>s, <1>d, <1>3 DEF ReadHeader, CountInv
<1>4. CASE ReadLastNetwork
  BY <1>s, <1>d, <1>4 DEF ReadLastNetwork, CountInv
<1>5. CASE CountCrash
  <2>1. ~Pending' /\ (info' # NoCrash => Pending)
    BY <1>5 DEF CountCrash, Crash!CheckPreviousCrash, Crash!Readable, Pending
  <2>2. params' = params \/ (Pending /\ params'.crashes = params.crashes + 1 /\ params # None)
    <3>1. params \in Stored /\ params # None
      BY <1>5 DEF CountCrash, TypeOK
    <3> QED
      BY <1>5, <2>1, <3>1 DEF CountCrash, Stored
  <2> QED
    BY <1>t, <1>5, <2>1, <2>2 DEF CountCrash, CountInv, Counted
<1>6. CASE SaveHeader
  <2>1. params # None
    BY <1>6 DEF SaveHeader, Saving, TypeOK
  <2> QED
    BY <1>s, <1>6, <2>1 DEF SaveHeader, CountInv
<1>7. CASE DeleteBegins
  BY <1>s, <1>7 DEF DeleteBegins, CountInv
<1>8. ASSUME Reset, crashed' \in Nat,
             crashed' = crashed + 1 \/ (crashed' = crashed /\ (Pending' => Pending))
      PROVE  CountInv'
  BY <1>t, <1>8 DEF Reset, CountInv, Counted
<1>9. CASE Crashes \/ Installs
  BY <1>t, <1>8, <1>9 DEF Crashes, Installs
<1>10. CASE Restarts
  BY <1>t, <1>8, <1>10, ResetPending DEF Restarts
<1> QED
  BY <1>1, <1>2, <1>3, <1>4, <1>5, <1>6, <1>7, <1>9, <1>10
  DEF Next, Start, Save, Request, vars, ReadNetwork,
      SaveHeaderFails, SaveNetwork, SaveNetworkFails, PutSetting, PutSave,
      PutDefaults, DeleteNetwork, DeleteNetworkFails

-----------------------------------------------------------------------------
(* Where everything stands.                                                *)

(* Where the start and the requests stand.                                 *)
Ready == pc \in {"loaded", "crashsave", "running", "requestsave"}

PlaceInv ==
  /\ deleting # NoLoop => pc \in {"running", "requestsave"} /\ torn /\ deletes > 0
  /\ failures > 0 => torn
  /\ pc = "reading" => key \in Networks /\ header # None /\ header.by = firmware
  /\ pc # "start" => params.by = firmware
  /\ pc = "initsave" => network = [i \in Networks |-> Default(firmware)]
  /\ \A i \in Networks : network[i].by.size = firmware.size

LEMMA InitPlace == Init => PlaceInv
BY DEF Init, PlaceInv, Zeroes, NoLoop

LEMMA NextPlace == TypeOK /\ PlaceInv /\ [Next]_vars => PlaceInv'
<1> SUFFICES ASSUME TypeOK, PlaceInv, [Next]_vars
             PROVE  PlaceInv'
  OBVIOUS
<1> USE DEF nvmVars, ramVars, loopVars, counts, ghosts, PlaceInv
<1>1. CASE HandlerInit
  BY <1>1 DEF HandlerInit
<1>d. ASSUME SetDefaults, deleting = NoLoop, UNCHANGED <<firmware, deleting, failures, torn>>
      PROVE  PlaceInv'
  BY <1>d DEF SetDefaults, SaveFor, Default, NoLoop
<1>2. CASE ReadHeader
  <2>1. deleting = NoLoop
    BY <1>2 DEF ReadHeader
  <2>2. CASE SetDefaults
    BY <1>d, <1>2, <2>1, <2>2 DEF ReadHeader
  <2>3. CASE header # None /\ header.by = firmware
    BY <1>2, <2>1, <2>3 DEF ReadHeader, Networks
  <2> QED
    BY <1>2, <2>2, <2>3 DEF ReadHeader
<1>3. CASE ReadNetwork
  <2>1. \A i \in Networks : network'[i].by.size = firmware.size
    BY <1>3 DEF ReadNetwork, CanRead, TypeOK
  <2> QED
    BY <1>3, <2>1 DEF ReadNetwork, Networks, TypeOK
<1>4. CASE ReadLastNetwork
  <2>1. CASE SetDefaults
    BY <1>d, <1>4, <2>1 DEF ReadLastNetwork
  <2>2. CASE CanRead(key)
    <3>1. \A i \in Networks : network'[i].by.size = firmware.size
      BY <1>4, <2>2 DEF ReadLastNetwork, CanRead, TypeOK
    <3> QED
      BY <1>4, <2>2, <3>1 DEF ReadLastNetwork
  <2> QED
    BY <1>4, <2>1, <2>2 DEF ReadLastNetwork
<1>5. CASE CountCrash
  <2>1. params'.by = params.by
    BY <1>5 DEF CountCrash, TypeOK, Stored
  <2> QED
    BY <1>5, <2>1 DEF CountCrash, SaveFor
<1>6. CASE SaveHeader
  BY <1>6 DEF SaveHeader, Saving
<1>7. CASE SaveHeaderFails
  <2>1. torn'
    BY <1>7, Zenon DEF SaveHeaderFails
  <2> QED
    BY <1>7, <2>1 DEF SaveHeaderFails, AfterSave, Saving
<1>8. CASE SaveNetwork
  <2>1. failures > 0 \/ deleting # NoLoop => torn' = torn
    <3>1. failures > 0 \/ deleting # NoLoop => saved' = None
      BY <1>8 DEF SaveNetwork, TypeOK
    <3> QED
      BY <1>8, <3>1 DEF SaveNetwork, TypeOK
  <2>2. pc' \in {pc, AfterSave} /\ pc \in {"initsave", "crashsave", "requestsave"}
    BY <1>8 DEF SaveNetwork, NextSave, Saving
  <2> QED
    BY <1>8, <2>1, <2>2 DEF SaveNetwork, AfterSave
<1>9. CASE SaveNetworkFails
  <2>1. torn'
    BY <1>9, Zenon DEF SaveNetworkFails
  <2>2. pc' \in {pc, AfterSave} /\ pc \in {"initsave", "crashsave", "requestsave"}
    BY <1>9 DEF SaveNetworkFails, NextSave, Saving
  <2> QED
    BY <1>9, <2>1, <2>2 DEF SaveNetworkFails, AfterSave
<1>10. ASSUME NEW i \in Networks, PutSetting(i)
       PROVE  PlaceInv'
  <2>1. \A j \in Networks : network'[j].by = network[j].by
    BY <1>10, ValuesType DEF PutSetting, TypeOK
  <2> QED
    BY <1>10, <2>1 DEF PutSetting
<1>11. CASE PutSave
  BY <1>11 DEF PutSave, SaveFor
<1>12. ASSUME NEW selection, PutDefaults(selection)
       PROVE  PlaceInv'
  <2>1. \A j \in Networks : network'[j].by.size = firmware.size
    BY <1>12 DEF PutDefaults, Default
  <2>2. pc' \in {"running", "requestsave"}
    BY <1>12 DEF PutDefaults, SaveFor
  <2> QED
    BY <1>12, <2>1, <2>2 DEF PutDefaults
<1>13. CASE DeleteBegins
  <2>1. CASE header # None
    <3>1. torn'
      BY <1>13, <2>1, Zenon DEF DeleteBegins
    <3> QED
      BY <1>13, <2>1, <3>1 DEF DeleteBegins, TypeOK
  <2>2. CASE header = None
    BY <1>13, <2>2 DEF DeleteBegins, TypeOK
  <2> QED
    BY <2>1, <2>2
<1>14. CASE DeleteNetwork
  BY <1>14 DEF DeleteNetwork, NoLoop, Networks
<1>17. CASE DeleteNetworkFails
  BY <1>17 DEF DeleteNetworkFails, NoLoop, Networks
<1>15. ASSUME Reset
       PROVE  PlaceInv'
  <2>1. torn => torn'
    BY <1>15 DEF Reset
  <2> QED
    BY <1>15, <2>1 DEF Reset, Zeroes
<1>16. CASE UNCHANGED vars
  BY <1>16 DEF vars
<1> QED
  BY <1>1, <1>2, <1>3, <1>4, <1>5, <1>6, <1>7, <1>8, <1>9, <1>10, <1>11, <1>12, <1>13,
     <1>14, <1>15, <1>16, <1>17
  DEF Next, Start, Save, Request, Crashes, Restarts, Installs

-----------------------------------------------------------------------------
(* A save under way, without failures and deletions, has stored what it    *)
(* went through.  A deletion finds the last network, so that it is never   *)
(* over before the next restart.                                           *)
SaveInv ==
  /\ failures = 0 /\ deleting = NoLoop /\ Saving /\ key > 0 =>
       header = params /\ \A i \in Networks : i < key => object[i] = network[i]
  /\ failures = 0 /\ deleting # Install /\ Ready => object[MaxNetworks] # None

LEMMA InitSave == Init => SaveInv
BY DEF Init, SaveInv, Saving, Ready

LEMMA NextSaveInv == TypeOK /\ PlaceInv /\ SaveInv /\ [Next]_vars => SaveInv'
<1> SUFFICES ASSUME TypeOK, PlaceInv, SaveInv, [Next]_vars
             PROVE  SaveInv'
  OBVIOUS
<1> USE DEF nvmVars, ramVars, loopVars, counts, ghosts, Saving, Ready, SaveInv
<1>1. CASE HandlerInit
  BY <1>1 DEF HandlerInit
<1>d. ASSUME SetDefaults
      PROVE  SaveInv'
  BY <1>d DEF SetDefaults, SaveFor
<1>2. CASE ReadHeader
  BY <1>d, <1>2 DEF ReadHeader
<1>3. CASE ReadNetwork
  BY <1>3 DEF ReadNetwork
<1>4. CASE ReadLastNetwork
  BY <1>d, <1>4 DEF ReadLastNetwork, CanRead
<1>5. CASE CountCrash
  BY <1>5 DEF CountCrash, SaveFor
<1>6. CASE SaveHeader
  BY <1>6 DEF SaveHeader, Networks
<1>7. CASE SaveHeaderFails \/ SaveNetworkFails
  <2>1. failures' > 0
    BY <1>7 DEF SaveHeaderFails, SaveNetworkFails, TypeOK
  <2> QED
    BY <2>1
<1>8. CASE SaveNetwork
  <2>1. /\ key \in Networks /\ key' = key + 1 /\ header' = header /\ params' = params
        /\ network' = network /\ failures' = failures /\ deleting' = deleting
        /\ pc \in {"initsave", "crashsave", "requestsave"}
        /\ pc' = IF key = MaxNetworks THEN AfterSave ELSE pc
    BY <1>8 DEF SaveNetwork, NextSave
  <2>2. \A i \in Networks : object'[i] = IF i = key THEN network[i] ELSE object[i]
    BY <1>8 DEF SaveNetwork, TypeOK
  <2>3. network[MaxNetworks] # None /\ MaxNetworks \in Networks
    BY DEF TypeOK, Networks
  <2>4. ASSUME failures = 0, deleting = NoLoop
        PROVE  header = params /\ \A i \in Networks : i < key + 1 => object'[i] = network[i]
    BY <2>1, <2>2, <2>4 DEF Networks
  <2>5. ASSUME failures = 0, deleting # Install, Ready'
        PROVE  object'[MaxNetworks] # None
    <3>1. CASE pc = "initsave"
      <4>1. key = MaxNetworks
        BY <2>1, <2>5, <3>1
      <4> QED
        BY <2>2, <2>3, <4>1
    <3>2. CASE pc # "initsave"
      BY <2>1, <2>2, <2>3, <2>5, <3>2
    <3> QED
      BY <3>1, <3>2
  <2> QED
    BY <2>1, <2>4, <2>5
<1>10. ASSUME NEW i \in Networks, PutSetting(i)
       PROVE  SaveInv'
  BY <1>10 DEF PutSetting
<1>11. CASE PutSave
  BY <1>11 DEF PutSave, SaveFor
<1>12. ASSUME NEW selection, PutDefaults(selection)
       PROVE  SaveInv'
  BY <1>12 DEF PutDefaults, SaveFor
<1>13. CASE DeleteBegins
  <2>1. CASE header # None
    BY <1>13, <2>1 DEF DeleteBegins, NoLoop, Install
  <2>2. CASE header = None
    BY <1>13, <2>2 DEF DeleteBegins
  <2> QED
    BY <2>1, <2>2
<1>14. CASE DeleteNetwork
  <2>1. deleting # NoLoop /\ Ready /\ deleting # Install
    BY <1>14 DEF DeleteNetwork, PlaceInv, Networks, NoLoop, Install
  <2>2. failures = 0 => deleting' # NoLoop
    BY <1>14, <2>1 DEF DeleteNetwork, Networks, NoLoop, Install
  <2>3. failures = 0 /\ deleting' # Install => object'[MaxNetworks] # None
    BY <1>14, <2>1 DEF DeleteNetwork, Networks, TypeOK
  <2> QED
    BY <1>14, <2>2, <2>3 DEF DeleteNetwork
<1>17. CASE DeleteNetworkFails
  <2>1. failures' > 0
    BY <1>17 DEF DeleteNetworkFails, TypeOK
  <2> QED
    BY <2>1
<1>15. CASE Reset
  BY <1>15 DEF Reset
<1>16. CASE UNCHANGED vars
  BY <1>16 DEF vars
<1> QED
  BY <1>1, <1>2, <1>3, <1>4, <1>5, <1>6, <1>7, <1>8, <1>10, <1>11, <1>12, <1>13,
     <1>14, <1>15, <1>16, <1>17
  DEF Next, Start, Save, Request, Crashes, Restarts, Installs

-----------------------------------------------------------------------------
(* A save that is complete has stored all networks.                        *)
LEMMA SaveResult ==
  ASSUME TypeOK, SaveInv, SaveNetwork
  PROVE  /\ key \in Networks /\ key' = key + 1 /\ header' = header /\ params' = params
         /\ network' = network /\ failures' = failures /\ deleting' = deleting
         /\ firmware' = firmware /\ deletes' = deletes
         /\ Saving /\ pc' = IF key = MaxNetworks THEN AfterSave ELSE pc
         /\ params \in Stored
         /\ \A i \in Networks : network[i] \in Values /\ network[i] # None
         /\ \A i \in Networks : object'[i] = IF i = key THEN network[i] ELSE object[i]
         /\ failures = 0 /\ deleting = NoLoop =>
              header = params /\ \A i \in Networks : i <= key => object'[i] = network[i]
         /\ saved' # None =>
              key = MaxNetworks /\ failures = 0 /\ deleting = NoLoop /\ saved' = network
<1> USE DEF nvmVars, ramVars, loopVars, counts, ghosts
<1>1. /\ key \in Networks /\ key' = key + 1 /\ header' = header /\ params' = params
      /\ network' = network /\ failures' = failures /\ deleting' = deleting
      /\ firmware' = firmware /\ deletes' = deletes
      /\ Saving /\ pc' = IF key = MaxNetworks THEN AfterSave ELSE pc
  BY DEF SaveNetwork, NextSave
<1>2. params \in Stored /\ \A i \in Networks : network[i] \in Values /\ network[i] # None
  BY <1>1 DEF TypeOK, Saving
<1>3. \A i \in Networks : object'[i] = IF i = key THEN network[i] ELSE object[i]
  BY DEF SaveNetwork, TypeOK
<1>4. ASSUME failures = 0, deleting = NoLoop
      PROVE  header = params /\ \A i \in Networks : i <= key => object'[i] = network[i]
  <2>1. header = params /\ \A i \in Networks : i < key => object[i] = network[i]
    BY <1>1, <1>4 DEF SaveInv, Networks
  <2> QED
    BY <1>1, <1>3, <2>1 DEF Networks
<1>5. saved' # None =>
        key = MaxNetworks /\ failures = 0 /\ deleting = NoLoop /\ saved' = network
  BY <1>1 DEF SaveNetwork
<1> QED
  BY <1>1, <1>2, <1>3, <1>4, <1>5

-----------------------------------------------------------------------------
(* Unless torn, NVM is of one firmware.                                    *)
TornInv == ~torn =>
  /\ \A i \in Networks : network[i].by = firmware
  /\ Ready => header # None /\ header.by = firmware
  /\ header # None /\ pc # "initsave" =>
       \A i \in Networks : object[i] # None /\ object[i].by = header.by

LEMMA InitTorn == Init => TornInv
BY DEF Init, TornInv, Zeroes, Ready

LEMMA NextTorn == TypeOK /\ PlaceInv /\ SaveInv /\ TornInv /\ [Next]_vars => TornInv'
<1> SUFFICES ASSUME TypeOK, PlaceInv, SaveInv, TornInv, [Next]_vars, ~torn'
             PROVE  TornInv'
  BY DEF TornInv
<1> USE DEF nvmVars, ramVars, loopVars, counts, ghosts, Ready
<1>1. CASE HandlerInit
  BY <1>1 DEF HandlerInit, TornInv
<1>d. ASSUME SetDefaults, UNCHANGED <<firmware, header, object>>
      PROVE  TornInv'
  BY <1>d DEF SetDefaults, SaveFor, Default, TornInv
<1>2. CASE ReadHeader
  BY <1>d, <1>2 DEF ReadHeader, TornInv
<1>3. CASE ReadNetwork
  <2>1. ~torn /\ header # None /\ header.by = firmware
    BY <1>3 DEF ReadNetwork, PlaceInv
  <2>2. \A i \in Networks : network'[i].by = firmware
    BY <1>3, <2>1 DEF ReadNetwork, TornInv, TypeOK
  <2> QED
    BY <1>3, <2>1, <2>2 DEF ReadNetwork, TornInv
<1>4. CASE ReadLastNetwork
  <2>1. ~torn /\ header # None /\ header.by = firmware
    BY <1>4 DEF ReadLastNetwork, PlaceInv
  <2>2. CASE CanRead(key)
    <3>1. \A i \in Networks : network'[i].by = firmware
      BY <1>4, <2>1, <2>2 DEF ReadLastNetwork, TornInv, TypeOK
    <3> QED
      BY <1>4, <2>1, <2>2, <3>1 DEF ReadLastNetwork, TornInv
  <2> QED
    BY <1>d, <1>4, <2>2 DEF ReadLastNetwork
<1>5. CASE CountCrash
  BY <1>5 DEF CountCrash, SaveFor, TornInv
<1>6. CASE SaveHeader
  <2>1. params.by = firmware /\ params # None
    BY <1>6 DEF SaveHeader, Saving, PlaceInv, TypeOK
  <2> QED
    BY <1>6, <2>1 DEF SaveHeader, Saving, TornInv
<1>7. CASE SaveHeaderFails \/ SaveNetworkFails
  <2>1. torn'
    BY <1>7, Zenon DEF SaveHeaderFails, SaveNetworkFails
  <2> QED
    BY <2>1
<1>8. CASE SaveNetwork
  <2>1. params.by = firmware /\ params # None
    BY <1>8, SaveResult DEF Saving, PlaceInv
  <2>2. CASE pc = "initsave"
    <3>1. \A i \in Networks : network[i].by = firmware
      BY <2>2 DEF PlaceInv, Default
    <3>2. CASE key # MaxNetworks
      <4>1. pc' = "initsave"
        BY <1>8, <2>2, <3>2, SaveResult
      <4> QED
        BY <1>8, <3>1, <4>1, SaveResult DEF TornInv
    <3>3. CASE key = MaxNetworks
      <4>0. ~torn \/ saved' # None
        BY <1>8 DEF SaveNetwork
      <4>1. failures = 0 /\ deleting = NoLoop
        BY <1>8, <2>2, <4>0, SaveResult DEF PlaceInv, TypeOK
      <4>2. header = params /\ \A i \in Networks : object'[i] = network[i]
        BY <1>8, <3>3, <4>1, SaveResult DEF Networks
      <4> QED
        BY <1>8, <2>1, <3>1, <4>2, SaveResult DEF TornInv
    <3> QED
      BY <3>2, <3>3
  <2>3. CASE pc # "initsave"
    <3>1. ~torn
      BY <1>8, <2>3 DEF SaveNetwork
    <3>2. Ready /\ Ready' /\ pc' # "initsave"
      BY <1>8, <2>3, SaveResult DEF Saving, AfterSave
    <3> QED
      BY <1>8, <3>1, <3>2, SaveResult DEF TornInv
  <2> QED
    BY <2>2, <2>3
<1>9. ASSUME NEW i \in Networks, PutSetting(i)
      PROVE  TornInv'
  <2>1. \A j \in Networks : network'[j].by = network[j].by
    BY <1>9, ValuesType DEF PutSetting, TypeOK
  <2> QED
    BY <1>9, <2>1 DEF PutSetting, TornInv
<1>10. CASE PutSave
  BY <1>10 DEF PutSave, SaveFor, TornInv
<1>11. ASSUME NEW selection, PutDefaults(selection)
       PROVE  TornInv'
  <2>1. ~torn
    BY <1>11 DEF PutDefaults
  <2>2. \A j \in Networks : network'[j].by = firmware
    BY <1>11, <2>1 DEF PutDefaults, Default, TornInv
  <2>3. pc' \in {"running", "requestsave"} /\ pc = "running"
    BY <1>11 DEF PutDefaults, SaveFor
  <2> QED
    BY <1>11, <2>1, <2>2, <2>3 DEF PutDefaults, TornInv
<1>12. CASE DeleteBegins
  <2>1. header = None
    BY <1>12, Zenon DEF DeleteBegins
  <2> QED
    BY <1>12, <2>1 DEF DeleteBegins, TornInv
<1>13. CASE DeleteNetwork
  BY <1>13 DEF DeleteNetwork, PlaceInv, Networks, NoLoop
<1>16. CASE DeleteNetworkFails
  BY <1>16 DEF DeleteNetworkFails, PlaceInv, Networks, NoLoop
<1>14. CASE Reset
  <2>1. ~torn /\ pc # "initsave"
    BY <1>14 DEF Reset, Saving
  <2> QED
    BY <1>14, <2>1 DEF Reset, Zeroes, TornInv
<1>15. CASE UNCHANGED vars
  BY <1>15 DEF vars, TornInv
<1> QED
  BY <1>1, <1>2, <1>3, <1>4, <1>5, <1>6, <1>7, <1>8, <1>9, <1>10, <1>11, <1>12, <1>13,
     <1>14, <1>15, <1>16
  DEF Next, Start, Save, Request, Crashes, Restarts, Installs

-----------------------------------------------------------------------------
(* The networks that can be read are the first ones.                       *)
ZeroInv == deletes = 0 /\ failures = 0 =>
  /\ \A i \in Networks : object[i] # None => object[i].settings # "zeroes"
  /\ Ready \/ pc = "initsave" => \A i \in Networks : network[i].settings # "zeroes"
  /\ pc = "reading" =>
       \A i \in Networks : i < key /\ CanRead(i) => network[i].settings # "zeroes"
  /\ \A i, j \in Networks : i < j /\ CanRead(j) => CanRead(i)
  /\ Ready => \A i \in Networks : CanRead(i)

LEMMA InitZero == Init => ZeroInv
BY DEF Init, ZeroInv, CanRead, Ready

LEMMA NextZero == TypeOK /\ PlaceInv /\ SaveInv /\ ZeroInv /\ [Next]_vars => ZeroInv'
<1> SUFFICES ASSUME TypeOK, PlaceInv, SaveInv, ZeroInv, [Next]_vars, deletes' = 0, failures' = 0
             PROVE  ZeroInv'
  BY DEF ZeroInv
<1> USE DEF nvmVars, ramVars, loopVars, counts, ghosts, Ready
<1>t. key \in Nat /\ deletes \in Nat /\ failures \in Nat /\ MaxNetworks \in Networks
  BY DEF TypeOK, Networks
<1>1. CASE HandlerInit
  BY <1>1 DEF HandlerInit, ZeroInv, CanRead
<1>d. ASSUME SetDefaults, UNCHANGED <<firmware, object, failures, deletes>>
      PROVE  ZeroInv'
  <2>1. pc' = "initsave" /\ \A i \in Networks : network'[i].settings = "default"
    BY <1>d DEF SetDefaults, SaveFor, Default
  <2> QED
    BY <1>d, <2>1 DEF ZeroInv, CanRead
<1>2. CASE ReadHeader
  <2>1. CASE SetDefaults
    BY <1>d, <1>2, <2>1 DEF ReadHeader
  <2>2. CASE pc' = "reading" /\ key' = 1
    BY <1>2, <2>2 DEF ReadHeader, ZeroInv, CanRead, Networks
  <2> QED
    BY <1>2, <2>1, <2>2 DEF ReadHeader
<1>3. CASE ReadNetwork
  <2>1. deletes = 0 /\ failures = 0 /\ key \in Networks
    BY <1>3 DEF ReadNetwork, PlaceInv
  <2>2. \A i \in Networks : i < key + 1 /\ CanRead(i) => network'[i].settings # "zeroes"
    <3> SUFFICES ASSUME NEW i \in Networks, i < key + 1, CanRead(i)
                 PROVE  network'[i].settings # "zeroes"
      OBVIOUS
    <3>1. CASE i = key
      BY <1>3, <2>1, <3>1 DEF ReadNetwork, ZeroInv, CanRead, TypeOK
    <3>2. CASE i < key
      BY <1>3, <2>1, <3>2 DEF ReadNetwork, ZeroInv, TypeOK
    <3> QED
      BY <1>t, <3>1, <3>2 DEF Networks
  <2>3. \A i \in Networks : CanRead(i)' = CanRead(i)
    BY <1>3 DEF ReadNetwork, CanRead
  <2> QED
    BY <1>3, <2>1, <2>2, <2>3 DEF ReadNetwork, ZeroInv
<1>4. CASE ReadLastNetwork
  <2>1. CASE SetDefaults
    BY <1>d, <1>4, <2>1 DEF ReadLastNetwork
  <2>2. CASE CanRead(key)
    <3>1. deletes = 0 /\ failures = 0 /\ key = MaxNetworks
      BY <1>4 DEF ReadLastNetwork
    <3>2. \A i \in Networks : i # key => i < key
      BY <3>1 DEF Networks
    <3>3. \A i \in Networks : CanRead(i)
      BY <1>t, <2>2, <3>1, <3>2 DEF ZeroInv
    <3>4. \A i \in Networks : network'[i].settings # "zeroes"
      <4> SUFFICES ASSUME NEW i \in Networks
                   PROVE  network'[i].settings # "zeroes"
        OBVIOUS
      <4>1. CASE i = key
        BY <1>4, <2>2, <3>1, <4>1 DEF ReadLastNetwork, ZeroInv, CanRead, TypeOK
      <4>2. CASE i # key
        BY <1>4, <2>2, <3>1, <3>2, <3>3, <4>2 DEF ReadLastNetwork, ZeroInv, TypeOK
      <4> QED
        BY <4>1, <4>2
    <3>5. \A i \in Networks : CanRead(i)' = CanRead(i)
      BY <1>4 DEF ReadLastNetwork, CanRead
    <3> QED
      BY <1>4, <2>2, <3>1, <3>3, <3>4, <3>5 DEF ReadLastNetwork, ZeroInv
  <2> QED
    BY <1>4, <2>1, <2>2 DEF ReadLastNetwork
<1>5. CASE CountCrash
  BY <1>5 DEF CountCrash, SaveFor, ZeroInv, CanRead
<1>6. CASE SaveHeader
  BY <1>6 DEF SaveHeader, Saving, ZeroInv, CanRead
<1>7. CASE SaveHeaderFails \/ SaveNetworkFails
  BY <1>t, <1>7 DEF SaveHeaderFails, SaveNetworkFails
<1>8. CASE SaveNetwork
  <2>1. deletes = 0 /\ failures = 0 /\ Saving
    BY <1>8, SaveResult
  <2>2. deleting = NoLoop
    BY <2>1 DEF PlaceInv
  <2>3. \A i \in Networks : network[i].settings # "zeroes" /\ network[i].by.size = firmware.size
    BY <2>1 DEF ZeroInv, Saving, PlaceInv
  <2>4. \A i \in Networks : object'[i] # None => object'[i].settings # "zeroes"
    BY <1>8, <2>1, <2>3, SaveResult DEF ZeroInv
  <2>5. \A i \in Networks : i <= key => CanRead(i)'
    BY <1>8, <2>1, <2>2, <2>3, SaveResult DEF CanRead
  <2>6. \A i \in Networks : i # key => CanRead(i)' = CanRead(i)
    BY <1>8, SaveResult DEF CanRead
  <2>7. \A i, j \in Networks : i < j /\ CanRead(j)' => CanRead(i)'
    BY <1>t, <2>1, <2>5, <2>6 DEF ZeroInv, Networks
  <2>8. Ready' => \A i \in Networks : CanRead(i)'
    <3>1. CASE key = MaxNetworks
      BY <2>5, <3>1 DEF Networks
    <3>2. CASE pc # "initsave"
      BY <2>1, <2>5, <2>6, <3>2, <1>t DEF Saving, ZeroInv
    <3> QED
      BY <1>8, <3>1, <3>2, SaveResult
  <2>9. pc' # "reading"
    BY <1>8, SaveResult DEF Saving, AfterSave
  <2> QED
    BY <1>8, <2>3, <2>4, <2>7, <2>8, <2>9, SaveResult DEF ZeroInv
<1>9. ASSUME NEW i \in Networks, PutSetting(i)
      PROVE  ZeroInv'
  <2>1. \A j \in Networks : network'[j].settings \in {network[j].settings, "custom"}
    BY <1>9 DEF PutSetting, TypeOK, Values
  <2> QED
    BY <1>9, <2>1 DEF PutSetting, ZeroInv, CanRead
<1>10. CASE PutSave
  BY <1>10 DEF PutSave, SaveFor, ZeroInv, CanRead
<1>11. ASSUME NEW selection, PutDefaults(selection)
       PROVE  ZeroInv'
  <2>1. deletes = 0 /\ failures = 0
    BY <1>11 DEF PutDefaults
  <2>2. \A j \in Networks : network'[j].settings # "zeroes"
    BY <1>11, <2>1 DEF PutDefaults, Default, ZeroInv
  <2>3. pc' \in {"running", "requestsave"} /\ pc = "running"
    BY <1>11 DEF PutDefaults, SaveFor
  <2> QED
    BY <1>11, <2>1, <2>2, <2>3 DEF PutDefaults, ZeroInv, CanRead
<1>12. CASE DeleteBegins
  BY <1>t, <1>12 DEF DeleteBegins
<1>13. CASE DeleteNetwork
  BY <1>t, <1>13 DEF DeleteNetwork, PlaceInv, Networks, NoLoop
<1>19. CASE DeleteNetworkFails
  BY <1>t, <1>19 DEF DeleteNetworkFails, PlaceInv, Networks, NoLoop
<1>14. ASSUME Reset, firmware' = firmware
       PROVE  ZeroInv'
  BY <1>14 DEF Reset, ZeroInv, CanRead
<1>15. CASE Installs
  <2>1. deletes = 0 /\ failures = 0 /\ object' = object /\ pc' = "start"
    BY <1>15 DEF Installs, Reset
  <2>2. pc = "running"
    BY <1>15, <2>1 DEF Installs, PlaceInv, Install, NoLoop
  <2>3. \A i \in Networks : CanRead(i)
    BY <2>1, <2>2 DEF ZeroInv
  <2>4. \A i, j \in Networks : CanRead(j)' => CanRead(i)'
    BY <2>1, <2>3 DEF CanRead
  <2> QED
    BY <2>1, <2>4 DEF ZeroInv
<1>16. CASE UNCHANGED vars
  BY <1>16 DEF vars, ZeroInv, CanRead
<1> QED
  BY <1>1, <1>2, <1>3, <1>4, <1>5, <1>6, <1>7, <1>8, <1>9, <1>10, <1>11, <1>12, <1>13,
     <1>14, <1>15, <1>16, <1>19
  DEF Next, Start, Save, Request, Crashes, Restarts

-----------------------------------------------------------------------------
(* What was saved completely, and nothing done to NVM since.               *)
SavedInv == saved # None =>
  /\ ~Saving /\ deleting = NoLoop /\ failures = 0
  /\ header # None /\ object = saved
  /\ \A i \in Networks : saved[i].by.size = header.by.size
  /\ pc = "reading" => \A i \in Networks : i < key => network[i] = saved[i]

LEMMA InitSaved == Init => SavedInv
BY DEF Init, SavedInv

LEMMA NextSaved == TypeOK /\ PlaceInv /\ SaveInv /\ SavedInv /\ [Next]_vars => SavedInv'
<1> SUFFICES ASSUME TypeOK, PlaceInv, SaveInv, SavedInv, [Next]_vars, saved' # None
             PROVE  SavedInv'
  BY DEF SavedInv
<1> USE DEF nvmVars, ramVars, loopVars, counts, ghosts, Saving
<1>1. CASE HandlerInit
  BY <1>1 DEF HandlerInit, SavedInv
<1>2. CASE ReadHeader
  BY <1>2 DEF ReadHeader, SetDefaults, SaveFor, SavedInv, Networks
<1>3. CASE ReadNetwork
  <2>1. /\ saved # None /\ object = saved /\ header.by = firmware /\ key \in Networks
        /\ \A i \in Networks : saved[i].by.size = header.by.size
    BY <1>3 DEF ReadNetwork, SavedInv, PlaceInv
  <2>2. CanRead(key)
    <3>1. saved \in [Networks -> Values]
      BY <2>1 DEF TypeOK
    <3> QED
      BY <2>1, <3>1 DEF CanRead
  <2>3. \A i \in Networks : network'[i] = IF i = key THEN object[i] ELSE network[i]
    BY <1>3, <2>2 DEF ReadNetwork, TypeOK
  <2>4. \A i \in Networks : i < key + 1 => network'[i] = saved[i]
    BY <1>3, <2>1, <2>3 DEF ReadNetwork, SavedInv, Networks
  <2> QED
    BY <1>3, <2>1, <2>4 DEF ReadNetwork, SavedInv
<1>4. CASE ReadLastNetwork
  BY <1>4 DEF ReadLastNetwork, SetDefaults, SaveFor, SavedInv
<1>5. CASE CountCrash
  BY <1>5 DEF CountCrash, SaveFor, SavedInv
<1>6. CASE SaveHeader \/ SaveHeaderFails \/ SaveNetworkFails
  BY <1>6 DEF SaveHeader, SaveHeaderFails, SaveNetworkFails, SavedInv
<1>7. CASE SaveNetwork
  <2>1. key = MaxNetworks /\ failures = 0 /\ deleting = NoLoop /\ saved' = network
    BY <1>7, SaveResult
  <2>2. header = params /\ \A i \in Networks : object'[i] = network[i]
    BY <1>7, <2>1, SaveResult DEF Networks
  <2>3. params # None /\ params.by = firmware
    BY <1>7, SaveResult DEF PlaceInv
  <2>4. object' = saved'
    BY <2>1, <2>2, NextType DEF TypeOK, SaveNetwork
  <2>5. pc' \in {"loaded", "running"}
    BY <1>7, <2>1, SaveResult DEF AfterSave
  <2> QED
    BY <1>7, <2>1, <2>2, <2>3, <2>4, <2>5, SaveResult DEF SavedInv, PlaceInv
<1>8. ASSUME NEW i \in Networks, PutSetting(i)
      PROVE  SavedInv'
  BY <1>8 DEF PutSetting, SavedInv
<1>9. CASE PutSave
  BY <1>9 DEF PutSave, SaveFor
<1>10. ASSUME NEW selection, PutDefaults(selection)
       PROVE  SavedInv'
  BY <1>10 DEF PutDefaults, SaveFor, SavedInv
<1>11. CASE DeleteBegins
  BY <1>11 DEF DeleteBegins, SavedInv
<1>12. CASE DeleteNetwork
  BY <1>12 DEF DeleteNetwork, SavedInv, Networks, NoLoop
<1>15. CASE DeleteNetworkFails
  BY <1>15 DEF DeleteNetworkFails, SavedInv, Networks, NoLoop
<1>13. CASE Reset
  BY <1>13 DEF Reset, SavedInv
<1>14. CASE UNCHANGED vars
  BY <1>14 DEF vars, SavedInv
<1> QED
  BY <1>1, <1>2, <1>3, <1>4, <1>5, <1>6, <1>7, <1>8, <1>9, <1>10, <1>11, <1>12, <1>13, <1>14,
     <1>15
  DEF Next, Start, Save, Request, Crashes, Restarts, Installs

-----------------------------------------------------------------------------
ParametersInv ==
  TypeOK /\ CrashInv /\ CountInv /\ PlaceInv /\ SaveInv /\ TornInv /\ ZeroInv /\ SavedInv

LEMMA ParametersInvariant == Spec => []ParametersInv
<1>1. Init => ParametersInv
  BY InitType, InitCrash, InitPlace, InitSave, InitTorn, InitZero, InitSaved DEF ParametersInv
<1>2. ParametersInv /\ [Next]_vars => ParametersInv'
  BY NextType, NextCrash, NextCount, NextPlace, NextSaveInv, NextTorn, NextZero, NextSaved
  DEF ParametersInv
<1> QED
  BY <1>1, <1>2, PTL DEF Spec

(* No reset makes the device run on zeroes, unless something was deleted   *)
(* or a write failed.                                                      *)
THEOREM StartsInitialised == Spec => []InitialisedUnlessDeleted
<1>1. ParametersInv => InitialisedUnlessDeleted
  BY DEF ParametersInv, ZeroInv, Ready, InitialisedUnlessDeleted, NetworksInitialised
<1> QED
  BY <1>1, ParametersInvariant, PTL

(* Settings are laid out by the firmware that uses them, unless NVM is     *)
(* torn.                                                                   *)
THEOREM LayoutsNotMixed == Spec => []SettingsOfThisFirmwareUnlessTorn
<1>1. ParametersInv => SettingsOfThisFirmwareUnlessTorn
  BY DEF ParametersInv, TornInv, SettingsOfThisFirmwareUnlessTorn, SettingsOfThisFirmware
<1> QED
  BY <1>1, ParametersInvariant, PTL

(* nb_crashes does not exceed the crashes there were.                      *)
THEOREM CrashesCountedOnce == Spec => []CrashesNotOvercounted
<1>1. ParametersInv => CrashesNotOvercounted
  <2> SUFFICES ASSUME ParametersInv, params # None
               PROVE  params.crashes <= crashed
    BY DEF CrashesNotOvercounted
  <2>1. params.crashes \in Nat /\ crashed \in Nat
    BY DEF ParametersInv, TypeOK, Stored
  <2> QED
    BY <2>1 DEF ParametersInv, CountInv, Counted
<1> QED
  BY <1>1, ParametersInvariant, PTL

(* A complete save is what the next start of the firmware runs on.         *)
THEOREM SavedComesBack == Spec => SavedSurvivesRestart
<1>1. ParametersInv /\ [Next]_vars =>
        [/\ pc \in {"start", "reading"} /\ pc' \notin {"start", "reading"}
         /\ saved # None /\ header.by = firmware
         => network' = saved]_vars
  <2> SUFFICES ASSUME ParametersInv, Next,
                      pc \in {"start", "reading"}, pc' \notin {"start", "reading"},
                      saved # None, header.by = firmware
               PROVE  network' = saved
    OBVIOUS
  <2>0. TypeOK /\ TypeOK' /\ PlaceInv /\ SavedInv
    BY NextType DEF ParametersInv
  <2>1. CASE ReadHeader
    BY <2>0, <2>1 DEF ReadHeader, SavedInv
  <2>2. CASE ReadLastNetwork
    <3>1. /\ object = saved /\ key = MaxNetworks /\ key \in Networks
          /\ \A i \in Networks : saved[i].by.size = firmware.size
          /\ \A i \in Networks : i < key => network[i] = saved[i]
      BY <2>0, <2>2 DEF ReadLastNetwork, SavedInv, PlaceInv
    <3>2. saved \in [Networks -> Values] /\ network \in [Networks -> Values]
      BY <2>0 DEF TypeOK
    <3>3. CanRead(key)
      BY <3>1, <3>2 DEF CanRead
    <3>4. network' = [network EXCEPT ![key] = object[key]]
      BY <2>2, <3>3 DEF ReadLastNetwork
    <3>5. \A i \in Networks : network'[i] = saved[i]
      BY <3>1, <3>2, <3>4 DEF Networks
    <3> QED
      BY <3>2, <3>4, <3>5
  <2>3. ~(Reset \/ Save \/ Request \/ CountCrash \/ DeleteBegins \/ DeleteNetwork
          \/ DeleteNetworkFails \/ HandlerInit \/ ReadNetwork)
    BY <2>0
    DEF Reset, Save, SaveHeader, SaveHeaderFails, SaveNetwork, SaveNetworkFails, Saving,
        Request, PutSetting, PutSave, PutDefaults, CountCrash, DeleteBegins, DeleteNetwork,
        DeleteNetworkFails, HandlerInit, ReadNetwork, loopVars, PlaceInv, Networks, NoLoop
  <2> QED
    BY <2>1, <2>2, <2>3 DEF Next, Start, Crashes, Restarts, Installs
<1> QED
  BY <1>1, ParametersInvariant, PTL DEF Spec, SavedSurvivesRestart

(* A start reports a crash that took place and was not reported, and does  *)
(* report the one that caused it.                                          *)
THEOREM CrashReported == Spec => ReportsEachCrashOnce
<1>1. ParametersInv /\ [Next]_vars =>
        [Crash!CheckPreviousCrash =>
           /\ info' \in unreported \cup {NoCrash} \/ moved
           /\ lastReset \in CrashTypes => info' = lastReset]_vars
  BY DEF ParametersInv, CrashInv, Pending, Crash!CheckPreviousCrash, Crash!Readable
<1> QED
  BY <1>1, ParametersInvariant, PTL DEF Spec, ReportsEachCrashOnce
=============================================================================
