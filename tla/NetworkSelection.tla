---------------------------- MODULE NetworkSelection ----------------------------
(***************************************************************************)
(* Which network the device joins: src/wisun_node_monitoring/app.c,        *)
(* app_join_network and the part of app_task up to the first connection,   *)
(* with the requests of app_parameters.c that change the network_index.    *)
(*                                                                         *)
(* app_task configures the stack for network[network_index] and joins it;  *)
(* when the configuration fails it goes on to the next network.  CoAP      *)
(* requests, which need a connection, write the same index from another    *)
(* thread.  The values of a network's settings are abstracted to its       *)
(* device type; any call of the stack may fail.  The block of              *)
(* app_join_network for radios that switch modes is left out: with         *)
(* SL_RAIL_IEEE802154_SUPPORTS_G_MODE_SWITCH the function declares         *)
(* set_pom_ie twice and does not compile.                                  *)
(***************************************************************************)
EXTENDS Integers, Sequences

CONSTANTS
  MaxNetworks,   \* MAX_NETWORK_CONFIGS
  Routers,       \* the networks joined as SL_WISUN_ROUTER, the others as LFN
  MaxAuthorities,  \* bound: trusted CAs in the keychain
  JoinErrors,    \* what sl_wisun_join may return besides OK and FAIL
  Requested,     \* the indices a request may ask for
  MaxRequests,   \* bound: requests
  MaxResets,     \* bound: resets
  None

OK == 0
FAIL == 1

(* Status codes of the stack fit in the byte that app_join_network returns.*)
ASSUME NetworkAssumption ==
  /\ MaxNetworks \in 1 .. 255
  /\ Routers \subseteq 0 .. MaxNetworks - 1
  /\ MaxAuthorities \in Nat
  /\ JoinErrors \subseteq 2 .. 255
  /\ Requested \subseteq Nat
  /\ MaxRequests \in Nat /\ MaxResets \in Nat
  /\ None \notin Int \cup {"network_index", "defaults", "save", "networks"}

VARIABLES
  index,        \* app_parameters.network_index
  stored,       \* the network_index in the header in NVM, or None
  complete,     \* NVM has the networks, by the last of them
  authorities,  \* the number of trusted CAs in the keychain
  stack,        \* the join state of the stack: disconnected, joining, operational
  joinState,    \* join_state, as the callback last set it
  task,         \* where app_task stands
  chosen,       \* this_network: the network whose settings were copied
  pos,          \* the next check of the configuration
  ret,          \* the ret of app_join_network
  held,         \* what app_join_network has allocated
  locked,       \* app_task holds the parameters' mutex
  joinRes,      \* join_res
  saving,       \* the request that is about to save the header, the networks
                \* that are still to be saved, or None
  install,      \* app_scheduler_ota_reboot_install_cb: scheduled, deleting, or None
  requests, resets,  \* counted for the bounds
  joined,       \* auxiliary: the network being joined since, or None
  promised,     \* auxiliary: the index a request last asked for and saved, or None
  asked         \* auxiliary: a request changed the index since the start

paramVars == <<index, stored, complete>>
callVars == <<chosen, pos, ret, held, locked>>
coapVars == <<saving, requests, install>>
ghosts == <<joined, promised, asked>>
vars == <<paramVars, authorities, stack, joinState, task, callVars, joinRes, coapVars,
          resets, ghosts>>

Networks == 0 .. MaxNetworks - 1
DefaultNetworkIndex == 0

-----------------------------------------------------------------------------
(* The checks of app_join_network, in order.  A check that fails returns   *)
(* its line; some are made on something that was just allocated.           *)

Check(line) == [line |-> line, on |-> None]
CheckOn(what, line) == [line |-> line, on |-> what]

SettingsFourLinesLower(n) ==
  IF n \in Routers
  THEN <<Check(633), Check(697), Check(712), Check(719), Check(726), Check(762), Check(768)>>
  ELSE <<Check(633), Check(719), Check(744), Check(749), Check(762), Check(768)>>

(* The device type, network size, connection parameters, neighbour table,  *)
(* preferred PAN, LFN profile and parameters, TX power and FAN version.    *)
Settings(n) ==
  IF n \in Routers
  THEN <<Check(629), Check(693), Check(708), Check(715), Check(722), Check(758), Check(764)>>
  ELSE <<Check(629), Check(715), Check(740), Check(745), Check(758), Check(764)>>

(* Each trusted CA is loaded and released; the credential is kept.         *)
Authorities ==
  [k \in 1 .. 2 * authorities |->
     IF k % 2 = 1 THEN Check(812) ELSE CheckOn("trustedca", 825)]

Credentials ==
  IF authorities = 0
  THEN <<Check(783), Check(792), Check(803)>>
  ELSE Authorities \o <<CheckOn("credential", 849), Check(861)>>

Radio(n) ==
  (IF n \in Routers THEN <<Check(877)>> ELSE <<>>) \o <<Check(896), Check(901)>>

Checks(n) == Settings(n) \o Credentials \o Radio(n)

-----------------------------------------------------------------------------
(* app_task: the start.                                                    *)

BootAtDefault ==
  /\ task = "start"
  /\ index' = DefaultNetworkIndex
  /\ stored' = IF stored = None THEN index' ELSE stored
  /\ complete' = TRUE
  /\ task' = "buttons"
  /\ UNCHANGED <<authorities, stack, joinState, callVars, joinRes, coapVars, resets, ghosts>>

(* init_app_parameters: the stored index, or the default one when the      *)
(* parameters cannot be read, which is saved unless NVM refuses it.        *)
Boot ==
  /\ task = "start"
  /\ IF stored # None /\ complete
     THEN index' = stored /\ UNCHANGED <<stored, complete>>
     ELSE /\ index' = DefaultNetworkIndex
          /\ stored' \in {stored, index'}
          /\ complete' \in {complete, complete \/ stored' = index'}
  /\ task' = "buttons"
  /\ UNCHANGED <<authorities, stack, joinState, callVars, joinRes, coapVars, resets, ghosts>>

(* The buttons held during the start select another network.               *)
Buttons(option) ==
  /\ task = "buttons"
  /\ index' = IF option > 0 THEN option ELSE index
  /\ promised' = IF option > 0 THEN None ELSE promised
  /\ task' = "first"
  /\ UNCHANGED <<stored, complete, authorities, stack, joinState, callVars, joinRes, coapVars,
                 resets, joined, asked>>

-----------------------------------------------------------------------------
(* app_join_network.                                                       *)

(* It reduces the index, copies the settings, and disconnects if need be.  *)
JoinCalled ==
  /\ task \in {"first", "next"}
  /\ locked' = TRUE
  /\ index' = index % MaxNetworks
  /\ chosen' = index'
  /\ stack' = "disconnected"
  /\ pos' = 1
  /\ task' = IF task = "first" THEN "firstcall" ELSE "nextcall"
  /\ joined' = None
  /\ UNCHANGED <<stored, complete, authorities, joinState, ret, held, joinRes, coapVars,
                 resets, promised, asked>>

Calling == task \in {"firstcall", "nextcall"}
Checking == Calling /\ pos <= Len(Checks(chosen))

(* A credential that cannot be loaded is used all the same: what is read   *)
(* from there may pass the check or not.                                   *)
Loaded ==
  LET what == Checks(chosen)[pos].on
  IN  IF what = None THEN {{}} ELSE {{what}} \cup (IF what = "credential" THEN {{}} ELSE {})

CheckPasses ==
  /\ Checking
  /\ \E loaded \in Loaded : held' = (held \cup loaded) \ {"trustedca"}
  /\ pos' = pos + 1
  /\ UNCHANGED <<paramVars, authorities, stack, joinState, task, chosen, ret, locked, joinRes,
                 coapVars, resets, ghosts>>

Cleaning == IF task = "firstcall" THEN "firstcleanup" ELSE "nextcleanup"

CheckFailsUnclean ==
  /\ Checking
  /\ \E loaded \in Loaded : held' = held \cup loaded
  /\ ret' = Checks(chosen)[pos].line
  /\ IF held' = {}
     THEN task' = Cleaning /\ UNCHANGED <<locked, joinRes>>
     ELSE /\ locked' = FALSE /\ joinRes' = ret' % 256
          /\ task' = IF task = "firstcall" THEN "decide" ELSE "wait"
  /\ UNCHANGED <<paramVars, authorities, stack, joinState, chosen, pos, coapVars, resets, ghosts>>

CheckFails ==
  /\ Checking
  /\ \E loaded \in Loaded : held' = held \cup loaded
  /\ ret' = Checks(chosen)[pos].line
  /\ task' = Cleaning
  /\ UNCHANGED <<paramVars, authorities, stack, joinState, chosen, pos, locked, joinRes,
                 coapVars, resets, ghosts>>

Joining == Calling /\ pos > Len(Checks(chosen))

(* sl_wisun_join starts to join the network.                               *)
JoinAccepted ==
  /\ Joining
  /\ stack' = "joining"
  /\ ret' = OK
  /\ joined' = chosen
  /\ task' = Cleaning
  /\ UNCHANGED <<paramVars, authorities, joinState, chosen, pos, held, locked, joinRes,
                 coapVars, resets, promised, asked>>

(* sl_wisun_join returns an error; FAIL is replaced by a line number.      *)
JoinRefused(status) ==
  /\ Joining
  /\ ret' = IF status = FAIL THEN 953 ELSE status
  /\ task' = Cleaning
  /\ UNCHANGED <<paramVars, authorities, stack, joinState, chosen, pos, held, locked, joinRes,
                 coapVars, resets, joined, promised, asked>>

(* The cleanup, and the return of ret as a uint8_t.                        *)
Cleanup ==
  /\ task \in {"firstcleanup", "nextcleanup"}
  /\ held' = {}
  /\ locked' = FALSE
  /\ joinRes' = ret % 256
  /\ task' = IF task = "firstcleanup" THEN "decide" ELSE "wait"
  /\ UNCHANGED <<paramVars, authorities, stack, joinState, chosen, pos, ret, coapVars,
                 resets, ghosts>>

-----------------------------------------------------------------------------
(* app_task: the loop that waits for the first connection.                 *)

DecideOnlyOnFail ==
  /\ task = "decide"
  /\ IF joinState = "operational" THEN task' = "connected" /\ UNCHANGED index
     ELSE IF joinRes # FAIL THEN task' = "wait" /\ UNCHANGED index
     ELSE index' = (index + 1) % MaxNetworks /\ task' = "next"
  /\ UNCHANGED <<stored, complete, authorities, stack, joinState, callVars, joinRes, coapVars,
                 resets, ghosts>>

(* Connected; or wait for the network; or try the next one.                *)
Decide ==
  /\ task = "decide"
  /\ IF joinState = "operational" THEN task' = "connected" /\ UNCHANGED index
     ELSE IF joinRes = OK THEN task' = "wait" /\ UNCHANGED index
     ELSE index' = (index + 1) % MaxNetworks /\ task' = "next"
  /\ UNCHANGED <<stored, complete, authorities, stack, joinState, callVars, joinRes, coapVars,
                 resets, ghosts>>

(* sl_wisun_app_core_wait_state, until connected or for 20 or 60 seconds.  *)
Wait ==
  /\ task = "wait"
  /\ task' = "decide"
  /\ UNCHANGED <<paramVars, authorities, stack, joinState, callVars, joinRes, coapVars, resets,
                 ghosts>>

-----------------------------------------------------------------------------
(* The stack joins, loses the network and joins again; the callback copies *)
(* its state.                                                              *)

StackMoves ==
  /\ stack # "disconnected"
  /\ stack' = IF stack = "joining" THEN "operational" ELSE "joining"
  /\ UNCHANGED <<paramVars, authorities, joinState, task, callVars, joinRes, coapVars, resets,
                 ghosts>>

JoinStateCallback ==
  /\ joinState # stack
  /\ joinState' = stack
  /\ UNCHANGED <<paramVars, authorities, stack, task, callVars, joinRes, coapVars, resets,
                 ghosts>>

-----------------------------------------------------------------------------
(* set_app_parameter, in the CoAP thread.  None of it takes the mutex.     *)

RequestArrives ==
  /\ stack = "operational"
  /\ saving = None
  /\ requests < MaxRequests
  /\ requests' = requests + 1

PutNetworkIndex(value) ==
  /\ RequestArrives
  /\ index' = value % 256
  /\ saving' = "network_index"
  /\ asked' = TRUE
  /\ UNCHANGED <<stored, complete, authorities, stack, joinState, task, callVars, joinRes,
                 install, resets, joined, promised>>

(* The defaults are saved when networks were selected.                     *)
PutDefaults ==
  /\ RequestArrives
  /\ index' = DefaultNetworkIndex
  /\ saving' \in {None, "defaults"}
  /\ asked' = TRUE
  /\ UNCHANGED <<stored, complete, authorities, stack, joinState, task, callVars, joinRes,
                 install, resets, joined, promised>>

PutSave ==
  /\ RequestArrives
  /\ saving' = "save"
  /\ UNCHANGED <<paramVars, authorities, stack, joinState, task, callVars, joinRes, install,
                 resets, ghosts>>

(* save_app_parameters writes the header, with the index ...               *)
SaveHeader ==
  /\ saving \in {"network_index", "defaults", "save"}
  /\ stored' = index
  /\ promised' = IF saving = "network_index" /\ complete THEN index ELSE None
  /\ saving' = "networks"
  /\ UNCHANGED <<index, complete, authorities, stack, joinState, task, callVars, joinRes,
                 requests, install, resets, joined, asked>>

SaveHeaderFails ==
  /\ saving \in {"network_index", "defaults", "save"}
  /\ saving' = None
  /\ UNCHANGED <<paramVars, authorities, stack, joinState, task, callVars, joinRes, requests,
                 install, resets, ghosts>>

(* ... and then the networks, which may fail as well.                      *)
SaveNetworks ==
  /\ saving = "networks"
  /\ complete' \in {complete, TRUE}
  /\ saving' = None
  /\ UNCHANGED <<index, stored, authorities, stack, joinState, task, callVars, joinRes,
                 requests, install, resets, ghosts>>

-----------------------------------------------------------------------------
(* A firmware update that clears NVM: delete_app_parameters is called by   *)
(* the scheduler's worker.                                                 *)

ScheduleInstall ==
  /\ RequestArrives
  /\ install = None
  /\ install' = "scheduled"
  /\ UNCHANGED <<paramVars, authorities, stack, joinState, task, callVars, joinRes, saving,
                 resets, ghosts>>

DeleteHeader ==
  /\ install = "scheduled" /\ stored # None
  /\ stored' = None
  /\ promised' = None
  /\ install' = "deleting"
  /\ UNCHANGED <<index, complete, authorities, stack, joinState, task, callVars, joinRes,
                 saving, requests, resets, joined, asked>>

(* Without a header there is an error and no installation.                 *)
DeleteFails ==
  /\ install = "scheduled"
  /\ install' = None
  /\ UNCHANGED <<paramVars, authorities, stack, joinState, task, callVars, joinRes, saving,
                 requests, resets, ghosts>>

(* The networks follow, as far as they can be deleted, and a reset if the  *)
(* last one could.                                                         *)
DeleteNetworks ==
  /\ install = "deleting"
  /\ complete' \in {complete, FALSE}
  /\ promised' = None
  /\ install' = None
  /\ UNCHANGED <<index, stored, authorities, stack, joinState, task, callVars, joinRes, saving,
                 requests, resets, joined, asked>>

-----------------------------------------------------------------------------
(* A reset at any time: RAM is zeroed, NVM stays.                          *)
Reset ==
  /\ resets < MaxResets
  /\ resets' = resets + 1
  /\ index' = 0
  /\ stack' = "disconnected" /\ joinState' = "disconnected"
  /\ task' = "start"
  /\ chosen' = None /\ pos' = 1 /\ ret' = OK /\ held' = {} /\ locked' = FALSE
  /\ joinRes' = OK
  /\ saving' = None /\ install' = None
  /\ joined' = None /\ asked' = FALSE
  /\ UNCHANGED <<stored, complete, authorities, requests, promised>>

Init ==
  /\ index = 0
  /\ stored = None /\ complete = FALSE
  /\ authorities \in 0 .. MaxAuthorities
  /\ stack = "disconnected" /\ joinState = "disconnected"
  /\ task = "start"
  /\ chosen = None /\ pos = 1 /\ ret = OK /\ held = {} /\ locked = FALSE
  /\ joinRes = OK
  /\ saving = None /\ install = None
  /\ requests = 0 /\ resets = 0
  /\ joined = None /\ promised = None /\ asked = FALSE

JoinNetwork ==
  \/ JoinCalled \/ CheckPasses \/ CheckFails \/ JoinAccepted
  \/ \E status \in JoinErrors \cup {FAIL} : JoinRefused(status)
  \/ Cleanup

AppTask ==
  \/ Boot
  \/ \E option \in 0 .. 3 : Buttons(option)
  \/ JoinNetwork
  \/ Decide \/ Wait

Request ==
  \/ \E value \in Requested : PutNetworkIndex(value)
  \/ PutDefaults \/ PutSave
  \/ SaveHeader \/ SaveHeaderFails \/ SaveNetworks

Install == ScheduleInstall \/ DeleteHeader \/ DeleteFails \/ DeleteNetworks

Next == AppTask \/ StackMoves \/ JoinStateCallback \/ Request \/ Install \/ Reset

Spec == Init /\ [][Next]_vars

(***************************************************************************)
(* The kernel runs app_task, which never blocks for good, and the event    *)
(* task; nothing is assumed of the stack, the requests and the resets.     *)
(***************************************************************************)
FairSpec == Spec /\ WF_vars(AppTask) /\ WF_vars(JoinStateCallback)

-----------------------------------------------------------------------------
Tasks == {"start", "buttons", "first", "next", "firstcall", "nextcall", "firstcleanup",
          "nextcleanup", "decide", "wait", "connected"}

(* The types of the variables.                                             *)
TypeOK ==
  /\ index \in 0 .. 255
  /\ stored \in 0 .. 255 \cup {None}
  /\ complete \in BOOLEAN
  /\ authorities \in 0 .. MaxAuthorities
  /\ stack \in {"disconnected", "joining", "operational"}
  /\ joinState \in {"disconnected", "joining", "operational"}
  /\ task \in Tasks
  /\ chosen \in Networks \cup {None}
  /\ Calling => chosen \in Networks
  /\ pos \in Nat
  /\ ret \in Nat
  /\ held \subseteq {"trustedca", "credential"}
  /\ locked \in BOOLEAN
  /\ joinRes \in 0 .. 255
  /\ saving \in {None, "network_index", "defaults", "save", "networks"}
  /\ install \in {None, "scheduled", "deleting"}

(* app_join_network gives back the mutex and all it allocated, on every    *)
(* path through its cleanup; and every variable keeps its type.            *)
NothingKept ==
  /\ TypeOK
  /\ ~Calling /\ task \notin {"firstcleanup", "nextcleanup"} => held = {} /\ ~locked

(* join_res is SL_STATUS_OK exactly when the stack is joining the network  *)
(* that the index selects (until a request changes it), although failures  *)
(* are reported by a line number cut to a byte.                            *)
JoinReportedTruly ==
  task \in {"decide", "wait", "connected"} =>
    /\ joinRes = OK <=> joined # None
    /\ joined # None => index = joined \/ asked

(* "Set the network_index, save the parameters (to get ready to use this   *)
(* network)": once the header is written, and if NVM has networks to go    *)
(* with it, the next start joins that network first, also when a reset or  *)
(* a failure ends the save there; unless a button selects another one, or  *)
(* the parameters are saved again or deleted before.                       *)
RestartsOnRequested ==
  [][task = "first" /\ task' = "firstcall" /\ promised # None
     => chosen' = promised % MaxNetworks]_vars

(* As long as none of them can be joined, each network is tried again and  *)
(* again.                                                                  *)
EveryNetworkTried ==
  \A n \in Networks : []<>(Calling /\ chosen = n) \/ <>[](joined # None)
=============================================================================
