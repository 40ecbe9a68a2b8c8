----------------------------- MODULE AppParameters -----------------------------
(***************************************************************************)
(* The application parameters in non-volatile memory and the start of the  *)
(* application that reads them:                                            *)
(* src/wisun_node_monitoring/app_parameters.c, and app.c 1048-1057, which  *)
(* counts the crash that CrashHandler reports.                             *)
(*                                                                         *)
(* NVM holds one object for the common parameters and one per network.     *)
(* Writing, reading and deleting one object is atomic; a save, a read or a *)
(* deletion of all of them is not: a reset may come between any two.       *)
(***************************************************************************)
EXTENDS Integers, FiniteSets

CONSTANTS
  MaxNetworks,  \* MAX_NETWORK_CONFIGS
  Firmwares,    \* records [version, size]: NVM3_APP_PARAMS_VERSION and
                \* sizeof(app_settings_wisun_t) of each firmware
  MaxResets,    \* bound: resets of any kind
  MaxFailures,  \* bound: NVM writes that fail
  MaxDeletes,   \* bound: deletions of the parameters
  CrashTypes, NoCrash, Garbage,  \* of CrashHandler
  None          \* an object that is not in NVM, or a variable not set

ASSUME ParametersAssumption ==
  /\ MaxNetworks \in Nat \ {0}
  /\ \A f \in Firmwares : DOMAIN f = {"version", "size"}
  /\ NoCrash \notin CrashTypes /\ Garbage \notin CrashTypes \cup {NoCrash}
  /\ CrashTypes \cap {"power", "pin", "soft"} = {}
  /\ MaxResets \in Nat /\ MaxFailures \in Nat /\ MaxDeletes \in Nat

VARIABLES
  firmware,  \* the installed firmware
  header,    \* NVM object NVM3_APP_KEY
  object,    \* NVM objects NVM3_APP_KEY + 1 + i, of network i
  params,    \* app_parameters: the firmware it was set by, nb_boots, nb_crashes
  network,   \* network[i]: the firmware it was set by, and its settings
  pc,        \* where the start, or a request, stands
  key,       \* the loop variable of read_ and save_app_parameters
  status,    \* the status of the last NVM access of the loop
  deleting,  \* the loop variable of delete_app_parameters, or NoLoop or Install
  noinit, cause, stage, info, unreported, lastReset, moved,  \* of CrashHandler
  resets, failures, deletes,  \* how often each happened
  crashed,   \* auxiliary: crashes, and installations, which may look like one
  torn,      \* auxiliary: an update of NVM failed or was interrupted since the
             \* defaults were last saved completely
  saved      \* auxiliary: the settings of the last complete save, or None

Crash == INSTANCE CrashHandler

crashVars == <<noinit, cause, stage, info, unreported, lastReset, moved>>
nvmVars == <<header, object>>
ramVars == <<params, network>>
loopVars == <<pc, key, status>>
counts == <<resets, failures, deletes>>
ghosts == <<crashed, torn, saved>>
vars == <<firmware, nvmVars, ramVars, loopVars, deleting, crashVars, counts, ghosts>>

Networks == 1 .. MaxNetworks

Default(f) == [by |-> f, settings |-> "default"]
Zeroes(f) == [by |-> f, settings |-> "zeroes"]
Values == [by : Firmwares, settings : {"default", "custom", "zeroes"}]
Stored == [by : Firmwares, boots : Nat, crashes : Nat]

ASSUME NoneAssumption == None \notin Values \cup Stored

(* After its loop, delete_app_parameters returns OK and the bootloader is  *)
(* started, or it returns an error.                                        *)
Install == MaxNetworks + 1
NoLoop == 0

-----------------------------------------------------------------------------
(* save_app_parameters: the common object first, then the networks.        *)

SaveFor(purpose) ==
  /\ pc' = purpose
  /\ key' = 0
  /\ status' = "ok"
  /\ saved' = None

Saving == pc \in {"initsave", "crashsave", "requestsave"}

(* What follows a save: app_task goes on, or the request is answered.      *)
AfterSave == IF pc = "initsave" THEN "loaded" ELSE "running"

SaveHeader ==
  /\ Saving /\ key = 0
  /\ header' = params
  /\ key' = 1
  /\ UNCHANGED <<firmware, object, ramVars, pc, status, deleting, crashVars, counts, ghosts>>

(* The common object cannot be written: the networks are not tried.        *)
SaveHeaderFails ==
  /\ Saving /\ key = 0
  /\ failures < MaxFailures
  /\ failures' = failures + 1
  /\ status' = "failed"
  /\ torn' = TRUE
  /\ pc' = AfterSave
  /\ UNCHANGED <<firmware, nvmVars, ramVars, key, deleting, crashVars, resets, deletes,
                 crashed, saved>>

NextSaveSkipsLast ==
  /\ key' = key + 1
  /\ pc' = IF key >= MaxNetworks - 1 THEN AfterSave ELSE pc

NextSave ==
  /\ key' = key + 1
  /\ pc' = IF key = MaxNetworks THEN AfterSave ELSE pc

SaveNetwork ==
  /\ Saving /\ key \in Networks
  /\ object' = [object EXCEPT ![key] = network[key]]
  /\ status' = "ok"
  /\ NextSave
  /\ saved' = IF pc' # pc /\ failures = 0 /\ deleting = NoLoop THEN network ELSE None
  /\ torn' = (torn /\ ~(pc = "initsave" /\ saved' # None))
  /\ UNCHANGED <<firmware, header, ramVars, deleting, crashVars, counts, crashed>>

(* A network that cannot be written is skipped.                            *)
SaveNetworkFails ==
  /\ Saving /\ key \in Networks
  /\ failures < MaxFailures
  /\ failures' = failures + 1
  /\ status' = "failed"
  /\ torn' = TRUE
  /\ NextSave
  /\ UNCHANGED <<firmware, nvmVars, ramVars, deleting, crashVars, resets, deletes,
                 crashed, saved>>

-----------------------------------------------------------------------------
(* init_app_parameters and read_app_parameters.                            *)

(* set_app_parameters_defaults for all networks, first boot, then save.    *)
SetDefaults ==
  /\ params' = [by |-> firmware, boots |-> 1, crashes |-> 0]
  /\ network' = [i \in Networks |-> Default(firmware)]
  /\ SaveFor("initsave")

ReadHeaderTrusts ==
  /\ pc = "start" /\ stage = "started"
  /\ IF header # None
     THEN /\ params' = header
          /\ pc' = "reading" /\ key' = 1 /\ status' = "ok"
          /\ UNCHANGED <<network, saved>>
     ELSE SetDefaults
  /\ UNCHANGED <<firmware, nvmVars, deleting, crashVars, counts, crashed, torn>>

(* No common object, or one of another version or network size: defaults.  *)
ReadHeader ==
  /\ pc = "start" /\ stage = "started"
  /\ IF header # None /\ header.by = firmware
     THEN /\ params' = header
          /\ pc' = "reading" /\ key' = 1 /\ status' = "ok"
          /\ UNCHANGED <<network, saved>>
     ELSE SetDefaults
  /\ UNCHANGED <<firmware, nvmVars, deleting, crashVars, counts, crashed, torn>>

(* An object that is missing or has another size is not read.              *)
CanRead(i) == object[i] # None /\ object[i].by.size = firmware.size

(* All networks are read; only the status of the last one counts.          *)
ReadNetwork ==
  /\ pc = "reading" /\ key < MaxNetworks
  /\ network' = IF CanRead(key) THEN [network EXCEPT ![key] = object[key]] ELSE network
  /\ status' = IF CanRead(key) THEN "ok" ELSE "failed"
  /\ key' = key + 1
  /\ UNCHANGED <<firmware, nvmVars, params, pc, deleting, crashVars, counts, ghosts>>

ReadLastNetworkAnyway ==
  /\ pc = "reading" /\ key = MaxNetworks
  /\ network' = IF CanRead(key) THEN [network EXCEPT ![key] = object[key]] ELSE network
  /\ pc' = "loaded"
  /\ UNCHANGED <<firmware, nvmVars, params, key, status, deleting, crashVars, counts, ghosts>>

ReadLastNetwork ==
  /\ pc = "reading" /\ key = MaxNetworks
  /\ IF CanRead(key)
     THEN /\ network' = [network EXCEPT ![key] = object[key]]
          /\ status' = "ok"
          /\ pc' = "loaded"
          /\ UNCHANGED <<params, key, saved>>
     ELSE SetDefaults
  /\ UNCHANGED <<firmware, nvmVars, deleting, crashVars, counts, crashed, torn>>

-----------------------------------------------------------------------------
(* app_task: the previous crash is looked up, counted and saved.           *)

CountStart ==
  /\ pc = "loaded"
  /\ Crash!CheckPreviousCrash
  /\ params' = [params EXCEPT !.crashes = @ + 1]
  /\ SaveFor("crashsave")
  /\ UNCHANGED <<firmware, nvmVars, network, deleting, counts, crashed, torn>>

CountCrash ==
  /\ pc = "loaded"
  /\ Crash!CheckPreviousCrash
  /\ IF info' # NoCrash
     THEN /\ params' = [params EXCEPT !.crashes = @ + 1]
          /\ SaveFor("crashsave")
     ELSE /\ pc' = "running"
          /\ UNCHANGED <<params, key, status, saved>>
  /\ UNCHANGED <<firmware, nvmVars, network, deleting, counts, crashed, torn>>

-----------------------------------------------------------------------------
(* set_app_parameter, called by the CoAP thread once the device runs.      *)

(* One field of a network changes; one field does not make zeroes a        *)
(* configuration.                                                          *)

PutSetting(i) ==
  /\ pc = "running"
  /\ network[i].settings # "zeroes"
  /\ network' = [network EXCEPT ![i].settings = "custom"]
  /\ UNCHANGED <<firmware, nvmVars, params, loopVars, deleting, crashVars, counts, ghosts>>

(* "save", and "network_index", which saves everything too.                *)
PutSave ==
  /\ pc = "running"
  /\ SaveFor("requestsave")
  /\ UNCHANGED <<firmware, nvmVars, ramVars, deleting, crashVars, counts, crashed, torn>>

(* "defaults" for a selection of networks saves, for 0 (all) it does not.  *)
PutDefaults(selection) ==
  /\ pc = "running"
  /\ network' = [i \in Networks |->
                   IF i \in selection \/ selection = {} THEN Default(firmware) ELSE network[i]]
  /\ IF selection # {} THEN SaveFor("requestsave") ELSE UNCHANGED <<loopVars, saved>>
  /\ UNCHANGED <<firmware, nvmVars, params, deleting, crashVars, counts, crashed, torn>>

-----------------------------------------------------------------------------
(* delete_app_parameters, called by the scheduler's worker before it       *)
(* installs a firmware, whatever the CoAP thread is doing.                 *)

DeleteBegins ==
  /\ pc \in {"running", "requestsave"}
  /\ deleting = NoLoop
  /\ deletes < MaxDeletes
  /\ deletes' = deletes + 1
  /\ IF header # None
     THEN header' = None /\ deleting' = 1 /\ saved' = None /\ torn' = TRUE
     ELSE UNCHANGED <<header, deleting, saved, torn>>
  /\ UNCHANGED <<firmware, object, ramVars, loopVars, crashVars, resets, failures, crashed>>

(* The status of the last network alone decides whether the device goes on *)
(* to install the new firmware.                                            *)
DeleteNetwork ==
  /\ deleting \in Networks
  /\ object' = [object EXCEPT ![deleting] = None]
  /\ deleting' = IF deleting < MaxNetworks THEN deleting + 1
                 ELSE IF object[deleting] = None THEN NoLoop ELSE Install
  /\ UNCHANGED <<firmware, header, ramVars, loopVars, crashVars, counts, ghosts>>

(* An object that cannot be deleted stays.                                 *)
DeleteNetworkFails ==
  /\ deleting \in Networks
  /\ failures < MaxFailures
  /\ failures' = failures + 1
  /\ deleting' = IF deleting < MaxNetworks THEN deleting + 1 ELSE NoLoop
  /\ UNCHANGED <<firmware, nvmVars, ramVars, loopVars, crashVars, resets, deletes, ghosts>>

-----------------------------------------------------------------------------
(* Resets: RAM is zeroed, NVM stays.                                       *)

Reset ==
  /\ resets < MaxResets
  /\ resets' = resets + 1
  /\ params' = None
  /\ network' = [i \in Networks |-> Zeroes(firmware')]
  /\ pc' = "start"
  /\ key' = 0
  /\ status' = "ok"
  /\ deleting' = NoLoop
  /\ torn' = (torn \/ Saving)
  /\ UNCHANGED <<nvmVars, failures, deletes, saved>>

Crashes ==
  /\ UNCHANGED firmware
  /\ Reset
  /\ \E t \in CrashTypes : Crash!Crash(t)
  /\ crashed' = crashed + 1

Restarts ==
  /\ UNCHANGED firmware
  /\ Reset
  /\ Crash!PinReset \/ Crash!PowerCycle \/ (pc = "running" /\ Crash!SoftReset)
  /\ UNCHANGED crashed

(* After a deletion, or without one, the device restarts with another      *)
(* firmware.                                                               *)
Installs ==
  /\ firmware' \in Firmwares
  /\ Reset
  /\ deleting = Install \/ (pc = "running" /\ deleting = NoLoop)
  /\ Crash!Install
  /\ crashed' = crashed + 1

HandlerInit ==
  /\ Crash!HandlerInit
  /\ UNCHANGED <<firmware, nvmVars, ramVars, loopVars, deleting, counts, ghosts>>

-----------------------------------------------------------------------------
Init ==
  /\ firmware \in Firmwares
  /\ header = None
  /\ object = [i \in Networks |-> None]
  /\ params = None
  /\ network = [i \in Networks |-> Zeroes(firmware)]
  /\ pc = "start"
  /\ key = 0
  /\ status = "ok"
  /\ deleting = NoLoop
  /\ Crash!Init
  /\ resets = 0 /\ failures = 0 /\ deletes = 0
  /\ crashed = 0
  /\ torn = FALSE
  /\ saved = None

Save == SaveHeader \/ SaveHeaderFails \/ SaveNetwork \/ SaveNetworkFails

Start == HandlerInit \/ ReadHeader \/ ReadNetwork \/ ReadLastNetwork \/ CountCrash

Request ==
  \/ \E i \in Networks : PutSetting(i)
  \/ PutSave
  \/ \E selection \in SUBSET Networks : PutDefaults(selection)

Next ==
  \/ Start \/ Save \/ Request
  \/ DeleteBegins \/ DeleteNetwork \/ DeleteNetworkFails
  \/ Crashes \/ Restarts \/ Installs

Spec == Init /\ [][Next]_vars

-----------------------------------------------------------------------------
TypeOK ==
  /\ firmware \in Firmwares
  /\ header \in Stored \cup {None}
  /\ object \in [Networks -> Values \cup {None}]
  /\ params \in Stored \cup {None}
  /\ network \in [Networks -> Values]
  /\ pc \in {"start", "reading", "initsave", "loaded", "crashsave", "running", "requestsave"}
  /\ pc # "start" => params \in Stored
  /\ key \in 0 .. MaxNetworks + 1
  /\ Saving => key <= MaxNetworks
  /\ status \in {"ok", "failed"}
  /\ deleting \in 0 .. MaxNetworks + 1
  /\ Crash!TypeOK
  /\ resets \in 0 .. MaxResets /\ failures \in 0 .. MaxFailures /\ deletes \in 0 .. MaxDeletes
  /\ crashed \in Nat
  /\ torn \in BOOLEAN
  /\ saved \in [Networks -> Values] \cup {None}

(* "Initializing Application Parameters in NVM when not already set": once *)
(* the start has gone through the parameters, none of the networks is left *)
(* at the zeroes of fresh RAM.                                             *)
NetworksInitialised ==
  pc \in {"loaded", "crashsave", "running"} => \A i \in Networks : network[i].settings # "zeroes"

(* The common object is saved first and the status of the last network is  *)
(* the one that counts; because of both, no sequence of resets, also in    *)
(* the middle of saves and starts, makes the device run on zeroes, as long *)
(* as nothing was deleted and no write failed; and every variable keeps    *)
(* its type.                                                               *)
InitialisedUnlessDeleted ==
  /\ TypeOK
  /\ deletes = 0 /\ failures = 0 => NetworksInitialised

(* "The parameters will be reset to the new default values": the device    *)
(* runs on settings laid out by the firmware it runs.                      *)
SettingsOfThisFirmware ==
  pc \in {"loaded", "crashsave", "running"} =>
    \A i \in Networks : network[i].by = firmware

(* The same, unless an update of NVM failed or was interrupted since the   *)
(* defaults were last saved: other restarts never mix layouts.  A complete *)
(* save does not repair a torn one, it makes the mixture permanent.        *)
SettingsOfThisFirmwareUnlessTorn == torn \/ SettingsOfThisFirmware

(* What a complete save stored is what the next start of the same firmware *)
(* runs on, whatever resets come in between: it neither mixes it with      *)
(* other settings nor falls back to the defaults.                          *)
SavedSurvivesRestart ==
  [][/\ pc \in {"start", "reading"} /\ pc' \notin {"start", "reading"}
     /\ saved # None /\ header.by = firmware
     => network' = saved]_vars

(* nb_crashes never counts a crash twice, not even when the start that     *)
(* counts it is itself interrupted; only an installation, which moves the  *)
(* crash record, can make it count one that did not happen.                *)
CrashesNotOvercounted ==
  params # None => params.crashes <= crashed

(* No phantom, no repetition and no loss: a start reports, and counts,     *)
(* only a crash that took place and that no start reported before,         *)
(* whatever content RAM came up with (a new firmware, whose record lies    *)
(* elsewhere, may be fooled); and it does report the crash that caused it, *)
(* also one that interrupted a save, or an earlier start whose reset cause *)
(* had not been read yet.                                                  *)
ReportsEachCrashOnce ==
  [][Crash!CheckPreviousCrash =>
       /\ info' \in unreported \cup {NoCrash} \/ moved
       /\ lastReset \in CrashTypes => info' = lastReset]_vars
=============================================================================
