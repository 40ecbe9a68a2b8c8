------------------------------ MODULE CrashHandler ------------------------------
(***************************************************************************)
(* The crash handler component:                                            *)
(* src/component/crash_handler/sl_wisun_crash_handler.c.                   *)
(*                                                                         *)
(* A crash leaves a record in RAM that no reset initialises, and resets    *)
(* the device.  The next start decides from the reset cause whether that   *)
(* RAM can be trusted, and the application reads the record once.  Any     *)
(* reset, and another crash, may come at any point of the start, which     *)
(* AppParameters puts together from these operations.                      *)
(***************************************************************************)
EXTENDS FiniteSets

CONSTANTS
  CrashTypes,  \* the members of sl_wisun_crash_type other than NONE and MAX
  NoCrash,     \* SL_WISUN_CRASH_TYPE_NONE, and the empty crash_info_string
  Garbage      \* any other value of the uninitialised type field

Causes == {"power", "pin", "sysreq"}
RecordTypes == CrashTypes \cup {NoCrash, Garbage}

VARIABLES
  noinit,      \* sl_wisun_crash_data.type
  cause,       \* the reset cause register, cumulative until cleared
  stage,       \* how far the start has come
  info,        \* crash_info_string, as the type it was made from
  unreported,  \* auxiliary: crashes since the last one the application read
  lastReset,   \* auxiliary: what reset the device last
  moved        \* auxiliary: a new firmware's noinit section has not been written yet

crashVars == <<noinit, cause, stage, info, unreported, lastReset, moved>>

-----------------------------------------------------------------------------
(* Resets.                                                                 *)

(* The C library clears RAM, except for the noinit section.                *)
StartAgain(how) ==
  /\ stage' = "reset"
  /\ info' = NoCrash
  /\ lastReset' = how

(* The hooks and handlers of every kind of crash: record, then reset.      *)
Crash(t) ==
  /\ noinit' = t
  /\ cause' = cause \cup {"sysreq"}
  /\ unreported' = unreported \cup {t}
  /\ moved' = FALSE
  /\ StartAgain(t)

(* NVIC_SystemReset on request (external: the reboot commands, which are   *)
(* only obeyed once the application runs).                                 *)
SoftReset ==
  /\ stage = "checked"
  /\ cause' = cause \cup {"sysreq"}
  /\ StartAgain("soft")
  /\ UNCHANGED <<noinit, unreported, moved>>

PinReset ==
  /\ cause' = cause \cup {"pin"}
  /\ StartAgain("pin")
  /\ UNCHANGED <<noinit, unreported, moved>>

(* RAM comes up with any content, the cause register with one flag.        *)
PowerCycle ==
  /\ noinit' \in RecordTypes
  /\ cause' = {"power"}
  /\ StartAgain("power")
  /\ UNCHANGED <<unreported, moved>>

(* The bootloader installed another firmware: the record is now elsewhere  *)
(* in RAM, where the old firmware or the bootloader kept something else.   *)
Install ==
  /\ stage = "checked"
  /\ noinit' \in RecordTypes
  /\ cause' = cause \cup {"sysreq"}
  /\ moved' = TRUE
  /\ StartAgain("soft")
  /\ UNCHANGED unreported

-----------------------------------------------------------------------------
(* The start.                                                              *)

(* sl_wisun_crash_handler_read finds a record that looks sane.             *)
Readable == noinit \in CrashTypes

HandlerInitExact ==
  /\ stage = "reset"
  /\ noinit' = IF cause = {"sysreq"} /\ Readable THEN noinit ELSE NoCrash
  /\ cause' = {}
  /\ moved' = (moved /\ noinit' # NoCrash)
  /\ stage' = "started"
  /\ UNCHANGED <<info, unreported, lastReset>>

(* sl_wisun_crash_handler_init, called by app_init.                        *)
HandlerInit ==
  /\ stage = "reset"
  /\ noinit' = IF "sysreq" \in cause /\ Readable THEN noinit ELSE NoCrash
  /\ cause' = {}
  /\ moved' = (moved /\ noinit' # NoCrash)
  /\ stage' = "started"
  /\ UNCHANGED <<info, unreported, lastReset>>

(* sl_wisun_check_previous_crash, called by app_task: reads it once.       *)
CheckPreviousCrash ==
  /\ stage = "started"
  /\ info' = IF Readable THEN noinit ELSE NoCrash
  /\ noinit' = IF Readable THEN NoCrash ELSE noinit
  /\ unreported' = {}
  /\ moved' = FALSE
  /\ stage' = "checked"
  /\ UNCHANGED <<cause, lastReset>>

-----------------------------------------------------------------------------
Init ==
  /\ noinit \in RecordTypes
  /\ cause = {"power"}
  /\ stage = "reset"
  /\ info = NoCrash
  /\ unreported = {}
  /\ lastReset = "power"
  /\ moved = FALSE

TypeOK ==
  /\ noinit \in RecordTypes
  /\ cause \subseteq Causes
  /\ stage = "started" => noinit # Garbage
  /\ stage \in {"reset", "started", "checked"}
  /\ info \in CrashTypes \cup {NoCrash}
  /\ unreported \subseteq CrashTypes
  /\ lastReset \in CrashTypes \cup {"power", "pin", "soft"}
  /\ moved \in BOOLEAN
=============================================================================
