------------------------------ MODULE MulticastOta ------------------------------
(***************************************************************************)
(* The multicast firmware update of one device:                            *)
(* src/wisun_node_monitoring/app_wisun_multicast_ota.c.                    *)
(*                                                                         *)
(* Chunks of a firmware file arrive as UDP datagrams, lost, repeated and   *)
(* out of order.  The UDP worker thread writes each one into the           *)
(* bootloader's storage slot and records its length.  CoAP requests read   *)
(* the record in another thread, and both threads use the one global       *)
(* variable chunk_index.  The recorded chunks live in RAM, the written     *)
(* ones in flash.                                                          *)
(***************************************************************************)
EXTENDS Integers, FiniteSets

CONSTANTS
  MaxChunks,    \* MAX_CHUNKS: indices 0 .. MaxChunks - 1 of the arrays
  ImageChunks,  \* how many chunks each firmware file is sent in, from 1 on
  Files,        \* the names of firmware files
  ClearNvm,     \* app_ota_clear_nvm_t
  KeepNvm,      \* APP_OTA_CLEAR_NVM_NO, the member of ClearNvm that cannot fail
  MaxInstalls,  \* bound: installations of one kind scheduled at a time
  MaxUpsets,    \* bound: clears, renamings, restarts and failed writes
  None

ASSUME OtaAssumption ==
  /\ MaxChunks \in Nat /\ ImageChunks \in Nat
  /\ 1 < ImageChunks /\ ImageChunks < MaxChunks
  /\ KeepNvm \in ClearNvm
  /\ MaxInstalls \in Nat /\ MaxUpsets \in Nat
  /\ None \notin [file : Files, index : Nat, accepted : BOOLEAN]

VARIABLES
  gblFile,     \* the expected file name, set over CoAP (/ota/dfu)
  chunkIndex,  \* the global chunk_index
  recorded,    \* the indices with udp_data_len[i] # 0
  heard,       \* the indices with udp_chunk_rx_count[i] # 0
  flash,       \* what the slot holds at each chunk's place
  imageSet,    \* bootloader_setImageToBootload was called
  installs,    \* the reboots in the action scheduler, by kind
  worker,      \* where the UDP worker stands in multicast_rx
  message,     \* the chunk it is processing
  place,       \* its local start_address, in chunks
  query,       \* which query the CoAP thread runs, and where it stands in it
  last,        \* its local last_chunk_index, in last_index, or last_rx
  total,       \* its local last_chunk_index, in show_missed_from_list
  allRecorded, \* auxiliary: the total of the last reply without missed chunks
  sealed,      \* auxiliary: the record covered the image when last scheduled
  upsets       \* counts the disturbances

record == <<gblFile, recorded, heard, imageSet>>
rxVars == <<worker, message, place>>
queryVars == <<query, last, total, allRecorded>>
installVars == <<installs, sealed>>
vars == <<chunkIndex, flash, upsets, record, rxVars, queryVars, installVars>>

Indices == 0 .. MaxChunks - 1
Slot == 1 .. MaxChunks - 1

-----------------------------------------------------------------------------
(* The storage slot of the bootloader.                                     *)

Erased == [kind |-> "erased"]
Garbled == [kind |-> "garbled"]
Data(kind, f, i) == [kind |-> kind, file |-> f, index |-> i]
Content == {Erased, Garbled}
             \cup {Data(k, f, i) : k \in {"whole", "torn"}, f \in Files, i \in Indices}

(* Flash bits are only ever cleared by a write: new data over the same     *)
(* data, or over a part of it, is that data; over other data it is none.   *)
Written(old, new) ==
  IF old = Erased \/ (old.kind # "garbled" /\ old.file = new.file /\ old.index = new.index)
  THEN new
  ELSE Garbled

(* bootloader_verifyImage accepts a complete image of one file.            *)
Verified == \E f \in Files : \A i \in 1 .. ImageChunks : flash[i] = Data("whole", f, i)

-----------------------------------------------------------------------------
(* Both threads: their locals end with the call.                           *)

ReturnFromRx ==
  /\ worker' = "idle"
  /\ message' = None
  /\ place' = 0

ReturnFromQuery ==
  /\ query' = "idle"
  /\ last' = 0
  /\ total' = 0

-----------------------------------------------------------------------------
(* multicast_rx, on a chunk.  Each step reads the global chunk_index anew. *)

(* The expected name is fetched, then the header is parsed.  A chunk is    *)
(* mine when it has the tag of this board and data after its header.       *)
Receive(f, i, mine) ==
  /\ worker = "idle"
  /\ chunkIndex' = i
  /\ message' = [file |-> f, index |-> i, accepted |-> mine /\ f = gblFile]
  /\ worker' = "count"
  /\ UNCHANGED <<flash, upsets, record, place, queryVars, installVars>>

(* Any chunk is counted; one for another file or board, or without data,   *)
(* goes no further.                                                        *)
Count ==
  /\ worker = "count"
  /\ heard' = heard \cup ({chunkIndex} \cap Indices)
  /\ IF message.accepted
     THEN worker' = "place" /\ UNCHANGED <<message, place>>
     ELSE ReturnFromRx
  /\ UNCHANGED <<chunkIndex, flash, upsets, gblFile, recorded, imageSet,
                 queryVars, installVars>>

PlaceOneFurther ==
  /\ worker = "place"
  /\ IF chunkIndex < MaxChunks
     THEN place' = chunkIndex + 1 /\ worker' = "write" /\ UNCHANGED message
     ELSE ReturnFromRx
  /\ UNCHANGED <<chunkIndex, flash, upsets, record, queryVars, installVars>>

PlaceBelowLast ==
  /\ worker = "place"
  /\ IF chunkIndex < MaxChunks - 1
     THEN place' = chunkIndex /\ worker' = "write" /\ UNCHANGED message
     ELSE ReturnFromRx
  /\ UNCHANGED <<chunkIndex, flash, upsets, record, queryVars, installVars>>

(* start_address, for an index within the arrays.                          *)
Place ==
  /\ worker = "place"
  /\ IF chunkIndex < MaxChunks
     THEN place' = chunkIndex /\ worker' = "write" /\ UNCHANGED message
     ELSE ReturnFromRx
  /\ UNCHANGED <<chunkIndex, flash, upsets, record, queryVars, installVars>>

NeverDuplicate == FALSE

Duplicate == chunkIndex \in recorded

SkipDuplicate ==
  /\ worker = "write"
  /\ Duplicate
  /\ ReturnFromRx
  /\ UNCHANGED <<chunkIndex, flash, upsets, record, queryVars, installVars>>

WriteSucceeds ==
  /\ worker = "write"
  /\ ~Duplicate
  /\ place \in Slot
  /\ flash' = [flash EXCEPT ![place] =
                 Written(@, Data("whole", message.file, message.index))]
  /\ worker' = "record"
  /\ UNCHANGED <<chunkIndex, upsets, record, message, place, queryVars, installVars>>

WriteFailsUnnoticed ==
  /\ worker = "write"
  /\ ~Duplicate
  /\ place \in Slot
  /\ upsets < MaxUpsets
  /\ upsets' = upsets + 1
  /\ worker' = "record"
  /\ UNCHANGED <<chunkIndex, flash, record, message, place, queryVars, installVars>>

(* bootloader_writeStorage gives up, before or after it wrote a part.      *)
WriteFails ==
  /\ worker = "write"
  /\ ~Duplicate
  /\ place \in Slot
  /\ upsets < MaxUpsets
  /\ \/ UNCHANGED flash
     \/ flash' = [flash EXCEPT ![place] =
                    IF @ = Data("whole", message.file, message.index)
                    THEN @ ELSE Written(@, Data("torn", message.file, message.index))]
  /\ upsets' = upsets + 1
  /\ ReturnFromRx
  /\ UNCHANGED <<chunkIndex, record, queryVars, installVars>>

(* The place of index 0 is not an address of the slot.                     *)
WriteRefused ==
  /\ worker = "write"
  /\ ~Duplicate
  /\ place \notin Slot
  /\ ReturnFromRx
  /\ UNCHANGED <<chunkIndex, flash, upsets, record, queryVars, installVars>>

(* Only a chunk that was written is recorded.                              *)
Record ==
  /\ worker = "record"
  /\ recorded' = recorded \cup ({chunkIndex} \cap Indices)
  /\ ReturnFromRx
  /\ UNCHANGED <<chunkIndex, flash, upsets, gblFile, heard, imageSet,
                 queryVars, installVars>>

-----------------------------------------------------------------------------
(* multicast_rx, on a command.                                             *)

LastIndex == IF recorded \ {0} = {} THEN 0
             ELSE CHOOSE i \in recorded : \A j \in recorded : j <= i

Missed(lastIndex) == (1 .. lastIndex - 1) \ recorded

(* clear_ota_data: the record first ...                                    *)
ClearRecord ==
  /\ worker = "idle"
  /\ upsets < MaxUpsets
  /\ upsets' = upsets + 1
  /\ recorded' = {}
  /\ heard' = {}
  /\ allRecorded' = 0
  /\ sealed' = FALSE
  /\ worker' = "erase"
  /\ UNCHANGED <<chunkIndex, flash, gblFile, imageSet, message, place, query, last,
                 total, installs>>

(* ... then the slot, if the bootloader can.                               *)
Erase ==
  /\ worker = "erase"
  /\ flash' \in {flash, [i \in Slot |-> Erased]}
  /\ worker' = "idle"
  /\ UNCHANGED <<chunkIndex, upsets, record, message, place, queryVars, installVars>>

SetImageToBootload ==
  /\ worker = "idle"
  /\ imageSet' = TRUE
  /\ UNCHANGED <<chunkIndex, flash, upsets, gblFile, recorded, heard, rxVars,
                 queryVars, installVars>>

(* rebootAndInstall, accepted: the record has no gap, the image is good.   *)
ScheduleInstall(k) ==
  /\ worker = "idle"
  /\ LastIndex > 1
  /\ Missed(LastIndex) = {}
  /\ Verified
  /\ installs[k] < MaxInstalls
  /\ installs' = [installs EXCEPT ![k] = @ + 1]
  /\ sealed' = (1 .. ImageChunks \subseteq recorded)
  /\ chunkIndex' = MaxChunks
  /\ UNCHANGED <<flash, upsets, record, rxVars, queryVars>>

(* rebootAndInstall, refused for a gap, a bad image, the delay or a full   *)
(* scheduler; show_missed, show_missed_from_list and show_repeated: all    *)
(* they leave behind is chunk_index.                                       *)
ScanRecord ==
  /\ worker = "idle"
  /\ chunkIndex' = MaxChunks
  /\ UNCHANGED <<flash, upsets, record, rxVars, queryVars, installVars>>

-----------------------------------------------------------------------------
(* The CoAP thread: missed_chunks, a first last_index for the total and a  *)
(* second one for the list.                                                *)

QueryBegins ==
  /\ query = "idle"
  /\ query' = "total"
  /\ chunkIndex' = 1
  /\ last' = 0
  /\ UNCHANGED <<flash, upsets, record, rxVars, total, allRecorded, installVars>>

(* One turn of the loop of last_index, on the global variable.             *)
QueryScans ==
  /\ query \in {"total", "list", "info"}
  /\ chunkIndex < MaxChunks
  /\ last' = IF chunkIndex \in recorded THEN chunkIndex ELSE last
  /\ chunkIndex' = chunkIndex + 1
  /\ UNCHANGED <<flash, upsets, record, rxVars, query, total, allRecorded, installVars>>

QueryHasTotal ==
  /\ query = "total"
  /\ chunkIndex >= MaxChunks
  /\ total' = last
  /\ last' = 0
  /\ chunkIndex' = 1
  /\ query' = "list"
  /\ UNCHANGED <<flash, upsets, record, rxVars, allRecorded, installVars>>

QueryAnswersHeard ==
  /\ query = "list"
  /\ chunkIndex >= MaxChunks
  /\ allRecorded' = IF 1 .. last - 1 \subseteq heard THEN total ELSE 0
  /\ ReturnFromQuery
  /\ UNCHANGED <<chunkIndex, flash, upsets, record, rxVars, installVars>>

(* The list is made from the second last_index, by a loop on a local.      *)
QueryAnswers ==
  /\ query = "list"
  /\ chunkIndex >= MaxChunks
  /\ allRecorded' = IF Missed(last) = {} THEN total ELSE 0
  /\ ReturnFromQuery
  /\ UNCHANGED <<chunkIndex, flash, upsets, record, rxVars, installVars>>

(* ota_multicast_info reports the last indices: one last_index.            *)
InfoBegins ==
  /\ query = "idle"
  /\ query' = "info"
  /\ chunkIndex' = 1
  /\ UNCHANGED <<flash, upsets, record, rxVars, last, total, allRecorded, installVars>>

InfoAnswers ==
  /\ query = "info"
  /\ chunkIndex >= MaxChunks
  /\ ReturnFromQuery
  /\ UNCHANGED <<chunkIndex, flash, upsets, record, rxVars, allRecorded, installVars>>

(* rx_chunks counts what was received, written or not, with loops on       *)
(* locals: the total first, then the missed chunks up to a total of its    *)
(* own.                                                                    *)
LastHeard == IF heard \ {0} = {} THEN 0
             ELSE CHOOSE i \in heard : \A j \in heard : j <= i

RxBegins ==
  /\ query = "idle"
  /\ query' = "rx"
  /\ last' = LastHeard
  /\ UNCHANGED <<chunkIndex, flash, upsets, record, rxVars, total, allRecorded, installVars>>

MissedRx == (1 .. LastHeard) \ heard

RxAnswers ==
  /\ query = "rx"
  /\ ReturnFromQuery
  /\ UNCHANGED <<chunkIndex, flash, upsets, record, rxVars, allRecorded, installVars>>

-----------------------------------------------------------------------------
(* What happens around: CoAP settings, the scheduler's worker, restarts.   *)

Rename(f) ==
  /\ f # gblFile
  /\ upsets < MaxUpsets
  /\ upsets' = upsets + 1
  /\ gblFile' = f
  /\ UNCHANGED <<chunkIndex, flash, recorded, heard, imageSet, rxVars,
                 queryVars, installVars>>

(* RAM is gone; the settings may be what they were or their default.       *)
StartOver ==
  /\ gblFile' \in Files
  /\ chunkIndex' = 0
  /\ recorded' = {}
  /\ heard' = {}
  /\ installs' = [k \in ClearNvm |-> 0]
  /\ ReturnFromRx
  /\ ReturnFromQuery
  /\ allRecorded' = 0
  /\ sealed' = FALSE

Restart ==
  /\ upsets < MaxUpsets
  /\ upsets' = upsets + 1
  /\ StartOver
  /\ UNCHANGED <<flash, imageSet>>

(* app_scheduler_ota_reboot_install_cb: erasing the NVM may fail, and then *)
(* the scheduled reboot is spent ...                                       *)
InstallFails(k) ==
  /\ installs[k] > 0
  /\ k # KeepNvm
  /\ installs' = [installs EXCEPT ![k] = @ - 1]
  /\ UNCHANGED <<chunkIndex, flash, upsets, record, rxVars, queryVars, sealed>>

(* ... otherwise the device restarts into the bootloader.                  *)
InstallReboots(k) ==
  /\ installs[k] > 0
  /\ upsets < MaxUpsets
  /\ upsets' = upsets + 1
  /\ StartOver
  /\ UNCHANGED <<flash, imageSet>>

-----------------------------------------------------------------------------
Init ==
  /\ gblFile \in Files
  /\ chunkIndex = 0
  /\ recorded = {}
  /\ heard = {}
  /\ flash = [i \in Slot |-> Erased]
  /\ imageSet = FALSE
  /\ installs = [k \in ClearNvm |-> 0]
  /\ worker = "idle"
  /\ message = None
  /\ place = 0
  /\ query = "idle"
  /\ last = 0
  /\ total = 0
  /\ allRecorded = 0
  /\ sealed = FALSE
  /\ upsets = 0

(* The sender numbers the chunks of a file from 1; 0 is a stray header.    *)
ReceiveAny ==
  \E f \in Files, i \in 0 .. ImageChunks, mine \in BOOLEAN : Receive(f, i, mine)

Process ==
  Count \/ Place \/ SkipDuplicate \/ WriteSucceeds \/ WriteFails \/ WriteRefused
    \/ Record \/ Erase

Command ==
  ClearRecord \/ SetImageToBootload \/ ScanRecord \/ \E k \in ClearNvm : ScheduleInstall(k)

Query ==
  QueryBegins \/ QueryScans \/ QueryHasTotal \/ QueryAnswers \/ InfoBegins \/ InfoAnswers

RxQuery == RxBegins \/ RxAnswers

Surroundings ==
  \/ \E f \in Files : Rename(f)
  \/ Restart
  \/ \E k \in ClearNvm : InstallFails(k) \/ InstallReboots(k)

(* The threads run as the kernel schedules them.                           *)
Next == ReceiveAny \/ Process \/ Command \/ Query \/ RxQuery \/ Surroundings

Spec == Init /\ [][Next]_vars

(* The documented use: the record is queried once the chunks are sent, so  *)
(* no datagram is processed during a query.  The RX query leaves the       *)
(* globals alone, and chunks may arrive while it runs.                     *)
QuietNext ==
  \/ query \in {"idle", "rx"} /\ ReceiveAny
  \/ query = "idle" /\ Command
  \/ Process
  \/ worker = "idle" /\ (Query \/ RxBegins)
  \/ RxAnswers
  \/ Surroundings

QuietSpec == Init /\ [][QuietNext]_vars

(***************************************************************************)
(* Both threads are scheduled, and the chunks of the expected file are     *)
(* sent again until each arrives, whatever the network loses meanwhile.    *)
(***************************************************************************)
Fairness ==
  /\ WF_vars(Process)
  /\ WF_vars(worker = "idle" /\ (QueryScans \/ QueryHasTotal \/ QueryAnswers \/ InfoAnswers))
  /\ WF_vars(RxAnswers)
  /\ \A f \in Files, i \in 1 .. ImageChunks :
       SF_vars(query \in {"idle", "rx"} /\ f = gblFile /\ Receive(f, i, TRUE))

FairQuietSpec == QuietSpec /\ Fairness

-----------------------------------------------------------------------------
TypeOK ==
  /\ gblFile \in Files
  /\ chunkIndex \in 0 .. MaxChunks
  /\ recorded \subseteq Indices
  /\ heard \subseteq Indices
  /\ flash \in [Slot -> Content]
  /\ imageSet \in BOOLEAN
  /\ installs \in [ClearNvm -> 0 .. MaxInstalls]
  /\ worker \in {"idle", "count", "place", "write", "record", "erase"}
  /\ message \in {None} \cup [file : Files, index : Indices, accepted : BOOLEAN]
  /\ worker \in {"count", "place", "write", "record"} => message # None
  /\ place \in Indices \cup {MaxChunks}
  /\ query \in {"idle", "total", "list", "info", "rx"}
  /\ last \in Indices
  /\ total \in Indices
  /\ allRecorded \in Indices
  /\ sealed \in BOOLEAN
  /\ upsets \in 0 .. MaxUpsets

(* "chunk_index is ... used to store the chunk at the proper location":    *)
(* no place of the slot holds another chunk's data.                        *)
StoredAtItsPlace ==
  \A i \in Slot : flash[i] \in {Erased, Garbled} \/ flash[i].index = i

(* "0/392 missed chunks" is answered "once all chunks are received": after *)
(* a reply without missed chunks, and until the data are cleared or lost,  *)
(* every chunk up to the total of the reply is recorded; and when an RX    *)
(* reply has no missed chunks, though more may arrive while it is made,    *)
(* every chunk up to its total was received.  And every variable keeps its *)
(* type.                                                                   *)
ZeroMissedMeansRecorded ==
  /\ TypeOK
  /\ 1 .. allRecorded \subseteq recorded
  /\ query = "rx" /\ MissedRx = {} => 1 .. last \subseteq heard

(* A recorded chunk was written completely since the slot was last erased, *)
(* whatever failed or restarted in between (so that it is right never to   *)
(* write it again): its place is neither erased nor torn.                  *)
RecordedWasWritten ==
  \A i \in recorded : i \in Slot /\ flash[i].kind \in {"whole", "garbled"}

(* A scheduled reboot installs the image that was verified when it was     *)
(* scheduled: if the record covered the image then, no chunk that arrives  *)
(* in the meantime, of this or another file, repeated or sent anew,        *)
(* touches it; only clear_ota_data does.                                   *)
InstallsVerifiedImage ==
  sealed /\ (\E k \in ClearNvm : installs[k] > 0) => Verified

(* Sending chunks again completes the update: a chunk whose write failed,  *)
(* or that a clear or a restart forgot, is recorded in the end.            *)
RetransmissionCompletes ==
  \A i \in 1 .. ImageChunks : <>[](i \in recorded)
=============================================================================
