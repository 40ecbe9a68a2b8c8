--------------------------- MODULE MulticastOtaProofs ---------------------------
(***************************************************************************)
(* Proofs about MulticastOta in its documented use, QuietSpec, for every   *)
(* number of chunks, files and installations, and whatever fails or        *)
(* restarts how often.                                                     *)
(***************************************************************************)
EXTENDS MulticastOta, WellFoundedInduction, TLAPS

USE OtaAssumption

-----------------------------------------------------------------------------
(* The greatest index.                                                     *)

LEMMA GreatestIndex ==
  ASSUME NEW S, S \subseteq Indices, S # {}
  PROVE  \E m \in S : \A n \in S : n <= m
<1> DEFINE T == {MaxChunks - i : i \in S}
           R == OpToRel(<, Nat)
<1>0. \A i \in S : i \in Nat /\ i < MaxChunks
  BY DEF Indices
<1>1. T \subseteq Nat /\ T # {}
  <2>1. \A i \in S : MaxChunks - i \in Nat
    BY <1>0
  <2> QED
    BY <2>1
<1>2. IsWellFoundedOn(R, Nat)
  BY NatLessThanWellFounded
<1>3. PICK t \in T : \A u \in T : ~(<<u, t>> \in R)
  <2> HIDE DEF R
  <2> QED
    BY <1>1, <1>2, WFMin
<1>4. \A u \in T : ~(u < t)
  BY <1>1, <1>3 DEF OpToRel
<1>5. PICK m \in S : t = MaxChunks - m
  BY <1>3
<1>6. ASSUME NEW n \in S
      PROVE  n <= m
  <2>1. ~(MaxChunks - n < MaxChunks - m)
    BY <1>4, <1>5
  <2> QED
    BY <1>0, <2>1
<1> QED
  BY <1>5, <1>6

LEMMA LastHeardIsLast ==
  ASSUME heard \subseteq Indices
  PROVE  /\ LastHeard \in heard \cup {0}
         /\ \A i \in heard : i <= LastHeard
<1>1. CASE heard \ {0} = {}
  BY <1>1 DEF LastHeard, Indices
<1>2. CASE heard \ {0} # {}
  <2>1. \E i \in heard : \A j \in heard : j <= i
    BY <1>2, GreatestIndex
  <2> QED
    BY <1>2, <2>1 DEF LastHeard
<1> QED
  BY <1>1, <1>2

-----------------------------------------------------------------------------
(* The slot.                                                               *)

LEMMA DataType ==
  \A k \in {"whole", "torn"}, f \in Files, i \in Indices : Data(k, f, i) \in Content
BY DEF Content

(* A write leaves what is written, or nothing that is of use.              *)
LEMMA WrittenType ==
  ASSUME NEW old \in Content, NEW new \in Content
  PROVE  Written(old, new) \in {new, Garbled} /\ Written(old, new) \in Content
BY DEF Written, Content

-----------------------------------------------------------------------------
LEMMA InitType == Init => TypeOK
<1> SUFFICES ASSUME Init
             PROVE  TypeOK
  OBVIOUS
<1>1. imageSet \in BOOLEAN /\ sealed \in BOOLEAN
  BY Zenon DEF Init
<1>2. flash \in [Slot -> Content]
  BY DEF Init, Content
<1> QED
  BY <1>1, <1>2 DEF Init, TypeOK, Indices

LEMMA NextType == TypeOK /\ [QuietNext]_vars => TypeOK'
<1> SUFFICES ASSUME TypeOK, [QuietNext]_vars
             PROVE  TypeOK'
  OBVIOUS
<1> USE DEF record, rxVars, queryVars, installVars, ReturnFromRx, ReturnFromQuery
<1>1. CASE ReceiveAny
  <2> PICK f \in Files, i \in 0 .. ImageChunks, mine \in BOOLEAN : Receive(f, i, mine)
    BY <1>1 DEF ReceiveAny
  <2>1. i \in Indices
    BY DEF Indices
  <2>2. (mine /\ f = gblFile) \in BOOLEAN
    OBVIOUS
  <2>3. message' \in [file : Files, index : Indices, accepted : BOOLEAN]
    BY <2>1, <2>2 DEF Receive
  <2>4. message' # None
    BY <2>3 DEF Indices
  <2> QED
    BY <2>1, <2>3, <2>4 DEF Receive, TypeOK, Indices
<1>2. CASE Count
  BY <1>2 DEF Count, TypeOK, Indices
<1>3. CASE Place
  BY <1>3 DEF Place, TypeOK, Indices
<1>4. CASE SkipDuplicate
  BY <1>4 DEF SkipDuplicate, TypeOK, Indices
<1>4r. CASE WriteRefused
  BY <1>4r DEF WriteRefused, TypeOK, Indices
<1>5. CASE WriteSucceeds
  <2>1. Data("whole", message.file, message.index) \in Content
    BY <1>5, DataType DEF WriteSucceeds, TypeOK
  <2>2. flash' \in [Slot -> Content]
    BY <1>5, <2>1, WrittenType DEF WriteSucceeds, TypeOK
  <2> QED
    BY <1>5, <2>2 DEF WriteSucceeds, TypeOK
<1>6. CASE WriteFails
  <2>1. Data("torn", message.file, message.index) \in Content
    BY <1>6, DataType DEF WriteFails, TypeOK
  <2>2. flash' \in [Slot -> Content]
    BY <1>6, <2>1, WrittenType DEF WriteFails, TypeOK
  <2> QED
    BY <1>6, <2>2 DEF WriteFails, TypeOK, Indices
<1>7. CASE Record
  BY <1>7 DEF Record, TypeOK, Indices
<1>8. CASE Erase
  BY <1>8 DEF Erase, TypeOK, Content
<1>9. CASE ClearRecord
  <2>1. sealed' \in BOOLEAN
    BY <1>9, Zenon DEF ClearRecord
  <2> QED
    BY <1>9, <2>1 DEF ClearRecord, TypeOK, Indices
<1>10. CASE SetImageToBootload
  <2>1. imageSet' \in BOOLEAN
    BY <1>10, Zenon DEF SetImageToBootload
  <2> QED
    BY <1>10, <2>1 DEF SetImageToBootload, TypeOK
<1>10s. CASE ScanRecord
  BY <1>10s DEF ScanRecord, TypeOK
<1>11. ASSUME NEW k \in ClearNvm, ScheduleInstall(k)
       PROVE  TypeOK'
  <2>1. installs' \in [ClearNvm -> 0 .. MaxInstalls]
    BY <1>11 DEF ScheduleInstall, TypeOK
  <2>2. sealed' \in BOOLEAN
    BY <1>11, Zenon DEF ScheduleInstall
  <2> QED
    BY <1>11, <2>1, <2>2 DEF ScheduleInstall, TypeOK
<1>12. CASE QueryBegins
  BY <1>12 DEF QueryBegins, TypeOK, Indices
<1>12i. CASE InfoBegins
  BY <1>12i DEF InfoBegins, TypeOK
<1>12r. CASE RxBegins
  <2>1. LastHeard \in Indices
    <3>1. heard \subseteq Indices
      BY DEF TypeOK
    <3>2. LastHeard \in heard \cup {0}
      BY <3>1, LastHeardIsLast
    <3> QED
      BY <3>1, <3>2 DEF Indices
  <2> QED
    BY <1>12r, <2>1 DEF RxBegins, TypeOK
<1>13. CASE QueryScans
  BY <1>13 DEF QueryScans, TypeOK, Indices
<1>14. CASE QueryHasTotal
  BY <1>14 DEF QueryHasTotal, TypeOK, Indices
<1>15. CASE QueryAnswers
  BY <1>15 DEF QueryAnswers, TypeOK, Indices
<1>16. CASE InfoAnswers
  BY <1>16 DEF InfoAnswers, TypeOK, Indices
<1>16r. CASE RxAnswers
  BY <1>16r DEF RxAnswers, TypeOK, Indices
<1>17. ASSUME NEW f \in Files, Rename(f)
       PROVE  TypeOK'
  BY <1>17 DEF Rename, TypeOK
<1>18. CASE Restart
  <2>1. sealed' \in BOOLEAN
    BY <1>18, Zenon DEF Restart, StartOver
  <2> QED
    BY <1>18, <2>1 DEF Restart, StartOver, TypeOK, Indices
<1>19. ASSUME NEW k \in ClearNvm, InstallFails(k)
       PROVE  TypeOK'
  <2>1. installs' \in [ClearNvm -> 0 .. MaxInstalls]
    BY <1>19 DEF InstallFails, TypeOK
  <2> QED
    BY <1>19, <2>1 DEF InstallFails, TypeOK
<1>20. ASSUME NEW k \in ClearNvm, InstallReboots(k)
       PROVE  TypeOK'
  <2>1. sealed' \in BOOLEAN
    BY <1>20, Zenon DEF InstallReboots, StartOver
  <2> QED
    BY <1>20, <2>1 DEF InstallReboots, StartOver, TypeOK, Indices
<1>21. CASE UNCHANGED vars
  BY <1>21 DEF vars, TypeOK
<1> QED
  BY <1>1, <1>2, <1>3, <1>4, <1>4r, <1>5, <1>6, <1>7, <1>8, <1>9, <1>10, <1>10s, <1>11,
     <1>12, <1>12i, <1>12r, <1>13, <1>14, <1>15, <1>16, <1>16r, <1>17, <1>18, <1>19, <1>20,
     <1>21
  DEF QuietNext, Process, Command, Query, Surroundings

-----------------------------------------------------------------------------
(* A datagram's chunk and a query do not meet, so that the global          *)
(* chunk_index is the chunk's until it is recorded.                        *)
ChunkInv ==
  /\ worker \in {"count", "place", "write", "record"} =>
       chunkIndex = message.index /\ query \in {"idle", "rx"}
  /\ worker \in {"write", "record"} => place = chunkIndex
  /\ worker = "record" => place \in Slot /\ flash[place].kind \in {"whole", "garbled"}
  /\ worker = "erase" => recorded = {} /\ ~sealed /\ query \in {"idle", "rx"}

(* What was recorded below chunk_index is known to a query, and does not   *)
(* change until it answers.                                                *)
LastBelow(i, l) ==
  /\ l = 0 \/ l \in recorded
  /\ \A j \in recorded : j < i => j <= l

QueryInv ==
  /\ query \in {"total", "list"} => LastBelow(chunkIndex, last)
  /\ query = "list" => LastBelow(MaxChunks, total)
  /\ query = "rx" => last = 0 \/ last \in heard
  /\ 1 .. allRecorded \subseteq recorded

(* While the record covers the image, nothing is written to it.            *)
SealInv == sealed => 1 .. ImageChunks \subseteq recorded /\ Verified

OtaInv ==
  TypeOK /\ ChunkInv /\ QueryInv /\ SealInv /\ StoredAtItsPlace /\ RecordedWasWritten

LEMMA InitInv == Init => OtaInv
<1> SUFFICES ASSUME Init
             PROVE  OtaInv
  OBVIOUS
<1>1. ~sealed
  BY Zenon DEF Init
<1>2. \A i \in Slot : flash[i] = Erased
  BY DEF Init
<1> QED
  BY <1>1, <1>2, InitType
  DEF OtaInv, Init, ChunkInv, QueryInv, SealInv, StoredAtItsPlace, RecordedWasWritten

(* A step that leaves the slot and the record alone.                       *)
LEMMA SameSlot ==
  ASSUME OtaInv, flash' = flash, recorded' = recorded, sealed' => sealed
  PROVE  SealInv' /\ StoredAtItsPlace' /\ RecordedWasWritten'
BY DEF OtaInv, SealInv, Verified, StoredAtItsPlace, RecordedWasWritten

(* Between a chunk and the next the record only grows.                     *)
LEMMA QueryRests ==
  ASSUME QueryInv, query \in {"idle", "rx"}, query' = query, last' = last,
         recorded \subseteq recorded', heard \subseteq heard', allRecorded' = allRecorded
  PROVE  QueryInv'
BY DEF QueryInv

(* Data at a chunk's place are that chunk's, and stay of one image.        *)
LEMMA WriteStep ==
  ASSUME OtaInv, worker = "write", ~Duplicate, place \in Slot,
         NEW c \in {Data("whole", message.file, message.index),
                    Data("torn", message.file, message.index), Garbled},
         flash' = [flash EXCEPT ![place] = c], recorded' = recorded, sealed' = sealed
  PROVE  SealInv' /\ StoredAtItsPlace' /\ RecordedWasWritten'
<1>1. place = message.index /\ place \notin recorded
  BY DEF OtaInv, ChunkInv, Duplicate
<1>2. flash \in [Slot -> Content] /\ 1 .. ImageChunks \subseteq Slot
  BY DEF OtaInv, TypeOK, Slot
<1>3. \A i \in Slot : flash'[i] = IF i = place THEN c ELSE flash[i]
  BY <1>2
<1>4. c = Garbled \/ c.index = place
  BY <1>1 DEF Data
<1>5. StoredAtItsPlace'
  BY <1>3, <1>4 DEF OtaInv, StoredAtItsPlace
<1>6. RecordedWasWritten'
  BY <1>1, <1>3 DEF OtaInv, RecordedWasWritten
<1>7. SealInv'
  <2> SUFFICES ASSUME sealed
               PROVE  1 .. ImageChunks \subseteq recorded /\ Verified'
    BY DEF SealInv
  <2>1. 1 .. ImageChunks \subseteq recorded /\ Verified
    BY DEF OtaInv, SealInv
  <2>2. \A i \in 1 .. ImageChunks : flash'[i] = flash[i]
    BY <1>1, <1>2, <1>3, <2>1
  <2> QED
    BY <2>1, <2>2 DEF Verified
<1> QED
  BY <1>5, <1>6, <1>7

LEMMA NextInv == OtaInv /\ [QuietNext]_vars => OtaInv'
<1> SUFFICES ASSUME OtaInv, [QuietNext]_vars
             PROVE  OtaInv'
  OBVIOUS
<1> USE DEF record, rxVars, queryVars, installVars, ReturnFromRx, ReturnFromQuery
<1>t. TypeOK /\ TypeOK' /\ ChunkInv /\ QueryInv /\ recorded \subseteq Indices
  BY NextType DEF OtaInv, TypeOK
<1>1. CASE query \in {"idle", "rx"} /\ ReceiveAny
  <2> PICK f \in Files, i \in 0 .. ImageChunks, mine \in BOOLEAN : Receive(f, i, mine)
    BY <1>1 DEF ReceiveAny
  <2>1. ChunkInv'
    BY <1>1 DEF Receive, ChunkInv
  <2>2. QueryInv'
    BY <1>1, <1>t, QueryRests DEF Receive
  <2> QED
    BY <1>t, <2>1, <2>2, SameSlot DEF Receive, OtaInv
<1>2. CASE Count
  <2>1. ChunkInv'
    BY <1>t, <1>2 DEF Count, ChunkInv
  <2>2. query \in {"idle", "rx"}
    BY <1>t, <1>2 DEF Count, ChunkInv
  <2>3. QueryInv'
    BY <1>2, <1>t, <2>2, QueryRests DEF Count
  <2> QED
    BY <1>2, <1>t, <2>1, <2>3, SameSlot DEF Count, OtaInv
<1>3. CASE Place
  <2>1. ChunkInv'
    BY <1>t, <1>3 DEF Place, ChunkInv
  <2>2. QueryInv'
    BY <1>t, <1>3, QueryRests DEF Place, ChunkInv
  <2> QED
    BY <1>3, <1>t, <2>1, <2>2, SameSlot DEF Place, OtaInv
<1>4. CASE SkipDuplicate
  <2>1. ChunkInv'
    BY <1>t, <1>4 DEF SkipDuplicate, ChunkInv
  <2>2. QueryInv'
    BY <1>t, <1>4, QueryRests DEF SkipDuplicate, ChunkInv
  <2> QED
    BY <1>4, <1>t, <2>1, <2>2, SameSlot DEF SkipDuplicate, OtaInv
<1>5. CASE WriteRefused
  <2>1. ChunkInv'
    BY <1>t, <1>5 DEF WriteRefused, ChunkInv
  <2>2. QueryInv'
    BY <1>t, <1>5, QueryRests DEF WriteRefused, ChunkInv
  <2> QED
    BY <1>5, <1>t, <2>1, <2>2, SameSlot DEF WriteRefused, OtaInv
<1>6. CASE WriteSucceeds
  <2> DEFINE c == Written(flash[place], Data("whole", message.file, message.index))
  <2>1. c \in {Data("whole", message.file, message.index), Garbled}
    <3>1. flash[place] \in Content /\ Data("whole", message.file, message.index) \in Content
      BY <1>t, <1>6, DataType DEF WriteSucceeds, TypeOK
    <3> QED
      BY <3>1, WrittenType
  <2>2. flash' = [flash EXCEPT ![place] = c] /\ worker = "write" /\ ~Duplicate /\ place \in Slot
    BY <1>6 DEF WriteSucceeds
  <2>3. c.kind \in {"whole", "garbled"}
    BY <2>1 DEF Data, Garbled
  <2> HIDE DEF c
  <2>4. SealInv' /\ StoredAtItsPlace' /\ RecordedWasWritten'
    BY <1>6, <2>1, <2>2, WriteStep DEF WriteSucceeds
  <2>5. flash'[place] = c
    BY <1>t, <2>2 DEF TypeOK
  <2>6. ChunkInv'
    BY <1>t, <1>6, <2>3, <2>5 DEF WriteSucceeds, ChunkInv
  <2>7. QueryInv'
    BY <1>t, <1>6, QueryRests DEF WriteSucceeds, ChunkInv
  <2> QED
    BY <1>t, <2>4, <2>6, <2>7 DEF OtaInv
<1>7. CASE WriteFails
  <2>1. ChunkInv'
    BY <1>7 DEF WriteFails, ChunkInv
  <2>2. QueryInv'
    BY <1>t, <1>7, QueryRests DEF WriteFails, ChunkInv
  <2>3. CASE flash' = flash
    BY <1>7, <1>t, <2>1, <2>2, <2>3, SameSlot DEF WriteFails, OtaInv
  <2>4. CASE flash' # flash
    <3> DEFINE new == Data("torn", message.file, message.index)
               c == Written(flash[place], new)
    <3>1. worker = "write" /\ ~Duplicate /\ place \in Slot
      BY <1>7 DEF WriteFails
    <3>2. flash[place] \in Content /\ new \in Content /\ flash = [flash EXCEPT ![place] = flash[place]]
      BY <1>t, <1>7, DataType DEF WriteFails, TypeOK
    <3>3. flash' = [flash EXCEPT ![place] = c]
      BY <1>7, <2>4, <3>2 DEF WriteFails
    <3>4. c \in {new, Garbled}
      BY <3>2, WrittenType
    <3> HIDE DEF c
    <3>5. SealInv' /\ StoredAtItsPlace' /\ RecordedWasWritten'
      BY <1>7, <3>1, <3>3, <3>4, WriteStep DEF WriteFails
    <3> QED
      BY <1>t, <2>1, <2>2, <3>5 DEF OtaInv
  <2> QED
    BY <2>3, <2>4
<1>8. CASE Record
  <2>1. chunkIndex \in Slot /\ flash[chunkIndex].kind \in {"whole", "garbled"}
    BY <1>t, <1>8 DEF Record, ChunkInv
  <2>2. ChunkInv'
    BY <1>8 DEF Record, ChunkInv
  <2>3. QueryInv'
    BY <1>t, <1>8, QueryRests DEF Record, ChunkInv
  <2>4. RecordedWasWritten'
    BY <1>8, <2>1 DEF Record, RecordedWasWritten, OtaInv
  <2>5. StoredAtItsPlace'
    BY <1>8 DEF Record, StoredAtItsPlace, OtaInv
  <2>6. SealInv'
    BY <1>8 DEF Record, SealInv, Verified, OtaInv
  <2> QED
    BY <1>t, <2>2, <2>3, <2>4, <2>5, <2>6 DEF OtaInv
<1>9. CASE Erase
  <2>1. recorded = {} /\ ~sealed /\ query \in {"idle", "rx"}
    BY <1>t, <1>9 DEF Erase, ChunkInv
  <2>2. ChunkInv'
    BY <1>9 DEF Erase, ChunkInv
  <2>3. QueryInv'
    BY <1>t, <1>9, <2>1, QueryRests DEF Erase
  <2>4. RecordedWasWritten' /\ SealInv'
    BY <1>9, <2>1 DEF Erase, RecordedWasWritten, SealInv
  <2>5. StoredAtItsPlace'
    BY <1>9 DEF Erase, StoredAtItsPlace, OtaInv
  <2> QED
    BY <1>t, <2>2, <2>3, <2>4, <2>5 DEF OtaInv
<1>10. CASE query = "idle" /\ ClearRecord
  <2>1. ~sealed'
    BY <1>10, Zenon DEF ClearRecord
  <2>2. ChunkInv'
    BY <1>10, <2>1 DEF ClearRecord, ChunkInv
  <2>3. QueryInv'
    BY <1>10 DEF ClearRecord, QueryInv
  <2>4. RecordedWasWritten' /\ SealInv'
    BY <1>10, <2>1 DEF ClearRecord, RecordedWasWritten, SealInv
  <2>5. StoredAtItsPlace'
    BY <1>10 DEF ClearRecord, StoredAtItsPlace, OtaInv
  <2> QED
    BY <1>t, <2>2, <2>3, <2>4, <2>5 DEF OtaInv
<1>11. CASE query = "idle" /\ SetImageToBootload
  <2>1. ChunkInv'
    BY <1>11 DEF SetImageToBootload, ChunkInv
  <2>2. QueryInv'
    BY <1>t, <1>11, QueryRests DEF SetImageToBootload
  <2> QED
    BY <1>11, <1>t, <2>1, <2>2, SameSlot DEF SetImageToBootload, OtaInv
<1>12. CASE query = "idle" /\ ScanRecord
  <2>1. ChunkInv'
    BY <1>12 DEF ScanRecord, ChunkInv
  <2>2. QueryInv'
    BY <1>t, <1>12, QueryRests DEF ScanRecord
  <2> QED
    BY <1>12, <1>t, <2>1, <2>2, SameSlot DEF ScanRecord, OtaInv
<1>13. ASSUME NEW k \in ClearNvm, query = "idle", ScheduleInstall(k)
       PROVE  OtaInv'
  <2>1. ChunkInv'
    BY <1>13 DEF ScheduleInstall, ChunkInv
  <2>2. QueryInv'
    BY <1>t, <1>13, QueryRests DEF ScheduleInstall
  <2>3. Verified' /\ recorded' = recorded /\ (sealed' => 1 .. ImageChunks \subseteq recorded)
    BY <1>13 DEF ScheduleInstall, Verified
  <2>4. SealInv' /\ StoredAtItsPlace' /\ RecordedWasWritten'
    BY <1>13, <2>3 DEF ScheduleInstall, SealInv, StoredAtItsPlace, RecordedWasWritten, OtaInv
  <2> QED
    BY <1>t, <2>1, <2>2, <2>4 DEF OtaInv
<1>14. CASE worker = "idle" /\ QueryBegins
  <2>1. ChunkInv'
    BY <1>14 DEF QueryBegins, ChunkInv
  <2>2. QueryInv'
    BY <1>14, <1>t DEF QueryBegins, QueryInv, LastBelow, Indices
  <2> QED
    BY <1>14, <1>t, <2>1, <2>2, SameSlot DEF QueryBegins, OtaInv
<1>15. CASE worker = "idle" /\ QueryScans
  <2>1. ChunkInv'
    BY <1>15 DEF QueryScans, ChunkInv
  <2>2. QueryInv'
    BY <1>15, <1>t DEF QueryScans, QueryInv, LastBelow, TypeOK, Indices
  <2> QED
    BY <1>15, <1>t, <2>1, <2>2, SameSlot DEF QueryScans, OtaInv
<1>16. CASE worker = "idle" /\ QueryHasTotal
  <2>1. ChunkInv'
    BY <1>16 DEF QueryHasTotal, ChunkInv
  <2>2. chunkIndex = MaxChunks
    BY <1>16, <1>t DEF QueryHasTotal, TypeOK
  <2>3. QueryInv'
    BY <1>16, <1>t, <2>2 DEF QueryHasTotal, QueryInv, LastBelow, Indices
  <2> QED
    BY <1>16, <1>t, <2>1, <2>3, SameSlot DEF QueryHasTotal, OtaInv
<1>17. CASE worker = "idle" /\ QueryAnswers
  <2>1. ChunkInv'
    BY <1>17 DEF QueryAnswers, ChunkInv
  <2>2. LastBelow(MaxChunks, last) /\ LastBelow(MaxChunks, total)
    BY <1>17, <1>t DEF QueryAnswers, QueryInv, TypeOK
  <2>3. last = total
    BY <1>t, <2>2 DEF LastBelow, TypeOK, Indices
  <2>4. Missed(last) = {} => 1 .. last \subseteq recorded
    BY <1>t, <2>2 DEF Missed, LastBelow, TypeOK, Indices
  <2>5. 1 .. allRecorded' \subseteq recorded
    BY <1>17, <2>3, <2>4 DEF QueryAnswers
  <2>6. QueryInv'
    BY <1>17, <2>5 DEF QueryAnswers, QueryInv
  <2> QED
    BY <1>17, <1>t, <2>1, <2>6, SameSlot DEF QueryAnswers, OtaInv
<1>18. CASE worker = "idle" /\ InfoBegins
  <2>1. ChunkInv'
    BY <1>18 DEF InfoBegins, ChunkInv
  <2>2. QueryInv'
    BY <1>18, <1>t DEF InfoBegins, QueryInv
  <2> QED
    BY <1>18, <1>t, <2>1, <2>2, SameSlot DEF InfoBegins, OtaInv
<1>19. CASE worker = "idle" /\ InfoAnswers
  <2>1. ChunkInv'
    BY <1>19 DEF InfoAnswers, ChunkInv
  <2>2. QueryInv'
    BY <1>19, <1>t DEF InfoAnswers, QueryInv
  <2> QED
    BY <1>19, <1>t, <2>1, <2>2, SameSlot DEF InfoAnswers, OtaInv
<1>20. CASE worker = "idle" /\ RxBegins
  <2>1. ChunkInv'
    BY <1>20 DEF RxBegins, ChunkInv
  <2>2. LastHeard \in heard \cup {0}
    BY <1>t, LastHeardIsLast DEF TypeOK
  <2>3. QueryInv'
    BY <1>20, <1>t, <2>2 DEF RxBegins, QueryInv
  <2> QED
    BY <1>20, <1>t, <2>1, <2>3, SameSlot DEF RxBegins, OtaInv
<1>21. CASE RxAnswers
  <2>1. ChunkInv'
    BY <1>21, <1>t DEF RxAnswers, ChunkInv
  <2>2. QueryInv'
    BY <1>21, <1>t DEF RxAnswers, QueryInv
  <2> QED
    BY <1>21, <1>t, <2>1, <2>2, SameSlot DEF RxAnswers, OtaInv
<1>22. ASSUME NEW f \in Files, Rename(f)
       PROVE  OtaInv'
  <2>1. ChunkInv'
    BY <1>22, <1>t DEF Rename, ChunkInv
  <2>2. QueryInv'
    BY <1>22, <1>t DEF Rename, QueryInv, LastBelow
  <2> QED
    BY <1>22, <1>t, <2>1, <2>2, SameSlot DEF Rename, OtaInv
<1>23. ASSUME StartOver, flash' = flash
       PROVE  OtaInv'
  <2>1. ~sealed'
    BY <1>23, Zenon DEF StartOver
  <2>2. ChunkInv'
    BY <1>23 DEF StartOver, ChunkInv
  <2>3. QueryInv'
    BY <1>23 DEF StartOver, QueryInv
  <2>4. RecordedWasWritten' /\ SealInv'
    BY <1>23, <2>1 DEF StartOver, RecordedWasWritten, SealInv
  <2>5. StoredAtItsPlace'
    BY <1>23 DEF StoredAtItsPlace, OtaInv
  <2> QED
    BY <1>t, <2>2, <2>3, <2>4, <2>5 DEF OtaInv
<1>24. CASE Restart
  BY <1>23, <1>24 DEF Restart
<1>25. ASSUME NEW k \in ClearNvm, InstallReboots(k)
       PROVE  OtaInv'
  BY <1>23, <1>25 DEF InstallReboots
<1>26. ASSUME NEW k \in ClearNvm, InstallFails(k)
       PROVE  OtaInv'
  <2>1. ChunkInv'
    BY <1>26, <1>t DEF InstallFails, ChunkInv
  <2>2. QueryInv'
    BY <1>26, <1>t DEF InstallFails, QueryInv, LastBelow
  <2> QED
    BY <1>26, <1>t, <2>1, <2>2, SameSlot DEF InstallFails, OtaInv
<1>27. CASE UNCHANGED vars
  <2>1. ChunkInv'
    BY <1>27, <1>t DEF vars, ChunkInv
  <2>2. QueryInv'
    BY <1>27, <1>t DEF vars, QueryInv, LastBelow
  <2> QED
    BY <1>27, <1>t, <2>1, <2>2, SameSlot DEF vars, OtaInv
<1> QED
  BY <1>1, <1>2, <1>3, <1>4, <1>5, <1>6, <1>7, <1>8, <1>9, <1>10, <1>11, <1>12, <1>13, <1>14,
     <1>15, <1>16, <1>17, <1>18, <1>19, <1>20, <1>21, <1>22, <1>24, <1>25, <1>26, <1>27
  DEF QuietNext, Process, Command, Query, Surroundings

LEMMA OtaInvariant == QuietSpec => []OtaInv
BY InitInv, NextInv, PTL DEF QuietSpec

-----------------------------------------------------------------------------
(* No place of the slot ever holds another chunk's data.                   *)
THEOREM ChunksAtTheirPlace == QuietSpec => []StoredAtItsPlace
BY OtaInvariant, PTL DEF OtaInv

(* What the record says is written was written and is not erased.          *)
THEOREM RecordIsHonest == QuietSpec => []RecordedWasWritten
BY OtaInvariant, PTL DEF OtaInv

(* A reboot that is scheduled installs the image that was verified.        *)
THEOREM VerifiedImageInstalled == QuietSpec => []InstallsVerifiedImage
<1>1. OtaInv => InstallsVerifiedImage
  BY DEF OtaInv, SealInv, InstallsVerifiedImage
<1> QED
  BY <1>1, OtaInvariant, PTL

(* A reply without missed chunks is true.                                  *)
THEOREM ZeroMissedIsTrue == QuietSpec => []ZeroMissedMeansRecorded
<1>1. OtaInv => ZeroMissedMeansRecorded
  <2> SUFFICES ASSUME OtaInv
               PROVE  ZeroMissedMeansRecorded
    OBVIOUS
  <2>1. heard \subseteq Indices /\ last \in Indices /\ TypeOK
    BY DEF OtaInv, TypeOK
  <2>2. LastHeard \in heard \cup {0} /\ \A i \in heard : i <= LastHeard
    BY <2>1, LastHeardIsLast
  <2>3. ASSUME query = "rx", MissedRx = {}
        PROVE  1 .. last \subseteq heard
    <3>1. 1 .. LastHeard \subseteq heard
      BY <2>3 DEF MissedRx
    <3>2. last <= LastHeard
      BY <2>1, <2>2, <2>3 DEF OtaInv, QueryInv, Indices
    <3>3. LastHeard \in Nat /\ last \in Nat
      BY <2>1, <2>2 DEF Indices
    <3> QED
      BY <3>1, <3>2, <3>3
  <2> QED
    BY <2>1, <2>3 DEF OtaInv, QueryInv, ZeroMissedMeansRecorded
<1> QED
  BY <1>1, OtaInvariant, PTL
=============================================================================
