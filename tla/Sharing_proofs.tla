--------------------------- MODULE Sharing_proofs ---------------------------
(***************************************************************************)
(* Proofs about machines whose actors share memory: MemoryRing for a ring  *)
(* of any size, FeedLinks, TimerThread and ThreadLife for any providers,   *)
(* consumers and threads and any number of rounds and calls, LinkedFrames  *)
(* for any set of pointers.                                                *)
(***************************************************************************)
EXTENDS MemoryRing, FeedLinks, TimerThread, ThreadLife, LinkedFrames, FiniteSetTheorems, TLAPS

-----------------------------------------------------------------------------
(***************************************************************************)
(* MemoryRing.  A reader of shared memory gets whole frames in the order   *)
(* they were stored, and a process that fails has a known reason.          *)
(***************************************************************************)

LEMMA IndexIsSlot ==
  ASSUME RingTypes
  PROVE  index \in Slot
<1>1. mImageCount \in Nat /\ ImageCount \in Nat \ {0}
  BY RingAssumption DEF RingTypes
<1>2. \A a \in Nat, n \in Nat \ {0} : a % n \in 0 .. n - 1
  OBVIOUS
<1> QED
  BY <1>1, <1>2 DEF index, Slot


(* What a step does to the files: one header, one slot, all of one or one size. *)
HeaderChanges(f, h) ==
    /\ mem' \in [Files -> Memory]
    /\ \A g \in Files : mem'[g].size = mem[g].size /\ mem'[g].slots = mem[g].slots
    /\ \A g \in Files : g # f => mem'[g].header = mem[g].header
    /\ mem'[f].header = h

SlotChanges(f, i, s) ==
    /\ mem' \in [Files -> Memory]
    /\ \A g \in Files : mem'[g].size = mem[g].size /\ mem'[g].header = mem[g].header
    /\ \A g \in Files, j \in Slot : g # f \/ j # i => mem'[g].slots[j] = mem[g].slots[j]
    /\ mem'[f].slots[i] = s

IsWiped(f) ==
    /\ mem' \in [Files -> Memory]
    /\ \A g \in Files : mem'[g].size = mem[g].size
    /\ \A g \in Files : g # f => mem'[g].header = mem[g].header /\ mem'[g].slots = mem[g].slots
    /\ mem'[f].header = Header /\ \A i \in Slot : mem'[f].slots[i] = Blank

SizeChanges(f, n) ==
    /\ mem' \in [Files -> Memory]
    /\ \A g \in Files : mem'[g].header = mem[g].header /\ mem'[g].slots = mem[g].slots
    /\ \A g \in Files : g # f => mem'[g].size = mem[g].size
    /\ mem'[f].size = IF mem[f].size = "none" THEN n ELSE mem[f].size

LEMMA OneHeaderChanges ==
  ASSUME mem \in [Files -> Memory], NEW f \in Files, NEW h \in Headers, mem' = [mem EXCEPT ![f].header = h]
  PROVE  HeaderChanges(f, h)
<1> DEFINE S == {"none", "header", "ring"}
<1>1. mem' \in [Files -> Memory]
  BY DEF Memory
<1>2. mem'[f] = [mem[f] EXCEPT !.header = h] /\ \A g \in Files : g # f => mem'[g] = mem[g]
  OBVIOUS
<1>3. mem[f] \in Memory
  OBVIOUS
<1>4. mem'[f].header = h /\ mem'[f].size = mem[f].size /\ mem'[f].slots = mem[f].slots
  BY <1>2, <1>3 DEF Memory
<1> QED
  BY <1>1, <1>2, <1>4 DEF HeaderChanges

LEMMA OneSlotChanges ==
  ASSUME mem \in [Files -> Memory], NEW f \in Files, NEW i \in Slot, NEW s \in Frame,
         mem' = [mem EXCEPT ![f].slots = [mem[f].slots EXCEPT ![i] = s]]
  PROVE  SlotChanges(f, i, s)
<1>3. mem[f] \in Memory /\ mem[f].slots \in Slots
  BY DEF Memory
<1> DEFINE r == [mem[f].slots EXCEPT ![i] = s]
<1>5. r \in Slots /\ r[i] = s /\ \A j \in Slot : j # i => r[j] = mem[f].slots[j]
  BY <1>3 DEF Slots
<1>6. mem' = [mem EXCEPT ![f].slots = r]
  OBVIOUS
<1> HIDE DEF r
<1>1. mem' \in [Files -> Memory]
  BY <1>5, <1>6 DEF Memory
<1>2. mem'[f] = [mem[f] EXCEPT !.slots = r] /\ \A g \in Files : g # f => mem'[g] = mem[g]
  BY <1>6
<1>4. mem'[f].slots = r /\ mem'[f].size = mem[f].size /\ mem'[f].header = mem[f].header
  BY <1>2, <1>3 DEF Memory
<1> QED
  BY <1>1, <1>2, <1>4, <1>5 DEF SlotChanges

LEMMA OneIsWiped ==
  ASSUME mem \in [Files -> Memory], NEW f \in Files, mem' = Wiped(f)
  PROVE  IsWiped(f)
<1>3. mem[f] \in Memory
  OBVIOUS
<1> DEFINE r == [i \in Slot |-> Blank]
<1>5. r \in Slots /\ Header \in Headers
  BY RingAssumption DEF Slots, Blank, Frame, Header, Headers
<1>6. mem' = [mem EXCEPT ![f].header = Header, ![f].slots = r]
  BY DEF Wiped
<1>8. \A i \in Slot : r[i] = Blank
  OBVIOUS
<1> HIDE DEF r
<1>2. mem'[f] = [mem[f] EXCEPT !.header = Header, !.slots = r] /\ \A g \in Files : g # f => mem'[g] = mem[g]
  BY <1>6
<1>4. mem'[f].slots = r /\ mem'[f].size = mem[f].size /\ mem'[f].header = Header
  BY <1>2, <1>3 DEF Memory
<1>7. mem'[f] \in Memory
  BY <1>2, <1>3, <1>5 DEF Memory
<1>1. mem' \in [Files -> Memory]
  BY <1>2, <1>6, <1>7
<1> QED
  BY <1>1, <1>2, <1>4, <1>8 DEF IsWiped

LEMMA OneSizeChanges ==
  ASSUME mem \in [Files -> Memory], NEW f \in Files, NEW n \in {"none", "header", "ring"}, mem' = Extended(f, n)
  PROVE  SizeChanges(f, n)
<1>3. mem[f] \in Memory
  OBVIOUS
<1> DEFINE r == IF mem[f].size = "none" THEN n ELSE mem[f].size
<1>6. mem' = [mem EXCEPT ![f].size = r] /\ r \in {"none", "header", "ring"}
  BY <1>3 DEF Extended, Memory
<1> HIDE DEF r
<1>1. mem' \in [Files -> Memory]
  BY <1>6 DEF Memory
<1>2. mem'[f] = [mem[f] EXCEPT !.size = r] /\ \A g \in Files : g # f => mem'[g] = mem[g]
  BY <1>6
<1>4. mem'[f].slots = mem[f].slots /\ mem'[f].size = r /\ mem'[f].header = mem[f].header
  BY <1>2, <1>3 DEF Memory
<1> QED
  BY <1>1, <1>2, <1>4 DEF SizeChanges, r

LEMMA HeaderFields ==
  /\ Header \in Headers
  /\ \A h \in Headers :
        /\ [h EXCEPT !.valid = TRUE] \in Headers
        /\ [h EXCEPT !.index = ImageCount] \in Headers
        /\ [h EXCEPT !.count = ImageCount] \in Headers
<1>1. ImageCount \in Nat /\ 0 \in 0 .. ImageCount /\ ImageCount \in 0 .. ImageCount
  BY RingAssumption
<1>2. Header \in Headers
  BY <1>1 DEF Header, Headers
<1>3. ASSUME NEW h \in Headers
      PROVE  [h EXCEPT !.valid = TRUE] \in Headers
  BY DEF Headers
<1>4. ASSUME NEW h \in Headers
      PROVE  [h EXCEPT !.index = ImageCount] \in Headers
  BY <1>1 DEF Headers
<1>5. ASSUME NEW h \in Headers
      PROVE  [h EXCEPT !.count = ImageCount] \in Headers
  BY <1>1 DEF Headers
<1> QED
  BY <1>2, <1>3, <1>4, <1>5

(* What each step does to the files. *)
LEMMA HeaderSet ==
  ASSUME RingTypes, NEW h \in Headers, writer \notin {"off", "failed"},
         mem' = [mem EXCEPT ![writerMap].header = h]
  PROVE  HeaderChanges(writerMap, h)
  BY OneHeaderChanges DEF RingTypes

LEMMA SlotSet ==
  ASSUME RingTypes, NEW s \in Frame, writer \notin {"off", "failed"},
         mem' = [mem EXCEPT ![writerMap].slots = [mem[writerMap].slots EXCEPT ![index] = s]]
  PROVE  SlotChanges(writerMap, index, s)
  BY OneSlotChanges, IndexIsSlot DEF RingTypes

LEMMA WriterFile ==
  ASSUME RingTypes, writer \notin {"off", "failed"}
  PROVE  /\ writerMap \in Files /\ mem[writerMap].header \in Headers
         /\ mem[writerMap].slots \in Slots /\ mem[writerMap].slots[index] \in Frame
  BY IndexIsSlot DEF RingTypes, Memory, Slots

LEMMA ReaderFile ==
  ASSUME RingTypes, reader \notin {"query", "open"}
  PROVE  readerMap \in Files /\ head \in Headers /\ mem[readerMap].slots \in Slots
  BY DEF RingTypes, Memory, head

LEMMA InitialiseChanges ==
  ASSUME RingTypes, Initialise
  PROVE  \/ writer = "valid" /\ HeaderChanges(writerMap, [mem[writerMap].header EXCEPT !.valid = TRUE])
         \/ writer = "index" /\ HeaderChanges(writerMap, [mem[writerMap].header EXCEPT !.index = ImageCount])
         \/ writer = "count" /\ HeaderChanges(writerMap, [mem[writerMap].header EXCEPT !.count = ImageCount])
<1>1. writerMap \in Files /\ mem[writerMap].header \in Headers
  BY WriterFile DEF Initialise, SetHeader
<1>2. /\ [mem[writerMap].header EXCEPT !.valid = TRUE] \in Headers
      /\ [mem[writerMap].header EXCEPT !.index = ImageCount] \in Headers
      /\ [mem[writerMap].header EXCEPT !.count = ImageCount] \in Headers
  BY <1>1, HeaderFields
<1> QED
  BY <1>1, <1>2, HeaderSet DEF Initialise, SetHeader

LEMMA StoreChanges ==
  ASSUME RingTypes, Store
  PROVE  \/ writer = "top" /\ SlotChanges(writerMap, index, [mem[writerMap].slots[index] EXCEPT !.top = frames])
         \/ writer = "bottom" /\ SlotChanges(writerMap, index, [mem[writerMap].slots[index] EXCEPT !.bottom = frames])
         \/ writer = "lastIndex" /\ HeaderChanges(writerMap, [mem[writerMap].header EXCEPT !.index = index])
<1>1. writerMap \in Files /\ mem[writerMap].header \in Headers /\ mem[writerMap].slots[index] \in Frame /\ index \in Slot
  BY WriterFile, IndexIsSlot DEF Store, SetHeader, StorePart
<1>2. /\ [mem[writerMap].header EXCEPT !.index = index] \in Headers
      /\ [mem[writerMap].slots[index] EXCEPT !.top = frames] \in Frame
      /\ [mem[writerMap].slots[index] EXCEPT !.bottom = frames] \in Frame
  BY <1>1, RingAssumption DEF Headers, Frame, Slot, RingTypes
<1>3. CASE StorePart("top", "top", "bottom")
  BY <1>1, <1>2, <1>3, SlotSet DEF StorePart
<1>4. CASE StorePart("bottom", "bottom", "lastIndex")
  BY <1>1, <1>2, <1>4, SlotSet DEF StorePart
<1>5. CASE SetHeader("lastIndex", "index", index, "lastTime")
  BY <1>1, <1>2, <1>5, HeaderSet DEF SetHeader
<1> QED
  BY <1>3, <1>4, <1>5 DEF Store

LEMMA StoreStampChanges ==
  ASSUME RingTypes, StoreStamp
  PROVE  SlotChanges(writerMap, index, [mem[writerMap].slots[index] EXCEPT !.stamp = frames + 1])
<1>1. mem[writerMap].slots[index] \in Frame
  BY WriterFile DEF StoreStamp
<1>2. [mem[writerMap].slots[index] EXCEPT !.stamp = frames + 1] \in Frame
  BY <1>1 DEF Frame, RingTypes
<1> QED
  BY <1>1, <1>2, SlotSet DEF StoreStamp

LEMMA StoreTimeChanges ==
  ASSUME RingTypes, StoreTime
  PROVE  HeaderChanges(writerMap, [mem[writerMap].header EXCEPT !.time = frames])
<1>1. mem[writerMap].header \in Headers
  BY WriterFile DEF StoreTime
<1>2. [mem[writerMap].header EXCEPT !.time = frames] \in Headers
  BY <1>1 DEF Headers, RingTypes
<1> QED
  BY <1>1, <1>2, HeaderSet DEF StoreTime

LEMMA WipedChanges ==
  ASSUME RingTypes, Clear \/ WriterDetaches
  PROVE  IsWiped(writerMap)
  BY OneIsWiped DEF RingTypes, Clear, WriterDetaches

LEMMA AttachChanges ==
  ASSUME RingTypes, WriterAttaches
  PROVE  SizeChanges(writerMap, "ring")
  BY OneSizeChanges DEF RingTypes, WriterAttaches

LEMMA ReaderAttachChanges ==
  ASSUME RingTypes, ReaderAttaches
  PROVE  SizeChanges(readerMap, length) \/ mem' = mem
<1>1. length \in {"none", "header", "ring"} /\ readerMap \in Files
  BY DEF length, RingTypes, ReaderAttaches
<1> QED
  BY <1>1, OneSizeChanges DEF RingTypes, ReaderAttaches

LEMMA TriggerChanges ==
  ASSUME RingTypes, TriggerAttaches \/ TriggerDetaches
  PROVE  /\ mem' \in [Files -> Memory] /\ triggerMap \in Files
         /\ \A g \in Files : mem'[g].slots = mem[g].slots /\ (g # triggerMap => mem'[g].header = mem[g].header)
         /\ mem'[triggerMap].header.time = 0
<1>1. triggerMap \in Files /\ mem \in [Files -> Memory]
  BY DEF RingTypes, TriggerAttaches, TriggerDetaches
<1>2. Header \in Headers /\ [Header EXCEPT !.valid = TRUE] \in Headers
      /\ Header.time = 0 /\ [Header EXCEPT !.valid = TRUE].time = 0
  BY HeaderFields DEF Header
<1> DEFINE Changed(m, h) == /\ m \in [Files -> Memory] /\ h \in Headers /\ h.time = 0
                            /\ \A g \in Files : m[g].slots = mem[g].slots /\ m[g].header = mem[g].header
                            /\ mem' = [m EXCEPT ![triggerMap].header = h]
<1>3. \E m, h : Changed(m, h)
  <2>1. CASE TriggerAttaches
    <3> DEFINE m == Extended(triggerMap, "header")
    <3>1. m \in [Files -> Memory] /\ \A g \in Files : m[g].slots = mem[g].slots /\ m[g].header = mem[g].header
      BY <1>1 DEF Extended, Memory
    <3>2. mem' = [m EXCEPT ![triggerMap].header = [Header EXCEPT !.valid = TRUE]]
      BY <2>1 DEF TriggerAttaches
    <3> HIDE DEF m
    <3>3. Changed(m, [Header EXCEPT !.valid = TRUE])
      BY <1>2, <3>1, <3>2
    <3> QED
      BY <3>3
  <2>2. CASE TriggerDetaches
    <3>1. Changed(mem, Header)
      BY <1>1, <1>2, <2>2 DEF TriggerDetaches
    <3> QED
      BY <3>1
  <2> QED
    BY <2>1, <2>2
<1>4. PICK m, h : Changed(m, h)
  BY <1>3
<1>5. mem'[triggerMap] = [m[triggerMap] EXCEPT !.header = h] /\ \A g \in Files : g # triggerMap => mem'[g] = m[g]
  BY <1>1, <1>4
<1>6. mem'[triggerMap].header = h /\ mem'[triggerMap].slots = m[triggerMap].slots
  BY <1>1, <1>4, <1>5 DEF Memory
<1>7. mem' \in [Files -> Memory]
  BY <1>1, <1>4 DEF Memory
<1> QED
  BY <1>1, <1>4, <1>5, <1>6, <1>7

LEMMA RingTypesInit == RingInit => RingTypes
<1> SUFFICES ASSUME RingInit PROVE RingTypes
  OBVIOUS
<1>1. Header \in Headers /\ Blank \in Frame /\ [i \in Slot |-> Blank] \in Slots
  BY HeaderFields DEF Blank, Frame, Slots
<1>2. mem \in [Files -> Memory]
  BY <1>1 DEF RingInit, Memory
<1>3. 0 \in 0 .. ImageCount
  BY RingAssumption
<1>4. NoLoad \in [index : 0 .. ImageCount, frame : Frame, stored : Nat, disturbed : BOOLEAN]
  BY <1>1, <1>3 DEF NoLoad
<1>5. NoDelivery \in [frame : Frame, stored : Nat, disturbed : BOOLEAN, times : Nat]
  BY <1>1 DEF NoDelivery
<1> QED
  BY <1>2, <1>4, <1>5 DEF RingInit, RingTypes, Storing, Attached, Loading

LEMMA RingTypesStep ==
  ASSUME RingTypes, [RingNext]_ringVars
  PROVE  RingTypes'
<1> USE RingAssumption
<1>0. index \in Slot
  BY IndexIsSlot
<1>1. CASE WriterOpens
  BY <1>1 DEF WriterOpens, OpenFile, Opened, RingTypes, Files, triggerVars, readerVars, Storing, Loading
<1>2. CASE WriterAttaches
  <2>1. mem' \in [Files -> Memory]
    BY <1>2, AttachChanges DEF SizeChanges
  <2> QED
    BY <1>2, <2>1 DEF WriterAttaches, triggerVars, readerVars, Storing, Loading, RingTypes, Files
<1>3. CASE WriterFails
  BY <1>3 DEF WriterFails, RingTypes, Files, triggerVars, readerVars, Storing, Loading
<1>4. CASE Clear
  <2>1. mem' \in [Files -> Memory]
    BY <1>4, WipedChanges DEF IsWiped
  <2>2. loading' \in [index : 0 .. ImageCount, frame : Frame, stored : Nat, disturbed : BOOLEAN] /\ loading'.index = loading.index
    BY <1>4 DEF Clear, Disturbed, RingTypes
  <2>3. causes' \in SUBSET {"gone", "early", "halfway", "trigger"}
    BY <1>4 DEF Clear, Disturbed, RingTypes
  <2> QED
    BY <1>4, <2>1, <2>2, <2>3 DEF Clear, triggerVars, Storing, Loading, RingTypes, Files
<1>5. CASE Initialise
  <2>1. mem' \in [Files -> Memory]
    BY <1>5, InitialiseChanges DEF HeaderChanges
  <2> QED
    BY <1>5, <2>1 DEF Initialise, SetHeader, triggerVars, readerVars, Storing, Loading, RingTypes, Files
<1>6. CASE StoreStamp
  <2>1. mem' \in [Files -> Memory]
    BY <1>6, StoreStampChanges DEF SlotChanges
  <2>2. loading' \in [index : 0 .. ImageCount, frame : Frame, stored : Nat, disturbed : BOOLEAN]
    BY <1>6 DEF StoreStamp, RingTypes
  <2>3. loading'.index = loading.index
    BY <1>6 DEF StoreStamp, RingTypes
  <2> QED
    BY <1>6, <2>1, <2>2, <2>3, SMTT(30) DEF StoreStamp, triggerVars, Storing, Loading, RingTypes, Files
<1>7. CASE Store
  <2>1. mem' \in [Files -> Memory]
    BY <1>7, StoreChanges DEF SlotChanges, HeaderChanges
  <2> QED
    BY <1>0, <1>7, <2>1 DEF Store, StorePart, SetHeader, triggerVars, readerVars, Storing, Loading, RingTypes, Files
<1>8. CASE StoreTime
  <2>1. mem' \in [Files -> Memory]
    BY <1>8, StoreTimeChanges DEF HeaderChanges
  <2> QED
    BY <1>8, <2>1 DEF StoreTime, triggerVars, readerVars, Storing, Loading, RingTypes, Files
<1>9. CASE WriterDetaches
  <2>1. mem' \in [Files -> Memory]
    BY <1>9, WipedChanges DEF IsWiped
  <2>2. loading' \in [index : 0 .. ImageCount, frame : Frame, stored : Nat, disturbed : BOOLEAN] /\ loading'.index = loading.index
    BY <1>9 DEF WriterDetaches, Disturbed, RingTypes
  <2>3. causes' \in SUBSET {"gone", "early", "halfway", "trigger"}
    BY <1>9 DEF WriterDetaches, Disturbed, RingTypes
  <2> QED
    BY <1>9, <2>1, <2>2, <2>3 DEF WriterDetaches, triggerVars, Storing, Loading, RingTypes, Files
<1>10. CASE WriterUnlinks
  BY <1>10 DEF WriterUnlinks, RingTypes, Files, triggerVars, readerVars, Storing, Loading
<1>11. CASE WriterCrashes
  BY <1>11 DEF WriterCrashes, RingTypes, Files, triggerVars, readerVars, Storing, Loading
<1>12. CASE TriggerOpens
  BY <1>12 DEF TriggerOpens, OpenFile, Opened, RingTypes, Files, writerVars, readerVars, Storing, Loading
<1>13. CASE TriggerAttaches
  <2>1. mem' \in [Files -> Memory]
    BY <1>13, TriggerChanges
  <2>2. loading' \in [index : 0 .. ImageCount, frame : Frame, stored : Nat, disturbed : BOOLEAN] /\ loading'.index = loading.index
    BY <1>13 DEF TriggerAttaches, Disturbed, RingTypes
  <2>3. causes' \in SUBSET {"gone", "early", "halfway", "trigger"}
    BY <1>13 DEF TriggerAttaches, RingTypes
  <2> QED
    BY <1>13, <2>1, <2>2, <2>3 DEF TriggerAttaches, writerVars, Storing, Loading, RingTypes, Files
<1>14. CASE TriggerDetaches
  <2>1. mem' \in [Files -> Memory]
    BY <1>14, TriggerChanges
  <2>2. loading' \in [index : 0 .. ImageCount, frame : Frame, stored : Nat, disturbed : BOOLEAN] /\ loading'.index = loading.index
    BY <1>14 DEF TriggerDetaches, Disturbed, RingTypes
  <2>3. causes' \in SUBSET {"gone", "early", "halfway", "trigger"}
    BY <1>14 DEF TriggerDetaches, Disturbed, RingTypes
  <2> QED
    BY <1>14, <2>1, <2>2, <2>3 DEF TriggerDetaches, writerVars, Storing, Loading, RingTypes, Files
<1>15. CASE Query
  <2>1. mem[file].header.count \in {0, ImageCount}
    BY <1>15 DEF Query, RingTypes, Memory, Headers
  <2> QED
    BY <1>15, <2>1 DEF Query, RingTypes, Files, writerVars, triggerVars, Storing, Loading, Attached
<1>16. CASE ReaderOpens
  BY <1>16 DEF ReaderOpens, OpenFile, Opened, RingTypes, Files, writerVars, triggerVars, Storing, Loading, Attached
<1>17. CASE ReaderAttaches
  <2>1. mem' \in [Files -> Memory]
    BY <1>17, ReaderAttachChanges DEF SizeChanges, RingTypes
  <2> QED
    BY <1>17, <2>1 DEF ReaderAttaches, writerVars, triggerVars, Storing, Loading, Attached, RingTypes, Files
<1>18. CASE NotValid \/ Stopped
  BY <1>18 DEF NotValid, Stopped, RingTypes, Files, writerVars, triggerVars, Storing, Loading, Attached
<1>19. CASE Poll
  BY <1>19 DEF Poll, RingTypes, Files, writerVars, triggerVars, Storing, Loading, Attached
<1>20. CASE Load
  <2>1. head.index \in 0 .. ImageCount /\ Blank \in Frame
    BY <1>20, ReaderFile DEF Load, Headers, Blank, Frame
  <2>2. /\ reader = "load" /\ reader' \in {"failed", "top", "undefined"}
        /\ reader' = "top" => head.index \in Slot
    BY <1>20 DEF Load
  <2>3. loading' = [NoLoad EXCEPT !.index = head.index, !.disturbed = loading.disturbed]
    BY <1>20 DEF Load
  <2>4. UNCHANGED << setting, file, mem, made, writerVars, triggerVars, readerMap, queried, last, delivered, causes >>
    BY <1>20 DEF Load
  <2>5. loading' \in [index : 0 .. ImageCount, frame : Frame, stored : Nat, disturbed : BOOLEAN] /\ loading'.index = head.index
    BY <2>1, <2>3 DEF NoLoad, RingTypes
  <2>6. reader \in Attached /\ reader' \in Attached \cup {"failed", "undefined"} /\ (Loading' => loading'.index \in Slot)
    BY <2>2, <2>5 DEF Attached, Loading
  <2>7. readerMap \in Files /\ reader' \notin {"query", "open"}
    BY <2>2 DEF RingTypes
  <2>8. reader' \in {"query", "open", "attach", "failed", "exited", "undefined", "stopped"} \cup Attached
    BY <2>6
  <2>9. readerMap' \in Files \cup {0} /\ (readerMap' = 0 <=> reader' \in {"query", "open"})
    BY <2>4, <2>7 DEF Files
  <2> QED
    BY <2>4, <2>5, <2>6, <2>8, <2>9, SMTT(30) DEF RingTypes, Files, writerVars, triggerVars
<1>21. CASE LoadImage
  <2>1. mem[readerMap].slots[loading.index] \in Frame
    BY <1>21, ReaderFile DEF LoadImage, LoadPart, Loading, Slots, RingTypes
  <2>2. loading' \in [index : 0 .. ImageCount, frame : Frame, stored : Nat, disturbed : BOOLEAN] /\ loading'.index = loading.index
    BY <1>21, <2>1 DEF LoadImage, LoadPart, RingTypes, Frame
  <2> QED
    BY <1>21, <2>2, SMTT(30) DEF LoadImage, LoadPart, RingTypes, Files, writerVars, triggerVars, Storing, Attached, Loading, Slot
<1>22. CASE Deliver
  <2>1. head.index \in 0 .. ImageCount /\ head.time \in Nat /\ Blank \in Frame
    BY <1>22, ReaderFile DEF Deliver, Headers, Blank, Frame
  <2>2. loading' \in [index : 0 .. ImageCount, frame : Frame, stored : Nat, disturbed : BOOLEAN]
    BY <1>22 DEF Deliver, NoLoad, RingTypes, Blank, Frame
  <2>3. delivered' \in [frame : Frame, stored : Nat, disturbed : BOOLEAN, times : Nat]
    BY <1>22 DEF Deliver, RingTypes
  <2> QED
    BY <1>22, <2>1, <2>2, <2>3, SMTT(30) DEF Deliver, Seen, RingTypes, Files, writerVars, triggerVars, Storing, Attached, Loading
<1>23. CASE StopEarly
  BY <1>23 DEF StopEarly, RingTypes, Files, writerVars, triggerVars, Storing, Loading, Attached
<1>24. CASE UNCHANGED ringVars
  BY <1>24 DEF ringVars, RingTypes, Files, writerVars, triggerVars, readerVars, Storing, Loading, Attached
<1> QED
  BY <1>1, <1>2, <1>3, <1>4, <1>5, <1>6, <1>7, <1>8, <1>9, <1>10, <1>11, <1>12, <1>13, <1>14,
     <1>15, <1>16, <1>17, <1>18, <1>19, <1>20, <1>21, <1>22, <1>23, <1>24
     DEF RingNext, WriterStep, TriggerStep, ReaderStep

-----------------------------------------------------------------------------
(* Steps that leave the files and the writer alone. *)
RingQuiet ==
    /\ UNCHANGED << setting, mem, file, writer, writerMap, frames, mImageCount >>
    /\ "trigger" \in causes => "trigger" \in causes'

RingQuietStep == Query \/ StopEarly \/ Stopped \/ NotValid \/ Poll \/ Load \/ LoadImage \/ Deliver \/ UNCHANGED ringVars

LEMMA RingQuietSteps ==
  ASSUME RingQuietStep
  PROVE  RingQuiet
  BY DEF RingQuietStep, Query, StopEarly, Stopped, NotValid, Poll, Load, LoadImage, LoadPart, Deliver,
         ringVars, writerVars, readerVars, RingQuiet

(* Steps of a trigger that has cleared the memory. *)
LEMMA TriggerTouches ==
  ASSUME CausesKept, TriggerAttaches \/ TriggerDetaches
  PROVE  ~Untouched'
  BY DEF TriggerAttaches, TriggerDetaches, CausesKept, Untouched

(* Steps that open the file. *)
OpenStep == WriterOpens \/ ReaderOpens \/ TriggerOpens

LEMMA RingSteps ==
  ASSUME [RingNext]_ringVars
  PROVE  \/ RingQuietStep \/ OpenStep \/ WriterAttaches \/ WriterFails \/ Clear \/ Initialise \/ StoreStamp \/ Store
         \/ StoreTime \/ WriterDetaches \/ WriterUnlinks \/ WriterCrashes \/ TriggerAttaches \/ TriggerDetaches
         \/ ReaderAttaches
  BY DEF RingNext, WriterStep, TriggerStep, ReaderStep, RingQuietStep, OpenStep

(* A writer with the file changes one header or slot of it, or wipes it. *)
LEMMA WriterChanges ==
  ASSUME RingTypes, Clear \/ Initialise \/ StoreStamp \/ Store \/ StoreTime \/ WriterDetaches
  PROVE  \/ IsWiped(writerMap)
         \/ \E h \in Headers : HeaderChanges(writerMap, h)
         \/ \E s \in Frame : SlotChanges(writerMap, index, s)
<1>1. CASE Clear \/ WriterDetaches
  BY <1>1, WipedChanges
<1>2. CASE Initialise
  BY <1>2, InitialiseChanges, WriterFile, HeaderFields DEF Initialise, SetHeader
<1>3. CASE StoreStamp
  <2>1. SlotChanges(writerMap, index, mem'[writerMap].slots[index])
    BY <1>3, StoreStampChanges DEF SlotChanges
  <2>2. mem'[writerMap].slots[index] \in Frame
    BY <1>3, <2>1, WriterFile, IndexIsSlot DEF StoreStamp, SlotChanges, Memory, Slots
  <2> QED
    BY <2>1, <2>2
<1>4. CASE Store
  <2>1. \/ SlotChanges(writerMap, index, mem'[writerMap].slots[index])
        \/ HeaderChanges(writerMap, mem'[writerMap].header)
    BY <1>4, StoreChanges DEF SlotChanges, HeaderChanges
  <2>2. mem'[writerMap].slots[index] \in Frame /\ mem'[writerMap].header \in Headers
    BY <1>4, <2>1, WriterFile, IndexIsSlot DEF Store, StorePart, SetHeader, SlotChanges, HeaderChanges, Memory, Slots
  <2> QED
    BY <2>1, <2>2
<1>5. CASE StoreTime
  <2>1. HeaderChanges(writerMap, mem'[writerMap].header)
    BY <1>5, StoreTimeChanges DEF HeaderChanges
  <2>2. mem'[writerMap].header \in Headers
    BY <1>5, <2>1, WriterFile DEF StoreTime, HeaderChanges, Memory
  <2> QED
    BY <2>1, <2>2
<1> QED
  BY <1>1, <1>2, <1>3, <1>4, <1>5

(* What no step changes, and what no step takes back. *)
LEMMA RingKept ==
  ASSUME RingTypes, [RingNext]_ringVars
  PROVE  /\ setting' = setting /\ Files' = Files
         /\ \A c \in causes : c = "gone" \/ c \in causes'
         /\ Untouched' => Untouched
         /\ loading.disturbed => loading'.disturbed
         /\ Undisturbed' => Undisturbed
<1>1. setting' = setting
  BY DEF RingNext, WriterStep, TriggerStep, ReaderStep, ringVars, WriterOpens, WriterAttaches, WriterFails, Clear,
           Initialise, SetHeader, StoreStamp, Store, StorePart, StoreTime, WriterDetaches, WriterUnlinks, WriterCrashes,
           TriggerOpens, TriggerAttaches, TriggerDetaches, Query, ReaderOpens, ReaderAttaches, NotValid, Stopped, Poll,
           Load, LoadImage, LoadPart, Deliver, StopEarly
<1>2. \A c \in causes : c = "gone" \/ c \in causes'
  BY DEF RingNext, WriterStep, TriggerStep, ReaderStep, ringVars, WriterOpens, WriterAttaches, WriterFails, Clear,
           Initialise, SetHeader, StoreStamp, Store, StorePart, StoreTime, WriterDetaches, WriterUnlinks, WriterCrashes,
           TriggerOpens, TriggerAttaches, TriggerDetaches, Query, ReaderOpens, ReaderAttaches, NotValid, Stopped, Poll,
           Load, LoadImage, LoadPart, Deliver, StopEarly
<1>3. loading.disturbed => loading'.disturbed
  BY DEF RingNext, WriterStep, TriggerStep, ReaderStep, ringVars, WriterOpens, WriterAttaches, WriterFails, Clear,
           Initialise, SetHeader, StoreStamp, Store, StorePart, StoreTime, WriterDetaches, WriterUnlinks, WriterCrashes,
           TriggerOpens, TriggerAttaches, TriggerDetaches, Query, ReaderOpens, ReaderAttaches, NotValid, Stopped, Poll,
           Load, LoadImage, LoadPart, Deliver, StopEarly, Disturbed, NoLoad, RingTypes,
           writerVars, triggerVars, readerVars
<1> QED
  BY <1>1, <1>2, <1>3 DEF Files, Untouched, Undisturbed

LEMMA OneFileStep ==
  ASSUME RingTypes, OneFile, WriterGoesOn, CausesKept, [RingNext]_ringVars
  PROVE  OneFile'
<1>1. CASE RingQuietStep
  BY <1>1, RingQuietSteps DEF RingQuiet, OneFile, Untouched, Files
<1>2. CASE OpenStep
  <2>1. file' = (IF file = 0 THEN made + 1 ELSE file) /\ mem' = mem /\ causes' = causes /\ setting' = setting
    BY <1>2 DEF OpenStep, WriterOpens, ReaderOpens, TriggerOpens, OpenFile, Opened
  <2>2. \/ UNCHANGED << writer, writerMap >>
        \/ writer' = "attach" /\ writerMap' = file'
    BY <1>2 DEF OpenStep, WriterOpens, ReaderOpens, TriggerOpens, OpenFile, writerVars
  <2>3. Untouched /\ file = 0 => writer \in {"off", "failed"}
    BY DEF OneFile, RingTypes
  <2>4. Untouched /\ file = 0 => \A f \in Files : mem[f].header = Header
    BY DEF OneFile, Files, RingTypes
  <2> QED
    BY <2>1, <2>2, <2>3, <2>4 DEF OneFile, Untouched, Files
<1>3. CASE WriterAttaches
  <2>1. SizeChanges(writerMap, "ring")
    BY <1>3, AttachChanges
  <2>2. Fits(writerMap, "ring") => mem'[writerMap].size = "ring"
    BY <2>1 DEF Fits, SizeChanges
  <2> QED
    BY <1>3, <2>1, <2>2 DEF WriterAttaches, SizeChanges, OneFile, Untouched, Files, RingTypes
<1>4. CASE WriterFails
  BY <1>4 DEF WriterFails, Fits, OneFile, Untouched, Files
<1>5. CASE Clear \/ Initialise \/ StoreStamp \/ Store \/ StoreTime \/ WriterDetaches
  <2>1. \A f \in Files : mem'[f].size = mem[f].size /\ (f # writerMap => mem'[f].header = mem[f].header)
    BY <1>5, WriterChanges DEF IsWiped, HeaderChanges, SlotChanges
  <2>2. writer \notin {"off", "failed", "attach"} /\ UNCHANGED << setting, file, writerMap >>
        /\ ("trigger" \in causes => "trigger" \in causes')
    BY <1>5 DEF Clear, Initialise, SetHeader, StoreStamp, Store, StorePart, StoreTime, WriterDetaches
  <2>3. Untouched' => Untouched
    BY <2>2 DEF Untouched
  <2>4. Untouched => writerMap = file /\ mem[writerMap].size = "ring" /\ writerMap \in Files
    BY <2>2 DEF OneFile, RingTypes
  <2>5. Files' = Files
    BY <2>2 DEF Files
  <2>6. ASSUME Untouched', NEW f \in Files, f # file \/ mem'[f].size # "ring"
        PROVE  mem'[f].header = Header
    <3>1. f # writerMap /\ (f # file \/ mem[f].size # "ring")
      BY <2>1, <2>3, <2>4, <2>6
    <3> QED
      BY <2>1, <2>3, <2>6, <3>1 DEF OneFile
  <2>7. Untouched' => mem'[writerMap].size = "ring"
    BY <2>1, <2>3, <2>4
  <2> QED
    BY <2>2, <2>3, <2>4, <2>5, <2>6, <2>7 DEF OneFile
<1>11. CASE WriterUnlinks
  BY <1>11 DEF WriterUnlinks, WriterGoesOn, HeaderOfWriter, OneFile, Untouched, Files
<1>12. CASE WriterCrashes
  BY <1>12 DEF WriterCrashes, OneFile, Untouched, Files
<1>13. CASE TriggerAttaches \/ TriggerDetaches
  BY <1>13, TriggerTouches DEF OneFile
<1>14. CASE ReaderAttaches
  <2>1. mem' = mem \/ SizeChanges(readerMap, length)
    BY <1>14, ReaderAttachChanges
  <2>2. "trigger" \in causes => "trigger" \in causes'
    BY <1>14 DEF ReaderAttaches
  <2>3. \A f \in Files : mem'[f].header = mem[f].header /\ (mem[f].size = "ring" => mem'[f].size = "ring")
    BY <2>1 DEF SizeChanges
  <2> QED
    BY <1>14, <2>2, <2>3 DEF ReaderAttaches, writerVars, OneFile, Untouched, Files, RingTypes
<1> QED
  BY <1>1, <1>2, <1>3, <1>4, <1>5, <1>11, <1>12, <1>13, <1>14, RingSteps

(* The slot after one is the next, round the ring. *)
LEMMA NextSlot ==
  ASSUME NEW a \in Nat, NEW n \in Nat \ {0}
  PROVE  a % n = (IF (a + 1) % n = 0 THEN n - 1 ELSE ((a + 1) % n) - 1)
<1> DEFINE q == a \div n
           r == a % n
<1>1. q \in Int /\ r \in 0 .. n - 1 /\ a = n * q + r
  OBVIOUS
<1>2. CASE r = n - 1
  <2>1. a + 1 = n * (q + 1)
    BY <1>1, <1>2
  <2>2. (n * (q + 1)) % n = 0
    BY <1>1
  <2> QED
    BY <1>2, <2>1, <2>2
<1>3. CASE r # n - 1
  <2>1. a + 1 = n * q + (r + 1) /\ r + 1 \in 0 .. n - 1
    BY <1>1, <1>3
  <2> HIDE DEF q, r
  <2>2. (n * q + (r + 1)) % n = r + 1
    BY <2>1, <1>1
  <2> QED
    BY <1>3, <1>1, <2>1, <2>2 DEF r
<1> QED
  BY <1>2, <1>3

LEMMA WriterGoesOnStep ==
  ASSUME RingTypes, OneFile, WriterGoesOn, CausesKept, [RingNext]_ringVars
  PROVE  WriterGoesOn'
<1>0. writer \notin {"off", "failed"} => /\ writerMap \in Files /\ mem[writerMap].header \in Headers
                                         /\ mem[writerMap].slots \in Slots /\ mem[writerMap].slots[index] \in Frame
  BY WriterFile
<1>1. CASE RingQuietStep
  BY <1>1, RingQuietSteps DEF RingQuiet, WriterGoesOn, Untouched, HeaderOfWriter, SlotOfWriter, index
<1>2. CASE WriterOpens
  BY <1>2 DEF WriterOpens, WriterGoesOn, HeaderOfWriter, SlotOfWriter, Storing
<1>3. CASE ReaderOpens \/ TriggerOpens
  BY <1>3 DEF ReaderOpens, TriggerOpens, writerVars, WriterGoesOn, Untouched, HeaderOfWriter, SlotOfWriter, index
<1>4. CASE WriterAttaches
  BY <1>4 DEF WriterAttaches, WriterGoesOn, HeaderOfWriter, SlotOfWriter, Storing
<1>5. CASE WriterFails \/ WriterUnlinks \/ WriterCrashes
  BY <1>5 DEF WriterFails, WriterUnlinks, WriterCrashes, WriterGoesOn, HeaderOfWriter, SlotOfWriter, Storing
<1>6. CASE Clear \/ WriterDetaches
  <2>1. mem'[writerMap].header = Header
    BY <1>6, WipedChanges DEF IsWiped
  <2> QED
    BY <1>6, <2>1 DEF Clear, WriterDetaches, WriterGoesOn, HeaderOfWriter, SlotOfWriter, Storing
<1>7. CASE Initialise
  <2>1. UNCHANGED << writerMap, mImageCount, causes >> /\ writer \in {"valid", "index", "count"}
    BY <1>7 DEF Initialise, SetHeader
  <2>2. mImageCount = 0 /\ (Untouched => HeaderOfWriter(mem[writerMap].header))
    BY <2>1 DEF WriterGoesOn
  <2>3. index = 0
    BY <2>2, RingAssumption DEF index
  <2>4. CASE writer = "valid"
    <3>1. writer' = "index" /\ HeaderChanges(writerMap, [mem[writerMap].header EXCEPT !.valid = TRUE])
      BY <1>7, <2>4, InitialiseChanges DEF Initialise, SetHeader
    <3> QED
      BY <2>1, <2>2, <2>4, <3>1 DEF HeaderChanges, WriterGoesOn, HeaderOfWriter, SlotOfWriter, Storing, Untouched
  <2>5. CASE writer = "index"
    <3>1. writer' = "count" /\ HeaderChanges(writerMap, [mem[writerMap].header EXCEPT !.index = ImageCount])
      BY <1>7, <2>5, InitialiseChanges DEF Initialise, SetHeader
    <3> QED
      BY <2>1, <2>2, <2>5, <3>1 DEF HeaderChanges, WriterGoesOn, HeaderOfWriter, SlotOfWriter, Storing, Untouched, Header
  <2>6. CASE writer = "count"
    <3>1. writer' = "run" /\ HeaderChanges(writerMap, [mem[writerMap].header EXCEPT !.count = ImageCount])
      BY <1>7, <2>6, InitialiseChanges DEF Initialise, SetHeader
    <3> QED
      BY <2>1, <2>2, <2>6, <3>1 DEF HeaderChanges, WriterGoesOn, HeaderOfWriter, SlotOfWriter, Storing, Untouched, Header
  <2> QED
    BY <2>1, <2>4, <2>5, <2>6
<1>8. CASE StoreStamp
  <2>1. UNCHANGED << writerMap, mImageCount, causes >> /\ writer = "run" /\ writer' = "top" /\ frames' = frames + 1
    BY <1>8 DEF StoreStamp
  <2>2. mem'[writerMap].header = mem[writerMap].header /\ mem'[writerMap].slots[index].stamp = frames + 1
    BY <1>0, <1>8, <2>1, StoreStampChanges DEF SlotChanges, Frame
  <2> QED
    BY <2>1, <2>2 DEF WriterGoesOn, HeaderOfWriter, SlotOfWriter, Storing, Untouched, index, RingTypes
<1>9. CASE Store
  <2>1. UNCHANGED << writerMap, mImageCount, causes, frames >> /\ writer \in {"top", "bottom", "lastIndex"}
    BY <1>9 DEF Store, StorePart, SetHeader
  <2>2. index' = index
    BY <2>1 DEF index
  <2>4. CASE writer = "top"
    <3>1. writer' = "bottom" /\ SlotChanges(writerMap, index, [mem[writerMap].slots[index] EXCEPT !.top = frames])
      BY <1>9, <2>4, StoreChanges DEF Store, StorePart, SetHeader
    <3> QED
      BY <1>0, <2>1, <2>2, <2>4, <3>1 DEF SlotChanges, WriterGoesOn, HeaderOfWriter, SlotOfWriter, Storing, Untouched, Frame
  <2>5. CASE writer = "bottom"
    <3>1. writer' = "lastIndex" /\ SlotChanges(writerMap, index, [mem[writerMap].slots[index] EXCEPT !.bottom = frames])
      BY <1>9, <2>5, StoreChanges DEF Store, StorePart, SetHeader
    <3> QED
      BY <1>0, <2>1, <2>2, <2>5, <3>1 DEF SlotChanges, WriterGoesOn, HeaderOfWriter, SlotOfWriter, Storing, Untouched, Frame
  <2>6. CASE writer = "lastIndex"
    <3>1. writer' = "lastTime" /\ HeaderChanges(writerMap, [mem[writerMap].header EXCEPT !.index = index])
      BY <1>9, <2>6, StoreChanges DEF Store, StorePart, SetHeader
    <3> QED
      BY <1>0, <2>1, <2>2, <2>6, <3>1 DEF HeaderChanges, WriterGoesOn, HeaderOfWriter, SlotOfWriter, Storing, Untouched, Headers
  <2> QED
    BY <2>1, <2>4, <2>5, <2>6
<1>10. CASE StoreTime
  <2>1. UNCHANGED << writerMap, causes, frames >> /\ mImageCount' = mImageCount + 1 /\ writer = "lastTime" /\ writer' = "run"
    BY <1>10 DEF StoreTime
  <2>2. index = Before(index')
    BY <2>1, NextSlot, RingAssumption DEF index, Before, RingTypes
  <2>3. HeaderChanges(writerMap, [mem[writerMap].header EXCEPT !.time = frames]) /\ mImageCount' # 0
    BY <1>10, <2>1, StoreTimeChanges DEF RingTypes
  <2> QED
    BY <1>0, <2>1, <2>2, <2>3 DEF HeaderChanges, WriterGoesOn, HeaderOfWriter, SlotOfWriter, Storing, Untouched, Headers
<1>11. CASE TriggerAttaches \/ TriggerDetaches
  <2>1. writer \notin {"off", "failed"} => mem'[writerMap].slots = mem[writerMap].slots
    BY <1>0, <1>11, TriggerChanges
  <2>2. UNCHANGED << writer, writerMap, frames, mImageCount >> /\ ~Untouched'
    BY <1>11, TriggerTouches DEF TriggerAttaches, TriggerDetaches, writerVars
  <2> QED
    BY <2>1, <2>2 DEF WriterGoesOn, SlotOfWriter, Storing, index
<1>12. CASE ReaderAttaches
  <2>1. \A f \in Files : mem'[f].header = mem[f].header /\ mem'[f].slots = mem[f].slots
    BY <1>12, ReaderAttachChanges DEF SizeChanges
  <2>2. /\ UNCHANGED << writer, writerMap, frames, mImageCount >>
        /\ "trigger" \in causes => "trigger" \in causes'
    BY <1>12 DEF ReaderAttaches, writerVars
  <2> QED
    BY <1>0, <2>1, <2>2 DEF WriterGoesOn, Untouched, HeaderOfWriter, SlotOfWriter, index, Storing, RingTypes
<1> QED
  BY <1>1, <1>2, <1>3, <1>4, <1>5, <1>6, <1>7, <1>8, <1>9, <1>10, <1>11, <1>12, RingSteps DEF OpenStep

(* HeadersShowFrames, of one file. *)
ShowsFrames(f) ==
    /\ mem[f].header.valid /\ mImageCount > 0 => Shown(f)
    /\ mem[f].header.time > 0 => Shown(f)
    /\ Shown(f) /\ ImageCount > 1 => Whole(mem[f].slots[mem[f].header.index])

LEMMA HeaderShowsNothing ==
  /\ ~Header.valid /\ Header.time = 0 /\ Header.count # ImageCount
  BY RingAssumption DEF Header

LEMMA BeforeIsOther ==
  ASSUME RingTypes, ImageCount > 1
  PROVE  Before(index) # index /\ Before(index) \in Slot
  BY IndexIsSlot, RingAssumption DEF Before, Slot

LEMMA HeadersShowFramesStep ==
  ASSUME RingTypes, OneFile, WriterGoesOn, HeadersShowFrames, CausesKept, [RingNext]_ringVars
  PROVE  HeadersShowFrames'
<1> SUFFICES ASSUME Untouched', NEW f \in Files
             PROVE  ShowsFrames(f)'
  BY RingKept DEF HeadersShowFrames, ShowsFrames
<1>0. Untouched
  BY RingKept
<1>1. ShowsFrames(f)
  BY <1>0 DEF HeadersShowFrames, ShowsFrames
<1>2. writer \notin {"off", "failed"} =>
          /\ writerMap = file /\ writerMap \in Files
          /\ mem[writerMap].header \in Headers /\ mem[writerMap].slots \in Slots /\ mem[writerMap].slots[index] \in Frame
          /\ HeaderOfWriter(mem[writerMap].header) /\ SlotOfWriter(mem[writerMap].slots[index])
  BY <1>0, WriterFile DEF OneFile, WriterGoesOn
<1>3. writer \notin {"off", "failed"} /\ f # writerMap => mem[f].header = Header
  BY <1>0, <1>2 DEF OneFile
<1>4. index \in Slot /\ ImageCount \in Nat \ {0}
  BY IndexIsSlot, RingAssumption
<1>5. CASE UNCHANGED mem /\ mImageCount' \in {0, mImageCount}
  BY <1>1, <1>5 DEF ShowsFrames, Shown
<1>6. CASE WriterAttaches \/ ReaderAttaches
  <2>1. mem'[f].header = mem[f].header /\ mem'[f].slots = mem[f].slots
    BY <1>6, AttachChanges, ReaderAttachChanges DEF SizeChanges
  <2>2. mImageCount' = mImageCount
    BY <1>6 DEF WriterAttaches, ReaderAttaches, writerVars
  <2> QED
    BY <1>1, <2>1, <2>2 DEF ShowsFrames, Shown
<1>7. CASE Clear \/ WriterDetaches
  <2>1. mImageCount' = mImageCount
    BY <1>7 DEF Clear, WriterDetaches
  <2>2. CASE f = writerMap
    <3>1. mem'[f].header = Header
      BY <1>7, <2>2, WipedChanges DEF IsWiped
    <3> QED
      BY <3>1, HeaderShowsNothing DEF ShowsFrames, Shown
  <2>3. CASE f # writerMap
    <3>1. mem'[f].header = mem[f].header /\ mem'[f].slots = mem[f].slots
      BY <1>7, <2>3, WipedChanges DEF IsWiped
    <3> QED
      BY <1>1, <2>1, <3>1 DEF ShowsFrames, Shown
  <2> QED
    BY <2>2, <2>3
<1>8. CASE (Initialise \/ StoreStamp \/ Store \/ StoreTime) /\ f # writerMap
  <2>1. writer \notin {"off", "failed"}
    BY <1>8 DEF Initialise, SetHeader, StoreStamp, Store, StorePart, StoreTime
  <2>2. mem'[f].header = mem[f].header
    BY <1>8, InitialiseChanges, StoreStampChanges, StoreChanges, StoreTimeChanges DEF HeaderChanges, SlotChanges
  <2> QED
    BY <1>3, <1>8, <2>1, <2>2, HeaderShowsNothing DEF ShowsFrames, Shown
<1>9. CASE Initialise /\ f = writerMap
  <2>1. mImageCount' = mImageCount /\ mImageCount = 0 /\ mem[f].header \in Headers /\ HeaderOfWriter(mem[f].header)
    BY <1>2, <1>9 DEF Initialise, SetHeader, WriterGoesOn
  <2>2. CASE writer = "valid"
    <3>1. mem'[f].header = [mem[f].header EXCEPT !.valid = TRUE] /\ mem[f].header = Header
      BY <1>9, <2>1, <2>2, InitialiseChanges DEF HeaderChanges, HeaderOfWriter
    <3> QED
      BY <1>4, <2>1, <3>1 DEF ShowsFrames, Shown, Header
  <2>3. CASE writer = "index"
    <3>1. mem'[f].header = [mem[f].header EXCEPT !.index = ImageCount] /\ mem[f].header = [Header EXCEPT !.valid = TRUE]
      BY <1>9, <2>1, <2>3, InitialiseChanges DEF HeaderChanges, HeaderOfWriter
    <3> QED
      BY <1>4, <2>1, <3>1 DEF ShowsFrames, Shown, Header
  <2>4. CASE writer = "count"
    <3>1. mem'[f].header = [mem[f].header EXCEPT !.count = ImageCount]
          /\ mem[f].header = [Header EXCEPT !.valid = TRUE, !.index = ImageCount]
      BY <1>9, <2>1, <2>4, InitialiseChanges DEF HeaderChanges, HeaderOfWriter
    <3> QED
      BY <1>4, <2>1, <3>1 DEF ShowsFrames, Shown, Header, Slot
  <2> QED
    BY <1>9, <2>2, <2>3, <2>4 DEF Initialise, SetHeader
<1>10. CASE (StoreStamp \/ StorePart("top", "top", "bottom") \/ StorePart("bottom", "bottom", "lastIndex")) /\ f = writerMap
  <2>1. writer \in {"run", "top", "bottom"} /\ mImageCount' = mImageCount
    BY <1>10 DEF StoreStamp, StorePart
  <2>2. mem'[f].header = mem[f].header /\ \A j \in Slot : j # index => mem'[f].slots[j] = mem[f].slots[j]
    BY <1>10, <2>1, StoreStampChanges, StoreChanges DEF SlotChanges, Store
  <2>3. ImageCount > 1 /\ Shown(f) => mem[f].header.index # index
    BY <1>2, <1>4, <1>10, <2>1, BeforeIsOther DEF HeaderOfWriter, Storing, Shown, Slot
  <2> QED
    BY <1>1, <2>1, <2>2, <2>3 DEF ShowsFrames, Shown
<1>11. CASE SetHeader("lastIndex", "index", index, "lastTime") /\ f = writerMap
  <2>1. writer = "lastIndex" /\ mImageCount' = mImageCount
    BY <1>11 DEF SetHeader
  <2>2. HeaderChanges(f, [mem[f].header EXCEPT !.index = index])
    BY <1>11, <2>1, StoreChanges DEF Store
  <2>3. mem'[f].header.count = ImageCount /\ mem'[f].header.index = index /\ mem'[f].slots[index] = mem[f].slots[index]
    BY <1>2, <1>11, <2>1, <2>2 DEF HeaderChanges, HeaderOfWriter, Storing, Headers
  <2>4. Whole(mem[f].slots[index])
    BY <1>2, <1>11, <2>1 DEF SlotOfWriter, Storing, Whole
  <2> QED
    BY <1>4, <2>3, <2>4 DEF ShowsFrames, Shown
<1>12. CASE StoreTime /\ f = writerMap
  <2>1. writer = "lastTime"
    BY <1>12 DEF StoreTime
  <2>2. HeaderChanges(f, [mem[f].header EXCEPT !.time = frames])
    BY <1>12, StoreTimeChanges
  <2>3. mem'[f].header.count = ImageCount /\ mem'[f].header.index = index /\ mem'[f].slots[index] = mem[f].slots[index]
    BY <1>2, <1>12, <2>1, <2>2 DEF HeaderChanges, HeaderOfWriter, Storing, Headers
  <2>4. Whole(mem[f].slots[index])
    BY <1>2, <1>12, <2>1 DEF SlotOfWriter, Storing, Whole
  <2> QED
    BY <1>4, <2>3, <2>4 DEF ShowsFrames, Shown
<1>13. CASE TriggerAttaches \/ TriggerDetaches
  BY <1>13, TriggerTouches
<1>14. CASE RingQuietStep
  BY <1>5, <1>14, RingQuietSteps DEF RingQuiet
<1>15. CASE OpenStep \/ WriterFails \/ WriterUnlinks \/ WriterCrashes
  BY <1>5, <1>15 DEF OpenStep, WriterOpens, ReaderOpens, TriggerOpens, writerVars, WriterFails, WriterUnlinks, WriterCrashes
<1> QED
  BY <1>6, <1>7, <1>8, <1>9, <1>10, <1>11, <1>12, <1>13, <1>14, <1>15, RingSteps DEF Store

(* A reader of undisturbed memory has the present file mapped. *)
LEMMA ReaderHasFile ==
  ASSUME RingTypes, OneFile, WriterGoesOn, ReaderSeesFrames, Undisturbed, reader \in Attached
  PROVE  /\ readerMap = file /\ readerMap \in Files /\ head \in Headers /\ head.valid
         /\ writer \notin {"off", "failed"} =>
                 writerMap = readerMap /\ HeaderOfWriter(head) /\ SlotOfWriter(mem[readerMap].slots[index])
<1>1. readerMap \in Files /\ head \in Headers
  BY ReaderFile DEF Attached
<1>2. head.valid /\ Untouched
  BY DEF ReaderSeesFrames, Undisturbed
<1>3. readerMap = file
  BY <1>1, <1>2, HeaderShowsNothing DEF OneFile, head
<1> QED
  BY <1>1, <1>2, <1>3 DEF OneFile, WriterGoesOn, head

LEMMA ReaderSeesFramesStep ==
  ASSUME RingTypes, OneFile, WriterGoesOn, HeadersShowFrames, ReaderSeesFrames, CausesKept, [RingNext]_ringVars
  PROVE  ReaderSeesFrames'
<1> DEFINE Sees == /\ head.valid
                   /\ v1 \/ reader # "poll" => Shown(readerMap)
                   /\ last # 0 => head.time > 0 \/ v1
<1> SUFFICES ASSUME Undisturbed', reader' \in Attached
             PROVE  Sees'
  BY DEF ReaderSeesFrames
<1>0. Undisturbed /\ Untouched /\ Untouched' /\ v1' = v1
  BY RingKept DEF Undisturbed, v1
<1>1. reader \in Attached => Sees
  BY <1>0 DEF ReaderSeesFrames
<1>2. reader \in Attached =>
         /\ readerMap = file /\ readerMap \in Files /\ head \in Headers /\ head.valid
         /\ writer \notin {"off", "failed"} => writerMap = readerMap /\ HeaderOfWriter(head)
  BY <1>0, ReaderHasFile
<1>3. CASE UNCHANGED << reader, readerMap, last >> /\ mem'[readerMap].header = head
  BY <1>0, <1>1, <1>3 DEF Sees, head, Shown
<1>4. CASE Clear \/ WriterDetaches
  <2>1. UNCHANGED << reader, readerMap >> /\ writer \notin {"off", "failed"} /\ loading' = Disturbed(writerMap)
    BY <1>4 DEF Clear, WriterDetaches
  <2>2. loading'.disturbed
    BY <1>2, <2>1 DEF Disturbed, RingTypes
  <2> QED
    BY <2>2 DEF Undisturbed
<1>5. CASE Initialise \/ Store \/ StoreTime
  <2>1. UNCHANGED << reader, readerMap, last >> /\ writer \notin {"off", "failed"}
    BY <1>5 DEF Initialise, SetHeader, Store, StorePart, StoreTime, readerVars
  <2>2. readerMap = writerMap /\ head \in Headers /\ HeaderOfWriter(head) /\ Sees
    BY <1>1, <1>2, <2>1
  <2>3. CASE Initialise
    <3>1. ~Shown(readerMap)
      <4>1. writer \in {"valid", "index"} => head.count = 0
        BY <2>2 DEF HeaderOfWriter, Header
      <4>2. writer = "count" => head.index = ImageCount
        BY <2>2 DEF HeaderOfWriter, Header
      <4> QED
        BY <2>3, <4>1, <4>2, RingAssumption DEF Initialise, SetHeader, Shown, head, Slot
    <3>2. mem'[readerMap].header.valid /\ mem'[readerMap].header.time = head.time
      BY <2>2, <2>3, InitialiseChanges DEF HeaderChanges, Headers, head, Sees
    <3> QED
      BY <1>0, <2>1, <2>2, <3>1, <3>2 DEF Sees, head
  <2>4. CASE StorePart("top", "top", "bottom") \/ StorePart("bottom", "bottom", "lastIndex")
    <3>1. mem'[readerMap].header = head
      BY <1>2, <2>1, <2>2, <2>4, StoreChanges DEF Store, SlotChanges, StorePart, head
    <3> QED
      BY <1>3, <2>1, <3>1
  <2>5. CASE SetHeader("lastIndex", "index", index, "lastTime")
    <3>1. HeaderChanges(readerMap, [head EXCEPT !.index = index])
      BY <2>2, <2>5, StoreChanges DEF Store, SetHeader, head
    <3>2. head'.valid /\ head'.count = ImageCount /\ head'.index \in Slot /\ head'.time = head.time
      BY <2>1, <2>2, <2>5, <3>1, IndexIsSlot DEF HeaderChanges, Headers, head, HeaderOfWriter, SetHeader, Storing
    <3> QED
      BY <1>0, <2>1, <2>2, <3>2 DEF Sees, Shown, head
  <2>6. CASE StoreTime
    <3>1. HeaderChanges(readerMap, [head EXCEPT !.time = frames]) /\ writer = "lastTime"
      BY <2>2, <2>6, StoreTimeChanges DEF StoreTime, head
    <3>2. frames > 0
      BY <1>0, <3>1 DEF WriterGoesOn, SlotOfWriter, Storing
    <3>3. head'.valid /\ head'.count = ImageCount /\ head'.index = index /\ head'.time = frames
      BY <2>1, <2>2, <3>1 DEF HeaderChanges, Headers, head, HeaderOfWriter, Storing
    <3> QED
      BY <1>0, <2>1, <3>2, <3>3, IndexIsSlot DEF Sees, Shown, head
  <2> QED
    BY <1>5, <2>3, <2>4, <2>5, <2>6 DEF Store
<1>6. CASE WriterOpens \/ TriggerOpens \/ WriterFails \/ WriterUnlinks \/ WriterCrashes
  BY <1>3, <1>6 DEF WriterOpens, TriggerOpens, WriterFails, WriterUnlinks, WriterCrashes, readerVars, head
<1>7. CASE WriterAttaches
  <2>1. UNCHANGED << reader, readerMap, last >>
    BY <1>7 DEF WriterAttaches, readerVars
  <2> QED
    BY <1>2, <1>3, <1>7, <2>1, AttachChanges DEF SizeChanges, head
<1>8. CASE StoreStamp
  <2>1. UNCHANGED << reader, readerMap, last >>
    BY <1>8 DEF StoreStamp
  <2> QED
    BY <1>2, <1>3, <1>8, <2>1, StoreStampChanges DEF SlotChanges, head
<1>9. CASE TriggerAttaches \/ TriggerDetaches
  BY <1>0, <1>9, TriggerTouches
<1>10. CASE Query \/ ReaderOpens \/ NotValid \/ Stopped \/ StopEarly
  BY <1>10 DEF Query, ReaderOpens, NotValid, Stopped, StopEarly, Attached
<1>11. CASE ReaderAttaches
  <2>1. readerMap' = readerMap /\ readerMap \in Files /\ head \in Headers /\ reader' = "poll"
    BY <1>11, ReaderFile DEF ReaderAttaches, Attached
  <2>2. mem'[readerMap].header = head
    BY <1>11, <2>1, ReaderAttachChanges DEF SizeChanges, head
  <2>3. head.valid /\ (v1 => mImageCount > 0)
    BY <1>11, <2>1 DEF ReaderAttaches, Undisturbed, head, RingTypes
  <2>4. last # 0 => head'.time > 0 \/ v1 \/ last' = 0
    BY <1>11 DEF ReaderAttaches
  <2>5. v1 => Shown(readerMap)
    BY <1>0, <2>1, <2>3 DEF HeadersShowFrames, head
  <2> QED
    BY <1>0, <1>11, <2>1, <2>2, <2>3, <2>5 DEF Sees, Shown, head, ReaderAttaches
<1>12. CASE Poll
  <2>1. UNCHANGED << readerMap, mem, last >> /\ reader = "poll" /\ head.valid /\ (v1 \/ head.time # last)
    BY <1>12 DEF Poll, IsNew
  <2>2. Sees /\ readerMap \in Files /\ head \in Headers
    BY <1>1, <1>2, <2>1 DEF Attached
  <2>3. v1 \/ head.time > 0
    BY <2>1, <2>2 DEF Sees, Headers
  <2>4. Shown(readerMap)
    BY <1>0, <2>2, <2>3 DEF HeadersShowFrames, head, Sees
  <2> QED
    BY <1>0, <2>1, <2>2, <2>4 DEF Sees, Shown, head
<1>13. CASE Load \/ LoadImage
  <2>1. UNCHANGED << readerMap, mem, last >> /\ reader \in Attached \ {"poll"}
    BY <1>13 DEF Load, LoadImage, LoadPart, Attached
  <2> QED
    BY <1>0, <1>1, <2>1 DEF Sees, Shown, head
<1>14. CASE Deliver
  <2>1. UNCHANGED << readerMap, mem >> /\ reader = "deliver" /\ last' = Seen
    BY <1>14 DEF Deliver
  <2>2. Sees /\ head \in Headers
    BY <1>1, <1>2, <2>1 DEF Attached
  <2> QED
    BY <1>0, <2>1, <2>2 DEF Sees, Shown, head, Seen, Headers
<1>15. CASE UNCHANGED ringVars
  BY <1>3, <1>15 DEF ringVars, readerVars, head
<1> QED
  BY <1>4, <1>5, <1>6, <1>7, <1>8, <1>9, <1>10, <1>11, <1>12, <1>13, <1>14, <1>15
     DEF RingNext, WriterStep, TriggerStep, ReaderStep

(* The writer is a slot further, and not yet at that of the reader. *)
LEMMA DistanceGrows ==
  ASSUME RingTypes, NEW i \in Slot, NEW n \in Nat, n + 1 < ImageCount - 1, Distance(i, Before(index)) <= n + 1
  PROVE  i # index /\ Distance(i, index) <= n + 2
  BY IndexIsSlot, RingAssumption DEF Distance, Before, Slot

LEMMA DistanceStarts ==
  ASSUME RingTypes, ImageCount > 1
  PROVE  Distance(index, index) = 0 /\ Distance(Before(index), Before(index)) = 0 /\ Distance(Before(index), index) = 1
  BY IndexIsSlot, RingAssumption DEF Distance, Before, Slot

(* Where the writer stored last. *)
Stamped == IF writer = "run" THEN Before(index) ELSE index

Copies ==
    /\ Whole(mem[readerMap].slots[loading.index])
    /\ reader # "top" => loading.frame.top = mem[readerMap].slots[loading.index].top
    /\ reader = "stamp" => loading.frame.bottom = mem[readerMap].slots[loading.index].bottom
    /\ writer \in Storing => Distance(loading.index, Stamped) <= loading.stored + 1
    /\ writer \in {"top", "bottom", "lastIndex"} => loading.index # index

LEMMA ReaderCopiesOneStep ==
  ASSUME RingTypes, OneFile, WriterGoesOn, HeadersShowFrames, ReaderSeesFrames, ReaderCopiesOne, CausesKept,
         [RingNext]_ringVars, RingTypes'
  PROVE  ReaderCopiesOne'
<1> SUFFICES ASSUME Undisturbed', loading'.stored < ImageCount - 1
             PROVE  (reader' = "deliver" => Whole(loading.frame)') /\ (Loading' => Copies')
  BY DEF ReaderCopiesOne, Copies, Stamped
<1>0. Undisturbed /\ Untouched /\ Untouched'
  BY RingKept DEF Undisturbed
<1>1. /\ loading.stored < ImageCount - 1 /\ reader = "deliver" => Whole(loading.frame)
      /\ loading.stored < ImageCount - 1 /\ Loading => Copies
  BY <1>0 DEF ReaderCopiesOne, Copies, Stamped
<1>2. reader \in Attached =>
         /\ readerMap = file /\ readerMap \in Files /\ head \in Headers
         /\ writer \notin {"off", "failed"} =>
                writerMap = readerMap /\ HeaderOfWriter(head) /\ SlotOfWriter(mem[readerMap].slots[index])
  BY <1>0, ReaderHasFile
<1>3. reader \in Attached /\ reader # "poll" => Shown(readerMap)
  BY <1>0 DEF ReaderSeesFrames
<1>4. Loading => reader \in Attached /\ reader # "poll" /\ loading.index \in Slot
  BY DEF Loading, Attached, RingTypes
<1>5. ImageCount \in Nat \ {0} /\ index \in Slot /\ loading.stored \in Nat
  BY RingAssumption, IndexIsSlot DEF RingTypes
(* The reader goes on as it did, its slot is what it was, and so is what the writer does. *)
<1>6. CASE /\ UNCHANGED << reader, readerMap, loading >>
           /\ Loading => mem'[readerMap].slots[loading.index] = mem[readerMap].slots[loading.index]
           /\ \/ UNCHANGED << writer, mImageCount >>
              \/ writer' \notin Storing
  <2>1. Loading' = Loading /\ loading.stored < ImageCount - 1
    BY <1>6 DEF Loading
  <2>2. UNCHANGED << writer, mImageCount >> => Stamped' = Stamped /\ index' = index
    BY DEF Stamped, index
  <2> QED
    BY <1>1, <1>6, <2>1, <2>2 DEF Copies, Storing, Whole
<1>7. CASE Clear \/ WriterDetaches
  <2>1. UNCHANGED << reader, readerMap >> /\ writer \notin {"off", "failed"} /\ loading' = Disturbed(writerMap)
    BY <1>7 DEF Clear, WriterDetaches
  <2>2. reader \in Attached => loading'.disturbed
    BY <1>2, <2>1 DEF Disturbed, RingTypes
  <2> QED
    BY <1>4, <2>1, <2>2 DEF Undisturbed, Loading, Attached
<1>8. CASE Initialise
  <2>1. UNCHANGED << reader, readerMap, loading >> /\ writer \in {"valid", "index", "count"}
    BY <1>8 DEF Initialise, SetHeader, readerVars
  <2>2. reader \in Attached => ~Shown(readerMap)
    <3>1. reader \in Attached /\ writer \in {"valid", "index"} => head.count = 0
      BY <1>2, <2>1 DEF HeaderOfWriter, Header
    <3>2. reader \in Attached /\ writer = "count" => head.index = ImageCount
      BY <1>2, <2>1 DEF HeaderOfWriter, Header
    <3> QED
      BY <1>5, <2>1, <3>1, <3>2 DEF Shown, head, Slot
  <2> QED
    BY <1>1, <1>3, <1>4, <2>1, <2>2 DEF Loading, Attached, Whole
<1>9. CASE StoreStamp
  <2>1. /\ UNCHANGED << reader, readerMap, mImageCount, writerMap >> /\ writer = "run" /\ writer' = "top"
        /\ loading'.index = loading.index /\ loading'.frame = loading.frame
        /\ loading'.stored = IF Loading /\ readerMap = writerMap THEN loading.stored + 1 ELSE loading.stored
    BY <1>9 DEF StoreStamp, RingTypes
  <2>2. Loading' = Loading /\ index' = index /\ loading.stored < ImageCount - 1
    BY <1>5, <2>1 DEF Loading, index
  <2>3. ASSUME Loading
        PROVE  Copies'
    <3>1. readerMap = writerMap /\ loading'.stored = loading.stored + 1 /\ loading.index \in Slot /\ Copies
      BY <1>1, <1>2, <1>4, <2>1, <2>2, <2>3
    <3>2. Distance(loading.index, Before(index)) <= loading.stored + 1
      BY <2>1, <3>1 DEF Copies, Stamped, Storing
    <3>3. loading.index # index /\ Distance(loading.index, index) <= loading.stored + 2
      BY <1>5, <3>1, <3>2, DistanceGrows
    <3>4. mem'[readerMap].slots[loading.index] = mem[readerMap].slots[loading.index]
      BY <1>2, <1>4, <1>9, <2>3, <3>1, <3>3, StoreStampChanges DEF SlotChanges
    <3>5. Stamped' = index /\ loading'.stored + 1 = loading.stored + 2
      BY <1>5, <2>1, <2>2, <3>1 DEF Stamped
    <3> QED
      BY <2>1, <2>2, <3>1, <3>3, <3>4, <3>5 DEF Copies, Whole
  <2> QED
    BY <1>1, <2>1, <2>2, <2>3 DEF Whole
<1>10. CASE Store \/ StoreTime
  <2>1. UNCHANGED << reader, readerMap, loading, writerMap >> /\ writer \in {"top", "bottom", "lastIndex", "lastTime"}
    BY <1>10 DEF Store, StorePart, SetHeader, StoreTime, readerVars
  <2>2. Loading' = Loading /\ loading.stored < ImageCount - 1
    BY <2>1 DEF Loading
  <2>3. ASSUME Loading
        PROVE  Copies'
    <3>1. readerMap = writerMap /\ readerMap \in Files /\ loading.index \in Slot /\ Copies
      BY <1>1, <1>2, <1>4, <2>1, <2>2, <2>3
    <3>2. mem'[readerMap].slots[loading.index] = mem[readerMap].slots[loading.index]
      BY <1>10, <2>1, <3>1, StoreChanges, StoreTimeChanges DEF SlotChanges, HeaderChanges, Copies, Store, StorePart, SetHeader, StoreTime
    <3>3. Stamped = index /\ Distance(loading.index, index) <= loading.stored + 1
      BY <2>1, <3>1 DEF Stamped, Copies, Storing
    <3>4. Stamped' = index /\ (writer' # "run" => index' = index /\ writer # "lastTime")
      <4>1. CASE Store
        BY <4>1 DEF Store, StorePart, SetHeader, Stamped, index
      <4>2. CASE StoreTime
        <5>1. index = Before(index') /\ writer' = "run"
          BY <4>2, NextSlot, RingAssumption DEF StoreTime, index, Before, RingTypes
        <5> QED
          BY <5>1 DEF Stamped
      <4> QED
        BY <1>10, <4>1, <4>2
    <3>5. writer' \in {"top", "bottom", "lastIndex"} => writer \in {"top", "bottom", "lastIndex"} /\ index' = index
      BY <2>1, <3>4
    <3> QED
      BY <2>1, <3>1, <3>2, <3>3, <3>4, <3>5 DEF Copies, Whole
  <2> QED
    BY <1>1, <2>1, <2>2, <2>3 DEF Whole
<1>11. CASE TriggerAttaches \/ TriggerDetaches
  BY <1>0, <1>11, TriggerTouches
<1>12. CASE Query \/ ReaderOpens \/ ReaderAttaches \/ NotValid \/ Stopped \/ Poll \/ Deliver \/ StopEarly
  BY <1>12 DEF Query, ReaderOpens, ReaderAttaches, NotValid, Stopped, Poll, Deliver, StopEarly, Loading
<1>13. CASE Load
  <2>1. /\ UNCHANGED << readerMap, mem, writer, mImageCount >> /\ reader = "load" /\ reader' # "deliver"
        /\ loading'.index = head.index /\ loading'.stored = 0
    BY <1>13 DEF Load, NoLoad, writerVars
  <2>2. Shown(readerMap) /\ readerMap \in Files /\ head \in Headers
    BY <1>2, <1>3, <2>1 DEF Attached
  <2>3. ASSUME Loading'
        PROVE  Copies'
    <3>1. reader' = "top" /\ ImageCount > 1 /\ index' = index /\ Stamped' = Stamped
      BY <1>5, <1>13, <2>1, <2>3 DEF Load, Loading, index, Stamped
    <3>2. Whole(mem[readerMap].slots[head.index])
      BY <1>0, <2>2, <3>1 DEF HeadersShowFrames, head
    <3>3. writer \in Storing => head.index = IF writer = "lastTime" THEN index ELSE Before(index)
      BY <1>2, <1>5, <2>1, <2>2 DEF Attached, HeaderOfWriter, Storing, Shown, head, Slot
    <3>4. writer \in Storing => Distance(head.index, Stamped) <= 1
      BY <3>1, <3>3, DistanceStarts DEF Stamped, Storing
    <3>5. writer \in {"top", "bottom", "lastIndex"} => head.index # index
      BY <3>1, <3>3, BeforeIsOther DEF Storing
    <3> QED
      BY <2>1, <3>1, <3>2, <3>4, <3>5 DEF Copies, Whole
  <2> QED
    BY <2>1, <2>3
<1>14. CASE LoadImage
  <2>1. /\ UNCHANGED << readerMap, mem, writer, mImageCount >> /\ Loading
        /\ loading'.index = loading.index /\ loading'.stored = loading.stored
    BY <1>14 DEF LoadImage, LoadPart, writerVars, Loading, RingTypes
  <2>2. Copies /\ mem[readerMap].slots[loading.index] \in Frame
    BY <1>1, <1>2, <1>4, <2>1, ReaderFile DEF Loading, Slots
  <2>3. index' = index /\ Stamped' = Stamped
    BY <2>1 DEF index, Stamped
  <2>4. loading.frame \in Frame
    BY DEF RingTypes
  <2>5. CASE LoadPart("top", "top", "bottom")
    <3>1. reader' = "bottom" /\ loading'.frame = [loading.frame EXCEPT !.top = mem[readerMap].slots[loading.index].top]
      BY <2>5 DEF LoadPart, RingTypes
    <3> QED
      BY <2>1, <2>2, <2>3, <2>4, <3>1 DEF Copies, Whole, Frame
  <2>6. CASE LoadPart("bottom", "bottom", "stamp")
    <3>1. reader = "bottom" /\ reader' = "stamp"
          /\ loading'.frame = [loading.frame EXCEPT !.bottom = mem[readerMap].slots[loading.index].bottom]
      BY <2>6 DEF LoadPart, RingTypes
    <3> QED
      BY <2>1, <2>2, <2>3, <2>4, <3>1 DEF Copies, Whole, Frame
  <2>7. CASE LoadPart("stamp", "stamp", "deliver")
    <3>1. reader = "stamp" /\ reader' = "deliver"
          /\ loading'.frame = [loading.frame EXCEPT !.stamp = mem[readerMap].slots[loading.index].stamp]
      BY <2>7 DEF LoadPart, RingTypes
    <3> QED
      BY <2>1, <2>2, <2>4, <3>1 DEF Copies, Whole, Frame, Loading
  <2> QED
    BY <1>14, <2>5, <2>6, <2>7 DEF LoadImage
<1>15. CASE WriterOpens \/ TriggerOpens \/ WriterFails \/ WriterUnlinks \/ WriterCrashes \/ UNCHANGED ringVars
  BY <1>6, <1>15 DEF WriterOpens, TriggerOpens, WriterFails, WriterUnlinks, WriterCrashes, ringVars, readerVars, writerVars, Storing
<1>16. CASE WriterAttaches
  <2>1. UNCHANGED << reader, readerMap, loading >> /\ writer' = "clear"
    BY <1>16 DEF WriterAttaches, readerVars
  <2> QED
    BY <1>2, <1>4, <1>6, <1>16, <2>1, AttachChanges DEF SizeChanges, Storing
<1> QED
  BY <1>7, <1>8, <1>9, <1>10, <1>11, <1>12, <1>13, <1>14, <1>15, <1>16
     DEF RingNext, WriterStep, TriggerStep, ReaderStep

(* The parts of CausesKept. *)
TriggerIsCause == trigger \in {"on", "done"} => "trigger" \in causes
GoneIsCause    == loading.disturbed => "gone" \in causes /\ readerMap # 0
FoundValid ==
    causes \cap {"early", "gone"} = {} =>
        /\ reader = "open" => file # 0 /\ mem[file].header.valid
        /\ reader = "attach" => head.valid
FoundCount  == reader # "query" /\ causes \cap {"early", "halfway"} = {} => v1 \/ queried > 0
HeaderFiles ==
    (\E f \in Files : mem[f].size = "header") =>
        "trigger" \in causes \/ (reader \notin {"query", "open", "attach"} /\ causes \cap {"early", "halfway"} # {})

LEMMA CausesParts == CausesKept <=> TriggerIsCause /\ GoneIsCause /\ FoundValid /\ FoundCount /\ HeaderFiles
  BY DEF CausesKept, TriggerIsCause, GoneIsCause, FoundValid, FoundCount, HeaderFiles

LEMMA GoneIsCauseStep ==
  ASSUME RingTypes, GoneIsCause, [RingNext]_ringVars
  PROVE  GoneIsCause'
<1>1. CASE Clear \/ WriterDetaches
  BY <1>1 DEF Clear, WriterDetaches, Disturbed, GoneIsCause, RingTypes
<1>2. CASE TriggerAttaches \/ TriggerDetaches
  BY <1>2 DEF TriggerAttaches, TriggerDetaches, Disturbed, GoneIsCause, RingTypes
<1>3. CASE Query
  BY <1>3 DEF Query, GoneIsCause, RingTypes
<1>4. CASE ReaderOpens
  BY <1>4 DEF ReaderOpens, GoneIsCause, RingTypes
<1>5. CASE StoreStamp
  BY <1>5 DEF StoreStamp, GoneIsCause, RingTypes
<1>6. CASE Load \/ Deliver
  BY <1>6 DEF Load, Deliver, NoLoad, GoneIsCause, RingTypes
<1>7. CASE LoadImage
  BY <1>7 DEF LoadImage, LoadPart, GoneIsCause, RingTypes
<1>8. CASE ReaderAttaches \/ NotValid \/ Stopped \/ Poll \/ StopEarly \/ UNCHANGED ringVars
  BY <1>8 DEF ReaderAttaches, NotValid, Stopped, Poll, StopEarly, ringVars, readerVars, GoneIsCause
<1>9. CASE WriterOpens \/ WriterAttaches \/ WriterFails \/ Initialise \/ Store \/ StoreTime \/ WriterUnlinks
           \/ WriterCrashes \/ TriggerOpens
  BY <1>9 DEF WriterOpens, WriterAttaches, WriterFails, Initialise, SetHeader, Store, StorePart, StoreTime, WriterUnlinks,
              WriterCrashes, TriggerOpens, readerVars, GoneIsCause
<1> QED
  BY <1>1, <1>2, <1>3, <1>4, <1>5, <1>6, <1>7, <1>8, <1>9 DEF RingNext, WriterStep, TriggerStep, ReaderStep

LEMMA FoundValidStep ==
  ASSUME RingTypes, FoundValid, [RingNext]_ringVars
  PROVE  FoundValid'
<1> SUFFICES ASSUME causes' \cap {"early", "gone"} = {}
             PROVE  /\ reader' = "open" => file' # 0 /\ mem'[file'].header.valid
                    /\ reader' = "attach" => mem'[readerMap'].header.valid
  BY DEF FoundValid, head
<1>1. CASE Query
  BY <1>1 DEF Query
<1>2. causes \cap {"early", "gone"} = {} \/ Query
  BY DEF RingNext, WriterStep, TriggerStep, ReaderStep, ringVars, WriterOpens, WriterAttaches, WriterFails, Clear,
         Initialise, SetHeader, StoreStamp, Store, StorePart, StoreTime, WriterDetaches, WriterUnlinks, WriterCrashes,
         TriggerOpens, TriggerAttaches, TriggerDetaches, ReaderOpens, ReaderAttaches, NotValid, Stopped, Poll,
         Load, LoadImage, LoadPart, Deliver, StopEarly
<1>3. CASE causes \cap {"early", "gone"} = {}
  <2>1. /\ reader = "open" => file \in Files /\ mem[file].header.valid
        /\ reader = "attach" => readerMap \in Files /\ mem[readerMap].header.valid
    BY <1>3, ReaderFile DEF FoundValid, RingTypes, head
  <2>2. CASE /\ UNCHANGED << reader, readerMap, file >>
             /\ \A f \in Files : mem[f].header.valid => mem'[f].header.valid
    <3>1. reader = "open" => file \in Files /\ mem'[file].header.valid
      BY <2>1, <2>2
    <3>2. reader = "attach" => mem'[readerMap].header.valid
      BY <2>1, <2>2
    <3>3. file \in Files => file # 0
      BY DEF Files, RingTypes
    <3> QED
      BY <2>2, <3>1, <3>2, <3>3
  <2>3. CASE Initialise \/ StoreStamp \/ Store \/ StoreTime
    <3>1. UNCHANGED << reader, readerMap, file >>
      BY <2>3 DEF Initialise, SetHeader, StoreStamp, Store, StorePart, StoreTime, readerVars
    <3>2. writerMap \in Files /\ mem[writerMap].header \in Headers
      BY <2>3, WriterFile DEF Initialise, SetHeader, StoreStamp, Store, StorePart, StoreTime
    <3>3. \/ \A f \in Files : mem'[f].header = mem[f].header
          \/ \A f \in Files : f # writerMap => mem'[f].header = mem[f].header
      BY <2>3, InitialiseChanges, StoreChanges, StoreStampChanges, StoreTimeChanges DEF HeaderChanges, SlotChanges
    <3>4. mem[writerMap].header.valid => mem'[writerMap].header.valid
      BY <2>3, <3>2, InitialiseChanges, StoreChanges, StoreStampChanges, StoreTimeChanges DEF HeaderChanges, SlotChanges, Headers
    <3>5. \A f \in Files : mem[f].header.valid => mem'[f].header.valid
      BY <3>3, <3>4
    <3> QED
      BY <2>2, <3>1, <3>5
  <2>4. CASE WriterAttaches
    BY <2>2, <2>4, AttachChanges DEF WriterAttaches, readerVars, SizeChanges
  <2>5. CASE WriterFails \/ Clear \/ WriterDetaches \/ WriterUnlinks \/ TriggerAttaches \/ TriggerDetaches \/ StopEarly
    BY <2>5 DEF WriterFails, Clear, WriterDetaches, WriterUnlinks, TriggerAttaches, TriggerDetaches, StopEarly
  <2>6. CASE WriterOpens \/ TriggerOpens
    BY <2>1, <2>6 DEF WriterOpens, TriggerOpens, OpenFile, Opened, readerVars, Files
  <2>7. CASE ReaderOpens
    BY <2>1, <2>7 DEF ReaderOpens, OpenFile, Opened, Files
  <2>8. CASE ReaderAttaches \/ NotValid \/ Stopped \/ Poll \/ Load \/ LoadImage \/ Deliver
    BY <2>8 DEF ReaderAttaches, NotValid, Stopped, Poll, Load, LoadImage, LoadPart, Deliver
  <2>9. CASE WriterCrashes \/ UNCHANGED ringVars
    BY <2>2, <2>9 DEF WriterCrashes, ringVars, readerVars
  <2> QED
    BY <1>1, <2>3, <2>4, <2>5, <2>6, <2>7, <2>8, <2>9 DEF RingNext, WriterStep, TriggerStep, ReaderStep
<1> QED
  BY <1>1, <1>2, <1>3

LEMMA FoundCountStep ==
  ASSUME RingTypes, FoundCount, [RingNext]_ringVars
  PROVE  FoundCount'
<1>0. v1' = v1 /\ (causes \cap {"early", "halfway"} # {} => causes' \cap {"early", "halfway"} # {})
  BY RingKept DEF v1
<1>1. CASE Query
  <2>1. mem[file].header.count \in {0, ImageCount}
    BY <1>1 DEF Query, RingTypes, Memory, Headers
  <2> QED
    BY <1>0, <1>1, <2>1, RingAssumption DEF Query, FoundCount
<1>2. CASE StopEarly
  BY <1>2 DEF StopEarly, FoundCount
<1>3. CASE queried' = queried /\ (reader' # "query" => reader # "query")
  BY <1>0, <1>3 DEF FoundCount
<1>4. CASE ~Query /\ ~StopEarly
  BY <1>3, <1>4 DEF RingNext, WriterStep, TriggerStep, ReaderStep, ringVars, WriterOpens, WriterAttaches, WriterFails, Clear,
         Initialise, SetHeader, StoreStamp, Store, StorePart, StoreTime, WriterDetaches, WriterUnlinks, WriterCrashes,
         TriggerOpens, TriggerAttaches, TriggerDetaches, ReaderOpens, ReaderAttaches, NotValid, Stopped, Poll,
         Load, LoadImage, LoadPart, Deliver, readerVars
<1> QED
  BY <1>1, <1>2, <1>4

LEMMA HeaderFilesStep ==
  ASSUME RingTypes, HeaderFiles, FoundCount, TriggerIsCause, [RingNext]_ringVars
  PROVE  HeaderFiles'
<1>0. Files' = Files /\ \A c \in causes : c = "gone" \/ c \in causes'
  BY RingKept
<1>1. CASE TriggerAttaches \/ TriggerDetaches
  BY <1>1 DEF TriggerAttaches, TriggerDetaches, TriggerIsCause, HeaderFiles
<1>2. CASE ReaderAttaches
  <2>1. reader = "attach" /\ reader' \notin {"query", "open", "attach"}
    BY <1>2 DEF ReaderAttaches
  <2>2. CASE \A f \in Files : mem'[f].size = "header" => mem[f].size = "header"
    BY <1>0, <2>1, <2>2 DEF HeaderFiles
  <2>3. CASE length = "header"
    BY <1>0, <2>1, <2>3 DEF length, FoundCount, HeaderFiles
  <2> QED
    BY <1>2, <2>2, <2>3, ReaderAttachChanges DEF SizeChanges
<1>3. CASE /\ reader \in {"query", "open", "attach"} \/ reader' \notin {"query", "open", "attach"}
           /\ \A f \in Files : mem'[f].size = "header" => mem[f].size = "header"
  BY <1>0, <1>3 DEF HeaderFiles
<1>4. CASE WriterAttaches
  BY <1>3, <1>4, AttachChanges DEF SizeChanges, WriterAttaches, readerVars
<1>5. CASE Clear \/ Initialise \/ StoreStamp \/ Store \/ StoreTime \/ WriterDetaches
  <2>1. reader' = reader
    BY <1>5 DEF Clear, Initialise, SetHeader, StoreStamp, Store, StorePart, StoreTime, WriterDetaches, readerVars
  <2> QED
    BY <1>3, <1>5, <2>1, WriterChanges DEF IsWiped, HeaderChanges, SlotChanges
<1>6. CASE RingQuietStep
  BY <1>3, <1>6 DEF RingQuietStep, Query, StopEarly, Stopped, NotValid, Poll, Load, LoadImage, LoadPart, Deliver, ringVars, readerVars
<1>7. CASE OpenStep \/ WriterFails \/ WriterUnlinks \/ WriterCrashes
  BY <1>3, <1>7 DEF OpenStep, WriterOpens, ReaderOpens, TriggerOpens, WriterFails, WriterUnlinks, WriterCrashes, readerVars
<1> QED
  BY <1>1, <1>2, <1>4, <1>5, <1>6, <1>7, RingSteps

LEMMA CausesKeptStep ==
  ASSUME RingTypes, CausesKept, [RingNext]_ringVars
  PROVE  CausesKept'
<1>1. TriggerIsCause /\ GoneIsCause /\ FoundValid /\ FoundCount /\ HeaderFiles
  BY CausesParts
<1>2. TriggerIsCause'
  <2>1. trigger' \in {"on", "done"} => "trigger" \in causes' \/ trigger \in {"on", "done"}
    BY DEF RingNext, WriterStep, TriggerStep, ReaderStep, ringVars, WriterOpens, WriterAttaches, WriterFails, Clear,
         Initialise, SetHeader, StoreStamp, Store, StorePart, StoreTime, WriterDetaches, WriterUnlinks, WriterCrashes,
         TriggerOpens, TriggerAttaches, TriggerDetaches, Query, ReaderOpens, ReaderAttaches, NotValid, Stopped, Poll,
         Load, LoadImage, LoadPart, Deliver, StopEarly, triggerVars
  <2> QED
    BY <1>1, <2>1, RingKept DEF TriggerIsCause
<1>3. GoneIsCause' /\ FoundValid' /\ FoundCount' /\ HeaderFiles'
  BY <1>1, GoneIsCauseStep, FoundValidStep, FoundCountStep, HeaderFilesStep
<1> QED
  BY <1>2, <1>3, CausesParts DEF CausesKept, TriggerIsCause, GoneIsCause, FoundValid, FoundCount, HeaderFiles


-----------------------------------------------------------------------------
(* The order of the frames. *)
Stamps == \A f \in Files : mem[f].header.time <= frames /\ \A i \in Slot : mem[f].slots[i].stamp <= frames

LEMMA StampsStep ==
  ASSUME RingTypes, WriterGoesOn, Stamps, [RingNext]_ringVars
  PROVE  Stamps' /\ frames <= frames'
<1>0. Files' = Files /\ frames \in Nat /\ index \in Slot
  BY RingKept, IndexIsSlot DEF RingTypes
<1>2. CASE WriterAttaches
  BY <1>0, <1>2, AttachChanges DEF SizeChanges, WriterAttaches, Stamps
<1>3. CASE ReaderAttaches
  BY <1>0, <1>3, ReaderAttachChanges DEF SizeChanges, ReaderAttaches, writerVars, Stamps
<1>4. CASE Clear \/ WriterDetaches
  <2>1. frames' = frames /\ IsWiped(writerMap)
    BY <1>4, WipedChanges DEF Clear, WriterDetaches
  <2>2. \A f \in Files : mem'[f].header.time <= frames
    BY <1>0, <2>1, HeaderShowsNothing DEF IsWiped, Stamps
  <2>3. \A f \in Files, i \in Slot : mem'[f].slots[i].stamp <= frames
    BY <1>0, <2>1 DEF IsWiped, Stamps, Blank
  <2> QED
    BY <1>0, <2>1, <2>2, <2>3 DEF Stamps
<1>5. CASE Initialise
  <2>1. writerMap \in Files /\ mem[writerMap].header \in Headers /\ frames' = frames
    BY <1>5, WriterFile DEF Initialise, SetHeader
  <2>2. \A f \in Files : mem'[f].header.time = mem[f].header.time /\ mem'[f].slots = mem[f].slots
    BY <1>5, <2>1, InitialiseChanges DEF HeaderChanges, Headers
  <2> QED
    BY <1>0, <2>1, <2>2 DEF Stamps
<1>6. CASE StoreStamp
  <2>1. writerMap \in Files /\ mem[writerMap].slots[index] \in Frame /\ frames' = frames + 1
    BY <1>6, WriterFile DEF StoreStamp
  <2>2. \A f \in Files : mem'[f].header = mem[f].header
    BY <1>6, StoreStampChanges DEF SlotChanges
  <2>3. \A f \in Files, i \in Slot : f # writerMap \/ i # index => mem'[f].slots[i].stamp = mem[f].slots[i].stamp
    BY <1>6, StoreStampChanges DEF SlotChanges
  <2>4. mem'[writerMap].slots[index].stamp = frames + 1
    BY <1>6, <2>1, StoreStampChanges DEF SlotChanges, Frame
  <2>5. \A f \in Files : mem[f].header.time \in Nat /\ \A i \in Slot : mem[f].slots[i].stamp \in Nat
    BY DEF RingTypes, Memory, Headers, Slots, Frame
  <2>6. \A f \in Files : mem'[f].header.time <= frames + 1
    BY <1>0, <2>2, <2>5 DEF Stamps
  <2>7. \A f \in Files, i \in Slot : mem'[f].slots[i].stamp <= frames + 1
    BY <1>0, <2>3, <2>4, <2>5 DEF Stamps
  <2> QED
    BY <1>0, <2>1, <2>6, <2>7 DEF Stamps
<1>7. CASE Store
  <2>1. writerMap \in Files /\ mem[writerMap].header \in Headers /\ mem[writerMap].slots[index] \in Frame /\ frames' = frames
    BY <1>7, WriterFile DEF Store, SetHeader, StorePart
  <2>2. \A f \in Files : mem'[f].header.time = mem[f].header.time
    BY <1>7, <2>1, StoreChanges DEF HeaderChanges, SlotChanges, Headers
  <2>3. \A f \in Files, i \in Slot : mem'[f].slots[i].stamp = mem[f].slots[i].stamp
    BY <1>7, <2>1, StoreChanges DEF HeaderChanges, SlotChanges, Frame
  <2> QED
    BY <1>0, <2>1, <2>2, <2>3 DEF Stamps
<1>8. CASE StoreTime
  <2>1. writerMap \in Files /\ mem[writerMap].header \in Headers /\ frames' = frames
    BY <1>8, WriterFile DEF StoreTime
  <2>2. \A f \in Files : mem'[f].header.time = mem[f].header.time \/ mem'[f].header.time = frames
    BY <1>8, <2>1, StoreTimeChanges DEF HeaderChanges, Headers
  <2>3. \A f \in Files : mem'[f].slots = mem[f].slots
    BY <1>8, StoreTimeChanges DEF HeaderChanges
  <2> QED
    BY <1>0, <2>1, <2>2, <2>3 DEF Stamps
<1>9. CASE TriggerAttaches \/ TriggerDetaches
  BY <1>0, <1>9, TriggerChanges DEF TriggerAttaches, TriggerDetaches, writerVars, Stamps
<1>10. CASE RingQuietStep \/ OpenStep \/ WriterFails \/ WriterUnlinks \/ WriterCrashes
  <2>1. UNCHANGED << mem, frames >>
    BY <1>10, RingQuietSteps DEF RingQuiet, OpenStep, WriterOpens, ReaderOpens, TriggerOpens, writerVars, WriterFails, WriterUnlinks, WriterCrashes
  <2> QED
    BY <1>0, <2>1 DEF Stamps
<1> QED
  BY <1>2, <1>3, <1>4, <1>5, <1>6, <1>7, <1>8, <1>9, <1>10, RingSteps

(* What a step leaves to the reader: its own state, unless it is a step of the reader. *)
ReaderSteps == Query \/ ReaderOpens \/ ReaderAttaches \/ NotValid \/ Poll \/ Load \/ LoadImage \/ Deliver \/ StopEarly \/ Stopped

Aside ==
    /\ UNCHANGED << reader, readerMap, last, delivered >>
    /\ loading'.index = loading.index /\ loading'.frame = loading.frame /\ loading.stored <= loading'.stored

LEMMA OthersStayAside ==
  ASSUME RingTypes, [RingNext]_ringVars, ~ReaderSteps
  PROVE  Aside
<1>1. loading.stored \in Nat
  BY DEF RingTypes
<1>2. CASE Clear \/ WriterDetaches \/ TriggerAttaches \/ TriggerDetaches
  BY <1>1, <1>2 DEF Clear, WriterDetaches, TriggerAttaches, TriggerDetaches, Disturbed, Aside, RingTypes
<1>3. CASE StoreStamp
  BY <1>1, <1>3 DEF StoreStamp, Aside, RingTypes
<1>4. CASE UNCHANGED readerVars
  BY <1>1, <1>4 DEF readerVars, Aside
<1> QED
  BY <1>2, <1>3, <1>4 DEF RingNext, WriterStep, TriggerStep, ReaderStep, ReaderSteps, ringVars, WriterOpens, WriterAttaches,
       WriterFails, Initialise, SetHeader, Store, StorePart, StoreTime, WriterUnlinks, WriterCrashes, TriggerOpens

(* What NumbersGrow says of the frames that were copied, of the other slots, of the index. *)
LEMMA CopiesOldNumbers ==
  ASSUME RingTypes, WriterGoesOn, NumbersGrow, [RingNext]_ringVars
  PROVE  loading'.frame.stamp <= frames' /\ delivered'.frame.stamp <= frames'
<1>0. /\ frames <= frames' /\ frames \in Nat /\ frames' \in Nat
      /\ loading.frame.stamp \in Nat /\ loading.frame.stamp <= frames
      /\ delivered.frame.stamp \in Nat /\ delivered.frame.stamp <= frames
  BY StampsStep, RingTypesStep DEF NumbersGrow, Stamps, RingTypes, Frame
<1>1. CASE loading'.frame = loading.frame /\ delivered' = delivered
  BY <1>0, <1>1
<1>2. CASE Load
  BY <1>0, <1>2 DEF Load, NoLoad, Blank
<1>3. CASE LoadPart("top", "top", "bottom") \/ LoadPart("bottom", "bottom", "stamp")
  <2>1. loading'.frame.stamp = loading.frame.stamp /\ delivered' = delivered
    BY <1>3 DEF LoadPart, RingTypes, Frame
  <2> QED
    BY <1>0, <2>1
<1>4. CASE LoadPart("stamp", "stamp", "deliver")
  <2>1. loading.index \in Slot /\ readerMap \in Files
    BY <1>4 DEF LoadPart, Loading, RingTypes
  <2>2. loading'.frame.stamp = mem[readerMap].slots[loading.index].stamp /\ delivered' = delivered
    BY <1>4 DEF LoadPart, RingTypes, Frame
  <2>3. mem[readerMap].slots[loading.index].stamp \in Nat /\ mem[readerMap].slots[loading.index].stamp <= frames
    BY <2>1 DEF NumbersGrow, RingTypes, Memory, Slots, Frame
  <2> QED
    BY <1>0, <2>2, <2>3
<1>5. CASE Deliver
  BY <1>0, <1>5 DEF Deliver, NoLoad, Blank
<1>6. CASE Aside
  BY <1>1, <1>6 DEF Aside
<1> QED
  BY <1>1, <1>2, <1>3, <1>4, <1>5, <1>6, OthersStayAside DEF ReaderSteps, LoadImage, Query, ReaderOpens, ReaderAttaches, NotValid,
     Poll, StopEarly, Stopped

LEMMA OthersAreOlder ==
  ASSUME RingTypes, NumbersGrow, [RingNext]_ringVars
  PROVE  writer' \in Storing \ {"run"} => \A i \in Slot \ {index'} : mem'[writerMap'].slots[i].stamp < frames'
<1>1. CASE StoreStamp
  <2>1. writerMap \in Files /\ UNCHANGED << writerMap, mImageCount >> /\ frames' = frames + 1 /\ frames \in Nat
    BY <1>1, WriterFile DEF StoreStamp, RingTypes
  <2>2. \A i \in Slot \ {index} : mem'[writerMap].slots[i] = mem[writerMap].slots[i]
    BY <1>1, <2>1, StoreStampChanges DEF SlotChanges
  <2>3. \A i \in Slot : mem[writerMap].slots[i].stamp \in Nat /\ mem[writerMap].slots[i].stamp <= frames
    BY <2>1 DEF NumbersGrow, RingTypes, Memory, Slots, Frame
  <2> QED
    BY <2>1, <2>2, <2>3 DEF index
<1>2. CASE Store
  <2>1. /\ writerMap \in Files /\ UNCHANGED << writerMap, mImageCount, frames >> /\ writer \in Storing \ {"run"}
        /\ mem[writerMap].slots[index] \in Frame
    BY <1>2, WriterFile DEF Store, StorePart, SetHeader, Storing
  <2>2. \A i \in Slot : mem'[writerMap].slots[i].stamp = mem[writerMap].slots[i].stamp
    BY <1>2, <2>1, StoreChanges DEF SlotChanges, HeaderChanges, Frame
  <2> QED
    BY <2>1, <2>2 DEF NumbersGrow, index
<1>3. CASE /\ UNCHANGED << writer, writerMap, mImageCount, frames >>
           /\ \A f \in Files : mem'[f].slots = mem[f].slots
  <2>1. writer \in Storing => writerMap \in Files
    BY WriterFile DEF Storing
  <2> QED
    BY <1>3, <2>1 DEF NumbersGrow, index
<1>4. CASE TriggerAttaches \/ TriggerDetaches
  BY <1>3, <1>4, TriggerChanges DEF TriggerAttaches, TriggerDetaches, writerVars
<1>5. CASE ReaderAttaches
  BY <1>3, <1>5, ReaderAttachChanges DEF SizeChanges, ReaderAttaches, writerVars
<1>6. CASE RingQuietStep \/ ReaderOpens \/ TriggerOpens
  BY <1>3, <1>6, RingQuietSteps DEF RingQuiet, ReaderOpens, TriggerOpens, writerVars
<1>7. CASE writer' \notin Storing \ {"run"}
  BY <1>7
<1>8. CASE Clear \/ Initialise \/ StoreTime \/ WriterDetaches \/ WriterOpens \/ WriterAttaches \/ WriterFails \/ WriterUnlinks
           \/ WriterCrashes
  BY <1>7, <1>8 DEF Clear, Initialise, SetHeader, StoreTime, WriterDetaches, WriterOpens, WriterAttaches, WriterFails,
                    WriterUnlinks, WriterCrashes, Storing
<1> QED
  BY <1>1, <1>2, <1>4, <1>5, <1>6, <1>8, RingSteps DEF OpenStep

LEMMA IndexBeforeTime ==
  ASSUME RingTypes, NumbersGrow, [RingNext]_ringVars
  PROVE  writer' = "lastTime" => mem'[writerMap'].header.index = index' \/ mem'[writerMap'].header.time = 0
<1>1. CASE Store
  <2>1. /\ writerMap \in Files /\ UNCHANGED << writerMap, mImageCount >>
        /\ mem[writerMap].header \in Headers /\ (writer' = "lastTime" => writer = "lastIndex")
    BY <1>1, WriterFile DEF Store, StorePart, SetHeader
  <2>2. writer = "lastIndex" => mem'[writerMap].header.index = index
    BY <1>1, <2>1, StoreChanges DEF HeaderChanges, Headers
  <2> QED
    BY <2>1, <2>2 DEF index
<1>2. CASE TriggerAttaches \/ TriggerDetaches
  <2>1. UNCHANGED << writer, writerMap, mImageCount >> /\ (writer = "lastTime" => writerMap \in Files)
    BY <1>2, WriterFile DEF TriggerAttaches, TriggerDetaches, writerVars
  <2> QED
    BY <1>2, <2>1, TriggerChanges DEF NumbersGrow, index
<1>3. CASE /\ UNCHANGED << writer, writerMap, mImageCount >>
           /\ \A f \in Files : mem'[f].header = mem[f].header
  <2>1. writer = "lastTime" => writerMap \in Files
    BY WriterFile
  <2> QED
    BY <1>3, <2>1 DEF NumbersGrow, index
<1>4. CASE ReaderAttaches
  BY <1>3, <1>4, ReaderAttachChanges DEF SizeChanges, ReaderAttaches, writerVars
<1>5. CASE RingQuietStep \/ ReaderOpens \/ TriggerOpens
  BY <1>3, <1>5, RingQuietSteps DEF RingQuiet, ReaderOpens, TriggerOpens, writerVars
<1>6. CASE Clear \/ Initialise \/ StoreStamp \/ StoreTime \/ WriterDetaches \/ WriterOpens \/ WriterAttaches \/ WriterFails
           \/ WriterUnlinks \/ WriterCrashes
  BY <1>6 DEF Clear, Initialise, SetHeader, StoreStamp, StoreTime, WriterDetaches, WriterOpens, WriterAttaches, WriterFails,
              WriterUnlinks, WriterCrashes
<1> QED
  BY <1>1, <1>2, <1>4, <1>5, <1>6, RingSteps DEF OpenStep

LEMMA NumbersGrowStep ==
  ASSUME RingTypes, OneFile, WriterGoesOn, NumbersGrow, [RingNext]_ringVars
  PROVE  NumbersGrow'
<1>0. Stamps' /\ frames <= frames' /\ frames \in Nat /\ frames' \in Nat /\ index \in Slot
  BY StampsStep, RingTypesStep, IndexIsSlot DEF NumbersGrow, Stamps, RingTypes
<1>1. loading'.frame.stamp <= frames' /\ delivered'.frame.stamp <= frames'
  BY <1>0, CopiesOldNumbers DEF NumbersGrow
<1>2. writer' \in Storing \ {"run"} => \A i \in Slot \ {index'} : mem'[writerMap'].slots[i].stamp < frames'
  BY OthersAreOlder
<1>3. writer' = "lastTime" => mem'[writerMap'].header.index = index' \/ mem'[writerMap'].header.time = 0
  BY IndexBeforeTime
<1>4. /\ reader' \in {"query", "open", "attach"} => delivered'.times = 0
      /\ delivered'.times = 0 => delivered'.frame = Blank
  <2>1. CASE Deliver
    BY <2>1 DEF Deliver, RingTypes
  <2>2. CASE delivered' = delivered /\ (reader \in {"query", "open", "attach"} \/ reader' \notin {"query", "open", "attach"})
    BY <2>2 DEF NumbersGrow
  <2> QED
    BY <2>1, <2>2 DEF RingNext, WriterStep, TriggerStep, ReaderStep, ringVars, WriterOpens, WriterAttaches, WriterFails, Clear,
         Initialise, SetHeader, StoreStamp, Store, StorePart, StoreTime, WriterDetaches, WriterUnlinks, WriterCrashes,
         TriggerOpens, TriggerAttaches, TriggerDetaches, Query, ReaderOpens, ReaderAttaches, NotValid, Stopped, Poll,
         Load, LoadImage, LoadPart, StopEarly, readerVars
<1> QED
  BY <1>0, <1>1, <1>2, <1>3, <1>4 DEF NumbersGrow, Stamps

(* What happens to the memory of a reader while nobody clears it: a slot gets a newer number, and *)
(* it is then the one being stored; the index moves to the slot stored last, then the time does. *)
StampAtNext(i) == mem'[readerMap].slots[i].stamp
HeadNext       == mem'[readerMap].header

StampsMove ==
    \A i \in Slot : /\ StampAt(i) \in Nat /\ StampAtNext(i) \in Nat
                    /\ StampAt(i) <= StampAtNext(i) /\ StampAtNext(i) <= frames'
                    /\ StampAtNext(i) = StampAt(i) \/ (writer' = "top" /\ i = index')
IndexMoves ==
    HeadNext.index \in Slot /\ HeadNext.index # head.index =>
        /\ writer = "lastIndex" /\ writerMap = readerMap /\ frames' = frames
        /\ HeadNext.index = index /\ HeadNext.time = head.time
        /\ StampAtNext(index) = frames
TimeMoves ==
    HeadNext.time # head.time =>
        /\ HeadNext.time = frames /\ frames' = frames /\ HeadNext.index = head.index
        /\ (head.index \in Slot /\ StampAt(head.index) = frames) \/ head.time = 0
MemoryMoves ==
    /\ StampsMove /\ IndexMoves /\ TimeMoves
    /\ head \in Headers /\ HeadNext \in Headers /\ head.time <= HeadNext.time /\ frames \in Nat /\ head.time <= frames

LEMMA ReaderMemoryMoves ==
  ASSUME RingTypes, WriterGoesOn, NumbersGrow, [RingNext]_ringVars, ~loading'.disturbed, reader \notin {"query", "open"}
  PROVE  MemoryMoves
<1>0. /\ readerMap \in Files /\ readerMap # 0 /\ mem' \in [Files -> Memory] /\ Files' = Files
      /\ frames \in Nat /\ frames' \in Nat /\ frames <= frames' /\ Stamps' /\ index \in Slot
  BY RingTypesStep, RingKept, StampsStep, ReaderFile, IndexIsSlot DEF RingTypes, NumbersGrow, Stamps, Files
<1>1. /\ head \in Headers /\ HeadNext \in Headers
      /\ \A i \in Slot : StampAt(i) \in Nat /\ StampAtNext(i) \in Nat /\ StampAtNext(i) <= frames'
      /\ head.time \in Nat /\ HeadNext.time \in Nat /\ head.time <= frames
  BY <1>0 DEF RingTypes, Memory, Headers, Slots, Frame, Stamps, NumbersGrow, StampAt, StampAtNext, head, HeadNext
<1>2. CASE HeadNext = head /\ \A i \in Slot : StampAtNext(i) = StampAt(i)
  BY <1>0, <1>1, <1>2 DEF MemoryMoves, StampsMove, IndexMoves, TimeMoves
<1>3. CASE mem'[readerMap].header = mem[readerMap].header /\ mem'[readerMap].slots = mem[readerMap].slots
  BY <1>2, <1>3 DEF head, HeadNext, StampAt, StampAtNext
<1>4. CASE WriterAttaches \/ ReaderAttaches
  BY <1>0, <1>3, <1>4, AttachChanges, ReaderAttachChanges DEF SizeChanges
<1>5. CASE Clear \/ WriterDetaches
  <2>1. readerMap # writerMap
    BY <1>5 DEF Clear, WriterDetaches, Disturbed, RingTypes
  <2> QED
    BY <1>0, <1>3, <1>5, <2>1, WipedChanges DEF IsWiped
<1>6. CASE TriggerAttaches \/ TriggerDetaches
  <2>1. readerMap # triggerMap
    BY <1>6 DEF TriggerAttaches, TriggerDetaches, Disturbed, RingTypes
  <2> QED
    BY <1>0, <1>3, <1>6, <2>1, TriggerChanges
<1>7. CASE Initialise
  <2>1. writerMap \in Files /\ mem[writerMap].header \in Headers /\ (writer = "index" => ImageCount \notin Slot)
    BY <1>7, WriterFile, RingAssumption DEF Initialise, SetHeader, Slot
  <2>2. \A i \in Slot : StampAtNext(i) = StampAt(i)
    BY <1>0, <1>7, InitialiseChanges DEF HeaderChanges, StampAt, StampAtNext
  <2>3. HeadNext.time = head.time /\ (HeadNext.index = head.index \/ HeadNext.index \notin Slot)
    BY <1>0, <1>7, <2>1, InitialiseChanges DEF HeaderChanges, Headers, head, HeadNext
  <2> QED
    BY <1>0, <1>1, <2>2, <2>3 DEF MemoryMoves, StampsMove, IndexMoves, TimeMoves
<1>8. CASE StoreStamp
  <2>1. writerMap \in Files /\ mem[writerMap].slots[index] \in Frame /\ frames' = frames + 1 /\ writer' = "top" /\ index' = index
    BY <1>8, WriterFile DEF StoreStamp, index
  <2>2. HeadNext = head
    BY <1>0, <1>8, StoreStampChanges DEF SlotChanges, head, HeadNext
  <2>3. \A i \in Slot : readerMap # writerMap \/ i # index => StampAtNext(i) = StampAt(i)
    BY <1>0, <1>8, StoreStampChanges DEF SlotChanges, StampAt, StampAtNext
  <2>4. readerMap = writerMap => StampAtNext(index) = frames + 1 /\ StampAt(index) <= frames
    BY <1>0, <1>8, <2>1, StoreStampChanges DEF SlotChanges, StampAt, StampAtNext, Frame, NumbersGrow
  <2>5. StampsMove
    BY <1>0, <1>1, <2>1, <2>3, <2>4 DEF StampsMove
  <2> QED
    BY <1>0, <1>1, <2>2, <2>5 DEF MemoryMoves, IndexMoves, TimeMoves
<1>9. CASE StorePart("top", "top", "bottom") \/ StorePart("bottom", "bottom", "lastIndex")
  <2>1. writerMap \in Files /\ mem[writerMap].slots[index] \in Frame
    BY <1>9, WriterFile DEF StorePart
  <2>2. HeadNext = head
    BY <1>0, <1>9, StoreChanges DEF Store, StorePart, SlotChanges, head, HeadNext
  <2>3. \A i \in Slot : StampAtNext(i) = StampAt(i)
    BY <1>0, <1>9, <2>1, StoreChanges DEF Store, StorePart, SlotChanges, StampAt, StampAtNext, Frame
  <2> QED
    BY <1>2, <2>2, <2>3
<1>10. CASE SetHeader("lastIndex", "index", index, "lastTime")
  <2>1. /\ writerMap \in Files /\ mem[writerMap].header \in Headers /\ writer = "lastIndex" /\ frames' = frames
        /\ HeaderChanges(writerMap, [mem[writerMap].header EXCEPT !.index = index])
        /\ mem[writerMap].slots[index].stamp = frames
    BY <1>10, WriterFile, StoreChanges DEF Store, SetHeader, WriterGoesOn, SlotOfWriter, Storing
  <2>2. \A i \in Slot : StampAtNext(i) = StampAt(i)
    BY <1>0, <2>1 DEF HeaderChanges, StampAt, StampAtNext
  <2>3. readerMap # writerMap => HeadNext = head
    BY <1>0, <2>1 DEF HeaderChanges, head, HeadNext
  <2>4. readerMap = writerMap => HeadNext.index = index /\ HeadNext.time = head.time /\ StampAt(index) = frames
    BY <2>1 DEF HeaderChanges, head, HeadNext, Headers, StampAt
  <2> QED
    BY <1>0, <1>1, <1>2, <2>1, <2>2, <2>3, <2>4 DEF MemoryMoves, StampsMove, IndexMoves, TimeMoves
<1>11. CASE StoreTime
  <2>1. /\ writerMap \in Files /\ mem[writerMap].header \in Headers /\ frames' = frames
        /\ HeaderChanges(writerMap, [mem[writerMap].header EXCEPT !.time = frames])
        /\ mem[writerMap].slots[index].stamp = frames
        /\ mem[writerMap].header.index = index \/ mem[writerMap].header.time = 0
    BY <1>11, WriterFile, StoreTimeChanges DEF StoreTime, WriterGoesOn, SlotOfWriter, Storing, NumbersGrow
  <2>2. \A i \in Slot : StampAtNext(i) = StampAt(i)
    BY <1>0, <2>1 DEF HeaderChanges, StampAt, StampAtNext
  <2>3. readerMap # writerMap => HeadNext = head
    BY <1>0, <2>1 DEF HeaderChanges, head, HeadNext
  <2>4. readerMap = writerMap =>
            /\ HeadNext.index = head.index /\ HeadNext.time = frames
            /\ (head.index \in Slot /\ StampAt(head.index) = frames) \/ head.time = 0
    BY <1>0, <2>1 DEF HeaderChanges, head, HeadNext, Headers, StampAt
  <2> QED
    BY <1>0, <1>1, <1>2, <2>1, <2>2, <2>3, <2>4 DEF MemoryMoves, StampsMove, IndexMoves, TimeMoves
<1>12. CASE RingQuietStep \/ OpenStep \/ WriterFails \/ WriterUnlinks \/ WriterCrashes
  BY <1>3, <1>12, RingQuietSteps DEF RingQuiet, OpenStep, WriterOpens, ReaderOpens, TriggerOpens, WriterFails, WriterUnlinks, WriterCrashes
<1> QED
  BY <1>4, <1>5, <1>6, <1>7, <1>8, <1>9, <1>10, <1>11, <1>12, RingSteps DEF Store

(* The steps of the reader leave the numbers where they are. *)
LEMMA ReaderLeavesMemory ==
  ASSUME RingTypes, ReaderSteps, reader \notin {"query", "open"}
  PROVE  HeadNext = head /\ \A i \in Slot : StampAtNext(i) = StampAt(i)
<1>1. readerMap \in Files
  BY ReaderFile
<1>2. CASE ReaderAttaches
  BY <1>1, <1>2, ReaderAttachChanges DEF SizeChanges, head, HeadNext, StampAt, StampAtNext
<1>3. CASE UNCHANGED mem
  BY <1>3 DEF head, HeadNext, StampAt, StampAtNext
<1> QED
  BY <1>2, <1>3 DEF ReaderSteps, Query, ReaderOpens, NotValid, Poll, Load, LoadImage, LoadPart, Deliver, StopEarly, Stopped

LEMMA LatestIsOld ==
  ASSUME RingTypes, NumbersGrow
  PROVE  /\ Latest \in Nat /\ Latest <= frames /\ loading.frame.stamp \in Nat /\ frames \in Nat /\ last \in Nat
         /\ delivered.times \in Nat /\ (delivered.times = 0 => Latest = 0)
         /\ (reader \in {"query", "open", "attach"} => delivered.times = 0)
  BY DEF RingTypes, NumbersGrow, Latest, Frame, Blank

(* The conditions under which the reader gets the frame of the header next. *)
GetsNext     == reader = "load" \/ (reader = "poll" /\ IF v1 THEN head.index # last ELSE head.time # last)
StampThen(i) == mem'[readerMap'].slots[i].stamp

LEMMA ReaderGoesForwardStep ==
  ASSUME RingTypes, WriterGoesOn, NumbersGrow, ReaderGoesForward, TimeGoesForward, [RingNext]_ringVars
  PROVE  ReaderGoesForward'
<1> SUFFICES ASSUME ~loading'.disturbed, reader' \in Attached
             PROVE  /\ GetsNext' => (head'.index \in Slot => Latest' <= StampThen(head'.index))
                    /\ Loading' => Latest' <= StampThen(loading'.index)
                    /\ reader' = "deliver" => Latest' <= loading'.frame.stamp
  BY DEF ReaderGoesForward, GetsNext, StampAt, StampThen, Latest
<1>0. ~loading.disturbed /\ v1' = v1 /\ (Loading => loading.index \in Slot /\ reader \in Attached)
  BY RingKept DEF v1, RingTypes, Loading, Attached
<1>1. reader \in Attached =>
          /\ GetsNext => (head.index \in Slot => Latest <= StampAt(head.index))
          /\ Loading => Latest <= StampAt(loading.index)
          /\ reader = "deliver" => Latest <= loading.frame.stamp
          /\ ~v1 => last <= head.time /\ (delivered.times > 0 => last > 0)
  BY <1>0 DEF ReaderGoesForward, TimeGoesForward, GetsNext
<1>2. /\ Latest \in Nat /\ Latest <= frames /\ loading.frame.stamp \in Nat /\ frames \in Nat /\ last \in Nat
      /\ delivered.times \in Nat /\ (delivered.times = 0 => Latest = 0)
      /\ (reader \in {"query", "open", "attach"} => delivered.times = 0)
  BY LatestIsOld
<1>3. reader \notin {"query", "open"} => MemoryMoves
  BY ReaderMemoryMoves
<1>4. CASE Aside
  <2>1. reader \in Attached /\ MemoryMoves /\ Latest' = Latest /\ Loading' = Loading
    BY <1>3, <1>4 DEF Aside, Attached, Latest, Loading
  <2>2. head' = HeadNext /\ (\A i \in Slot : StampThen(i) = StampAtNext(i))
    BY <1>4 DEF Aside, head, HeadNext, StampThen, StampAtNext
  <2>3. ASSUME GetsNext', HeadNext.index \in Slot
        PROVE  Latest <= StampAtNext(HeadNext.index)
    <3>1. CASE HeadNext.index # head.index
      BY <1>2, <2>1, <2>3, <3>1 DEF MemoryMoves, IndexMoves
    <3>2. CASE HeadNext.index = head.index /\ GetsNext
      BY <1>1, <1>2, <2>1, <2>3, <3>2 DEF MemoryMoves, StampsMove
    <3>3. CASE HeadNext.index = head.index /\ ~GetsNext
      <4>1. ~v1 /\ head.time = last /\ HeadNext.time # head.time
        BY <1>0, <1>4, <2>2, <2>3, <3>3 DEF GetsNext, Aside
      <4>2. CASE StampAt(head.index) = frames
        BY <1>2, <2>1, <2>3, <3>3, <4>2 DEF MemoryMoves, StampsMove
      <4>3. CASE head.time = 0
        <5>1. Latest = 0
          BY <1>1, <1>2, <2>1, <4>1, <4>3
        <5> QED
          BY <2>1, <2>3, <5>1 DEF MemoryMoves, StampsMove
      <4> QED
        BY <2>1, <4>1, <4>2, <4>3 DEF MemoryMoves, TimeMoves
    <3> QED
      BY <3>1, <3>2, <3>3
  <2>4. Loading => Latest <= StampAtNext(loading.index)
    BY <1>0, <1>1, <1>2, <2>1 DEF MemoryMoves, StampsMove
  <2> QED
    BY <1>0, <1>1, <1>4, <2>1, <2>2, <2>3, <2>4 DEF Aside
<1>5. CASE ReaderSteps /\ reader \notin {"query", "open"} /\ ~NotValid /\ ~Stopped
  <2>1. /\ readerMap' = readerMap /\ head' = head /\ MemoryMoves
        /\ \A i \in Slot : StampThen(i) = StampAt(i) /\ StampAt(i) \in Nat
    <3>1. readerMap' = readerMap
      BY <1>5 DEF ReaderSteps, Query, ReaderOpens, ReaderAttaches, Poll, Load, LoadImage, LoadPart, Deliver, StopEarly
    <3> QED
      BY <1>3, <1>5, <3>1, ReaderLeavesMemory DEF head, HeadNext, StampThen, StampAtNext, MemoryMoves, StampsMove
  <2>2. CASE ReaderAttaches
    <3>1. Latest' = Latest /\ Latest = 0 /\ reader' = "poll"
      BY <1>2, <2>2 DEF ReaderAttaches, Latest, Attached
    <3> QED
      BY <2>1, <3>1 DEF Loading
  <2>3. CASE Poll
    <3>1. Latest' = Latest /\ reader = "poll" /\ reader' = "load" /\ GetsNext
      BY <2>3 DEF Poll, IsNew, Latest, GetsNext
    <3> QED
      BY <1>1, <2>1, <3>1 DEF Loading, Attached
  <2>4. CASE Load
    <3>1. Latest' = Latest /\ reader = "load" /\ reader' \notin {"load", "poll", "deliver"} /\ loading'.index = head.index
          /\ (Loading' => head.index \in Slot)
      BY <2>4 DEF Load, NoLoad, Latest, Loading
    <3> QED
      BY <1>1, <2>1, <3>1 DEF GetsNext, Attached
  <2>5. CASE LoadImage
    <3>1. /\ Latest' = Latest /\ Loading /\ reader' \notin {"load", "poll"} /\ loading'.index = loading.index
          /\ reader' = "deliver" => loading'.frame.stamp = StampAt(loading.index)
      BY <2>5 DEF LoadImage, LoadPart, Latest, Loading, RingTypes, Frame, StampAt
    <3> QED
      BY <1>0, <1>1, <2>1, <3>1 DEF GetsNext
  <2>6. CASE Deliver
    <3>1. reader' = "poll" /\ last' = Seen
      BY <2>6 DEF Deliver
    <3>2. ~GetsNext'
      BY <1>0, <2>1, <3>1 DEF GetsNext, Seen
    <3> QED
      BY <3>1, <3>2 DEF Loading
  <2> QED
    BY <1>5, <2>2, <2>3, <2>4, <2>5, <2>6 DEF ReaderSteps, Query, ReaderOpens, StopEarly
<1>6. CASE Query \/ ReaderOpens \/ StopEarly \/ NotValid \/ Stopped
  BY <1>6 DEF Query, ReaderOpens, StopEarly, NotValid, Stopped, Attached
<1> QED
  BY <1>4, <1>5, <1>6, OthersStayAside DEF ReaderSteps, ReaderAttaches, Poll, Load, LoadImage, LoadPart, Deliver

(* A step of the reader that has its memory attached, and what it leaves alone. *)
LEMMA ReaderKeepsMemory ==
  ASSUME RingTypes, WriterGoesOn, NumbersGrow, [RingNext]_ringVars, ~loading'.disturbed,
         ReaderSteps, ~NotValid, ~Stopped, reader \notin {"query", "open"}
  PROVE  /\ readerMap' = readerMap /\ head' = head /\ MemoryMoves
         /\ head.time \in Nat /\ \A i \in Slot : StampThen(i) = StampAt(i) /\ StampAt(i) \in Nat
         /\ ReaderAttaches \/ Poll \/ Load \/ LoadImage \/ Deliver
<1>1. readerMap' = readerMap /\ (ReaderAttaches \/ Poll \/ Load \/ LoadImage \/ Deliver)
  BY DEF ReaderSteps, Query, ReaderOpens, ReaderAttaches, Poll, Load, LoadImage, LoadPart, Deliver, StopEarly
<1>2. MemoryMoves
  BY ReaderMemoryMoves
<1> QED
  BY <1>1, <1>2, ReaderLeavesMemory DEF head, HeadNext, StampThen, StampAtNext, MemoryMoves, StampsMove, Headers

(* The last condition of TimeGoesForward, of what is loaded after a frame that came twice. *)
LEMMA TimeGoesForwardStep ==
  ASSUME RingTypes, WriterGoesOn, NumbersGrow, TimeGoesForward, [RingNext]_ringVars
  PROVE  TimeGoesForward'
<1> DEFINE Went ==
        /\ last <= head.time /\ (reader # "poll" => last < head.time)
        /\ delivered.times > 0 => last > 0
        /\ head.time # last => Latest <= head.time
        /\ head.index \in Slot => \/ head.time <= StampAt(head.index) \/ delivered.times = 0
                                  \/ (delivered.times = 1 /\ head.time = last)
        /\ delivered.times <= 2
        /\ delivered.times = 2 =>
               /\ Latest <= last
               /\ Loading => Latest < StampAt(loading.index)
               /\ reader = "deliver" => Latest < loading.frame.stamp
<1> DEFINE MayGo ==
        /\ last' <= head'.time /\ (reader' # "poll" => last' < head'.time)
        /\ delivered'.times > 0 => last' > 0
        /\ head'.time # last' => Latest' <= head'.time
        /\ head'.index \in Slot => \/ head'.time <= StampThen(head'.index) \/ delivered'.times = 0
                                   \/ (delivered'.times = 1 /\ head'.time = last')
        /\ delivered'.times <= 2
        /\ delivered'.times = 2 =>
               /\ Latest' <= last'
               /\ Loading' => Latest' < StampThen(loading'.index)
               /\ reader' = "deliver" => Latest' < loading'.frame.stamp
<1> SUFFICES ASSUME ~v1', ~loading'.disturbed, reader' \in Attached
             PROVE  MayGo
  BY DEF TimeGoesForward, StampAt, StampThen, Latest
<1>0. ~loading.disturbed /\ ~v1 /\ (Loading => loading.index \in Slot /\ reader \in Attached)
  BY RingKept DEF v1, RingTypes, Loading, Attached
<1>1. reader \in Attached => Went
  BY <1>0 DEF TimeGoesForward
<1>2. /\ Latest \in Nat /\ Latest <= frames /\ loading.frame.stamp \in Nat /\ frames \in Nat /\ last \in Nat
      /\ delivered.times \in Nat /\ (delivered.times = 0 => Latest = 0)
      /\ (reader \in {"query", "open", "attach"} => delivered.times = 0)
  BY LatestIsOld
<1>3. CASE Aside
  <2>1. reader \in Attached /\ MemoryMoves /\ Latest' = Latest /\ Loading' = Loading
    BY <1>3, ReaderMemoryMoves DEF Aside, Attached, Latest, Loading
  <2>2. head' = HeadNext /\ (\A i \in Slot : StampThen(i) = StampAtNext(i))
    BY <1>3 DEF Aside, head, HeadNext, StampThen, StampAtNext
  <2>3. /\ head.time \in Nat /\ HeadNext.time \in Nat /\ head.time <= HeadNext.time
        /\ HeadNext.time = head.time \/ (HeadNext.time = frames /\ HeadNext.index = head.index)
    BY <2>1 DEF MemoryMoves, TimeMoves, Headers
  <2>4. Went
    BY <1>1, <2>1
  <2>5. \A i \in Slot : StampAt(i) \in Nat /\ StampAtNext(i) \in Nat /\ StampAt(i) <= StampAtNext(i)
    BY <2>1 DEF MemoryMoves, StampsMove
  <2>6. ASSUME HeadNext.index \in Slot
        PROVE  \/ HeadNext.time <= StampAtNext(HeadNext.index) \/ delivered.times = 0
               \/ (delivered.times = 1 /\ HeadNext.time = last)
    <3>1. CASE HeadNext.index # head.index
      BY <2>1, <2>6, <3>1 DEF MemoryMoves, IndexMoves
    <3>2. CASE HeadNext.index = head.index /\ HeadNext.time = head.time
      BY <2>3, <2>4, <2>5, <2>6, <3>2
    <3>3. CASE HeadNext.index = head.index /\ HeadNext.time # head.time
      <4>1. HeadNext.time = frames /\ ((head.index \in Slot /\ StampAt(head.index) = frames) \/ head.time = 0)
        BY <2>1, <3>3 DEF MemoryMoves, TimeMoves
      <4>2. CASE StampAt(head.index) = frames
        BY <1>2, <2>5, <2>6, <3>3, <4>1, <4>2
      <4>3. CASE head.time = 0
        BY <1>2, <2>4, <4>3
      <4> QED
        BY <4>1, <4>2, <4>3
    <3> QED
      BY <3>1, <3>2, <3>3
  <2>7. last <= HeadNext.time /\ (reader # "poll" => last < HeadNext.time) /\ (HeadNext.time # last => Latest <= HeadNext.time)
    BY <1>2, <2>3, <2>4
  <2>8. delivered.times = 2 /\ Loading => Latest < StampAtNext(loading.index)
    BY <1>0, <1>2, <2>4, <2>5
  <2> HIDE DEF Went
  <2>9. /\ delivered.times > 0 => last > 0
        /\ delivered.times <= 2
        /\ delivered.times = 2 => Latest <= last /\ (reader = "deliver" => Latest < loading.frame.stamp)
    BY <2>4 DEF Went
  <2> QED
    BY <1>0, <1>3, <2>1, <2>2, <2>6, <2>7, <2>8, <2>9 DEF Aside
<1>4. CASE ReaderSteps /\ reader \notin {"query", "open"} /\ ~NotValid /\ ~Stopped
  <2>1. /\ readerMap' = readerMap /\ head' = head /\ MemoryMoves
        /\ head.time \in Nat /\ \A i \in Slot : StampThen(i) = StampAt(i) /\ StampAt(i) \in Nat
        /\ ReaderAttaches \/ Poll \/ Load \/ LoadImage \/ Deliver
    BY <1>4, ReaderKeepsMemory
  <2>2. CASE ReaderAttaches
    <3>1. Latest' = Latest /\ Latest = 0 /\ delivered' = delivered /\ delivered.times = 0 /\ reader' = "poll" /\ last' = 0
      BY <1>0, <1>2, <2>2 DEF ReaderAttaches, Latest, Attached
    <3> QED
      BY <2>1, <3>1 DEF Loading
  <2>3. CASE Poll
    <3>1. /\ Latest' = Latest /\ delivered' = delivered /\ last' = last /\ reader = "poll" /\ reader' = "load"
          /\ head.time # last
      BY <1>0, <2>3 DEF Poll, IsNew, Latest
    <3>2. Went /\ last < head.time
      BY <1>1, <1>2, <2>1, <3>1 DEF Attached
    <3> QED
      BY <2>1, <3>1, <3>2 DEF Loading
  <2>4. CASE Load
    <3>1. /\ Latest' = Latest /\ delivered' = delivered /\ last' = last /\ reader = "load" /\ reader' # "deliver"
          /\ loading'.index = head.index /\ (Loading' => head.index \in Slot)
      BY <2>4 DEF Load, NoLoad, Latest, Loading
    <3>2. Went /\ last < head.time
      BY <1>1, <3>1 DEF Attached
    <3>3. delivered.times = 2 /\ head.index \in Slot => Latest < StampAt(head.index)
      BY <1>2, <2>1, <3>2
    <3> QED
      BY <2>1, <3>1, <3>2, <3>3
  <2>5. CASE LoadImage
    <3>1. /\ Latest' = Latest /\ delivered' = delivered /\ last' = last /\ Loading /\ loading'.index = loading.index
          /\ reader' = "deliver" => loading'.frame.stamp = StampAt(loading.index)
      BY <2>5 DEF LoadImage, LoadPart, Latest, Loading, RingTypes, Frame, StampAt
    <3>2. Went /\ reader # "poll"
      BY <1>0, <1>1, <3>1 DEF Loading
    <3> QED
      BY <1>0, <2>1, <3>1, <3>2
  <2>6. CASE Deliver
    <3>1. /\ reader' = "poll" /\ last' = head.time /\ Latest' = loading.frame.stamp /\ reader = "deliver"
          /\ delivered'.times = IF delivered.frame = loading.frame THEN delivered.times + 1 ELSE 1
      BY <1>0, <2>6 DEF Deliver, Seen, Latest
    <3>2. Went /\ last < head.time
      BY <1>1, <3>1 DEF Attached
    <3>3. delivered.times = 2 => delivered.frame # loading.frame
      BY <1>2, <3>1, <3>2 DEF Latest
    <3>4. delivered'.times \in {1, 2} /\ (delivered'.times = 2 => delivered.times = 1 /\ Latest' = Latest)
      BY <1>2, <3>1, <3>2, <3>3 DEF Latest
    <3>5. delivered'.times = 2 => Latest <= head.time
      BY <3>2, <3>4, <1>2, <2>1
    <3>6. delivered'.times = 2 /\ head.index \in Slot => head.time <= StampAt(head.index)
      BY <3>2, <3>4, <1>2, <2>1
    <3> QED
      BY <1>2, <2>1, <3>1, <3>2, <3>4, <3>5, <3>6 DEF Loading
  <2> QED
    BY <2>1, <2>2, <2>3, <2>4, <2>5, <2>6
<1>5. CASE Query \/ ReaderOpens \/ StopEarly \/ NotValid \/ Stopped
  BY <1>5 DEF Query, ReaderOpens, StopEarly, NotValid, Stopped, Attached
<1> QED
  BY <1>3, <1>4, <1>5, OthersStayAside DEF ReaderSteps, ReaderAttaches, Poll, Load, LoadImage, LoadPart, Deliver

(* V1: the frame that was copied is not newer than the one its header shows, and the next one is newer. *)
LEMMA IndexGoesForwardStep ==
  ASSUME RingTypes, RingTypes', WriterGoesOn, ReaderSeesFrames, ReaderSeesFrames', ReaderCopiesOne', OneFile,
         NumbersGrow, IndexGoesForward, [RingNext]_ringVars
  PROVE  IndexGoesForward'
<1> DEFINE Clean  == delivered.times > 0 /\ ~Overtaken(delivered)
           Copied == loading.stored < ImageCount - 1 =>
                        /\ Loading => StampAt(loading.index) <= StampAt(head.index)
                        /\ reader = "deliver" => loading.frame.stamp <= StampAt(head.index)
           Newer  == Clean =>
                        /\ Latest <= StampAt(head.index)
                        /\ GetsNext => Latest < StampAt(head.index)
                        /\ Loading => Latest < StampAt(loading.index)
                        /\ reader = "deliver" => Latest < loading.frame.stamp
           CopiedThen == loading'.stored < ImageCount - 1 =>
                        /\ Loading' => StampThen(loading'.index) <= StampThen(head'.index)
                        /\ reader' = "deliver" => loading'.frame.stamp <= StampThen(head'.index)
           NewerThen  == Clean' =>
                        /\ Latest' <= StampThen(head'.index)
                        /\ GetsNext' => Latest' < StampThen(head'.index)
                        /\ Loading' => Latest' < StampThen(loading'.index)
                        /\ reader' = "deliver" => Latest' < loading'.frame.stamp
<1> SUFFICES ASSUME v1', Undisturbed', reader' \in Attached
             PROVE  CopiedThen /\ NewerThen
  BY DEF IndexGoesForward, StampAt, StampThen, Latest, GetsNext
<1>0. /\ Undisturbed /\ v1 /\ ~loading'.disturbed /\ (Loading => loading.index \in Slot /\ reader \in Attached)
      /\ head'.index \in Slot
  BY RingKept DEF v1, RingTypes, Loading, Attached, Undisturbed, ReaderSeesFrames, Shown, head
<1>1. reader \in Attached => Copied /\ Newer /\ head.index \in Slot
  BY <1>0 DEF IndexGoesForward, GetsNext, ReaderSeesFrames, Shown, head
<1>2. /\ Latest \in Nat /\ Latest <= frames /\ loading.frame.stamp \in Nat /\ loading.frame.stamp <= frames
      /\ frames \in Nat /\ delivered.times \in Nat /\ (reader \in {"query", "open", "attach"} => delivered.times = 0)
  BY LatestIsOld DEF NumbersGrow
<1>3. loading.stored \in Nat /\ loading'.stored \in Nat /\ delivered.stored \in Nat /\ ImageCount \in Nat \ {0}
  BY RingAssumption DEF RingTypes
<1>4. CASE Aside
  <2>1. /\ reader \in Attached /\ MemoryMoves /\ Latest' = Latest /\ Loading' = Loading /\ Clean' = Clean
        /\ last' = last /\ reader' = reader /\ loading'.index = loading.index /\ loading'.frame = loading.frame
        /\ loading.stored <= loading'.stored
    BY <1>0, <1>4, ReaderMemoryMoves DEF Aside, Attached, Latest, Loading, Overtaken
  <2>2. head' = HeadNext /\ (\A i \in Slot : StampThen(i) = StampAtNext(i))
    BY <1>4 DEF Aside, head, HeadNext, StampThen, StampAtNext
  <2>3. Copied /\ Newer /\ head.index \in Slot /\ HeadNext.index \in Slot
    BY <1>0, <1>1, <2>1, <2>2
  <2>4. \A i \in Slot : StampAt(i) \in Nat /\ StampAtNext(i) \in Nat /\ StampAt(i) <= StampAtNext(i)
    BY <2>1 DEF MemoryMoves, StampsMove
  <2>5. HeadNext.index # head.index => StampAtNext(HeadNext.index) = frames /\ \A i \in Slot : StampAtNext(i) <= frames
    BY <2>1, <2>3 DEF MemoryMoves, StampsMove, IndexMoves
  <2>6. CopiedThen
    <3>1. ASSUME loading'.stored < ImageCount - 1, Loading
          PROVE  StampAtNext(loading.index) = StampAt(loading.index)
      <4>1. writer' = "top" => loading'.index # index'
        BY <3>1, <1>4, <2>1 DEF ReaderCopiesOne
      <4> QED
        BY <1>0, <2>1, <3>1, <4>1 DEF MemoryMoves, StampsMove
    <3>2. loading'.stored < ImageCount - 1 => loading.stored < ImageCount - 1
      BY <1>3, <2>1
    <3>3. loading'.stored < ImageCount - 1 /\ Loading => StampAtNext(loading.index) <= StampAtNext(HeadNext.index)
      BY <1>0, <2>3, <2>4, <2>5, <3>1, <3>2
    <3>4. loading'.stored < ImageCount - 1 /\ reader = "deliver" => loading.frame.stamp <= StampAtNext(HeadNext.index)
      BY <1>2, <2>3, <2>4, <2>5, <3>2
    <3> QED
      BY <1>0, <2>1, <2>2, <2>3, <3>3, <3>4
  <2>7. NewerThen
    <3>1. HeadNext.index # head.index /\ Clean => Latest < frames
      <4> SUFFICES ASSUME HeadNext.index # head.index, Clean
                   PROVE  Latest < frames
        OBVIOUS
      <4>1. /\ writer = "lastIndex" /\ writerMap = readerMap /\ ImageCount > 1
        BY <1>3, <2>1, <2>3 DEF MemoryMoves, IndexMoves, Overtaken
      <4>2. HeaderOfWriter(head)
        BY <1>0, <2>1, <4>1, ReaderHasFile
      <4>3. head.index # index
        BY <1>3, <2>3, <4>1, <4>2, BeforeIsOther DEF HeaderOfWriter, Storing, Slot
      <4>4. StampAt(head.index) < frames
        BY <2>3, <4>1, <4>3 DEF NumbersGrow, Storing, StampAt
      <4> QED
        BY <1>2, <2>3, <2>4, <4>4
    <3>2. Clean => Latest <= StampAtNext(HeadNext.index)
      BY <1>2, <2>3, <2>4, <2>5
    <3>3. GetsNext' => HeadNext.index # head.index \/ GetsNext
      BY <1>0, <2>1, <2>2 DEF GetsNext
    <3>4. Clean /\ GetsNext' => Latest < StampAtNext(HeadNext.index)
      BY <1>2, <2>3, <2>4, <2>5, <3>1, <3>3
    <3>5. Clean /\ Loading => Latest < StampAtNext(loading.index)
      BY <1>0, <1>2, <2>3, <2>4
    <3> QED
      BY <1>0, <2>1, <2>2, <2>3, <3>2, <3>4, <3>5
  <2> QED
    BY <2>6, <2>7
<1>5. CASE ReaderSteps /\ reader \notin {"query", "open"} /\ ~NotValid /\ ~Stopped
  <2>1. /\ readerMap' = readerMap /\ head' = head /\ head.index \in Slot
        /\ \A i \in Slot : StampThen(i) = StampAt(i) /\ StampAt(i) \in Nat
        /\ ReaderAttaches \/ Poll \/ Load \/ LoadImage \/ Deliver
    BY <1>0, <1>5, ReaderKeepsMemory
  <2>2. CASE ReaderAttaches
    <3>1. delivered'.times = 0 /\ reader' = "poll"
      BY <1>2, <2>2 DEF ReaderAttaches, Attached
    <3> QED
      BY <3>1 DEF Loading
  <2>3. CASE Poll
    <3>1. Latest' = Latest /\ Clean' = Clean /\ reader = "poll" /\ reader' = "load" /\ GetsNext
      BY <1>0, <2>3 DEF Poll, IsNew, Latest, GetsNext, Overtaken
    <3>2. Newer
      BY <1>1, <3>1 DEF Attached
    <3> QED
      BY <2>1, <3>1, <3>2 DEF Loading
  <2>4. CASE Load
    <3>1. /\ Latest' = Latest /\ Clean' = Clean /\ reader = "load" /\ reader' \notin {"deliver", "poll", "load"}
          /\ loading'.index = head.index
      BY <2>4 DEF Load, NoLoad, Latest, Overtaken
    <3>2. Newer /\ GetsNext
      BY <1>1, <3>1 DEF Attached, GetsNext
    <3> QED
      BY <2>1, <3>1, <3>2 DEF GetsNext
  <2>5. CASE LoadImage
    <3>1. /\ Latest' = Latest /\ Clean' = Clean /\ Loading /\ loading'.index = loading.index
          /\ loading'.stored = loading.stored /\ reader' \notin {"poll", "load"}
          /\ reader' = "deliver" => loading'.frame.stamp = StampAt(loading.index)
      BY <2>5 DEF LoadImage, LoadPart, Latest, Loading, RingTypes, Frame, StampAt, Overtaken
    <3>2. Copied /\ Newer
      BY <1>0, <1>1, <3>1
    <3> QED
      BY <1>0, <2>1, <3>1, <3>2 DEF GetsNext
  <2>6. CASE Deliver
    <3>1. /\ reader' = "poll" /\ last' = head.index /\ Latest' = loading.frame.stamp /\ reader = "deliver"
          /\ delivered'.stored = loading.stored
      BY <1>0, <2>6 DEF Deliver, Seen, Latest
    <3>2. Copied
      BY <1>1, <3>1 DEF Attached
    <3>3. Clean' => loading.stored < ImageCount - 1
      BY <1>3, <3>1 DEF Overtaken
    <3>4. ~GetsNext' /\ ~Loading'
      BY <1>0, <2>1, <3>1 DEF GetsNext, Loading
    <3> QED
      BY <2>1, <3>1, <3>2, <3>3, <3>4
  <2> QED
    BY <2>1, <2>2, <2>3, <2>4, <2>5, <2>6
<1>6. CASE Query \/ ReaderOpens \/ StopEarly \/ NotValid \/ Stopped
  BY <1>6 DEF Query, ReaderOpens, StopEarly, NotValid, Stopped, Attached
<1> QED
  BY <1>4, <1>5, <1>6, OthersStayAside DEF ReaderSteps, ReaderAttaches, Poll, Load, LoadImage, LoadPart, Deliver

(* A frame that is distributed keeps the order. *)
LEMMA FramesInOrderStep ==
  ASSUME RingTypes, RingTypes', NumbersGrow, ReaderGoesForward, IndexGoesForward, TimeGoesForward', [RingNext]_ringVars
  PROVE  InOrder
<1>1. CASE Deliver
  <2> SUFFICES ASSUME ~Overtaken(delivered'), ~Overtaken(delivered)
               PROVE  /\ delivered'.frame.stamp >= delivered.frame.stamp
                      /\ ~v1 => delivered'.times <= 2
                      /\ v1 /\ causes \cap {"halfway", "trigger"} = {} => delivered'.times <= 1
    BY DEF InOrder
  <2>1. /\ reader = "deliver" /\ reader' = "poll" /\ v1' = v1 /\ delivered'.frame = loading.frame
        /\ delivered'.times = (IF delivered.frame = loading.frame THEN delivered.times + 1 ELSE 1)
        /\ ~loading.disturbed /\ loading'.disturbed = loading.disturbed
    BY <1>1 DEF Deliver, NoLoad, Overtaken, v1
  <2>2. Latest <= loading.frame.stamp /\ Latest \in Nat /\ loading.frame.stamp \in Nat /\ delivered.times \in Nat
    BY <2>1, LatestIsOld DEF ReaderGoesForward, Attached
  <2>3. ~v1 => delivered'.times <= 2
    BY <2>1 DEF TimeGoesForward, Attached
  <2>4. ASSUME v1, causes \cap {"halfway", "trigger"} = {}
        PROVE  delivered'.times <= 1
    <3>1. Undisturbed
      BY <2>1, <2>4 DEF Undisturbed, Untouched
    <3>2. delivered.times > 0 => Latest < loading.frame.stamp
      BY <2>1, <2>4, <3>1 DEF IndexGoesForward, Attached
    <3> QED
      BY <2>1, <2>2, <3>2 DEF Latest
  <2> QED
    BY <2>1, <2>2, <2>3, <2>4 DEF Latest
<1>2. CASE delivered' = delivered
  BY <1>2 DEF InOrder
<1> QED
  BY <1>1, <1>2, OthersStayAside DEF ReaderSteps, Aside, Query, ReaderOpens, ReaderAttaches, NotValid, Poll, Load, LoadImage,
     LoadPart, StopEarly, Stopped

LEMMA FramesAreWholeStep ==
  ASSUME RingTypes, ReaderCopiesOne, FramesAreWhole, [RingNext]_ringVars
  PROVE  FramesAreWhole'
<1>1. causes \cap {"halfway", "trigger"} # {} => causes' \cap {"halfway", "trigger"} # {}
  BY RingKept
<1>2. CASE Deliver
  <2>1. /\ reader = "deliver" /\ causes' = causes /\ delivered'.frame = loading.frame
        /\ delivered'.stored = loading.stored /\ delivered'.disturbed = loading.disturbed
    BY <1>2 DEF Deliver
  <2>2. loading.stored \in Nat /\ ImageCount \in Nat
    BY RingAssumption DEF RingTypes
  <2>3. causes \cap {"halfway", "trigger"} = {} /\ ~Overtaken(loading) => Whole(loading.frame)
    BY <2>1, <2>2 DEF ReaderCopiesOne, Undisturbed, Untouched, Overtaken
  <2> QED
    BY <2>1, <2>3 DEF FramesAreWhole, Overtaken, Whole
<1>3. CASE delivered' = delivered
  BY <1>1, <1>3 DEF FramesAreWhole, Overtaken, Whole
<1>4. CASE ~Deliver
  BY <1>3, <1>4 DEF RingNext, WriterStep, TriggerStep, ReaderStep, ringVars, WriterOpens, WriterAttaches, WriterFails, Clear,
         Initialise, SetHeader, StoreStamp, Store, StorePart, StoreTime, WriterDetaches, WriterUnlinks, WriterCrashes,
         TriggerOpens, TriggerAttaches, TriggerDetaches, Query, ReaderOpens, ReaderAttaches, NotValid, Stopped, Poll,
         Load, LoadImage, LoadPart, StopEarly, readerVars
<1> QED
  BY <1>2, <1>4

LEMMA FailuresExplainedStep ==
  ASSUME RingTypes, HeadersShowFrames, ReaderSeesFrames, CausesKept, FailuresExplained, [RingNext]_ringVars
  PROVE  FailuresExplained'
<1>0. \A c \in causes : c = "gone" \/ c \in causes'
  BY RingKept
<1>1. TriggerIsCause /\ GoneIsCause /\ FoundValid /\ FoundCount /\ HeaderFiles
  BY CausesParts
<1>2. causes \subseteq causes' \/ Query
  BY DEF RingNext, WriterStep, TriggerStep, ReaderStep, ringVars, WriterOpens, WriterAttaches, WriterFails, Clear,
         Initialise, SetHeader, StoreStamp, Store, StorePart, StoreTime, WriterDetaches, WriterUnlinks, WriterCrashes,
         TriggerOpens, TriggerAttaches, TriggerDetaches, ReaderOpens, ReaderAttaches, NotValid, Stopped, Poll,
         Load, LoadImage, LoadPart, Deliver, StopEarly
<1>3. CASE WriterFails
  <2>1. mem[writerMap].size = "header" /\ writerMap \in Files
    BY <1>3, WriterFile DEF WriterFails, Fits, RingTypes, Memory
  <2>2. causes \cap {"early", "halfway", "trigger"} # {}
    BY <1>1, <2>1 DEF HeaderFiles
  <2> QED
    BY <1>3, <2>2 DEF WriterFails, FailuresExplained, readerVars
<1>4. CASE ReaderAttaches
  <2>1. /\ reader = "attach" /\ readerMap \in Files /\ head \in Headers /\ writer' = writer
        /\ mem[readerMap].size \in {"none", "header", "ring"} /\ causes \subseteq causes'
    BY <1>4, ReaderFile DEF ReaderAttaches, RingTypes, Memory, writerVars
  <2>2. reader' = "exited" => ~head.valid
    BY <1>4 DEF ReaderAttaches, head
  <2>3. reader' = "exited" => "early" \in causes' \/ "gone" \in causes'
    BY <1>1, <2>1, <2>2 DEF FoundValid
  <2>4. ASSUME causes' = {}
        PROVE  reader' \notin {"failed", "undefined"}
    <3>1. causes = {} /\ (v1 => mImageCount > 0)
      BY <1>4, <2>1, <2>4 DEF ReaderAttaches, RingTypes
    <3>2. length = "ring"
      BY <1>1, <2>1, <3>1 DEF FoundCount, length
    <3>3. Fits(readerMap, length)
      BY <1>1, <2>1, <3>1, <3>2 DEF HeaderFiles, Fits
    <3>4. v1 /\ head.valid => head.index \in Slot
      BY <2>1, <3>1 DEF HeadersShowFrames, Untouched, Shown, head
    <3> QED
      BY <1>4, <3>3, <3>4 DEF ReaderAttaches, head
  <2> QED
    BY <2>1, <2>3, <2>4 DEF FailuresExplained
<1>5. CASE Load
  <2>1. reader = "load" /\ writer' = writer /\ causes' = causes
    BY <1>5 DEF Load, writerVars
  <2>2. ASSUME causes = {}
        PROVE  reader' = "top"
    <3>1. Undisturbed
      BY <1>1, <2>2 DEF GoneIsCause, Undisturbed, Untouched, RingTypes
    <3>2. Shown(readerMap)
      BY <2>1, <3>1 DEF ReaderSeesFrames, Attached
    <3> QED
      BY <1>5, <3>2, RingAssumption DEF Load, InRange, Shown, head, Slot
  <2> QED
    BY <1>5, <2>1, <2>2 DEF FailuresExplained, Load
<1>6. CASE writer' = writer \/ writer' # "failed"
  <2>1. writer' = "failed" => causes' \cap {"early", "halfway", "trigger"} # {}
    BY <1>0, <1>6 DEF FailuresExplained
  <2>2. CASE reader' = reader /\ ~Query
    BY <1>2, <2>1, <2>2 DEF FailuresExplained
  <2>3. CASE reader' \notin {"exited", "failed", "undefined"}
    BY <2>1, <2>3 DEF FailuresExplained
  <2> QED
    BY <1>4, <1>5, <2>2, <2>3 DEF RingNext, WriterStep, TriggerStep, ReaderStep, ringVars, WriterOpens, WriterAttaches, WriterFails, Clear,
         Initialise, SetHeader, StoreStamp, Store, StorePart, StoreTime, WriterDetaches, WriterUnlinks, WriterCrashes,
         TriggerOpens, TriggerAttaches, TriggerDetaches, Query, ReaderOpens, NotValid, Stopped, Poll,
         LoadImage, LoadPart, Deliver, StopEarly, readerVars
<1>7. CASE ~WriterFails
  BY <1>6, <1>7 DEF RingNext, WriterStep, TriggerStep, ReaderStep, ringVars, WriterOpens, WriterAttaches, Clear,
         Initialise, SetHeader, StoreStamp, Store, StorePart, StoreTime, WriterDetaches, WriterUnlinks, WriterCrashes,
         TriggerOpens, TriggerAttaches, TriggerDetaches, Query, ReaderOpens, ReaderAttaches, NotValid, Stopped, Poll,
         Load, LoadImage, LoadPart, Deliver, StopEarly, writerVars
<1> QED
  BY <1>3, <1>7

LEMMA RingInvInit == RingInit => RingInv
<1> SUFFICES ASSUME RingInit PROVE RingInv
  OBVIOUS
<1>1. RingTypes
  BY RingTypesInit
<1>2. OneFile /\ WriterGoesOn
  BY DEF RingInit, OneFile, WriterGoesOn, HeaderOfWriter, SlotOfWriter, Storing
<1>3. HeadersShowFrames
  <2>1. \A f \in Files : mem[f].header = Header
    BY DEF RingInit
  <2> QED
    BY <2>1, HeaderShowsNothing DEF HeadersShowFrames, Shown
<1>4. ReaderSeesFrames /\ ReaderCopiesOne
  BY DEF RingInit, ReaderSeesFrames, ReaderCopiesOne, Attached, Loading
<1>5. CausesKept
  BY DEF RingInit, CausesKept, NoLoad
<1>6. RingIsSafe
  BY DEF RingInit, RingIsSafe, FramesAreWhole, FailuresExplained, NoDelivery
<1>7. NumbersGrow
  <2>1. \A f \in Files : mem[f].header.time <= frames /\ \A i \in Slot : mem[f].slots[i].stamp <= frames
    BY DEF RingInit, Header, Blank
  <2> QED
    BY <2>1 DEF RingInit, NumbersGrow, NoLoad, NoDelivery, Blank, Storing
<1>8. ReaderGoesForward /\ TimeGoesForward /\ IndexGoesForward
  BY DEF RingInit, ReaderGoesForward, TimeGoesForward, IndexGoesForward, Attached
<1> QED
  BY <1>1, <1>2, <1>3, <1>4, <1>5, <1>6, <1>7, <1>8 DEF RingInv

LEMMA RingInvStep == RingInv /\ [RingNext]_ringVars => RingInv'
<1> SUFFICES ASSUME RingInv, [RingNext]_ringVars PROVE RingInv'
  OBVIOUS
<1>1. /\ RingTypes /\ OneFile /\ WriterGoesOn /\ HeadersShowFrames
      /\ ReaderSeesFrames /\ ReaderCopiesOne /\ CausesKept /\ FramesAreWhole /\ FailuresExplained
      /\ NumbersGrow /\ ReaderGoesForward /\ TimeGoesForward /\ IndexGoesForward
  BY DEF RingInv, RingIsSafe
<1>2. RingTypes'
  BY <1>1, RingTypesStep
<1>3. OneFile' /\ WriterGoesOn' /\ HeadersShowFrames'
  BY <1>1, OneFileStep, WriterGoesOnStep, HeadersShowFramesStep
<1>4. ReaderSeesFrames' /\ ReaderCopiesOne' /\ CausesKept'
  BY <1>1, <1>2, ReaderSeesFramesStep, ReaderCopiesOneStep, CausesKeptStep
<1>5. FramesAreWhole' /\ FailuresExplained'
  BY <1>1, FramesAreWholeStep, FailuresExplainedStep
<1>6. NumbersGrow' /\ ReaderGoesForward' /\ TimeGoesForward'
  BY <1>1, NumbersGrowStep, ReaderGoesForwardStep, TimeGoesForwardStep
<1>7. IndexGoesForward'
  BY <1>1, <1>2, <1>4, IndexGoesForwardStep
<1> QED
  BY <1>2, <1>3, <1>4, <1>5, <1>6, <1>7 DEF RingInv, RingIsSafe

(* The inductive invariant holds of a ring of any size, whatever the writer, the reader and *)
(* the trigger of it do and however often the writer starts or dies. *)
THEOREM RingInvariant == RingSpec => []RingInv
BY RingInvInit, RingInvStep, PTL DEF RingSpec

(* A reader gets whole frames and processes that fail do so for a known reason *)
(* (ozMemoryInput.cpp:40-120, ozMemoryOutput.cpp:60-110), for a ring of any size. *)
THEOREM RingAlwaysSafe == RingSpec => []RingIsSafe
<1>1. RingInv => RingIsSafe
  BY DEF RingInv
<1> QED
  BY <1>1, RingInvariant, PTL

LEMMA InOrderStep == RingInv /\ [RingNext]_ringVars => InOrder
<1> SUFFICES ASSUME RingInv, [RingNext]_ringVars PROVE InOrder
  OBVIOUS
<1>1. RingInv'
  BY RingInvStep
<1> QED
  BY <1>1, FramesInOrderStep DEF RingInv

(* The reader distributes frames in the order they were stored, none of them three times, and *)
(* with V1 none twice, unless it was overtaken or had such a header *)
(* (ozMemoryInput.cpp:80-120, ozMemoryInputV1.cpp:60-110), for a ring of any size. *)
THEOREM FramesAlwaysInOrder == RingSpec => FramesInOrder
<1>1. RingInv /\ [RingNext]_ringVars => [InOrder]_ringVars
  BY InOrderStep
<1> QED
  BY <1>1, RingInvariant, PTL DEF RingSpec, FramesInOrder

(* Every step leaves what the reader distributes whole and in order, and a known reason for    *)
(* whatever failed (ozMemoryInput.cpp:40-120, ozMemoryOutput.cpp:60-110).                      *)
THEOREM RingAlwaysHolds == RingSpec => RingHolds
<1>1. RingInv /\ [RingNext]_ringVars => [RingIsSafe' /\ InOrder]_ringVars
  <2> SUFFICES ASSUME RingInv, [RingNext]_ringVars PROVE RingIsSafe' /\ InOrder
    OBVIOUS
  <2> QED
    BY InOrderStep, RingInvStep DEF RingInv
<1> QED
  BY <1>1, RingInvariant, PTL DEF RingSpec, RingHolds

-----------------------------------------------------------------------------
(***************************************************************************)
(* FeedLinks.  A provider and a consumer that no call is working on agree  *)
(* whether they are linked.                                                *)
(***************************************************************************)

USE ObjectsAssumption, LimitsAssumption, LinksAssumption, CallAssumption

(***************************************************************************)
(* Type correctness, with the arguments each step relies on.               *)
(***************************************************************************)
TypeInv == TypeOK /\ ArgsOK

LEMMA TypeInit == Init => TypeInv
<1> SUFFICES ASSUME Init PROVE TypeOK /\ ArgsOK
  BY DEF TypeInv
<1>1. TypeOK
  BY DEF Init, TypeOK, ProvState, Label
<1>2. ArgsOK
  BY DEF Init, ArgsOK, PairStep, LinkStep, UnlinkStep
<1> QED
  BY <1>1, <1>2

(* Where a call goes next, it keeps the types of the thread's own variables. *)
ControlOK == /\ pc \in [Thread -> Label]
             /\ onProvider \in [Thread -> Provider \cup {None}]
             /\ onConsumer \in [Thread -> Consumer \cup {None}]

LEMMA LeavePairControl ==
  ASSUME ControlOK, NEW t \in Thread, LeavePair(t)
  PROVE  ControlOK'
<1>1. CASE bad[t] # {}
  BY <1>1 DEF ControlOK, LeavePair, Goto, Label
<1>2. CASE bad[t] = {}
  BY <1>2 DEF ControlOK, LeavePair, Return, Goto, Label
<1> QED
  BY <1>1, <1>2

LEMMA TypeStep == TypeOK /\ ArgsOK /\ [Next]_vars => TypeOK'
<1> SUFFICES ASSUME TypeOK, ArgsOK, [Next]_vars PROVE TypeOK'
  OBVIOUS
<1> USE DEF maps, locks, local, Goto, Return, LeavePair, Continue,
            Test, SetConsumers, InConsumers, InProviders
<1> USE DEF TypeOK, ArgsOK, Label, PairStep, LinkStep, UnlinkStep, ProvState
<1>1. ASSUME NEW t \in Thread, StartCall(t) PROVE TypeOK'
  <2>1. ASSUME NEW p \in Provider, NEW c \in Consumer, RegisterProvider(t, p, c) PROVE TypeOK'
    BY <2>1 DEF RegisterProvider, Invoke
  <2>2. ASSUME NEW p \in Provider, NEW c \in Consumer, DeregisterProvider(t, p, c) PROVE TypeOK'
    BY <2>2 DEF DeregisterProvider, Invoke
  <2>3. ASSUME NEW c \in Consumer, ConsumerCleanup(t, c) PROVE TypeOK'
    BY <2>3 DEF ConsumerCleanup, Invoke
  <2>4. ASSUME NEW p \in Provider, ProviderCleanup(t, p) PROVE TypeOK'
    BY <2>4 DEF ProviderCleanup, Invoke
  <2>5. ASSUME NEW p \in Provider, DistributeFrame(t, p) PROVE TypeOK'
    BY <2>5 DEF DistributeFrame, Invoke
  <2> QED
    BY <1>1, <2>1, <2>2, <2>3, <2>4, <2>5 DEF StartCall
<1>2. ASSUME NEW t \in Thread, CallStep(t) PROVE TypeOK'
  <2>1. CASE InsertProvider(t)
    <3>1. LeavePair(t) \/ Continue(t, "testConsumer") \/ UNCHANGED local
      BY <2>1 DEF InsertProvider
    <3>2. ControlOK'
      BY <3>1, LeavePairControl DEF ControlOK
    <3> HIDE DEF LeavePair, Continue, Goto, Return
    <3> QED
      <4>1. onProvider[t] \in Provider /\ onConsumer[t] \in Consumer
        BY <2>1 DEF InsertProvider
      <4>2. CASE aborted' = TRUE /\ UNCHANGED << maps, local >>
        BY <2>1, <3>2, <4>2 DEF InsertProvider, ControlOK
      <4>3. CASE /\ mProviders' = [mProviders EXCEPT ![onConsumer[t]] = @ \cup {onProvider[t]}]
                 /\ UNCHANGED << mConsumers, aborted, todo, bad >>
        BY <2>1, <3>2, <4>1, <4>3 DEF InsertProvider, ControlOK
      <4> QED
        BY <2>1, <4>2, <4>3 DEF InsertProvider
  <2>2. CASE TestConsumer(t)
    <3>1. LeavePair(t) \/ Continue(t, "insertConsumer") \/ UNCHANGED local
      BY <2>2 DEF TestConsumer
    <3>2. ControlOK'
      BY <3>1, LeavePairControl DEF ControlOK
    <3> HIDE DEF LeavePair, Continue, Goto, Return
    <3> QED
      BY <2>2, <3>2 DEF TestConsumer, ControlOK
  <2>3. CASE InsertConsumer(t)
    BY <2>3 DEF InsertConsumer
  <2>4. CASE TestProvider(t)
    BY <2>4, SMTT(30) DEF TestProvider
  <2>5. CASE EraseProvider(t)
    BY <2>5 DEF EraseProvider
  <2>6. CASE RetestConsumer(t)
    <3>1. LeavePair(t) \/ Continue(t, "eraseConsumer") \/ UNCHANGED local
      BY <2>6 DEF RetestConsumer
    <3>2. ControlOK'
      BY <3>1, LeavePairControl DEF ControlOK
    <3> HIDE DEF LeavePair, Continue, Goto, Return
    <3> QED
      BY <2>6, <3>2 DEF RetestConsumer, ControlOK
  <2>7. CASE EraseConsumer(t)
    BY <2>7 DEF EraseConsumer
  <2>8. CASE RetestProvider(t)
    BY <2>8, SMTT(30) DEF RetestProvider
  <2>9. CASE EndProvider(t)
    BY <2>9 DEF EndProvider
  <2>10. CASE LockConsumers(t)
    BY <2>10 DEF LockConsumers
  <2>11. CASE ClearConsumers(t)
    BY <2>11 DEF ClearConsumers
  <2>12. CASE LockProviders(t)
    BY <2>12 DEF LockProviders
  <2>13. CASE ClearProviders(t)
    BY <2>13 DEF ClearProviders
  <2>14. CASE ClearQueue(t)
    BY <2>14 DEF ClearQueue
  <2>15. CASE SetReady(t)
    BY <2>15 DEF SetReady
  <2>16. CASE LockToOffer(t)
    BY <2>16 DEF LockToOffer
  <2>17. CASE EndOffer(t)
    <3>1. ControlOK'
      BY <2>17, LeavePairControl DEF EndOffer, ControlOK
    <3> QED
      BY <2>17, <3>1 DEF EndOffer, ControlOK
  <2>18. ASSUME NEW c \in Consumer, DropProvider(t, c) PROVE TypeOK'
    BY <2>18 DEF DropProvider
  <2>19. ASSUME NEW c \in Consumer, OfferFrame(t, c) PROVE TypeOK'
    BY <2>19 DEF OfferFrame
  <2>20. ASSUME NEW c \in Consumer, DropBad(t, c) PROVE TypeOK'
    BY <2>20 DEF DropBad
  <2>21. ASSUME NEW p \in Provider, DropConsumer(t, p) PROVE TypeOK'
    BY <2>21 DEF DropConsumer
  <2> QED
    BY <1>2, <2>1, <2>2, <2>3, <2>4, <2>5, <2>6, <2>7, <2>8, <2>9, <2>10, <2>11,
       <2>12, <2>13, <2>14, <2>15, <2>16, <2>17, <2>18, <2>19, <2>20, <2>21 DEF
       CallStep
<1>3. ASSUME NEW c \in Consumer, HandleFrames(c) PROVE TypeOK'
  BY <1>3 DEF HandleFrames
<1>4. CASE UNCHANGED vars
  BY <1>4 DEF vars
<1> QED
  BY <1>1, <1>2, <1>3, <1>4 DEF Next

LEMMA ArgsStep == TypeOK /\ ArgsOK /\ [Next]_vars => ArgsOK'
<1> SUFFICES ASSUME TypeOK, ArgsOK, [Next]_vars PROVE ArgsOK'
  OBVIOUS
<1> USE DEF maps, locks, local, Goto, Return, LeavePair, Continue,
            Test, SetConsumers, InConsumers, InProviders
<1> USE DEF TypeOK, ArgsOK, PairStep, LinkStep, UnlinkStep
<1>1. ASSUME NEW t \in Thread, StartCall(t) PROVE ArgsOK'
  <2>1. ASSUME NEW p \in Provider, NEW c \in Consumer, RegisterProvider(t, p, c) PROVE ArgsOK'
    BY <2>1 DEF RegisterProvider, Invoke
  <2>2. ASSUME NEW p \in Provider, NEW c \in Consumer, DeregisterProvider(t, p, c) PROVE ArgsOK'
    BY <2>2 DEF DeregisterProvider, Invoke
  <2>3. ASSUME NEW c \in Consumer, ConsumerCleanup(t, c) PROVE ArgsOK'
    BY <2>3 DEF ConsumerCleanup, Invoke
  <2>4. ASSUME NEW p \in Provider, ProviderCleanup(t, p) PROVE ArgsOK'
    BY <2>4 DEF ProviderCleanup, Invoke
  <2>5. ASSUME NEW p \in Provider, DistributeFrame(t, p) PROVE ArgsOK'
    BY <2>5 DEF DistributeFrame, Invoke
  <2> QED
    BY <1>1, <2>1, <2>2, <2>3, <2>4, <2>5 DEF StartCall
<1>2. ASSUME NEW t \in Thread, CallStep(t) PROVE ArgsOK'
  <2>1. CASE InsertProvider(t)
    BY <2>1 DEF InsertProvider
  <2>2. CASE TestConsumer(t)
    BY <2>2 DEF TestConsumer
  <2>3. CASE InsertConsumer(t)
    BY <2>3 DEF InsertConsumer
  <2>4. CASE TestProvider(t)
    BY <2>4 DEF TestProvider
  <2>5. CASE EraseProvider(t)
    BY <2>5 DEF EraseProvider
  <2>6. CASE RetestConsumer(t)
    BY <2>6 DEF RetestConsumer
  <2>7. CASE EraseConsumer(t)
    BY <2>7 DEF EraseConsumer
  <2>8. CASE RetestProvider(t)
    BY <2>8 DEF RetestProvider
  <2>9. CASE EndProvider(t)
    BY <2>9 DEF EndProvider
  <2>10. CASE LockConsumers(t)
    BY <2>10 DEF LockConsumers
  <2>11. CASE ClearConsumers(t)
    BY <2>11 DEF ClearConsumers
  <2>12. CASE LockProviders(t)
    BY <2>12 DEF LockProviders
  <2>13. CASE ClearProviders(t)
    BY <2>13 DEF ClearProviders
  <2>14. CASE ClearQueue(t)
    BY <2>14 DEF ClearQueue
  <2>15. CASE SetReady(t)
    BY <2>15 DEF SetReady
  <2>16. CASE LockToOffer(t)
    BY <2>16 DEF LockToOffer
  <2>17. CASE EndOffer(t)
    BY <2>17 DEF EndOffer
  <2>18. ASSUME NEW c \in Consumer, DropProvider(t, c) PROVE ArgsOK'
    BY <2>18 DEF DropProvider
  <2>19. ASSUME NEW c \in Consumer, OfferFrame(t, c) PROVE ArgsOK'
    BY <2>19 DEF OfferFrame
  <2>20. ASSUME NEW c \in Consumer, DropBad(t, c) PROVE ArgsOK'
    BY <2>20 DEF DropBad
  <2>21. ASSUME NEW p \in Provider, DropConsumer(t, p) PROVE ArgsOK'
    BY <2>21 DEF DropConsumer
  <2> QED
    BY <1>2, <2>1, <2>2, <2>3, <2>4, <2>5, <2>6, <2>7, <2>8, <2>9, <2>10, <2>11,
       <2>12, <2>13, <2>14, <2>15, <2>16, <2>17, <2>18, <2>19, <2>20, <2>21 DEF
       CallStep
<1>3. ASSUME NEW c \in Consumer, HandleFrames(c) PROVE ArgsOK'
  BY <1>3 DEF HandleFrames
<1>4. CASE UNCHANGED vars
  BY <1>4 DEF vars
<1> QED
  BY <1>1, <1>2, <1>3, <1>4 DEF Next

(* Every variable of FeedLinks stays in its type. *)
THEOREM TypeCorrect == Spec => []TypeOK
<1>1. Spec => []TypeInv
  BY TypeInit, TypeStep, ArgsStep, PTL DEF Spec, TypeInv
<1>2. TypeInv => TypeOK
  BY DEF TypeInv
<1> QED
  BY <1>1, <1>2, PTL
-----------------------------------------------------------------------------
(***************************************************************************)
(* Only the sections that keep a mutex own it.                             *)
(***************************************************************************)
LEMMA LocksStep ==
  ASSUME TypeOK, ArgsOK, LocksHeld, [Next]_vars
  PROVE  LocksHeld'
<1> USE DEF maps, locks, local, Goto, Return, LeavePair, Continue,
            Test, SetConsumers, InConsumers, InProviders
<1> USE DEF TypeOK, ArgsOK, LocksHeld, PairStep, LinkStep, UnlinkStep
<1>1. ASSUME NEW t \in Thread, StartCall(t) PROVE LocksHeld'
  <2>1. ASSUME NEW q \in Provider, NEW d \in Consumer, RegisterProvider(t, q, d) PROVE LocksHeld'
    BY <2>1 DEF RegisterProvider, Invoke
  <2>2. ASSUME NEW q \in Provider, NEW d \in Consumer, DeregisterProvider(t, q, d) PROVE LocksHeld'
    BY <2>2 DEF DeregisterProvider, Invoke
  <2>3. ASSUME NEW d \in Consumer, ConsumerCleanup(t, d) PROVE LocksHeld'
    BY <2>3 DEF ConsumerCleanup, Invoke
  <2>4. ASSUME NEW q \in Provider, ProviderCleanup(t, q) PROVE LocksHeld'
    BY <2>4 DEF ProviderCleanup, Invoke
  <2>5. ASSUME NEW q \in Provider, DistributeFrame(t, q) PROVE LocksHeld'
    BY <2>5 DEF DistributeFrame, Invoke
  <2> QED
    BY <1>1, <2>1, <2>2, <2>3, <2>4, <2>5 DEF StartCall
<1>2. ASSUME NEW t \in Thread, CallStep(t) PROVE LocksHeld'
  <2>1. CASE InsertProvider(t)
    BY <2>1 DEF InsertProvider
  <2>2. CASE TestConsumer(t)
    BY <2>2 DEF TestConsumer
  <2>3. CASE InsertConsumer(t)
    BY <2>3 DEF InsertConsumer
  <2>4. CASE TestProvider(t)
    BY <2>4 DEF TestProvider
  <2>5. CASE EraseProvider(t)
    BY <2>5 DEF EraseProvider
  <2>6. CASE RetestConsumer(t)
    BY <2>6 DEF RetestConsumer
  <2>7. CASE EraseConsumer(t)
    BY <2>7 DEF EraseConsumer
  <2>8. CASE RetestProvider(t)
    BY <2>8 DEF RetestProvider
  <2>9. CASE EndProvider(t)
    BY <2>9 DEF EndProvider
  <2>10. CASE LockConsumers(t)
    BY <2>10 DEF LockConsumers
  <2>11. CASE ClearConsumers(t)
    BY <2>11 DEF ClearConsumers
  <2>12. CASE LockProviders(t)
    BY <2>12 DEF LockProviders
  <2>13. CASE ClearProviders(t)
    BY <2>13 DEF ClearProviders
  <2>14. CASE ClearQueue(t)
    BY <2>14 DEF ClearQueue
  <2>15. CASE SetReady(t)
    BY <2>15 DEF SetReady
  <2>16. CASE LockToOffer(t)
    BY <2>16 DEF LockToOffer
  <2>17. CASE EndOffer(t)
    BY <2>17 DEF EndOffer
  <2>18. ASSUME NEW d \in Consumer, DropProvider(t, d) PROVE LocksHeld'
    BY <2>18 DEF DropProvider
  <2>19. ASSUME NEW d \in Consumer, OfferFrame(t, d) PROVE LocksHeld'
    BY <2>19 DEF OfferFrame
  <2>20. ASSUME NEW d \in Consumer, DropBad(t, d) PROVE LocksHeld'
    BY <2>20 DEF DropBad
  <2>21. ASSUME NEW q \in Provider, DropConsumer(t, q) PROVE LocksHeld'
    BY <2>21 DEF DropConsumer
  <2> QED
    BY <1>2, <2>1, <2>2, <2>3, <2>4, <2>5, <2>6, <2>7, <2>8, <2>9, <2>10, <2>11,
       <2>12, <2>13, <2>14, <2>15, <2>16, <2>17, <2>18, <2>19, <2>20, <2>21 DEF
       CallStep
<1>3. ASSUME NEW d \in Consumer, HandleFrames(d) PROVE LocksHeld'
  BY <1>3 DEF HandleFrames
<1>4. CASE UNCHANGED vars
  BY <1>4 DEF vars
<1> QED
  BY <1>1, <1>2, <1>3, <1>4 DEF Next

-----------------------------------------------------------------------------
(***************************************************************************)
(* One pair: while p is in mProviders[c] alone, or is there again after a  *)
(* cleanup of p has passed c, some thread is going to put that right.  The *)
(* thread that would do so cannot leave: its tests need a mutex that the   *)
(* cleanup holds, and without a cleanup its test fails.                    *)
(***************************************************************************)
LEMMA ProviderOnlyStep ==
  ASSUME TypeOK, ArgsOK, LocksHeld, [Next]_vars,
         NEW p \in Provider, NEW c \in Consumer, ProviderOnlyMended(p, c)
  PROVE  ProviderOnlyMended(p, c)'
<1> USE DEF maps, locks, local, Goto, Return, LeavePair, Continue,
            Test, SetConsumers, InConsumers, InProviders
<1> USE DEF TypeOK, ArgsOK, LocksHeld, PairStep, LinkStep, UnlinkStep,
            ProviderOnlyMended, MendsProviderOnly, PassedConsumer
<1>1. ASSUME NEW t \in Thread, StartCall(t) PROVE ProviderOnlyMended(p, c)'
  <2>1. ASSUME NEW q \in Provider, NEW d \in Consumer, RegisterProvider(t, q, d) PROVE ProviderOnlyMended(p, c)'
    BY <2>1 DEF RegisterProvider, Invoke
  <2>2. ASSUME NEW q \in Provider, NEW d \in Consumer, DeregisterProvider(t, q, d) PROVE ProviderOnlyMended(p, c)'
    BY <2>2 DEF DeregisterProvider, Invoke
  <2>3. ASSUME NEW d \in Consumer, ConsumerCleanup(t, d) PROVE ProviderOnlyMended(p, c)'
    BY <2>3 DEF ConsumerCleanup, Invoke
  <2>4. ASSUME NEW q \in Provider, ProviderCleanup(t, q) PROVE ProviderOnlyMended(p, c)'
    BY <2>4 DEF ProviderCleanup, Invoke
  <2>5. ASSUME NEW q \in Provider, DistributeFrame(t, q) PROVE ProviderOnlyMended(p, c)'
    BY <2>5 DEF DistributeFrame, Invoke
  <2> QED
    BY <1>1, <2>1, <2>2, <2>3, <2>4, <2>5 DEF StartCall
<1>2. ASSUME NEW t \in Thread, CallStep(t) PROVE ProviderOnlyMended(p, c)'
  <2>1. CASE InsertProvider(t)
    BY <2>1, SMTT(30) DEF InsertProvider
  <2>2. CASE TestConsumer(t)
    BY <2>2, SMTT(30) DEF TestConsumer
  <2>3. CASE InsertConsumer(t)
    BY <2>3 DEF InsertConsumer
  <2>4. CASE TestProvider(t)
    BY <2>4, SMTT(30) DEF TestProvider
  <2>5. CASE EraseProvider(t)
    BY <2>5 DEF EraseProvider
  <2>6. CASE RetestConsumer(t)
    BY <2>6, SMTT(30) DEF RetestConsumer
  <2>7. CASE EraseConsumer(t)
    BY <2>7 DEF EraseConsumer
  <2>8. CASE RetestProvider(t)
    BY <2>8, SMTT(30) DEF RetestProvider
  <2>9. CASE EndProvider(t)
    BY <2>9 DEF EndProvider
  <2>10. CASE LockConsumers(t)
    BY <2>10 DEF LockConsumers
  <2>11. CASE ClearConsumers(t)
    BY <2>11 DEF ClearConsumers
  <2>12. CASE LockProviders(t)
    BY <2>12 DEF LockProviders
  <2>13. CASE ClearProviders(t)
    BY <2>13 DEF ClearProviders
  <2>14. CASE ClearQueue(t)
    BY <2>14 DEF ClearQueue
  <2>15. CASE SetReady(t)
    BY <2>15 DEF SetReady
  <2>16. CASE LockToOffer(t)
    BY <2>16 DEF LockToOffer
  <2>17. CASE EndOffer(t)
    BY <2>17 DEF EndOffer
  <2>18. ASSUME NEW d \in Consumer, DropProvider(t, d) PROVE ProviderOnlyMended(p, c)'
    BY <2>18 DEF DropProvider
  <2>19. ASSUME NEW d \in Consumer, OfferFrame(t, d) PROVE ProviderOnlyMended(p, c)'
    BY <2>19 DEF OfferFrame
  <2>20. ASSUME NEW d \in Consumer, DropBad(t, d) PROVE ProviderOnlyMended(p, c)'
    BY <2>20 DEF DropBad
  <2>21. ASSUME NEW q \in Provider, DropConsumer(t, q) PROVE ProviderOnlyMended(p, c)'
    BY <2>21 DEF DropConsumer
  <2> QED
    BY <1>2, <2>1, <2>2, <2>3, <2>4, <2>5, <2>6, <2>7, <2>8, <2>9, <2>10, <2>11,
       <2>12, <2>13, <2>14, <2>15, <2>16, <2>17, <2>18, <2>19, <2>20, <2>21 DEF
       CallStep
<1>3. ASSUME NEW d \in Consumer, HandleFrames(d) PROVE ProviderOnlyMended(p, c)'
  BY <1>3 DEF HandleFrames
<1>4. CASE UNCHANGED vars
  BY <1>4 DEF vars
<1> QED
  BY <1>1, <1>2, <1>3, <1>4 DEF Next

(* The mirror image: c is in mConsumers[p] alone. *)
LEMMA ConsumerOnlyStep ==
  ASSUME TypeOK, ArgsOK, LocksHeld, [Next]_vars,
         NEW p \in Provider, NEW c \in Consumer, ConsumerOnlyMended(p, c)
  PROVE  ConsumerOnlyMended(p, c)'
<1> USE DEF maps, locks, local, Goto, Return, LeavePair, Continue,
            Test, SetConsumers, InConsumers, InProviders
<1> USE DEF TypeOK, ArgsOK, LocksHeld, PairStep, LinkStep, UnlinkStep,
            ConsumerOnlyMended, MendsConsumerOnly, PassedProvider
<1>1. ASSUME NEW t \in Thread, StartCall(t) PROVE ConsumerOnlyMended(p, c)'
  <2>1. ASSUME NEW q \in Provider, NEW d \in Consumer, RegisterProvider(t, q, d) PROVE ConsumerOnlyMended(p, c)'
    BY <2>1 DEF RegisterProvider, Invoke
  <2>2. ASSUME NEW q \in Provider, NEW d \in Consumer, DeregisterProvider(t, q, d) PROVE ConsumerOnlyMended(p, c)'
    BY <2>2 DEF DeregisterProvider, Invoke
  <2>3. ASSUME NEW d \in Consumer, ConsumerCleanup(t, d) PROVE ConsumerOnlyMended(p, c)'
    BY <2>3 DEF ConsumerCleanup, Invoke
  <2>4. ASSUME NEW q \in Provider, ProviderCleanup(t, q) PROVE ConsumerOnlyMended(p, c)'
    BY <2>4 DEF ProviderCleanup, Invoke
  <2>5. ASSUME NEW q \in Provider, DistributeFrame(t, q) PROVE ConsumerOnlyMended(p, c)'
    BY <2>5 DEF DistributeFrame, Invoke
  <2> QED
    BY <1>1, <2>1, <2>2, <2>3, <2>4, <2>5 DEF StartCall
<1>2. ASSUME NEW t \in Thread, CallStep(t) PROVE ConsumerOnlyMended(p, c)'
  <2>1. CASE InsertProvider(t)
    BY <2>1, SMTT(30) DEF InsertProvider
  <2>2. CASE TestConsumer(t)
    BY <2>2, SMTT(30) DEF TestConsumer
  <2>3. CASE InsertConsumer(t)
    BY <2>3 DEF InsertConsumer
  <2>4. CASE TestProvider(t)
    BY <2>4, SMTT(30) DEF TestProvider
  <2>5. CASE EraseProvider(t)
    BY <2>5 DEF EraseProvider
  <2>6. CASE RetestConsumer(t)
    BY <2>6, SMTT(30) DEF RetestConsumer
  <2>7. CASE EraseConsumer(t)
    BY <2>7 DEF EraseConsumer
  <2>8. CASE RetestProvider(t)
    BY <2>8, SMTT(30) DEF RetestProvider
  <2>9. CASE EndProvider(t)
    BY <2>9 DEF EndProvider
  <2>10. CASE LockConsumers(t)
    BY <2>10 DEF LockConsumers
  <2>11. CASE ClearConsumers(t)
    BY <2>11 DEF ClearConsumers
  <2>12. CASE LockProviders(t)
    BY <2>12 DEF LockProviders
  <2>13. CASE ClearProviders(t)
    BY <2>13 DEF ClearProviders
  <2>14. CASE ClearQueue(t)
    BY <2>14 DEF ClearQueue
  <2>15. CASE SetReady(t)
    BY <2>15 DEF SetReady
  <2>16. CASE LockToOffer(t)
    BY <2>16 DEF LockToOffer
  <2>17. CASE EndOffer(t)
    BY <2>17 DEF EndOffer
  <2>18. ASSUME NEW d \in Consumer, DropProvider(t, d) PROVE ConsumerOnlyMended(p, c)'
    BY <2>18 DEF DropProvider
  <2>19. ASSUME NEW d \in Consumer, OfferFrame(t, d) PROVE ConsumerOnlyMended(p, c)'
    BY <2>19 DEF OfferFrame
  <2>20. ASSUME NEW d \in Consumer, DropBad(t, d) PROVE ConsumerOnlyMended(p, c)'
    BY <2>20 DEF DropBad
  <2>21. ASSUME NEW q \in Provider, DropConsumer(t, q) PROVE ConsumerOnlyMended(p, c)'
    BY <2>21 DEF DropConsumer
  <2> QED
    BY <1>2, <2>1, <2>2, <2>3, <2>4, <2>5, <2>6, <2>7, <2>8, <2>9, <2>10, <2>11,
       <2>12, <2>13, <2>14, <2>15, <2>16, <2>17, <2>18, <2>19, <2>20, <2>21 DEF
       CallStep
<1>3. ASSUME NEW d \in Consumer, HandleFrames(d) PROVE ConsumerOnlyMended(p, c)'
  BY <1>3 DEF HandleFrames
<1>4. CASE UNCHANGED vars
  BY <1>4 DEF vars
<1> QED
  BY <1>1, <1>2, <1>3, <1>4 DEF Next

-----------------------------------------------------------------------------
LEMMA LinksInvInit == Init => LinksInv
<1> SUFFICES ASSUME Init PROVE LinksInv
  OBVIOUS
<1>1. TypeOK /\ ArgsOK
  BY TypeInit DEF TypeInv
<1>2. LocksHeld
  BY DEF Init, LocksHeld
<1>3. OneSidedLinksMended
  BY DEF Init, OneSidedLinksMended, ProviderOnlyMended, ConsumerOnlyMended,
         PassedConsumer, PassedProvider
<1> QED
  BY <1>1, <1>2, <1>3 DEF LinksInv

LEMMA LinksInvStep == LinksInv /\ [Next]_vars => LinksInv'
<1> SUFFICES ASSUME LinksInv, [Next]_vars PROVE LinksInv'
  OBVIOUS
<1> USE DEF LinksInv
<1>1. TypeOK' /\ ArgsOK'
  BY TypeStep, ArgsStep
<1>2. LocksHeld'
  BY LocksStep
<1>3. ASSUME NEW p \in Provider, NEW c \in Consumer
      PROVE  ProviderOnlyMended(p, c)' /\ ConsumerOnlyMended(p, c)'
  BY ProviderOnlyStep, ConsumerOnlyStep DEF OneSidedLinksMended
<1>4. OneSidedLinksMended'
  BY <1>3 DEF OneSidedLinksMended
<1> QED
  BY <1>1, <1>2, <1>4

LEMMA LinksInvAgrees == LinksInv => LinksAgree
BY DEF LinksInv, OneSidedLinksMended, ProviderOnlyMended, ConsumerOnlyMended,
       MendsProviderOnly, MendsConsumerOnly, LinksAgree, Involved,
       PairStep, LinkStep, UnlinkStep

(* The inductive invariant of the links: types, arguments, mutex owners and *)
(* the mending of one-sided links.                                          *)
THEOREM LinksInvariant == Spec => []LinksInv
BY LinksInvInit, LinksInvStep, PTL DEF Spec

(* A provider and a consumer that no call is working on agree whether they  *)
(* are linked, for any number of threads and whatever they call.            *)
THEOREM LinksAlwaysAgree == Spec => []LinksAgree
BY LinksInvariant, LinksInvAgrees, PTL

HIDE ObjectsAssumption
HIDE LimitsAssumption
HIDE LinksAssumption
HIDE CallAssumption


-----------------------------------------------------------------------------
(***************************************************************************)
(* TimerThread.  A timer that was cancelled expires once more at most, for *)
(* any number of resets and rounds.                                        *)
(***************************************************************************)

TimerState == {"begin", "enter", "wait", "signalled", "handle", "next", "over"}

TimerTypeOK ==
    /\ mRepeat \in BOOLEAN /\ mReset \in BOOLEAN /\ mExpiryFlag \in BOOLEAN
    /\ timerExpired \in BOOLEAN /\ cancelled \in BOOLEAN /\ told \in BOOLEAN
    /\ timer \in TimerState
    /\ late \in Nat

\* What the owner told in this round the flag still says, and the thread has read so.
ToldIsKept ==
    /\ told => ~mExpiryFlag
    /\ timer = "handle" /\ timerExpired => ~told

\* A cancelled timer has nothing to begin another round for, and has expired only
\* if it is in its last one.
CancelledEnds ==
    /\ cancelled => ~mRepeat /\ ~mReset
    /\ late > 0 => cancelled /\ late = 1 /\ timer \in {"next", "over"}

TimerInv == TimerTypeOK /\ ToldIsKept /\ CancelledEnds

LEMMA TimerInitially == TimerInit => TimerInv
<1> SUFFICES ASSUME TimerInit PROVE TimerInv
    OBVIOUS
<1> USE DEF TimerInit
<1>1. TimerTypeOK
    <2>1. late \in Nat /\ timer \in TimerState
        BY DEF TimerState
    <2>2. QED
        BY <2>1, Zenon DEF TimerTypeOK
<1>2. ToldIsKept
    BY Zenon DEF ToldIsKept
<1>3. CancelledEnds
    <2>1. ~(late > 0)
        OBVIOUS
    <2>2. QED
        BY <2>1, Zenon DEF CancelledEnds
<1>4. QED
    BY <1>1, <1>2, <1>3 DEF TimerInv

\* The thread's own steps.
LEMMA ThreadKeeps == TimerInv /\ TimerStep => TimerInv'
<1> SUFFICES ASSUME TimerInv, TimerStep PROVE TimerInv'
    OBVIOUS
<1> USE DEF TimerInv, TimerTypeOK, TimerState, ToldIsKept, CancelledEnds, ownerVars
<1>1. CASE BeginRound
    <2>1. late = 0
        BY <1>1 DEF BeginRound
    <2>2. QED
        BY <1>1, <2>1 DEF BeginRound
<1>2. CASE Wait
    BY <1>2 DEF Wait
<1>3. CASE ReadFlag
    BY <1>3 DEF ReadFlag
<1>4. CASE Expire
    <2>1. late = 0
        BY <1>4 DEF Expire
    <2>2. QED
        BY <1>4, <2>1 DEF Expire
<1>5. CASE NoExpiry
    BY <1>5 DEF NoExpiry
<1>6. CASE NextRound
    BY <1>6 DEF NextRound
<1>7. QED
    BY <1>1, <1>2, <1>3, <1>4, <1>5, <1>6 DEF TimerStep

\* Its owner's.
LEMMA OwnerKeeps == TimerInv /\ ((~cancelled /\ Cancel) \/ Reset) => TimerInv'
<1> SUFFICES ASSUME TimerInv, (~cancelled /\ Cancel) \/ Reset PROVE TimerInv'
    OBVIOUS
<1> USE DEF TimerInv, TimerTypeOK, TimerState, ToldIsKept, CancelledEnds, Tell
<1>1. CASE ~cancelled /\ Cancel
    BY <1>1 DEF Cancel
<1>2. CASE Reset
    BY <1>2 DEF Reset
<1>3. QED
    BY <1>1, <1>2

\* The inductive invariant (Timer::TimerThread::run, cancel and reset).
THEOREM TimerInvariant == TimerSpec => []TimerInv
<1>1. TimerInv /\ [TimerNext]_timerVars => TimerInv'
    <2>1. TimerInv /\ UNCHANGED timerVars => TimerInv'
        BY DEF TimerInv, TimerTypeOK, ToldIsKept, CancelledEnds, timerVars, ownerVars
    <2>2. QED
        BY <2>1, ThreadKeeps, OwnerKeeps DEF TimerNext
<1>2. QED
    BY TimerInitially, <1>1, PTL DEF TimerSpec

\* A timer does not expire in a round in which it was told not to, and after its cancellation
\* once at most (libgenTimer.cpp:76-100, libgenThread.h:199-225).
THEOREM CancelAlwaysHolds == TimerSpec => []CancelHolds
<1>1. TimerInv => CancelHolds
    BY DEF TimerInv, TimerTypeOK, ToldIsKept, CancelledEnds, CancelHolds
<1>2. QED
    BY <1>1, TimerInvariant, PTL

-----------------------------------------------------------------------------
(***************************************************************************)
(* ThreadLife.  Calls of start that do not overlap make one thread at a    *)
(* time, for any set of callers and any number of calls and threads.       *)
(***************************************************************************)

KernelState == {"none", "made", "entered", "run", "over"}
CallState   == Starting \cup {"idle", "join", "joining"}

LifeTypeOK ==
    /\ mRunning \in BOOLEAN
    /\ mThread \in 0 .. MaxThreads
    /\ kernel \in [Kernel -> KernelState]
    /\ call \in [Caller -> CallState]

\* The kernel threads are made one after the other.
MadeInTurn == \A k \in Kernel : kernel[k] = "none" <=> k > mThread

\* No two calls of start are under way.
OneStarter == \A c, d \in Caller : call[c] \in Starting /\ call[d] \in Starting => c = d

\* The threads before the last are over, and so is the last unless it is known to run or
\* the call that made it still waits.
Awaited == {"wait", "woken", "started"}
EarlierOver == \A k \in Kernel : k < mThread => kernel[k] = "over"
LastKnown ==
    \A k \in Kernel : kernel[k] \in {"made", "entered", "run"} =>
        mRunning \/ \E c \in Caller : call[c] \in Awaited

LifeInv ==
    /\ LifeTypeOK
    /\ MadeInTurn
    /\ "start" \notin overlapped => OneStarter /\ EarlierOver /\ LastKnown

LEMMA LifeInitially == LifeInit => LifeInv
<1> SUFFICES ASSUME LifeInit PROVE LifeInv
    OBVIOUS
<1> USE DEF LifeInit
<1>1. LifeTypeOK
    <2>1. mRunning \in BOOLEAN
        BY Zenon
    <2>2. mThread \in 0 .. MaxThreads
        BY LifeAssumption
    <2>3. kernel \in [Kernel -> KernelState] /\ call \in [Caller -> CallState]
        BY DEF KernelState, CallState
    <2>4. QED
        BY <2>1, <2>2, <2>3 DEF LifeTypeOK
<1>2. MadeInTurn
    BY LifeAssumption DEF MadeInTurn, Kernel
<1>3. OneStarter
    BY DEF OneStarter, Starting
<1>4. EarlierOver
    BY LifeAssumption DEF EarlierOver, Kernel
<1>5. LastKnown
    BY DEF LastKnown
<1>6. QED
    BY <1>1, <1>2, <1>3, <1>4, <1>5 DEF LifeInv

\* A call that begins; a second start is noted in `overlapped'.
LEMMA CallsKeeps ==
    ASSUME LifeInv, NEW c \in Caller, NEW what \in {"start", "join"}, Calls(c, what)
    PROVE  LifeInv'
<1> USE DEF LifeInv, Calls
<1>1. LifeTypeOK'
    BY DEF LifeTypeOK, CallState, Starting
<1>2. MadeInTurn'
    BY DEF MadeInTurn
<1>3. ASSUME "start" \notin overlapped' PROVE (OneStarter /\ EarlierOver /\ LastKnown)'
    <2>1. "start" \notin overlapped
        BY <1>3
    <2>2. what = "start" => \A d \in Caller : call[d] \notin Starting
        BY <1>3
    <2>3. OneStarter'
        <3> SUFFICES ASSUME NEW a \in Caller, NEW b \in Caller,
                            call'[a] \in Starting, call'[b] \in Starting
                     PROVE  a = b
            BY DEF OneStarter
        <3>1. CASE what = "join"
            <4>1. \A d \in Caller : call'[d] \in Starting => call[d] \in Starting
                BY <3>1 DEF LifeTypeOK, Starting
            <4>2. QED
                BY <4>1, <2>1 DEF OneStarter
        <3>2. CASE what = "start"
            BY <3>2, <2>2 DEF LifeTypeOK
        <3>3. QED
            BY <3>1, <3>2
    <2>4. EarlierOver'
        BY <2>1 DEF EarlierOver
    <2>5. LastKnown'
        BY <2>1 DEF LastKnown, LifeTypeOK, Awaited
    <2>6. QED
        BY <2>3, <2>4, <2>5
<1>4. QED
    BY <1>1, <1>2, <1>3

\* The steps of a caller that change neither the thread nor whether a start is under way
\* or has made its thread.
LEMMA CallerKeeps ==
    ASSUME LifeInv, NEW c \in Caller,
           UNCHANGED << mThread, kernel, overlapped >>,
           mRunning' \in BOOLEAN, call' \in [Caller -> CallState],
           \A d \in Caller : call'[d] \in Starting => call[d] \in Starting,
           \A d \in Caller : call[d] \in Awaited => call'[d] \in Awaited \/ mRunning',
           mRunning => mRunning'
    PROVE  LifeInv'
<1> USE DEF LifeInv
<1>1. LifeTypeOK'
    BY DEF LifeTypeOK
<1>2. MadeInTurn'
    BY DEF MadeInTurn
<1>3. OneStarter => OneStarter'
    BY DEF OneStarter
<1>4. EarlierOver => EarlierOver'
    BY DEF EarlierOver
<1>5. LastKnown => LastKnown'
    BY DEF LastKnown
<1>6. QED
    BY <1>1, <1>2, <1>3, <1>4, <1>5

\* The thread is made when none lives.
LEMMA MakeKeeps == ASSUME LifeInv, NEW c \in Caller, Make(c) PROVE LifeInv'
<1> USE DEF LifeInv, Make
<1>1. mThread + 1 \in Kernel /\ mThread \in Nat
    BY LifeAssumption DEF LifeTypeOK, Kernel
<1>2. LifeTypeOK'
    BY <1>1, LifeAssumption DEF LifeTypeOK, KernelState, CallState, Starting, Kernel
<1>3. MadeInTurn'
    BY <1>1, LifeAssumption DEF MadeInTurn, LifeTypeOK, KernelState, Kernel
<1>4. ASSUME "start" \notin overlapped' PROVE (OneStarter /\ EarlierOver /\ LastKnown)'
    <2>1. OneStarter /\ EarlierOver /\ LastKnown
        BY <1>4
    <2>2. OneStarter'
        BY <2>1 DEF OneStarter, LifeTypeOK, Starting
    <2>3. \A d \in Caller : call[d] \notin Awaited
        BY <2>1 DEF OneStarter, Starting, Awaited
    <2>4. EarlierOver'
        <3> SUFFICES ASSUME NEW k \in Kernel, k < mThread + 1 PROVE kernel'[k] = "over"
            BY DEF EarlierOver
        <3>1. kernel[k] \notin {"made", "entered", "run"}
            BY <2>1, <2>3 DEF LastKnown
        <3>2. kernel[k] # "none"
            BY <1>1 DEF MadeInTurn, Kernel
        <3>3. kernel[k] = "over"
            BY <3>1, <3>2 DEF LifeTypeOK, KernelState
        <3>4. k # mThread + 1
            BY <1>1 DEF Kernel
        <3>5. QED
            BY <3>3, <3>4 DEF LifeTypeOK
    <2>5. LastKnown'
        <3>1. call'[c] \in Awaited
            BY DEF LifeTypeOK, Awaited
        <3>2. QED
            BY <3>1 DEF LastKnown
    <2>6. QED
        BY <2>2, <2>4, <2>5
<1>5. QED
    BY <1>2, <1>3, <1>4

\* A join leaves no thread: the last is over, and those before it were.
LEMMA JoinedKeeps == ASSUME LifeInv, NEW c \in Caller, Joined(c) PROVE LifeInv'
<1> USE DEF LifeInv, Joined, Unlocks
<1>1. LifeTypeOK'
    BY DEF LifeTypeOK, CallState
<1>2. MadeInTurn'
    BY DEF MadeInTurn
<1>3. ASSUME "start" \notin overlapped' PROVE (OneStarter /\ EarlierOver /\ LastKnown)'
    <2>1. OneStarter'
        BY <1>3 DEF OneStarter, LifeTypeOK, Starting
    <2>2. EarlierOver'
        BY <1>3 DEF EarlierOver
    <2>3. \A k \in Kernel : kernel[k] \notin {"made", "entered", "run"}
        <3> TAKE k \in Kernel
        <3>1. k \in Nat /\ mThread \in Nat
            BY LifeAssumption DEF Kernel, LifeTypeOK
        <3>2. CASE k < mThread
            BY <1>3, <3>2 DEF EarlierOver
        <3>3. CASE k = mThread
            BY <3>3
        <3>4. CASE k > mThread
            BY <3>4 DEF MadeInTurn
        <3>5. QED
            BY <3>1, <3>2, <3>3, <3>4
    <2>4. QED
        BY <2>1, <2>2, <2>3 DEF LastKnown
<1>4. QED
    BY <1>1, <1>2, <1>3

\* The steps of the thread itself.
LEMMA KernelKeeps ==
    ASSUME LifeInv, NEW k \in Kernel, KernelStep(k) \/ RunEnds(k)
    PROVE  LifeInv'
<1> USE DEF LifeInv
<1>1. CASE Enter(k)
    <2> USE <1>1 DEF Enter
    <2>1. LifeTypeOK'
        BY DEF LifeTypeOK, KernelState
    <2>2. MadeInTurn'
        BY DEF MadeInTurn, LifeTypeOK
    <2>3. EarlierOver => EarlierOver'
        BY DEF EarlierOver, LifeTypeOK
    <2>4. LastKnown => LastKnown'
        BY DEF LastKnown, LifeTypeOK
    <2>5. OneStarter => OneStarter'
        BY DEF OneStarter
    <2>6. QED
        BY <2>1, <2>2, <2>3, <2>4, <2>5
<1>2. CASE SayRunning(k)
    <2> USE <1>2 DEF SayRunning
    <2>1. call' \in [Caller -> CallState]
              /\ \A d \in Caller : call'[d] \in Starting => call[d] \in Starting
        BY DEF LifeTypeOK, CallState, Starting
    <2>2. LifeTypeOK'
        BY <2>1 DEF LifeTypeOK, KernelState
    <2>3. MadeInTurn'
        BY DEF MadeInTurn, LifeTypeOK
    <2>4. EarlierOver => EarlierOver'
        BY DEF EarlierOver, LifeTypeOK
    <2>5. LastKnown'
        BY DEF LastKnown
    <2>6. OneStarter => OneStarter'
        BY <2>1 DEF OneStarter
    <2>7. QED
        BY <2>2, <2>3, <2>4, <2>5, <2>6
<1>3. CASE RunEnds(k)
    <2> USE <1>3 DEF RunEnds
    <2>1. LifeTypeOK'
        BY DEF LifeTypeOK, KernelState
    <2>2. MadeInTurn'
        BY DEF MadeInTurn, LifeTypeOK
    <2>3. EarlierOver => EarlierOver'
        BY DEF EarlierOver, LifeTypeOK
    <2>4. LastKnown => LastKnown'
        BY DEF LastKnown, LifeTypeOK
    <2>5. OneStarter => OneStarter'
        BY DEF OneStarter
    <2>6. QED
        BY <2>1, <2>2, <2>3, <2>4, <2>5
<1>4. QED
    BY <1>1, <1>2, <1>3 DEF KernelStep

LEMMA MemberKeeps ==
    ASSUME LifeInv, NEW c \in Caller,
           \/ Start(c) \/ Make(c) \/ AlreadyRunning(c) \/ Started(c) \/ SpuriousWake(c)
           \/ Stop(c) \/ Join(c) \/ NothingToJoin(c) \/ Joined(c)
    PROVE  LifeInv'
<1>0. call \in [Caller -> CallState] /\ mRunning \in BOOLEAN
    BY DEF LifeInv, LifeTypeOK
<1>1. CASE Calls(c, "start") \/ Calls(c, "join")
    BY <1>1, CallsKeeps
<1>2. CASE Lock(c, "start", "make") \/ Lock(c, "woken", "started") \/ Lock(c, "join", "joining")
    BY <1>0, <1>2, CallerKeeps DEF Lock, CallState, Starting, Awaited
<1>3. CASE Make(c)
    BY <1>3, MakeKeeps
<1>4. CASE AlreadyRunning(c)
    BY <1>0, <1>4, CallerKeeps DEF AlreadyRunning, Unlocks, CallState, Starting, Awaited
<1>5. CASE Started(c)
    BY <1>0, <1>5, CallerKeeps DEF Started, CallState, Starting, Awaited
<1>6. CASE SpuriousWake(c)
    BY <1>0, <1>6, CallerKeeps DEF SpuriousWake, CallState, Starting, Awaited
<1>7. CASE Stop(c)
    BY <1>0, <1>7, CallerKeeps DEF Stop
<1>8. CASE NothingToJoin(c)
    BY <1>0, <1>8, CallerKeeps DEF NothingToJoin, Unlocks, CallState, Starting, Awaited
<1>9. CASE Joined(c)
    BY <1>9, JoinedKeeps
<1>10. QED
    BY <1>1, <1>2, <1>3, <1>4, <1>5, <1>6, <1>7, <1>8, <1>9 DEF Start, Join

\* The inductive invariant (Thread::start, join, mThreadFunc).
THEOREM LifeInvariant == LifeSpec => []LifeInv
<1>1. LifeInv /\ [LifeNext]_lifeVars => LifeInv'
    <2>1. LifeInv /\ UNCHANGED lifeVars => LifeInv'
        BY DEF LifeInv, LifeTypeOK, MadeInTurn, OneStarter, EarlierOver, LastKnown, lifeVars
    <2>2. QED
        BY <2>1, MemberKeeps, KernelKeeps DEF LifeNext
<1>2. QED
    BY LifeInitially, <1>1, PTL DEF LifeSpec

LEMMA InvImpliesOneThread == LifeInv => OneThread
<1> SUFFICES ASSUME LifeInv, "start" \notin overlapped
             PROVE  /\ Cardinality(Live) <= 1
                    /\ (Live # {} /\ ~mRunning) => \E c \in Caller : call[c] \in Starting
    BY DEF OneThread
<1> USE DEF LifeInv
<1>1. Live \subseteq {mThread}
    <2> SUFFICES ASSUME NEW k \in Live PROVE k = mThread
        OBVIOUS
    <2>1. k \in Kernel /\ kernel[k] \in {"made", "entered", "run"}
        BY DEF Live
    <2>2. k \in Nat /\ mThread \in Nat
        BY <2>1, LifeAssumption DEF Kernel, LifeTypeOK
    <2>3. ~(k < mThread) /\ ~(k > mThread)
        BY <2>1 DEF EarlierOver, MadeInTurn
    <2>4. QED
        BY <2>2, <2>3
<1>2. Cardinality(Live) <= Cardinality({mThread})
    BY <1>1, FS_Singleton, FS_Subset
<1>3. Cardinality({mThread}) = 1
    BY FS_Singleton
<1>4. Cardinality(Live) <= 1
    BY <1>2, <1>3
<1>5. (Live # {} /\ ~mRunning) => \E c \in Caller : call[c] \in Starting
    BY DEF LastKnown, Live, Awaited, Starting
<1>6. QED
    BY <1>4, <1>5

\* One thread lives at a time, and none that neither mRunning nor a call of start knows of, as
\* long as no two starts overlap (libgenThread.cpp:336-402).
THEOREM OneThreadAlways == LifeSpec => []OneThread
BY LifeInvariant, InvImpliesOneThread, PTL

-----------------------------------------------------------------------------
(***************************************************************************)
(* LinkedFrames.  The pointers to a frame are one ring, as long as the     *)
(* threads that splice it take turns.                                      *)
(***************************************************************************)

USE PointerAssumption

(* A pointer joins a ring behind one of it. *)
LEMMA RingJoins ==
    ASSUME NEW S, NEW nx, NEW pv, IsRing(S, nx, pv), NEW r \in S, NEW p, p \notin S,
           NEW nx2, NEW pv2,
           \A q \in S : q # r => nx2[q] = nx[q],
           \A q \in S : q # nx[r] => pv2[q] = pv[q],
           nx2[r] = p, nx2[p] = nx[r], pv2[nx[r]] = p, pv2[p] = r
    PROVE  IsRing(S \cup {p}, nx2, pv2)
<1>1. ASSUME NEW q \in S \cup {p}
      PROVE  nx2[q] \in S \cup {p} /\ pv2[q] \in S \cup {p} /\ pv2[nx2[q]] = q /\ nx2[pv2[q]] = q
  <2>1. CASE q = p
    BY <2>1 DEF IsRing
  <2>2. CASE q = r
    BY <2>2 DEF IsRing
  <2>3. CASE q \in S /\ q # r
    BY <2>3 DEF IsRing
  <2> QED
    BY <2>1, <2>2, <2>3
<1>2. ASSUME NEW T \in SUBSET (S \cup {p}), T # {}, \A q \in T : nx2[q] \in T
      PROVE  T = S \cup {p}
  <2> DEFINE U == T \ {p}
  <2>1. U # {}
    BY <1>2 DEF IsRing
  <2>2. \A q \in U : nx[q] \in U
    <3> TAKE q \in U
    <3>1. CASE q = r
      BY <3>1, <1>2 DEF IsRing
    <3>2. CASE q # r
      BY <3>2, <1>2 DEF IsRing
    <3> QED
      BY <3>1, <3>2
  <2>3. U \in SUBSET S
    BY <1>2
  <2>4. U = S
    BY <2>1, <2>2, <2>3 DEF IsRing
  <2>5. p \in T
    BY <2>4, <1>2
  <2> QED
    BY <2>4, <2>5
<1> QED
  BY <1>1, <1>2 DEF IsRing

(* A pointer that is not alone leaves a ring. *)
LEMMA RingLeaves ==
    ASSUME NEW S, NEW nx, NEW pv, NEW p, p \notin S, IsRing(S \cup {p}, nx, pv), pv[p] # p,
           NEW nx2, NEW pv2,
           \A q \in S : q # pv[p] => nx2[q] = nx[q],
           \A q \in S : q # nx[p] => pv2[q] = pv[q],
           nx2[pv[p]] = nx[p], pv2[nx[p]] = pv[p]
    PROVE  IsRing(S, nx2, pv2) /\ pv[p] \in S /\ nx[p] \in S
<1> DEFINE a == pv[p]
           b == nx[p]
<1>0. a \in S /\ b \in S
  BY DEF IsRing
<1>1. ASSUME NEW q \in S
      PROVE  nx2[q] \in S /\ pv2[q] \in S /\ pv2[nx2[q]] = q /\ nx2[pv2[q]] = q
  <2>1. nx2[q] \in S /\ pv2[nx2[q]] = q
    <3>1. CASE q = a
      BY <3>1, <1>0
    <3>2. CASE q # a
      BY <3>2, <1>0 DEF IsRing
    <3> QED
      BY <3>1, <3>2
  <2>2. pv2[q] \in S /\ nx2[pv2[q]] = q
    <3>1. CASE q = b
      BY <3>1, <1>0
    <3>2. CASE q # b
      BY <3>2, <1>0 DEF IsRing
    <3> QED
      BY <3>1, <3>2
  <2> QED
    BY <2>1, <2>2
<1>2. ASSUME NEW T \in SUBSET S, T # {}, \A q \in T : nx2[q] \in T
      PROVE  T = S
  <2>1. CASE a \in T
    <3> DEFINE U == T \cup {p}
    <3>1. \A q \in U : nx[q] \in U
      <4> TAKE q \in U
      <4>1. CASE q \in {p, a}
        BY <4>1, <2>1, <1>0, <1>2 DEF IsRing
      <4>2. CASE q \in T /\ q # a
        BY <4>2, <1>2
      <4> QED
        BY <4>1, <4>2
    <3>2. U \in SUBSET (S \cup {p}) /\ U # {}
      OBVIOUS
    <3>3. U = S \cup {p}
      BY <3>1, <3>2 DEF IsRing
    <3> QED
      BY <3>3
  <2>2. CASE a \notin T
    <3>1. \A q \in T : nx[q] \in T
      BY <2>2, <1>2
    <3>2. T \in SUBSET (S \cup {p})
      OBVIOUS
    <3>3. T = S \cup {p}
      BY <3>1, <3>2, <1>2 DEF IsRing
    <3> QED
      BY <3>3
  <2> QED
    BY <2>1, <2>2
<1> QED
  BY <1>0, <1>1, <1>2 DEF IsRing

(* A ring is one in the other direction too. *)
LEMMA RingBackwards ==
    ASSUME NEW S, NEW nx, NEW pv, IsRing(S, nx, pv)
    PROVE  IsRing(S, pv, nx)
<1>1. ASSUME NEW T \in SUBSET S, T # {}, \A p \in T : pv[p] \in T
      PROVE  T = S
  <2> DEFINE U == S \ T
  <2>1. \A p \in U : nx[p] \in U
    BY <1>1 DEF IsRing
  <2>2. U \in SUBSET S /\ U # S
    BY <1>1
  <2>3. U = {}
    BY <2>1, <2>2 DEF IsRing
  <2> QED
    BY <2>3
<1> QED
  BY <1>1 DEF IsRing

(* From any pointer of a ring all of it is reached, and nothing else. *)
LEMMA RingReached ==
    ASSUME NEW S \in SUBSET Pointer, NEW nx, NEW pv, IsRing(S, nx, pv), NEW p \in S
    PROVE  Reached(nx, p) = S
<1>1. Reached(nx, p) \subseteq S
  <2>1. S \in SUBSET Link /\ nx[p] \in S /\ \A x \in S \ {NULL} : nx[x] \in S
    BY DEF IsRing, Link
  <2> QED
    BY <2>1 DEF Reached
<1>2. nx[p] \in Reached(nx, p)
  BY DEF Reached, Link, IsRing
<1>3. \A q \in Reached(nx, p) : nx[q] \in Reached(nx, p)
  <2> TAKE q \in Reached(nx, p)
  <2>1. q \in S /\ q # NULL /\ nx[q] \in Link
    BY <1>1 DEF IsRing, Link
  <2>2. ASSUME NEW T \in SUBSET Link, nx[p] \in T, \A x \in T \ {NULL} : nx[x] \in T
        PROVE  nx[q] \in T
    BY <2>1, <2>2 DEF Reached
  <2> QED
    BY <2>1, <2>2 DEF Reached
<1> QED
  BY <1>1, <1>2, <1>3 DEF IsRing

(* A pointer is unique when it is the whole ring. *)
LEMMA RingOfOne ==
    ASSUME NEW S \in SUBSET Pointer, NEW nx, NEW pv, IsRing(S, nx, pv), NEW p \in S
    PROVE  (pv[p] \in {p, NULL}) <=> (S = {p})
<1>1. ASSUME pv[p] \in {p, NULL} PROVE S = {p}
  <2>1. pv[p] = p /\ nx[p] = p
    BY <1>1 DEF IsRing
  <2>2. {p} \in SUBSET S /\ \A q \in {p} : nx[q] \in {p}
    BY <2>1
  <2> QED
    BY <2>2 DEF IsRing
<1>2. ASSUME S = {p} PROVE pv[p] \in {p, NULL}
  BY <1>2 DEF IsRing
<1> QED
  BY <1>1, <1>2

LEMMA LinkedTypesInit == LinkedInit => LinkedTypes
<1> SUFFICES ASSUME LinkedInit PROVE LinkedTypes
  OBVIOUS
<1>1. PICK p \in Pointer :
        /\ itsPrev = [q \in Pointer |-> IF q = p THEN p ELSE NULL]
        /\ itsNext = itsPrev
        /\ pointing = {p}
        /\ deleted = FALSE
        /\ splice = [t \in Splicer |-> Idle]
        /\ together = FALSE
  BY DEF LinkedInit
<1> QED
  BY <1>1 DEF LinkedTypes, Link, Idle

LEMMA LinkedTypesStep == LinkedTypes /\ [LinkedNext]_linkedVars => LinkedTypes'
<1> SUFFICES ASSUME LinkedTypes, [LinkedNext]_linkedVars PROVE LinkedTypes'
  OBVIOUS
<1> USE DEF LinkedTypes, Link, Idle
<1>1. ASSUME NEW t \in Splicer, NEW p \in Pointer, NEW r \in Pointer, Acquire(t, p, r) PROVE LinkedTypes'
  BY <1>1 DEF Acquire, Begin
<1>2. ASSUME NEW t \in Splicer, NEW p \in Pointer, Release(t, p) PROVE LinkedTypes'
  <2>1. splice' \in [Splicer -> [do : {"idle", "joinNext", "join", "leave", "leaveNext"}, ptr : Link, r : Link]]
    BY <1>2 DEF Release, Begin
  <2>2. \A u \in Splicer : splice'[u] # Idle => splice'[u].do # "idle" /\ splice'[u].ptr \in Pointer
    BY <1>2 DEF Release, Begin
  <2> QED
    BY <1>2, <2>1, <2>2 DEF Release, Begin, unique
<1>3. ASSUME NEW t \in Splicer, JoinNext(t) PROVE LinkedTypes'
  BY <1>3 DEF JoinNext, Goes
<1>4. ASSUME NEW t \in Splicer, JoinPrev(t) PROVE LinkedTypes'
  <2>1. splice[t].ptr \in Pointer /\ splice[t].r \in Link
    BY <1>4 DEF JoinPrev
  <2>2. splice' = [splice EXCEPT ![t] = Idle]
    BY <1>4 DEF JoinPrev, Goes
  <2> QED
    BY <1>4, <2>1, <2>2 DEF JoinPrev
<1>5. ASSUME NEW t \in Splicer, Leave(t) PROVE LinkedTypes'
  BY <1>5 DEF Leave, Goes
<1>6. ASSUME NEW t \in Splicer, LeaveNext(t) PROVE LinkedTypes'
  BY <1>6 DEF LeaveNext, Goes
<1>7. CASE UNCHANGED linkedVars
  BY <1>7 DEF linkedVars
<1> QED
  BY <1>1, <1>2, <1>3, <1>4, <1>5, <1>6, <1>7 DEF LinkedNext

(* While threads take turns, a thread that begins finds all at rest, and the ring whole. *)
LEMMA FoundAtRest ==
    ASSUME LinkedInv, NEW t \in Splicer, NEW s, Begin(t, s), ~together'
    PROVE  /\ \A u \in Splicer : splice[u] = Idle
           /\ IsRing(pointing, itsNext, itsPrev)
           /\ ~deleted /\ pointing # {}
  BY DEF LinkedInv, RestingRing, Begin

(* The thread at work is the only one. *)
LEMMA OthersAtRest ==
    ASSUME LinkedInv, NEW t \in Splicer, splice[t].do # "idle", ~together
    PROVE  \A u \in Splicer : u # t => splice[u] = Idle
  BY DEF LinkedInv, OneAtWork, Idle

LEMMA AcquireKeepsRing ==
    ASSUME LinkedInv, LinkedTypes', NEW t \in Splicer, NEW p \in Pointer, NEW r \in Pointer, Acquire(t, p, r)
    PROVE  LinkedInv'
<1> SUFFICES ASSUME ~together'
             PROVE  OneAtWork' /\ RestingRing' /\ \A u \in Splicer : (JoiningRing(u) /\ LeavingRing(u))'
  BY DEF LinkedInv
<1>1. /\ \A u \in Splicer : splice[u] = Idle
      /\ IsRing(pointing, itsNext, itsPrev) /\ ~deleted /\ pointing # {}
  BY FoundAtRest DEF Acquire
<1>2. /\ splice'[t] = [do |-> "joinNext", ptr |-> p, r |-> r]
      /\ \A u \in Splicer : u # t => splice'[u] = Idle
  BY <1>1 DEF Acquire, Begin, LinkedInv, LinkedTypes
<1>3. p \notin pointing /\ r \in pointing /\ UNCHANGED << itsPrev, pointing, deleted >>
  BY DEF Acquire
<1>4. itsNext'[p] = itsNext[r] /\ \A q \in pointing : itsNext'[q] = itsNext[q]
  BY <1>3 DEF Acquire, LinkedInv, LinkedTypes
<1>5. IsRing(pointing', itsNext', itsPrev')
  BY <1>1, <1>3, <1>4 DEF IsRing
<1>6. OneAtWork' /\ RestingRing'
  BY <1>1, <1>2, <1>3, <1>5 DEF OneAtWork, RestingRing
<1>7. ASSUME NEW u \in Splicer PROVE (JoiningRing(u) /\ LeavingRing(u))'
  <2>1. CASE u = t
    BY <2>1, <1>2, <1>3, <1>4, <1>5 DEF JoiningRing, LeavingRing
  <2>2. CASE u # t
    BY <2>2, <1>2 DEF JoiningRing, LeavingRing, Idle
  <2> QED
    BY <2>1, <2>2
<1> QED
  BY <1>6, <1>7

LEMMA JoinNextKeepsRing ==
    ASSUME LinkedInv, LinkedTypes', NEW t \in Splicer, JoinNext(t)
    PROVE  LinkedInv'
<1> SUFFICES ASSUME ~together'
             PROVE  OneAtWork' /\ RestingRing' /\ \A u \in Splicer : (JoiningRing(u) /\ LeavingRing(u))'
  BY DEF LinkedInv
<1> DEFINE p == splice[t].ptr
           r == splice[t].r
           n == itsNext[p]
<1>1. \A u \in Splicer : u # t => splice[u] = Idle
  BY OthersAtRest DEF JoinNext
<1>2. /\ r \in pointing /\ p \notin pointing /\ n = itsNext[r] /\ IsRing(pointing, itsNext, itsPrev)
      /\ p \in Pointer /\ (deleted <=> pointing = {})
  <2>1. JoiningRing(t) /\ LeavingRing(t) /\ RestingRing
    BY DEF LinkedInv, JoinNext
  <2>2. splice[t].do = "joinNext" /\ splice[t] # Idle
    BY DEF JoinNext, Idle
  <2>3. p \in Pointer /\ pointing \subseteq Pointer
    BY <2>2 DEF LinkedInv, LinkedTypes
  <2> QED
    BY <2>1, <2>2, <2>3 DEF RestingRing, JoiningRing, LeavingRing
<1>3. /\ splice'[t] = [do |-> "join", ptr |-> p, r |-> r]
      /\ \A u \in Splicer : u # t => splice'[u] = Idle
  BY <1>1 DEF JoinNext, Goes, LinkedInv, LinkedTypes
<1>4. itsPrev' = [itsPrev EXCEPT ![n] = p] /\ UNCHANGED << itsNext, pointing, deleted >>
  BY DEF JoinNext
<1>5. n \in pointing /\ n \in Pointer /\ itsPrev[n] = r
  BY <1>2 DEF IsRing, LinkedInv, LinkedTypes
<1>6. itsPrev'[n] = p
  BY <1>4, <1>5 DEF LinkedInv, LinkedTypes
<1>7. [itsPrev' EXCEPT ![n] = r] = itsPrev
  BY <1>4, <1>5 DEF LinkedInv, LinkedTypes
<1>8. OneAtWork' /\ RestingRing'
  BY <1>2, <1>3, <1>4 DEF OneAtWork, RestingRing, Idle
<1>9. ASSUME NEW u \in Splicer PROVE (JoiningRing(u) /\ LeavingRing(u))'
  <2>1. CASE u = t
    <3>1. IsRing(pointing', itsNext', [itsPrev' EXCEPT ![itsNext'[r]] = r])
      BY <1>2, <1>4, <1>7
    <3> QED
      BY <2>1, <3>1, <1>2, <1>3, <1>4, <1>6 DEF JoiningRing, LeavingRing
  <2>2. CASE u # t
    BY <2>2, <1>3 DEF JoiningRing, LeavingRing, Idle
  <2> QED
    BY <2>1, <2>2
<1> QED
  BY <1>8, <1>9

LEMMA JoinPrevKeepsRing ==
    ASSUME LinkedInv, LinkedTypes', NEW t \in Splicer, JoinPrev(t)
    PROVE  LinkedInv'
<1> SUFFICES ASSUME ~together'
             PROVE  OneAtWork' /\ RestingRing' /\ \A u \in Splicer : (JoiningRing(u) /\ LeavingRing(u))'
  BY DEF LinkedInv
<1> DEFINE p == splice[t].ptr
           r == splice[t].r
           n == itsNext[r]
           old == [itsPrev EXCEPT ![n] = r]
<1>1. \A u \in Splicer : u # t => splice[u] = Idle
  BY OthersAtRest DEF JoinPrev
<1>2. /\ r \in pointing /\ p \notin pointing /\ itsNext[p] = n /\ itsPrev[n] = p
      /\ IsRing(pointing, itsNext, old)
      /\ p \in Pointer /\ r \in Pointer /\ ~deleted
  <2>1. JoiningRing(t) /\ LeavingRing(t) /\ RestingRing
    BY DEF LinkedInv, JoinPrev
  <2>2. splice[t].do = "join" /\ splice[t] # Idle
    BY DEF JoinPrev, Idle
  <2>3. p \in Pointer /\ pointing \subseteq Pointer
    BY <2>2 DEF LinkedInv, LinkedTypes
  <2> QED
    BY <2>1, <2>2, <2>3 DEF RestingRing, JoiningRing, LeavingRing
<1>3. \A u \in Splicer : splice'[u] = Idle
  BY <1>1 DEF JoinPrev, Goes, LinkedInv, LinkedTypes
<1>4. /\ itsPrev' = [itsPrev EXCEPT ![p] = r] /\ itsNext' = [itsNext EXCEPT ![r] = p]
      /\ pointing' = pointing \cup {p} /\ UNCHANGED deleted
  BY DEF JoinPrev
<1>5. n \in pointing
  BY <1>2 DEF IsRing
<1>6. IsRing(pointing \cup {p}, itsNext', itsPrev')
  <2>1. \A q \in pointing : q # r => itsNext'[q] = itsNext[q]
    BY <1>4 DEF LinkedInv, LinkedTypes
  <2>2. \A q \in pointing : q # n => itsPrev'[q] = old[q]
    BY <1>2, <1>4, <1>5 DEF LinkedInv, LinkedTypes
  <2>3. itsNext'[r] = p /\ itsNext'[p] = n /\ itsPrev'[n] = p /\ itsPrev'[p] = r
    BY <1>2, <1>4, <1>5 DEF LinkedInv, LinkedTypes
  <2>4. IsRing(pointing, itsNext, old) /\ r \in pointing /\ p \notin pointing
    BY <1>2
  <2>5. itsNext'[p] = itsNext[r] /\ itsPrev'[itsNext[r]] = p /\ \A q \in pointing : q # itsNext[r] => itsPrev'[q] = old[q]
    BY <2>2, <2>3
  <2> HIDE DEF old, n, p, r
  <2> QED
    BY <2>1, <2>3, <2>4, <2>5, RingJoins
<1>7. OneAtWork' /\ RestingRing'
  BY <1>2, <1>3, <1>4, <1>6 DEF OneAtWork, RestingRing
<1>8. ASSUME NEW u \in Splicer PROVE (JoiningRing(u) /\ LeavingRing(u))'
  BY <1>3 DEF JoiningRing, LeavingRing, Idle
<1> QED
  BY <1>7, <1>8

LEMMA ReleaseKeepsRing ==
    ASSUME LinkedInv, LinkedTypes', NEW t \in Splicer, NEW p \in Pointer, Release(t, p)
    PROVE  LinkedInv'
<1> SUFFICES ASSUME ~together'
             PROVE  OneAtWork' /\ RestingRing' /\ \A u \in Splicer : (JoiningRing(u) /\ LeavingRing(u))'
  BY DEF LinkedInv
<1>1. /\ \A u \in Splicer : splice[u] = Idle
      /\ IsRing(pointing, itsNext, itsPrev) /\ ~deleted /\ pointing # {}
  BY FoundAtRest DEF Release
<1>2. /\ p \in pointing /\ pointing' = pointing \ {p} /\ UNCHANGED << itsPrev, itsNext >>
      /\ deleted' = unique(p)
  BY DEF Release
<1>3. unique(p) <=> pointing = {p}
  BY <1>1, <1>2, RingOfOne DEF LinkedInv, LinkedTypes, unique
<1>4. CASE pointing = {p}
  <2>1. \A u \in Splicer : splice'[u] = Idle
    BY <1>1, <1>3, <1>4 DEF Release, Begin, LinkedInv, LinkedTypes
  <2>2. pointing' = {} /\ deleted'
    BY <1>2, <1>3, <1>4
  <2>3. IsRing(pointing', itsNext', itsPrev')
    BY <2>2 DEF IsRing
  <2> QED
    BY <2>1, <2>2, <2>3 DEF OneAtWork, RestingRing, JoiningRing, LeavingRing, Idle
<1>5. CASE pointing # {p}
  <2>1. /\ splice'[t] = [do |-> "leave", ptr |-> p, r |-> NULL]
        /\ \A u \in Splicer : u # t => splice'[u] = Idle
    BY <1>1, <1>3, <1>5 DEF Release, Begin, LinkedInv, LinkedTypes
  <2>2. pointing' # {} /\ ~deleted' /\ pointing' \cup {p} = pointing
    BY <1>2, <1>3, <1>5
  <2>3. itsPrev[p] # p
    BY <1>2, <1>3, <1>5 DEF unique
  <2>4. itsNext[p] \in pointing' /\ itsPrev[p] \in pointing'
    BY <2>3, <1>1, <1>2 DEF IsRing
  <2>5. OneAtWork' /\ RestingRing'
    BY <2>1, <2>2 DEF OneAtWork, RestingRing, Idle
  <2>6. ASSUME NEW u \in Splicer PROVE (JoiningRing(u) /\ LeavingRing(u))'
    <3>1. CASE u = t
      <4>1. p \notin pointing' /\ IsRing(pointing' \cup {p}, itsNext', itsPrev')
        BY <1>1, <1>2, <2>2
      <4> QED
        BY <3>1, <4>1, <2>1, <2>4, <1>2 DEF JoiningRing, LeavingRing
    <3>2. CASE u # t
      BY <3>2, <2>1 DEF JoiningRing, LeavingRing, Idle
    <3> QED
      BY <3>1, <3>2
  <2> QED
    BY <2>5, <2>6
<1> QED
  BY <1>4, <1>5

LEMMA LeaveKeepsRing ==
    ASSUME LinkedInv, LinkedTypes', NEW t \in Splicer, Leave(t)
    PROVE  LinkedInv'
<1> SUFFICES ASSUME ~together'
             PROVE  OneAtWork' /\ RestingRing' /\ \A u \in Splicer : (JoiningRing(u) /\ LeavingRing(u))'
  BY DEF LinkedInv
<1> DEFINE p == splice[t].ptr
           a == itsPrev[p]
           b == itsNext[p]
<1>1. \A u \in Splicer : u # t => splice[u] = Idle
  BY OthersAtRest DEF Leave
<1>2. /\ p \notin pointing /\ a \in pointing /\ b \in pointing
      /\ IsRing(pointing \cup {p}, itsNext, itsPrev)
      /\ p \in Pointer /\ ~deleted
  <2>1. JoiningRing(t) /\ LeavingRing(t) /\ RestingRing
    BY DEF LinkedInv, Leave
  <2>2. splice[t].do = "leave" /\ splice[t] # Idle
    BY DEF Leave, Idle
  <2>3. p \in Pointer /\ pointing \subseteq Pointer
    BY <2>2 DEF LinkedInv, LinkedTypes
  <2> QED
    BY <2>1, <2>2, <2>3 DEF RestingRing, JoiningRing, LeavingRing
<1>3. /\ splice'[t] = [do |-> "leaveNext", ptr |-> p, r |-> splice[t].r]
      /\ \A u \in Splicer : u # t => splice'[u] = Idle
  BY <1>1 DEF Leave, Goes, LinkedInv, LinkedTypes
<1>4. itsNext' = [itsNext EXCEPT ![a] = b] /\ UNCHANGED << itsPrev, pointing, deleted >>
  BY DEF Leave
<1>5. a \in Pointer /\ b \in Pointer /\ a # p
  BY <1>2 DEF LinkedInv, LinkedTypes
<1>6. itsNext'[p] = b
  BY <1>4, <1>5, <1>2 DEF LinkedInv, LinkedTypes
<1> DEFINE new == [itsPrev EXCEPT ![b] = a]
<1>7. IsRing(pointing, itsNext', new)
  <2>1. \A q \in pointing : q # a => itsNext'[q] = itsNext[q]
    BY <1>4 DEF LinkedInv, LinkedTypes
  <2>2. \A q \in pointing : q # b => new[q] = itsPrev[q]
    BY DEF LinkedInv, LinkedTypes
  <2>3. itsNext'[a] = b /\ new[b] = a
    BY <1>4, <1>5 DEF LinkedInv, LinkedTypes
  <2> HIDE DEF new
  <2> QED
    BY <2>1, <2>2, <2>3, <1>2, <1>5, RingLeaves
<1>8. OneAtWork' /\ RestingRing'
  BY <1>2, <1>3, <1>4 DEF OneAtWork, RestingRing, Idle
<1>9. ASSUME NEW u \in Splicer PROVE (JoiningRing(u) /\ LeavingRing(u))'
  <2>1. CASE u = t
    <3>1. IsRing(pointing', itsNext', [itsPrev' EXCEPT ![itsNext'[p]] = itsPrev'[p]])
      BY <1>4, <1>6, <1>7
    <3> QED
      BY <2>1, <3>1, <1>2, <1>3, <1>4, <1>6 DEF JoiningRing, LeavingRing
  <2>2. CASE u # t
    BY <2>2, <1>3 DEF JoiningRing, LeavingRing, Idle
  <2> QED
    BY <2>1, <2>2
<1> QED
  BY <1>8, <1>9

LEMMA LeaveNextKeepsRing ==
    ASSUME LinkedInv, LinkedTypes', NEW t \in Splicer, LeaveNext(t)
    PROVE  LinkedInv'
<1> SUFFICES ASSUME ~together'
             PROVE  OneAtWork' /\ RestingRing' /\ \A u \in Splicer : (JoiningRing(u) /\ LeavingRing(u))'
  BY DEF LinkedInv
<1> DEFINE p == splice[t].ptr
           a == itsPrev[p]
           b == itsNext[p]
           new == [itsPrev EXCEPT ![b] = a]
<1>1. \A u \in Splicer : u # t => splice[u] = Idle
  BY OthersAtRest DEF LeaveNext
<1>2. /\ p \notin pointing /\ a \in pointing /\ b \in pointing
      /\ IsRing(pointing, itsNext, new)
      /\ p \in Pointer /\ ~deleted
  <2>1. JoiningRing(t) /\ LeavingRing(t) /\ RestingRing
    BY DEF LinkedInv, LeaveNext
  <2>2. splice[t].do = "leaveNext" /\ splice[t] # Idle
    BY DEF LeaveNext, Idle
  <2>3. p \in Pointer /\ pointing \subseteq Pointer
    BY <2>2 DEF LinkedInv, LinkedTypes
  <2> QED
    BY <2>1, <2>2, <2>3 DEF RestingRing, JoiningRing, LeavingRing
<1>3. \A u \in Splicer : splice'[u] = Idle
  BY <1>1 DEF LeaveNext, Goes, LinkedInv, LinkedTypes
<1>4. /\ itsPrev' = [itsPrev EXCEPT ![b] = a, ![p] = NULL] /\ itsNext' = [itsNext EXCEPT ![p] = NULL]
      /\ UNCHANGED << pointing, deleted >>
  BY DEF LeaveNext
<1>5. \A q \in pointing : itsNext'[q] = itsNext[q] /\ itsPrev'[q] = new[q]
  BY <1>2, <1>4 DEF LinkedInv, LinkedTypes
<1>6. IsRing(pointing', itsNext', itsPrev')
  <2>1. pointing' = pointing
    BY <1>4
  <2> HIDE DEF new
  <2> QED
    BY <1>2, <1>5, <2>1 DEF IsRing
<1>7. OneAtWork' /\ RestingRing'
  BY <1>2, <1>3, <1>4, <1>6 DEF OneAtWork, RestingRing
<1>8. ASSUME NEW u \in Splicer PROVE (JoiningRing(u) /\ LeavingRing(u))'
  BY <1>3 DEF JoiningRing, LeavingRing, Idle
<1> QED
  BY <1>7, <1>8

LEMMA LinkedInvInit == LinkedInit => LinkedInv
<1> SUFFICES ASSUME LinkedInit PROVE LinkedInv
  OBVIOUS
<1>1. PICK p \in Pointer :
        /\ itsPrev = [q \in Pointer |-> IF q = p THEN p ELSE NULL]
        /\ itsNext = itsPrev /\ pointing = {p} /\ deleted = FALSE
        /\ splice = [t \in Splicer |-> Idle]
  BY DEF LinkedInit
<1>2. IsRing(pointing, itsNext, itsPrev)
  BY <1>1 DEF IsRing
<1> QED
  BY <1>1, <1>2, LinkedTypesInit DEF LinkedInv, OneAtWork, RestingRing, JoiningRing, LeavingRing, Idle

LEMMA LinkedInvStep == LinkedInv /\ [LinkedNext]_linkedVars => LinkedInv'
<1> SUFFICES ASSUME LinkedInv, [LinkedNext]_linkedVars PROVE LinkedInv'
  OBVIOUS
<1>1. LinkedTypes'
  BY LinkedTypesStep DEF LinkedInv
<1>2. CASE UNCHANGED linkedVars
  BY <1>2 DEF linkedVars, LinkedInv, LinkedTypes, OneAtWork, RestingRing, JoiningRing, LeavingRing
<1> QED
  BY <1>1, <1>2, AcquireKeepsRing, JoinNextKeepsRing, JoinPrevKeepsRing, ReleaseKeepsRing, LeaveKeepsRing,
     LeaveNextKeepsRing DEF LinkedNext

(* The pointers to a frame and the thread that splices them are as LinkedInv says. *)
THEOREM LinkedInvariant == LinkedSpec => []LinkedInv
  BY LinkedInvInit, LinkedInvStep, PTL DEF LinkedSpec

(* Copies and releases of a frame's pointers (base/linkedPtr.h:30-110), made one after the     *)
(* other by any number of threads, keep one ring of all the pointers, the same in both         *)
(* directions, and the last to go deletes the frame.                                           *)
THEOREM RingAlwaysWhole == LinkedSpec => []RingIsWhole
<1>1. LinkedInv => RingIsWhole
  <2> SUFFICES ASSUME LinkedInv, ~together
               PROVE  /\ deleted <=> pointing = {}
                      /\ (\A t \in Splicer : splice[t] = Idle) =>
                             \A p \in pointing : Reached(itsNext, p) = pointing /\ Reached(itsPrev, p) = pointing
    BY DEF RingIsWhole
  <2>1. ASSUME \A t \in Splicer : splice[t] = Idle, NEW p \in pointing
        PROVE  Reached(itsNext, p) = pointing /\ Reached(itsPrev, p) = pointing
    <3>1. IsRing(pointing, itsNext, itsPrev) /\ pointing \in SUBSET Pointer
      BY <2>1 DEF LinkedInv, LinkedTypes, RestingRing
    <3>2. IsRing(pointing, itsPrev, itsNext)
      BY <3>1, RingBackwards
    <3> QED
      BY <3>1, <3>2, RingReached
  <2> QED
    BY <2>1 DEF LinkedInv, RestingRing
<1> QED
  BY <1>1, LinkedInvariant, PTL

=============================================================================
