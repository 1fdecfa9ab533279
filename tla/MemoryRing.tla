------------------------------ MODULE MemoryRing ------------------------------
(***************************************************************************)
(* Frames through shared memory (MemoryOutput and MemoryInput, and their   *)
(* ZoneMinder counterparts V1): one process stores each frame in the next  *)
(* slot of a mapped file, another polls the header for a new one and       *)
(* copies it out.  There is no lock between the two.  The writer may stop, *)
(* which clears and unlinks the file, or crash, and be started again; the  *)
(* MemoryTriggerV1 of another process clears the header of the same file.  *)
(*                                                                         *)
(* Abstracted: an image is an upper and a lower half, each with the number *)
(* of its frame, which is the frame's timestamp too; a file has no length, *)
(* that of the header alone or that of header and ring; the format and the *)
(* size of the images are written with their number.  The reader polls an  *)
(* open file in one step.                                                  *)
(***************************************************************************)
EXTENDS Integers

CONSTANTS
    ImageCount,     \* slots in the ring
    RingSettings    \* classes and bounds: whether the ZoneMinder layout and classes are used,
                    \* and a trigger; how often the writer starts; how many frames it stores

ASSUME RingAssumption ==
    /\ ImageCount \in Nat \ {0}
    /\ RingSettings \subseteq [v1 : BOOLEAN, trigger : BOOLEAN, starts : 0 .. 4, frames : Nat]

VARIABLES
    setting,        \* the classes used and the bounds
    file,           \* the file of that name, 0 when there is none
    mem,            \* what each file made so far holds
    made,           \* files made so far
    writer,         \* what the writer does next
    starts,         \* its starts so far
    writerMap,      \* the file it has mapped
    frames,         \* frames stored so far
    mImageCount,    \* frames of this writer
    trigger,        \* what the trigger does
    triggerMap,     \* the file it has mapped
    reader,         \* what the reader does next
    readerMap,      \* the file it has mapped
    queried,        \* the number of images in its copy of the header
    last,           \* the time, or index, it saw last
    loading,        \* the frame it copies
    delivered,      \* the last frame it distributed
    causes          \* history: what can make a process fail

writerVars  == << writer, starts, writerMap, frames, mImageCount >>
triggerVars == << trigger, triggerMap >>
readerVars  == << reader, readerMap, queried, last, loading, delivered >>
ringVars    == << setting, file, mem, made, writerVars, triggerVars, readerVars, causes >>

v1     == setting.v1
Slot   == 0 .. ImageCount - 1
Blank  == [stamp |-> 0, top |-> 0, bottom |-> 0]
Header == [valid |-> FALSE, index |-> 0, time |-> 0, count |-> 0]
Files  == 1 .. setting.starts + 2
NoLoad == [index |-> 0, frame |-> Blank, stored |-> 0, disturbed |-> FALSE]
NoDelivery == [frame |-> Blank, stored |-> 0, disturbed |-> FALSE, times |-> 0]

RingInit ==
    /\ setting \in RingSettings
    /\ file = 0 /\ made = 0
    /\ mem = [f \in Files |-> [size |-> "none", header |-> Header, slots |-> [i \in Slot |-> Blank]]]
    /\ writer = "off" /\ starts = 0 /\ writerMap = 0 /\ frames = 0 /\ mImageCount = 0
    /\ trigger = "off" /\ triggerMap = 0
    /\ reader = "query" /\ readerMap = 0 /\ queried = 0 /\ last = 0
    /\ loading = NoLoad /\ delivered = NoDelivery
    /\ causes = {}

-----------------------------------------------------------------------------
(* attachMemory: the file is opened or made, given its length when it has none *)

\* The number of the file that open returns.
Opened == IF file = 0 THEN made + 1 ELSE file
OpenFile == Opened \in Files /\ file' = Opened /\ made' = (IF file = 0 THEN made + 1 ELSE made)

\* ftruncate, when it is empty.
Extended(f, length) == [mem EXCEPT ![f].size = IF @ = "none" THEN length ELSE @]

\* A file of another length is closed and cannot be mapped then.
Fits(f, length) == mem[f].size \in {"none", length}

Loading == reader \in {"top", "bottom", "stamp"}

\* A reader that has the file mapped sees its content go.
Disturbed(f) == [loading EXCEPT !.disturbed = @ \/ (readerMap = f)]
-----------------------------------------------------------------------------
(* MemoryOutput *)

WriterOpens ==
    /\ writer = "off" /\ starts < setting.starts
    /\ OpenFile
    /\ writerMap' = Opened /\ starts' = starts + 1 /\ mImageCount' = 0
    /\ writer' = "attach"
    /\ UNCHANGED << setting, mem, frames, triggerVars, readerVars, causes >>

WriterAttaches ==
    /\ writer = "attach"
    /\ Fits(writerMap, "ring")
    /\ mem' = Extended(writerMap, "ring")
    /\ writer' = "clear"
    /\ UNCHANGED << setting, file, made, starts, writerMap, frames, mImageCount, triggerVars, readerVars, causes >>

\* Fatal: the file is unlinked and nothing mapped.
WriterFails ==
    /\ writer = "attach"
    /\ ~Fits(writerMap, "ring")
    /\ file' = 0 /\ writer' = "failed" /\ writerMap' = 0
    /\ causes' = causes \cup {"gone"}
    /\ UNCHANGED << setting, mem, made, starts, frames, mImageCount, triggerVars, readerVars >>

\* memset, when it attaches and when it detaches.
Wiped(f) == [mem EXCEPT ![f].header = Header, ![f].slots = [i \in Slot |-> Blank]]

Clear ==
    /\ writer = "clear"
    /\ mem' = Wiped(writerMap)
    /\ loading' = Disturbed(writerMap) /\ causes' = causes \cup {"gone"}
    /\ writer' = "valid"
    /\ UNCHANGED << setting, file, made, starts, writerMap, frames, mImageCount, triggerVars,
                    reader, readerMap, queried, last, delivered >>

\* `valid' is set before what it vouches for.
SetHeader(from, field, value, to) ==
    /\ writer = from
    /\ mem' = [mem EXCEPT ![writerMap].header = [@ EXCEPT ![field] = value]]
    /\ writer' = to
    /\ UNCHANGED << setting, file, made, starts, writerMap, frames, mImageCount, triggerVars, readerVars, causes >>

Initialise ==
    \/ SetHeader("valid", "valid", TRUE, "index")
    \/ SetHeader("index", "index", ImageCount, "count")
    \/ SetHeader("count", "count", ImageCount, "run")

index == mImageCount % ImageCount

\* storeFrame: the timestamp, the image, then the header.
StoreStamp ==
    /\ writer = "run" /\ frames < setting.frames
    /\ frames' = frames + 1
    /\ mem' = [mem EXCEPT ![writerMap].slots[index].stamp = frames + 1]
    /\ loading' = [loading EXCEPT !.stored = IF Loading /\ readerMap = writerMap THEN @ + 1 ELSE @]
    /\ writer' = "top"
    /\ UNCHANGED << setting, file, made, starts, writerMap, mImageCount, triggerVars,
                    reader, readerMap, queried, last, delivered, causes >>

StorePart(from, part, to) ==
    /\ writer = from
    /\ mem' = [mem EXCEPT ![writerMap].slots[index] = [@ EXCEPT ![part] = frames]]
    /\ writer' = to
    /\ UNCHANGED << setting, file, made, starts, writerMap, frames, mImageCount, triggerVars, readerVars, causes >>

\* The index before the image.
StoreIndexFirst ==
    \/ SetHeader("top", "index", index, "half")
    \/ StorePart("half", "top", "bottom")
    \/ StorePart("bottom", "bottom", "lastTime")

Store ==
    \/ StorePart("top", "top", "bottom")
    \/ StorePart("bottom", "bottom", "lastIndex")
    \/ SetHeader("lastIndex", "index", index, "lastTime")

StoreTime ==
    /\ writer = "lastTime"
    /\ mem' = [mem EXCEPT ![writerMap].header.time = frames]
    /\ mImageCount' = mImageCount + 1
    /\ writer' = "run"
    /\ UNCHANGED << setting, file, made, starts, writerMap, frames, triggerVars, readerVars, causes >>

\* The destructor: the memory is cleared, then the file unlinked, whichever it is by now.
WriterDetaches ==
    /\ writer = "run"
    /\ mem' = Wiped(writerMap)
    /\ loading' = Disturbed(writerMap) /\ causes' = causes \cup {"gone"}
    /\ writer' = "unlink"
    /\ UNCHANGED << setting, file, made, starts, writerMap, frames, mImageCount, triggerVars,
                    reader, readerMap, queried, last, delivered >>

WriterUnlinks ==
    /\ writer = "unlink"
    /\ file' = 0 /\ writer' = "off" /\ writerMap' = 0
    /\ causes' = causes \cup {"gone"}
    /\ UNCHANGED << setting, mem, made, starts, frames, mImageCount, triggerVars, readerVars >>

\* The process dies at any point and leaves the file as it is.
WriterCrashes ==
    /\ writer \notin {"off", "failed"}
    /\ writer' = "off" /\ writerMap' = 0
    /\ UNCHANGED << setting, file, mem, made, starts, frames, mImageCount, triggerVars, readerVars, causes >>
-----------------------------------------------------------------------------
(* MemoryTriggerV1: an owner of the header alone *)

TriggerOpens ==
    /\ setting.trigger /\ trigger = "off"
    /\ OpenFile
    /\ triggerMap' = Opened /\ trigger' = "attach"
    /\ UNCHANGED << setting, mem, writerVars, readerVars, causes >>

\* The header is cleared and set up again: the last index is that of a ring of no slots.
TriggerAttaches ==
    /\ trigger = "attach"
    /\ mem' = [Extended(triggerMap, "header") EXCEPT ![triggerMap].header = [Header EXCEPT !.valid = TRUE]]
    /\ loading' = Disturbed(triggerMap)
    /\ causes' = causes \cup {"gone", "trigger"}
    /\ trigger' = "on"
    /\ UNCHANGED << setting, file, made, writerVars, triggerMap, reader, readerMap, queried, last, delivered >>

TriggerDetaches ==
    /\ trigger = "on"
    /\ mem' = [mem EXCEPT ![triggerMap].header = Header]
    /\ loading' = Disturbed(triggerMap) /\ causes' = causes \cup {"gone"}
    /\ file' = 0 /\ trigger' = "done" /\ triggerMap' = 0
    /\ UNCHANGED << setting, made, writerVars, reader, readerMap, queried, last, delivered >>
-----------------------------------------------------------------------------
(* MemoryInput *)

\* queryMemory: a copy of the header, when the file has a length.
Query ==
    /\ reader = "query"
    /\ file # 0 /\ mem[file].size # "none"
    /\ queried' = mem[file].header.count
    /\ reader' = IF mem[file].header.valid THEN "open" ELSE "query"
    /\ causes' = (causes \ {"gone"}) \cup
                 (IF ~v1 /\ mem[file].header.valid /\ mem[file].header.count = 0 THEN {"halfway"} ELSE {})
    /\ UNCHANGED << setting, file, mem, made, writerVars, triggerVars, readerMap, last, loading, delivered >>

\* mStop ends the wait; run goes on to attach all the same.
StopEarly ==
    /\ reader = "query"
    /\ reader' = "open" /\ causes' = causes \cup {"early"}
    /\ UNCHANGED << setting, file, mem, made, writerVars, triggerVars, readerMap, queried, last, loading, delivered >>

ReaderOpens ==
    /\ reader = "open"
    /\ OpenFile
    /\ readerMap' = Opened /\ reader' = "attach"
    /\ UNCHANGED << setting, mem, writerVars, triggerVars, queried, last, loading, delivered, causes >>

\* MemoryInputV1 is told the size of the ring.
length == IF v1 \/ queried > 0 THEN "ring" ELSE "header"

\* exit( -1 ) when the memory is not valid, Fatal when it cannot be mapped; V1 measures
\* the frame rate at the last slot written.
ReaderAttaches ==
    /\ reader = "attach"
    /\ mem' = IF Fits(readerMap, length) THEN Extended(readerMap, length) ELSE mem
    /\ reader' =
           IF ~Fits(readerMap, length) THEN "failed"
           ELSE IF ~mem[readerMap].header.valid THEN "exited"
           ELSE IF v1 /\ mem[readerMap].header.index \notin Slot THEN "undefined"
           ELSE IF "early" \in causes THEN "stopped" ELSE "poll"
    /\ last' = IF v1 THEN ImageCount ELSE 0
    /\ causes' = causes \cup (IF v1 /\ mImageCount = 0 THEN {"halfway"} ELSE {})
    /\ UNCHANGED << setting, file, made, writerVars, triggerVars, readerMap, queried, loading, delivered >>

head == mem[readerMap].header

Stopped ==
    /\ reader = "poll"
    /\ reader' = "stopped"
    /\ UNCHANGED << setting, file, mem, made, writerVars, triggerVars, readerMap, queried, last, loading, delivered, causes >>

\* Memory that is not valid stops MemoryInput; V1 polls it for ever.
NotValid == reader = "poll" /\ ~v1 /\ ~head.valid /\ Stopped

IsNew == head.valid /\ IF v1 THEN head.index < ImageCount /\ head.index # last ELSE head.time # last

\* The poll sees a frame.
Poll ==
    /\ reader = "poll" /\ IsNew
    /\ reader' = "load"
    /\ UNCHANGED << setting, file, mem, made, writerVars, triggerVars, readerMap, queried, last, loading, delivered, causes >>

\* loadFrame reads the index (again): one past the end passes its check.
InRange(i) == i >= 0 /\ i <= IF v1 THEN ImageCount ELSE head.count

Load ==
    /\ reader = "load"
    /\ reader' = IF ~InRange(head.index) THEN "failed" ELSE IF head.index \in Slot THEN "top" ELSE "undefined"
    /\ loading' = [NoLoad EXCEPT !.index = head.index, !.disturbed = loading.disturbed]
    /\ UNCHANGED << setting, file, mem, made, writerVars, triggerVars, readerMap, queried, last, delivered, causes >>

LoadPart(from, part, to) ==
    /\ reader = from
    /\ loading' = [loading EXCEPT !.frame = [@ EXCEPT ![part] = mem[readerMap].slots[loading.index][part]]]
    /\ reader' = to
    /\ UNCHANGED << setting, file, mem, made, writerVars, triggerVars, readerMap, queried, last, delivered, causes >>

LoadImage ==
    \/ LoadPart("top", "top", "bottom")
    \/ LoadPart("bottom", "bottom", "stamp")
    \/ LoadPart("stamp", "stamp", "deliver")

\* What was seen last is read again after the frame was loaded.
Seen == IF v1 THEN head.index ELSE head.time

Deliver ==
    /\ reader = "deliver"
    /\ last' = Seen
    /\ delivered' = [frame |-> loading.frame, stored |-> loading.stored, disturbed |-> loading.disturbed,
                     times |-> IF delivered.frame = loading.frame THEN delivered.times + 1 ELSE 1]
    /\ loading' = [NoLoad EXCEPT !.disturbed = loading.disturbed]
    /\ reader' = "poll"
    /\ UNCHANGED << setting, file, mem, made, writerVars, triggerVars, readerMap, queried, causes >>
-----------------------------------------------------------------------------

WriterStep ==
    \/ WriterOpens \/ WriterAttaches \/ WriterFails \/ Clear \/ Initialise
    \/ StoreStamp \/ Store \/ StoreTime
    \/ WriterDetaches \/ WriterUnlinks \/ WriterCrashes

TriggerStep == TriggerOpens \/ TriggerAttaches \/ TriggerDetaches

ReaderStep == Query \/ ReaderOpens \/ ReaderAttaches \/ NotValid \/ Poll \/ Load \/ LoadImage \/ Deliver

RingNext == WriterStep \/ TriggerStep \/ ReaderStep \/ StopEarly \/ Stopped

\* The thread of the reader is scheduled.
RingSpec == RingInit /\ [][RingNext]_ringVars /\ WF_ringVars(ReaderStep)
-----------------------------------------------------------------------------

Whole(fr) == fr.stamp > 0 /\ fr.stamp = fr.top /\ fr.stamp = fr.bottom

\* While the reader copied a frame the writer came round to its slot, or the memory it
\* has mapped was cleared at some time by a writer that stopped or started or by a trigger.
Overtaken(load) == load.stored >= ImageCount - 1 \/ load.disturbed

\* A frame from shared memory has the two halves and the timestamp of one frame that was
\* stored, though nothing locks the slot, unless the writer overtook the reader or the
\* reader attached to a header that was half written or that a trigger had cleared.
FramesAreWhole ==
    delivered.times > 0 => Whole(delivered.frame) \/ Overtaken(delivered) \/ causes \cap {"halfway", "trigger"} # {}

\* A frame that is distributed comes after those that were stored before it.  None comes three
\* times: MemoryInput may load a frame before its time is in the header and again after.  V1
\* gets none twice, unless it attached to such a header, whose index is that of a slot before
\* there is a frame (ozMemoryInput.cpp:80-120, ozMemoryInputV1.cpp:60-110).
InOrder ==
    delivered' # delivered /\ ~Overtaken(delivered') /\ ~Overtaken(delivered) =>
        /\ delivered'.frame.stamp >= delivered.frame.stamp
        /\ ~v1 => delivered'.times <= 2
        /\ v1 /\ causes \cap {"halfway", "trigger"} = {} => delivered'.times <= 1

FramesInOrder == [][InOrder]_ringVars

\* A process that uses the memory dies for these reasons only: the reader was stopped
\* before it had found the memory, read the header while it was written, or had the memory
\* cleared or unlinked under it; the writer found a file that was made by such a reader or a trigger.
FailuresExplained ==
    /\ reader = "exited" => "early" \in causes \/ "gone" \in causes
    /\ reader \in {"failed", "undefined"} => causes # {}
    /\ writer = "failed" => causes \cap {"early", "halfway", "trigger"} # {}

\* What a reader of shared memory may rely on: whole frames, and an explained end of the
\* processes that use it (ozMemoryInput.cpp:40-120, ozMemoryOutput.cpp:60-110).
RingIsSafe == FramesAreWhole /\ FailuresExplained

\* Both at once: every step leaves frames whole and in the order they were stored, and what
\* goes wrong explained (ozMemoryInput.cpp:40-120, ozMemoryInputV1.cpp:60-110).
RingHolds == [][RingIsSafe' /\ InOrder]_ringVars

\* A reader whose memory stays invalid, its writer having gone, ends; that of V1 polls on
\* (ozMemoryInput.cpp:80-120).
ReaderEnds ==
    []<>(v1 \/ reader \notin {"poll", "load", "top", "bottom", "stamp", "deliver"} \/ head.valid)
-----------------------------------------------------------------------------
(***************************************************************************)
(* Why RingIsSafe and FramesInOrder hold: an inductive invariant.          *)
(* Untouched memory, which no trigger has cleared, is the present file's.  *)
(***************************************************************************)

Frame    == [stamp : Nat, top : Nat, bottom : Nat]
Headers  == [valid : BOOLEAN, index : 0 .. ImageCount, time : Nat, count : {0, ImageCount}]
Slots    == [Slot -> Frame]
Memory   == [size : {"none", "header", "ring"}, header : Headers, slots : Slots]
Storing  == {"run", "top", "bottom", "lastIndex", "lastTime"}
Attached == {"poll", "load", "top", "bottom", "stamp", "deliver"}

RingTypes ==
    /\ setting \in RingSettings
    /\ made \in Nat /\ file \in Files \cup {0}
    /\ mem \in [Files -> Memory]
    /\ writer \in {"off", "failed", "attach", "clear", "valid", "index", "count", "unlink"} \cup Storing
    /\ writerMap \in Files \cup {0} /\ (writer \notin {"off", "failed"} => writerMap # 0)
    /\ starts \in Nat /\ frames \in Nat /\ mImageCount \in Nat
    /\ trigger \in {"off", "attach", "on", "done"}
    /\ triggerMap \in Files \cup {0} /\ (trigger \in {"attach", "on"} => triggerMap # 0)
    /\ reader \in {"query", "open", "attach", "failed", "exited", "undefined", "stopped"} \cup Attached
    /\ readerMap \in Files \cup {0} /\ (readerMap = 0 <=> reader \in {"query", "open"})
    /\ queried \in {0, ImageCount} /\ last \in Nat
    /\ loading \in [index : 0 .. ImageCount, frame : Frame, stored : Nat, disturbed : BOOLEAN]
    /\ Loading => loading.index \in Slot
    /\ delivered \in [frame : Frame, stored : Nat, disturbed : BOOLEAN, times : Nat]
    /\ causes \in SUBSET {"gone", "early", "halfway", "trigger"}

Untouched == "trigger" \notin causes

\* The writer has the present file mapped, and no other file has a header.
OneFile ==
    Untouched =>
        /\ writer \notin {"off", "failed"} => writerMap = file
        /\ writer \notin {"off", "failed", "attach"} => mem[writerMap].size = "ring"
        /\ \A f \in Files : f # file \/ mem[f].size # "ring" => mem[f].header = Header

\* The slot before another.
Before(i) == IF i = 0 THEN ImageCount - 1 ELSE i - 1

\* How far the writer has come, by its header and the slot it stores.
HeaderOfWriter(h) ==
    /\ writer \in {"valid", "unlink"} => h = Header
    /\ writer = "index" => h = [Header EXCEPT !.valid = TRUE]
    /\ writer = "count" => h = [Header EXCEPT !.valid = TRUE, !.index = ImageCount]
    /\ writer \in Storing =>
           /\ h.valid /\ h.count = ImageCount
           /\ h.index = IF writer = "lastTime" THEN index ELSE IF mImageCount = 0 THEN ImageCount ELSE Before(index)
           /\ mImageCount = 0 => h.time = 0

SlotOfWriter(s) ==
    /\ writer \in Storing \ {"run"} => frames > 0 /\ s.stamp = frames
    /\ writer \in Storing \ {"run", "top"} => s.top = frames
    /\ writer \in Storing \ {"run", "top", "bottom"} => s.bottom = frames

WriterGoesOn ==
    /\ writer \in {"attach", "clear", "valid", "index", "count"} => mImageCount = 0
    /\ Untouched => HeaderOfWriter(mem[writerMap].header)
    /\ SlotOfWriter(mem[writerMap].slots[index])

\* A header that has seen a frame shows one, and it is whole.
Shown(f) == mem[f].header.count = ImageCount /\ mem[f].header.index \in Slot

HeadersShowFrames ==
    Untouched =>
        \A f \in Files :
            /\ mem[f].header.valid /\ mImageCount > 0 => Shown(f)
            /\ mem[f].header.time > 0 => Shown(f)
            /\ Shown(f) /\ ImageCount > 1 => Whole(mem[f].slots[mem[f].header.index])

\* The reader's memory, as long as nobody cleared it.
Undisturbed == Untouched /\ "halfway" \notin causes /\ ~loading.disturbed

ReaderSeesFrames ==
    Undisturbed /\ reader \in Attached =>
        /\ head.valid
        /\ v1 \/ reader # "poll" => Shown(readerMap)
        /\ last # 0 => head.time > 0 \/ v1

\* What was copied is in the slot still, and the writer is not there yet.
Distance(i, j) == IF j >= i THEN j - i ELSE j - i + ImageCount

ReaderCopiesOne ==
    Undisturbed /\ loading.stored < ImageCount - 1 =>
        /\ reader = "deliver" => Whole(loading.frame)
        /\ Loading =>
            LET s == mem[readerMap].slots[loading.index]
            IN  /\ Whole(s)
                /\ reader # "top" => loading.frame.top = s.top
                /\ reader = "stamp" => loading.frame.bottom = s.bottom
                /\ writer \in Storing => Distance(loading.index, IF writer = "run" THEN Before(index) ELSE index) <= loading.stored + 1
                /\ writer \in {"top", "bottom", "lastIndex"} => loading.index # index

\* Why a process fails.
CausesKept ==
    /\ trigger \in {"on", "done"} => "trigger" \in causes
    /\ loading.disturbed => "gone" \in causes /\ readerMap # 0
    /\ causes \cap {"early", "gone"} = {} =>
           /\ reader = "open" => file # 0 /\ mem[file].header.valid
           /\ reader = "attach" => head.valid
    /\ reader # "query" /\ causes \cap {"early", "halfway"} = {} => v1 \/ queried > 0
    /\ (\E f \in Files : mem[f].size = "header") =>
           "trigger" \in causes \/ (reader \notin {"query", "open", "attach"} /\ causes \cap {"early", "halfway"} # {})

\* Numbers are those of frames stored so far; the one stored now is the newest, and its index
\* is in the header before its time, but for a trigger.
NumbersGrow ==
    /\ \A f \in Files : mem[f].header.time <= frames /\ \A i \in Slot : mem[f].slots[i].stamp <= frames
    /\ loading.frame.stamp <= frames /\ delivered.frame.stamp <= frames
    /\ writer \in Storing \ {"run"} => \A i \in Slot \ {index} : mem[writerMap].slots[i].stamp < frames
    /\ writer = "lastTime" => mem[writerMap].header.index = index \/ mem[writerMap].header.time = 0
    /\ reader \in {"query", "open", "attach"} => delivered.times = 0
    /\ delivered.times = 0 => delivered.frame = Blank

\* The number in a slot of the reader's memory, and that of the frame it distributed last.
StampAt(i) == mem[readerMap].slots[i].stamp
Latest     == delivered.frame.stamp

\* What the reader may get next is not older than what it got.
ReaderGoesForward ==
    ~loading.disturbed /\ reader \in Attached =>
        /\ reader = "load" \/ (reader = "poll" /\ IF v1 THEN head.index # last ELSE head.time # last) =>
               (head.index \in Slot => Latest <= StampAt(head.index))
        /\ Loading => Latest <= StampAt(loading.index)
        /\ reader = "deliver" => Latest <= loading.frame.stamp

\* MemoryInput goes by the time, and gets no frame again that the time it saw last vouches for.
TimeGoesForward ==
    ~v1 /\ ~loading.disturbed /\ reader \in Attached =>
        /\ last <= head.time /\ (reader # "poll" => last < head.time)
        /\ delivered.times > 0 => last > 0
        /\ head.time # last => Latest <= head.time
        /\ head.index \in Slot => \/ head.time <= StampAt(head.index) \/ delivered.times = 0
                                \/ (delivered.times = 1 /\ head.time = last)
        /\ delivered.times <= 2
        /\ delivered.times = 2 =>
               /\ Latest <= last
               /\ Loading => Latest < StampAt(loading.index)
               /\ reader = "deliver" => Latest < loading.frame.stamp

\* V1 goes by the index, which moves to newer frames.
IndexGoesForward ==
    v1 /\ Undisturbed /\ reader \in Attached =>
        /\ loading.stored < ImageCount - 1 =>
               /\ Loading => StampAt(loading.index) <= StampAt(head.index)
               /\ reader = "deliver" => loading.frame.stamp <= StampAt(head.index)
        /\ delivered.times > 0 /\ ~Overtaken(delivered) =>
               /\ Latest <= StampAt(head.index)
               /\ reader = "load" \/ (reader = "poll" /\ head.index # last) => Latest < StampAt(head.index)
               /\ Loading => Latest < StampAt(loading.index)
               /\ reader = "deliver" => Latest < loading.frame.stamp

RingInv ==
    /\ RingTypes /\ OneFile /\ WriterGoesOn /\ HeadersShowFrames
    /\ ReaderSeesFrames /\ ReaderCopiesOne /\ CausesKept /\ RingIsSafe
    /\ NumbersGrow /\ ReaderGoesForward /\ TimeGoesForward /\ IndexGoesForward
=============================================================================
