------------------------------ MODULE MovieFiles ------------------------------
(***************************************************************************)
(* What gets into the files of MovieFileOutput, one after the other by     *)
(* length, and of VideoRecorder, one for each event.  The codec keeps the  *)
(* last pictures back, and gives them up only when it is called without a  *)
(* picture: both have a loop for this around avcodec_encode_video.         *)
(*                                                                         *)
(* Abstracted: a frame is its number; a picture lasts one unit of time, so *)
(* does a piece of sound; whether an event's tail and least length are     *)
(* over is open (EventRecorder has them); of the codec, a library, all     *)
(* that is left is that it keeps `latency' pictures back, in order, none   *)
(* for raw pictures.                                                       *)
(***************************************************************************)
EXTENDS Integers, Sequences, FiniteSets, SequencesExt

CONSTANTS
    Latencies,  \* bound: how many pictures the codec keeps back
    mMaxLength, \* the length of a movie file
    StoreSize,  \* the pictures of the seconds before an event
    MaxMovieFrames,  \* bound: frames that arrive
    MaxMovieQueue   \* bound: frames waiting

ASSUME MovieAssumption ==
    /\ Latencies \subseteq Nat /\ mMaxLength \in Nat \ {0} /\ StoreSize \in Nat
    /\ MaxMovieFrames \in Nat /\ MaxMovieQueue \in Nat

VARIABLES
    writer,         \* "movie" or "video"
    hasAudio,       \* a movie has sound
    latency,
    movieQueue,
    movieFrames,        \* frames queued so far
    fileStep,             \* "start", "open", "loop", "queue", "close", "ended" or "fatal"
    toWrite,        \* stored pictures, and the one that alarmed, on their way into a new event's file
    mStop,
    out,            \* the file that is written
    files,          \* those that were closed
    videoState,         \* the video recorder's
    videoStore,    \* the numbers of its stored frames
    notices         \* what was said of files

writerVars == << fileStep, toWrite, out, files, videoState, videoStore, notices >>
movieVars == << writer, hasAudio, latency, movieQueue, movieFrames, mStop, writerVars >>

\* taken: the pictures that were for the file; packets: those that are in it; full: the frame
\* that completed it, or 0.
NewFile == [codec |-> << >>, taken |-> << >>, packets |-> << >>, sounds |-> 0, videoTimeOffset |-> 0, full |-> 0]

MovieInit ==
    /\ writer \in {"movie", "video"} /\ hasAudio \in BOOLEAN /\ latency \in Latencies
    /\ writer = "video" => ~hasAudio
    /\ movieQueue = << >> /\ movieFrames = 0
    /\ fileStep = "start" /\ toWrite = << >> /\ mStop = FALSE
    /\ out = NewFile /\ files = << >>
    /\ videoState = "IDLE" /\ videoStore = << >>
    /\ notices = << >>

-----------------------------------------------------------------------------
(* Pictures *)

\* Mutant: what the codec keeps back is never asked for.
DrainsNever(o) == FALSE

\* MovieFileOutput drains the codec from the frame on that completes the file, VideoRecorder always.
Drains(o) == writer = "video" \/ o.full # 0

\* A call that gives nothing ends the loop, so that a codec is drained only once it is full.
Encoded(o, n) ==
    LET in == Append(o.codec, n)
        given == IF Len(in) <= latency THEN 0 ELSE IF Drains(o) THEN Len(in) ELSE 1
    IN  [o EXCEPT !.taken = Append(@, n),
                  !.packets = @ \o SubSeq(in, 1, given),
                  !.codec = SubSeq(in, given + 1, Len(in))]

\* The writer goes through the queue with its mutex held.
Locked == fileStep = "queue" \/ toWrite # << >>

queueMovieFrame(media, alarmed) ==
    /\ ~Locked
    /\ movieFrames < MaxMovieFrames /\ Len(movieQueue) < MaxMovieQueue
    /\ media = "audio" => hasAudio
    /\ alarmed => writer = "video"
    /\ movieFrames' = movieFrames + 1
    /\ movieQueue' = Append(movieQueue, [n |-> movieFrames + 1, media |-> media, alarmed |-> alarmed])
    /\ UNCHANGED << writer, hasAudio, latency, mStop, writerVars >>

stop == mStop' = TRUE /\ UNCHANGED << writer, hasAudio, latency, movieQueue, movieFrames, writerVars >>

\* waitForProviders may give up; formats, codecs and files may fail, which is Fatal.
Wait ==
    /\ fileStep = "start"
    /\ fileStep' \in {IF writer = "movie" THEN "open" ELSE "loop", "ended"}
    /\ UNCHANGED << writer, hasAudio, latency, movieQueue, movieFrames, mStop, toWrite, out, files, videoState, videoStore, notices >>

Fails ==
    /\ fileStep \in {"open", "loop", "queue"} /\ fileStep' = "fatal"
    /\ UNCHANGED << writer, hasAudio, latency, movieQueue, movieFrames, mStop, toWrite, out, files, videoState, videoStore, notices >>

frame == Head(movieQueue)

\* mStop is looked at before the queue, not between its frames.
TakesFrame ==
    /\ movieQueue # << >> /\ toWrite = << >>
    /\ fileStep = "queue" \/ (fileStep = "loop" /\ ~mStop)

Announce(what) == notices' = Append(notices, what)

-----------------------------------------------------------------------------
(* MovieFileOutput::run *)

\* Streams, codecs, the file, its header.
OpenMovie ==
    /\ fileStep = "open" /\ ~mStop
    /\ out' = NewFile
    /\ Announce("begin")
    /\ fileStep' = "loop"
    /\ UNCHANGED << writer, hasAudio, latency, movieQueue, movieFrames, mStop, toWrite, files, videoState, videoStore >>

\* The time of the picture is counted for each frame, of the sound for what is written.
Timed(o, n) ==
    LET t == o.videoTimeOffset + 1
        complete == (~hasAudio \/ o.sounds >= mMaxLength) /\ t >= mMaxLength
    IN  [o EXCEPT !.videoTimeOffset = t, !.full = IF @ = 0 /\ complete THEN n ELSE @]

WriteFrame(o, f) ==
    LET timed == Timed(o, f.n)
    IN  IF f.media = "audio" THEN [timed EXCEPT !.sounds = @ + 1] ELSE Encoded(timed, f.n)

\* A frame of the queue; a file that is complete takes the rest of the queue too.
WriteQueue ==
    /\ writer = "movie" /\ TakesFrame
    /\ out' = WriteFrame(out, frame)
    /\ movieQueue' = Tail(movieQueue)
    /\ fileStep' = IF Tail(movieQueue) # << >> THEN "queue" ELSE IF out'.full # 0 THEN "close" ELSE "loop"
    /\ UNCHANGED << writer, hasAudio, latency, movieFrames, mStop, toWrite, files, videoState, videoStore, notices >>

\* The trailer; what the codec still has is dropped with it.
CloseMovie ==
    /\ writer = "movie" /\ (fileStep = "close" \/ (fileStep = "loop" /\ mStop))
    /\ files' = Append(files, out)
    /\ Announce("end")
    /\ fileStep' = "open"
    /\ UNCHANGED << writer, hasAudio, latency, movieQueue, movieFrames, mStop, toWrite, out, videoState, videoStore >>

EndMovie ==
    /\ fileStep = "open" /\ mStop /\ fileStep' = "ended"
    /\ UNCHANGED << writer, hasAudio, latency, movieQueue, movieFrames, mStop, toWrite, out, files, videoState, videoStore, notices >>

-----------------------------------------------------------------------------
(* VideoRecorder *)

\* Clear out old frames, keep this one.
Stored(n) ==
    LET all == Append(videoStore, n)
    IN  SubSeq(all, IF Len(all) > StoreSize THEN Len(all) - StoreSize + 1 ELSE 1, Len(all))

VideoStep ==
    /\ writer = "video" /\ TakesFrame
    /\ movieQueue' = Tail(movieQueue)
    /\ fileStep' = IF Tail(movieQueue) # << >> THEN "queue" ELSE "loop"
    /\ videoStore' = Stored(frame.n)
    /\ UNCHANGED << writer, hasAudio, latency, movieFrames, mStop >>

\* initEncoder, openVideoFile.
BeginVideo ==
    /\ VideoStep
    /\ videoState = "IDLE" /\ frame.alarmed
    /\ videoState' = "ALARM"
    /\ out' = NewFile
    /\ toWrite' = Append(videoStore, frame.n)
    /\ Announce("begin")
    /\ UNCHANGED files

\* The stored frames and the one that alarmed.
WriteStored ==
    /\ fileStep \in {"loop", "queue"} /\ toWrite # << >>
    /\ out' = Encoded(out, Head(toWrite))
    /\ toWrite' = Tail(toWrite)
    /\ UNCHANGED << writer, hasAudio, latency, movieQueue, movieFrames, mStop, fileStep, files, videoState, videoStore, notices >>

ContinueVideo ==
    /\ VideoStep
    /\ videoState # "IDLE"
    /\ videoState' = IF frame.alarmed THEN "ALARM" ELSE "ALERT"
    /\ out' = Encoded(out, frame.n)
    /\ UNCHANGED << toWrite, files, notices >>

\* The tail is over: closeVideoFile, deinitEncoder; this frame is not in the file.
EndVideo ==
    /\ VideoStep
    /\ videoState # "IDLE" /\ ~frame.alarmed
    /\ videoState' = "IDLE"
    /\ files' = Append(files, out)
    /\ Announce("end")
    /\ UNCHANGED << toWrite, out >>

Quiet ==
    /\ VideoStep
    /\ videoState = "IDLE" /\ ~frame.alarmed
    /\ UNCHANGED << toWrite, out, files, videoState, notices >>

\* A recorder that is stopped in an event leaves its file as it is.
StopVideo ==
    /\ writer = "video" /\ fileStep = "loop" /\ toWrite = << >> /\ mStop /\ fileStep' = "ended"
    /\ UNCHANGED << writer, hasAudio, latency, movieQueue, movieFrames, mStop, toWrite, out, files, videoState, videoStore, notices >>

MovieNext ==
    \/ \E media \in {"audio", "video"}, alarmed \in BOOLEAN : queueMovieFrame(media, alarmed)
    \/ stop \/ Wait \/ Fails
    \/ OpenMovie \/ WriteQueue \/ CloseMovie \/ EndMovie
    \/ BeginVideo \/ WriteStored \/ ContinueVideo \/ EndVideo \/ Quiet \/ StopVideo

MovieSpec == MovieInit /\ [][MovieNext]_movieVars

-----------------------------------------------------------------------------

IsOpen == IF writer = "movie" THEN fileStep \in {"loop", "queue", "close"} ELSE videoState # "IDLE"

UpToFull(f) == Cardinality({ i \in DOMAIN f.taken : f.taken[i] <= f.full })

\* A closed file has the pictures that were for it from the first one on, in order, each once; only
\* the last ones may be missing, no more than the codec keeps back.  A movie file that is complete
\* has all of them up to the picture that completed it, if those were enough to fill the codec.
\* Every file is announced once when it is opened and once when it is closed, a stopped movie's
\* too (ozMovieFileOutput.cpp:215-343, 345-380; ozVideoRecorder.cpp:458-488, 355-376).
FilesHoldTheirFrames ==
    /\ \A i \in DOMAIN files : LET f == files[i] IN
           /\ IsPrefix(f.packets, f.taken)
           /\ Len(f.taken) - Len(f.packets) <= latency
           /\ f.full \in {f.taken[k] : k \in DOMAIN f.taken} /\ UpToFull(f) > latency => Len(f.packets) >= UpToFull(f)
    /\ fileStep # "fatal" =>
           /\ Len(notices) = 2 * Len(files) + (IF IsOpen THEN 1 ELSE 0)
           /\ \A i \in DOMAIN notices : notices[i] = IF i % 2 = 1 THEN "begin" ELSE "end"
    /\ writer = "movie" /\ fileStep = "ended" => Len(notices) = 2 * Len(files)

-----------------------------------------------------------------------------
(***************************************************************************)
(* Why FilesHoldTheirFrames holds: an inductive invariant.                 *)
(***************************************************************************)

Picture == Nat \ {0}

MovieFile ==
    [codec : Seq(Picture), taken : Seq(Picture), packets : Seq(Picture), sounds : Nat, videoTimeOffset : Nat, full : Nat]

MovieTypes ==
    /\ writer \in {"movie", "video"} /\ hasAudio \in BOOLEAN /\ latency \in Nat /\ mStop \in BOOLEAN
    /\ movieQueue \in Seq([n : Picture, media : {"audio", "video"}, alarmed : BOOLEAN]) /\ movieFrames \in Nat
    /\ fileStep \in {"start", "open", "loop", "queue", "close", "ended", "fatal"}
    /\ out \in MovieFile /\ files \in Seq(MovieFile)
    /\ videoState \in {"IDLE", "ALARM", "ALERT"} /\ videoStore \in Seq(Picture) /\ toWrite \in Seq(Picture)
    /\ writer = "movie" => toWrite = << >>
    /\ fileStep \in {"open", "close"} => writer = "movie"
    /\ notices \in Seq({"begin", "end"})

\* The frames taken from the queue.
TakenFrames == movieFrames - Len(movieQueue)

QueueIsNumbered == \A i \in DOMAIN movieQueue : movieQueue[i].n = TakenFrames + i

Rises(s) == \A i, j \in DOMAIN s : i < j => s[i] < s[j]

\* What was for the file is in it or in the codec, which is filled first and, from the picture
\* that completed the file on, is emptied whenever it is full.
FileHolds(f) ==
    /\ f.taken = f.packets \o f.codec
    /\ Len(f.codec) <= latency
    /\ writer = "video" => f.full = 0
    /\ writer = "movie" =>
           /\ Rises(f.taken)
           /\ f.full = 0 => f.packets = << >> \/ Len(f.codec) = latency
           /\ \A k \in DOMAIN f.taken : f.taken[k] = f.full /\ k > latency => Len(f.packets) >= k

\* The file that is written has frames from before the queue.
OutIsEarlier ==
    writer = "movie" => out.full <= TakenFrames /\ \A k \in DOMAIN out.taken : out.taken[k] <= TakenFrames

NoticesPair ==
    /\ fileStep # "fatal" => Len(notices) = 2 * Len(files) + (IF IsOpen THEN 1 ELSE 0)
    /\ \A i \in DOMAIN notices : notices[i] = IF i % 2 = 1 THEN "begin" ELSE "end"

MovieInv ==
    /\ MovieTypes
    /\ QueueIsNumbered
    /\ FileHolds(out) /\ OutIsEarlier
    /\ \A i \in DOMAIN files : FileHolds(files[i])
    /\ NoticesPair
=============================================================================
