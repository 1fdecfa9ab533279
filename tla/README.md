# ozonebase in TLA+

ozonebase is a C++ framework for network video recorders. A program wires *components* together:
inputs, filters, detectors, encoders, recorders, network streams. Each is a thread; a component
that makes frames is a `FeedProvider`, one that takes them a `FeedConsumer`, most are both. These
modules model how components link, start, exchange frames and end, what they do to the frames,
how clients are served, how recordings are made, and the image library underneath. Paths are
relative to `src/server/src` unless they begin with `src/`.

## The system

| Part | State | Operations | Talks to | What makes it correct | Modules |
|---|---|---|---|---|---|
| Links (`base/ozFeedProvider`, `ozFeedConsumer`) | `mConsumers` of a provider, `mProviders` of a consumer, a mutex each | register, deregister, cleanup, distribute's removal of slow consumers | each other, calls in both directions | the two maps agree; calls return | `FeedLinks` |
| Frame flow (`distributeFrame`, `queueFrame`, run loops) | `mFrameQueue`, its mutex, the delay buffer's queue | capture, distribute, queue, take, wait, check, clean up | pipeline neighbours | no gaps, no repetition, order kept; an end cascades | `FeedFlow`, `FrameRelay` |
| Provider state (`waitForProviders`, `checkProviders`) | `mState`, read without a lock | wait before the loop, check in every round | provider threads | start when all are ready, stop when and only when one is lost | `ProviderWatch` |
| Input fallback | slots, statistics, current provider | switch by priority or timeout | several providers | no flapping, leaves a silent feed | `InputFallback` |
| Filters (`ImageConvert`, `ImageScale`, `ImageTimestamper`, `SignalChecker`, ...) | converter, size and format declared | run loop, `width()` and `pixelFormat()` up the chain | neighbours in a row | a frame's bytes are what the reader takes them for | `FilterChain` |
| `MatrixVideo` | a context and last frame per slot, the output picture | poll, scale into a tile, providers come and go | several providers | tiles show their providers | `MatrixTiles` |
| Motion detection | reference, variance, zones, frame count | analyse a frame, blend | recorders downstream | alarms follow the zones and end | `MotionDetector`, `BlobScan`, `PolyMask`, `PixelLevels` |
| Images (`libimg`) | format, size, planes, buffer | turn, scale, mix, compare, draw, filter, load | everything | bytes, channels and levels where they belong | `ImageBuffer`, `ImageFormats`, `PixelLevels`, `PixelLayouts`, `PictureDrawing`, `PictureFilters` |
| Encoder pool (`base/ozEncoder`) | `smEncoderPool`, `mPooled`, `mLastUse` | look up, pool, expire, unpool | streams, source, encoder threads | the pool holds running encoders; unused ones end | `EncoderPool` |
| Relay and encoders | `mInitialFrame`, consumers | first frame to new clients | streams | a stream starts with its parameters | `InitialFrames` |
| Recorders, file outputs | alarm state, frame store, codec, file | `processFrame`, open, encode, close | detectors, notification consumers | events complete, notified once, closed in time; files hold their frames | `EventRecorder`, `MovieFiles`, `AlarmClips` |
| Shared memory (`MemoryIO`, V1) | header, slots, file | store, attach, poll, detach, trigger | another process | whole frames in order; failures explained | `MemoryRing` |
| Threads, timers | `mRunning`, `mStop`, expiry flag | start, stop, join; cancel, reset | every component | one thread; calls return; no expiry after cancel | `ThreadLife`, `TimerThread` |
| Frame pointers (`base/linkedPtr.h`) | ring of the copies | copy, release | all threads with a frame | freed once, by the last | `LinkedFrames` |
| Listener, HTTP, RTSP, RTMP | connections, sessions, streams, ports, partial requests | accept, receive, handle, close | clients, pool | requests assembled; what is alive is owned; the listener comes back | `Reception`, `ClientServing` |
| Sending | packets, chunks, sequence numbers | fragment, number, send | clients | the client can put frames together | `RtspPackets`, `RtmpDelivery` |
| RTP reception, AMF, `Buffer` | sequence state, records, a window of memory | update, report; encode, decode; append, consume | protocols | numbers right over wraps; what is encoded is decoded | `RtpSequence`, `AmfRecords`, `ByteBuffer` |

What is hard here: every component runs in its own thread and calls straight into its neighbours,
with its own mutexes held; `mState` and `mStop` are plain variables; queues are short and a full
one costs the consumer its link; components end in any order, by themselves, by `stop()`, or
because what they depend on has gone; requests and frames arrive in pieces of any size; codecs
keep frames back; and the image library has every loop once per format, by pointers.
`PROJECT.json` lists forty such hazards at their lines.

## Modules

The comment at the head of each module says what it abstracts.

**Links and flow**

* **FeedLinks**: one action per critical section of `registerProvider`, `registerConsumer`,
  `deregisterProvider`, `deregisterConsumer`, the two `cleanup`s and `distributeFrame`, executed by
  any number of threads on any objects. `pc` names the section a thread enters next, `todo` the
  rest of a loop over a map, `bad` the local `badConsumers`. A section that calls out with its
  mutex locked keeps it in `mConsumerMutex`/`mProviderMutex`. `Fatal` in `registerProvider` throws
  through everything and ends the process (`aborted`).
* **FeedFlow**: a tree of components with the program counters of their run loops: `source`
  (DummyInput), `batch` (QueuedVideoFilter and the loops like it), `encoder` (JpegEncoder), `paced`
  (RateLimiter), `delay` (DelayBufferFilter). A link is one flag, which FeedLinks justifies.
* **FrameRelay**: the promise of a component that passes frames on: in order, none twice, none
  missing, each in the end while it is open. FeedFlow's batch and delay loops implement it
  (`RelaysFrames`, `open` being "still in its run loop"; proved but for the fairness).
* **ProviderWatch**: one consumer against its providers. Every `ready()`, `wait()`, `ended()`,
  `error()` of the two walks is a step, and a provider's thread changes the state in between.
* **InputFallback** extends ProviderWatch by the queue, slots, statistics and the run loop.
  A slot of a provider that went away is met as a NULL entry: `crashed`.
* **FilterChain**: up to three filters in a row between a source and a sink, with what each
  declares and what the frames really hold. The exception nobody catches is `died`.
* **MatrixTiles**: an address of the output picture holds what was last scaled there.

**Recording**

* **EventRecorder**: `processFrame` of the recorders with a clock; `handled` and `ownAlarm` are
  histories. **MovieFiles**: MovieFileOutput and VideoRecorder behind a codec that keeps `latency`
  pictures back; a frame of the queue, and of the store that begins an event's file, is a step.
  **AlarmClips**: Mp4FileOutput, whose files begin at key frames.
  **InitialFrames**: H264Relay, H264Encoder, MpegEncoder and clients that register meanwhile.

**Serving**

* **EncoderPool**: one pool key; streams make HttpImageStream's sequence of calls.
* **Reception**: bytes arrive in pieces cut anywhere and are put together by each protocol's
  `recvRequest`. **ClientServing**: what the listener's thread makes of the requests, the streams'
  threads, and who deletes what when a connection goes. `lost` are the streams no session knows.
  Two history variables no step reads: `abandoned`, the RTSP streams that were alive when their
  connection went, and `cause`, what the process has ended of. SETUP has each of its ends: refused
  (the connection closes), a stream with or without ports, and six ways in which the process ends
  (an unknown session, one whose connection is deleted, an unparsable Transport, an
  exception of the stream's constructor, no free port, no encoder).
* **RtspPackets** (frames to RTP), **RtmpDelivery** (chunks to a client that reads them by the
  protocol), **RtpSequence** (`updateSeq`, receiver reports, over a network that loses, delays and
  repeats), **AmfRecords**, **ByteBuffer**.

**Sharing**: **MemoryRing** (two processes, single stores), **ThreadLife**, **TimerThread**,
**LinkedFrames**.

**Images and motion**: **ImageBuffer** (where pixels go), **ImageFormats** (which channel of which
image a byte is, for all pairs of eight formats), **PixelLevels** (arithmetic of brightness),
**PixelLayouts** (thirty layouts of captured and decoded pictures), **PictureDrawing**, **PictureFilters**, **BlobScan**
(`locateBlobs`), **PolyMask** (zones' masks), **MotionDetector** (zones of one pixel: the alarm
logic and the blending).

**Compositions.** FeedFlow composes what FeedLinks and ProviderWatch model in detail, and
InputFallback is ProviderWatch with a run loop around it. `MCSharing`, `MCWatching`, `MCRecording`,
`MCProcessing` and `MCServing` put machines that do not share state side by side in one run: the
variable `part`, chosen at the start, names the one that steps, and the others keep one initial
state. An instance of such a run is therefore the union, not the product, of its parts.

## Runs

| Run | Instance | Shows |
|---|---|---|
| `sharing` | links of 2 threads, 2 providers, 1 consumer, all calls; the same without registration and consumer cleanup; a ring of 3 slots with up to 4 frames or 2 starts, in 5 settings; 2 callers with 4 calls of a thread object; a timer of 5 rounds; 4 pointers and 2 threads that take turns | `LinksAgree`, `TeardownReturns`, `RingHolds`, `OneThread`, `WaitsEnd`, `CancelHolds`, `RingIsWhole` |
| `flow_fork` | source to an encoder with a sink and to a delay buffer, 2 frames, queues of 1 | `FramesPassOn` |
| `flow_relay` | source, limiter, filter, delay buffer in a row, 2 frames, fair | `RelaysFrames`, `EndCascades` |
| `flow_shutdown` | a source and one consumer, fair | violates `PipelineTerminates` |
| `watch_all` | 3 providers, all waited for; every pair of filters and three rows of three, 2 frames; a motion detector with 2 zones | `WatchInv`, `LoopEnds`, `FramesFit`, `ChainEnds`, `AlarmsHold`, `AlarmEnds` |
| `watch_wait` | one provider that becomes ready while it is looked at | violates `FalseMeansProblem` |
| `recording` | 2 recorders, 5 ticks; clips of 5 frames; movies of 6 frames behind a latency of 0 to 2; 2 clients of three kinds of encoder, 3 frames; 2 x 2 tiles, 2 sources of different sizes | `EventsAreWhole`, `ClosesAfterTail`, `GroupsAreKept`, `FilesHoldTheirFrames`, `StreamsStartWell`, `TilesShowTheirProviders` |
| `rec_shared` | 2 recorders, no minimum time | violates `ClosesInTime` |
| `processing` | every 4 x 3 picture under 2 masks, triangles and quadrilaterals that begin at the left edge, 3 operations on a 3 x 2 image, 3 images of 8 formats, 2 pixels of chosen levels, a 5 x 6 canvas, every 4 x 3 picture filtered, every layout in 5 sizes, 2 feeds | `BlobsAreComponents`, `MaskIsPolygon`, `PicturesInPlace`, `FormatsAgree`, `LevelsHold`, `PictureIsKept`, `FallbackHolds`, `FallsBack` |
| `serving` | 2 streams and 2 encoders; dialogues of 2 to 4 messages cut anywhere; 2 clients with 2 streams each; frames of 1 and 2 NAL units up to 9 bytes; 2 players; sequence numbers modulo 6; buffers of 5 bytes; AMF values nested twice | `PoolInv`, `UnusedEncoderEnds`, `ReceivedAsSent`, `ResourcesAreOfClients`, `ListenerServes`, `FrameIsInPackets`, `ClientUnderstands`, `SequenceHolds`, `BufferIsQueue`, `MessageDecoded` |
| `rtsp_reads` | the dialogues of `serving` | violates `RequestsAssembled` |
| `frames_freed` | 4 pointers, 2 threads | violates `FreedUnreferenced` |

What the passing runs show, in words:

* Links and flow: the two maps agree whenever nobody works on the pair; a consumer gets an unbroken
  run of its provider's frames until it is dropped, and nothing is sent twice or out of order;
  batch and delay loops pass everything on; an end travels down the pipeline. The run loop begins
  with no provider waiting, ends only for a reason, and ends when all providers are lost. Filters
  in any order read frames for what they are.
* Fallback: it does not flap, it leaves a silent feed, and meets a NULL entry only after a feed was
  deregistered.
* Recording: an event has its head and every frame after it, is notified in pairs, and does not
  close before its tail and minimum time are over; clips are whole groups of pictures; a movie
  misses at most what the codec holds; streams begin with their parameters; a tile shows its
  provider as long as none leaves with its frame in hand.
* Serving: an encoder in the pool runs and an unused one ends; requests come out as sent, but for
  the RTSP reads of `rtsp_reads` and what follows a read that is cut where the code does not expect
  it (`odd`); a stream that is alive has its connection unless no session knows it or an RTSP client
  left it, an RTSP stream is alone on its track in a session a TEARDOWN can reach, a port is of one
  live stream, a queue stays locked only by a stream that has ended, and the process ends for want
  of ports only when all are taken and of a deleted connection only when a session or a lost stream
  has outlived one; the listener comes back unless the source stays in PROV_WAIT or an RTMP write
  has timed out; packets and chunks give the frames again; sequence numbers are tracked over wraps
  and restarts.
* Sharing: a reader gets whole frames in order, and processes that fail have a known reason; starts that do not overlap make one thread;
  calls return; a cancelled timer expires at most once more; one thread at a time keeps the ring of
  frame pointers whole.
* Images: blobs are the connected components within the limits, a mask is its polygon, pixels,
  channels and levels keep their place and order, and a captured picture shows its samples. Alarms
  obey the zones and end when the scene is still.

What the violated ones show: two neighbours that clean up at the same time deadlock, each with its
own map locked (`flow_shutdown`); a provider that becomes ready between two reads of its state
makes `waitForProviders` fail (`watch_wait`); alarms of one camera keep another's event open
(`rec_shared`); a request that came in pieces takes bytes of the next one with it (`rtsp_reads`);
copies of a frame that two threads make and drop at once free it under a third (`frames_freed`).

A property that excepts what the code gets wrong names it: `odd`, `race`, `lost`, `abandoned`,
`confused`, `overflown`, `together`, `overlapped`, `Deserted`, `encoderStuck` are set by the step
that goes wrong, and the sections below say which it is.

## Bounds

The bounds are CONSTANTS, named in the modules. Why they are enough:

* Links: a step of the link protocol concerns one pair; two threads let two calls on a pair meet,
  and the proofs remove the bound. Queues of 1 or 2 fill; 2 frames are a full queue and the frame
  that drops its consumer. Trees of four components have a fork, or a chain in which an end
  travels three links. Three providers let a walk have visited, be looking at and not have
  reached one. Three filters in a row are one that asks, one that is asked and asks on, and one
  that declares.
* Memory: three slots and four frames wrap the ring, and with three slots, not with
  two, a frame may be stored while the reader copies one and has not been overtaken; two starts are a restart. A thread object is
  started again after a join within two calls for each of two callers. Four pointers are a ring
  in which two threads have neighbours in common.
* Recording: the recorders are interchangeable (`SYMMETRY`; no liveness is checked there). Five
  ticks hold an alarm, a second one, the tail and the frame that closes; a latency of 2 is longer
  than the shortest file. Two sizes of tiles' sources tell contexts apart.
* Serving: two encoders and two streams are a race for the key. Dialogues are cut at every byte. Two
  clients, one of whom may leave while the other is served. With packets of 4 bytes units of 1 to 9
  bytes go whole, in two and in three or more fragments; unit bytes are 0 to 2, all that a start
  code is told by. Sequence numbers are modulo 6 with a dropout of 3 and a misorder of 2, so that
  they wrap, come late and restart within 8 packets (a sender that begins at 2 and jumps by 3 leaves
  the dropout while the old numbers are still known, so `mBadSeq` is met); the counters' 32 bits are
  `Word`.
* Images: 4 x 3 pixels are the least in which blobs of any shape merge twice; three tags let one be
  used again. Three operations in a row include each after each. All pairs of formats are mixed.
  Levels are those at which a byte, its half and its high byte change. Two zones are the pairs of
  types; the image machines do not depend on each other's size.

CHECK_DEADLOCK is FALSE throughout: a pipeline that has ended, a clock at its bound, a process that
has aborted or crashed stop.

## Fairness

Threads are scheduled by the operating system: weak fairness on the steps of a thread.

* FeedLinks' threads are strong in `teardown`, because a thread in the middle of a call waits for
  a mutex that others take and release at the pace of frames; LeaveMap of ProviderWatch and
  the steps of ThreadLife are for the same reason (the mutex is handed on). A run loop that is
  told to stop ends (weak): it is what every loop does.
* A delayed frame gets old enough at some time, also if the thread is busy with others in between:
  `ReleaseOld` is strong.
* The motion detector is fed (`Frame`); the fallback's, the reader's and each filter's thread runs.
* In EncoderPool time passes and the source goes on capturing, an assumption about the source:
  `queueFrame` is the only place that looks for expiry.
* The listener's and the streams' threads run (`ListenerStep`, `ThreadStep`), which includes that
  a write returns, with an error or without.
* Nothing makes a source capture, fail or end, a client connect, send or leave, a provider become
  ready, or a packet arrive.

## Proofs

All theorems hold for arbitrary constants under the assumptions the modules name (`None` is not an
object, bounds are naturals, the set of providers is finite), and use no fairness.

A proof module belongs to the machines it EXTENDS. Under each, the theorems and the argument:

**`Sharing_proofs`**

* FeedLinks: `TypeCorrect`, `LinksInvariant`, `LinksAlwaysAgree`. Agreement alone is not
  inductive: in the middle of a call a link has one side. `OneSidedLinksMended` says that each
  such link, and each one a cleanup under way has passed and will not see again, has a thread
  that is going to mend it, and mending is one of the pcs in `MendsProviderOnly` or
  `MendsConsumerOnly`. That needs `LocksHeld` (a mutex belongs to the thread whose pc keeps it:
  nobody inserts into a map a cleanup is walking over) and `ArgsOK`. The two halves are mirror
  images, proved action by action in `ProviderOnlyStep` and `ConsumerOnlyStep`.
* MemoryRing: `RingInvariant`, `RingAlwaysSafe`, `FramesAlwaysInOrder`, `RingAlwaysHolds`, for a ring of any size.
  Nothing locks a slot, so that a frame is whole must follow from where two processes are. What the
  writer has done is in the header it writes (`HeaderOfWriter`, `SlotOfWriter`); a header that shows a
  frame shows a whole one (`HeadersShowFrames`), but only while no trigger cleared it, when there is
  one file with a header (`OneFile`); and while the reader copies, the writer is no further from its
  slot than the frames stored since (`ReaderCopiesOne`, a distance round the ring). Why a process may
  fail takes the history `causes` (`CausesKept`). Order rests on numbers that only grow
  (`NumbersGrow`): in memory that is not cleared under the reader the index moves to the slot stored
  last and the time follows (`ReaderMemoryMoves`). MemoryInput goes by the time, which may lag behind
  the slot and so give a frame twice (`TimeGoesForward`); V1 goes by the index (`IndexGoesForward`).
* ThreadLife: `LifeInvariant`, `OneThreadAlways`. While no two starts overlapped, one
  caller at most is between the checks and the end of `start` (`OneStarter`), all threads before
  the last are over (`EarlierOver`), and a living last one is known by `mRunning` or by the call
  that waits for it (`LastKnown`), so the next start does not pass its check.
* TimerThread: `TimerInvariant`, `CancelAlwaysHolds`. What the owner told in a round the
  flag still says until the thread has read it (`ToldIsKept`); a cancelled timer has neither
  repetition nor reset to begin another round for (`CancelledEnds`).
* LinkedFrames: `LinkedInvariant`, `RingAlwaysWhole`, as long as threads take turns. A walk round
  the ring reaches all pointers because the links are each other's inverse and no part of the ring
  is closed under them (`IsRing`, which says so of sets of pointers and needs no induction over the
  walk). While one thread is at work (`OneAtWork`), the ring is whole but for the link it has
  yet to write (`JoiningRing`, `LeavingRing`); `RingJoins` and `RingLeaves` say that one more and
  one fewer pointer is again a ring, `RingBackwards` that a ring is one in the other direction.

**`FeedFlow_proofs`**: `FlowInvariant`, `FramesAlwaysPassOn`, `FlowRelaysFrames`. What was accepted
is a run of what was offered (`GapFree`); the step that adds a frame to both needs that a
consumer still to be visited is linked and not refused (`Visits`), which a consumer's own
deregistration respects only because it waits for the provider's mutex (`UnlinkProviderStep`).
Order needs the whole path (`Ordered`): what was sent, the delay buffer's queue and the queue
from the batch's place on are increasing, each before the next, and all among the accepted.
`Placed` says what belongs to each place of a run loop. Each kind of step has a lemma
(`MoveStep`, `TakeStep`, `SendStep`, `QueueStep`, `UnlinkStep`), and the lemmas on `Sorted` say
what a step does to the order. `FlowRelaysFrames` is the refinement of FrameRelay without its
fairness. What a batch or delay loop accepted but has not sent is, frame by frame, in the delay
buffer's queue and then in the queue (`Carries`), until the last step of the cleanup.
`FrameRelay` sees each step of the flow as one of its own or none (`Relayed`).

**`FilterChain_proofs`**: `ChainInvariant`, `FramesAlwaysFit`, for any set of chains of one to four
filters. The invariant speaks of a function `out`, what each node's frames really hold: `IsOut`
defines it along the chain, and `ChainInvOf(out)` says that the width a filter scales to, what it
has read and what its frames declare agree with it. A filter may rely on the scale of those before
it only when they are ready (`ReadyScales`, `ReadersScale`), because `videoProvider()` asks up the
chain; so the induction goes from the source down, one step for each filter.

**`Watching_proofs`**

* ProviderWatch: `WatchInvariant`, `NoLoopBeforeReady`, `StopsAreJustified`,
  `FatalUnreachable`. `VisitedDoNotWait` carries the walk: as long as none was counted as
  waiting, the visited ones do not wait, and a provider never goes back to waiting.
  `NoneMayWait` needs that the map shrinks only, which is where finiteness comes in
  (`SizeShrinks`). `CheckIsRight` keeps why a check is about to fail; `MapFollowsLife` that an
  error after the end comes only when the provider is out of the map, so `Fatal` is unreachable.
* InputFallback: `FallbackInvariant`, `FallbackAlwaysHolds`. That a NULL entry is met only after a
  departure takes `SlotsFollowMap` (a provider has one slot, every registered one has it) and a
  count: as many providers as slots, so all slots are taken while all are there. That nothing
  flaps takes `PassedIsCurrent`: the current provider is never behind the one whose frame was
  passed on last, until that one has been silent.
* MotionDetector: `AlarmsAlwaysHold`. Between frames the alarms agree (`AlarmsAgree`); `Frame`
  sets all of them from one set of zones, from which a preclusive zone has taken the others
  (`PreclusionHolds`), so it needs the step and not just the state.
* ImageFormats: `FormatInvariant`, `FormatsAlwaysAgree`, for any number of operations. The property
  and the format are inductive; the work is in the operations, each a switch in a switch. One
  lemma for each way to read a pixel (`LuminanceOf`, `RgbOf`, `YuvOf`, `YuvjOf`) says of which
  kind its bytes are, one for each operation (`ConvertOf`, `OverlaidOf`, `BlendedOf`, `YDeltaOf`,
  `DeltaOf`) that what it makes is a pixel of its format. `Depths` is why the other image leaves
  a share: each pair of formats shifts by as many bits as it has read.
* BlobScan: `BlobInvariant`, `BlobsAlwaysComponents`, for any picture, mask, number of tags and
  limits. A set of pixels is `Joined` if no part of it but itself takes in all the neighbours it has
  in the set; that is kept when a pixel or another blob that touches it is added (`JoinedUnion`), and
  a joined set without further white neighbours is what `Component` reaches from any of its pixels
  (`ComponentIs`: while a step reaches something new there are more pixels, and there are only so
  many). The scan leaves no white pixel behind and has touched none ahead (`ColoursHold`, from the
  order of the pixels, `ScanMoves`), so what touches a pixel is to its left or above. What makes a
  tag safe to use again is that a blob whose last row is above the row above has all its white
  neighbours behind the scan (`RecyclableIsWhole`): what has been painted black is a whole component
  out of size (`GoneIsBad`), and the sizes still hold when the box is repainted because the box holds
  all of the blob (`PaintedIs`). For a blob that ends in the row above (the mutant) it would not be so.

**`Serving_proofs`**

* EncoderPool: `PoolInvariant`, `PoolAlwaysHoldsRunning`. Unpooling erases whatever the
  key has, so the pool is empty when an encoder passes it; that it does not come back takes
  `CreatorsApart`: an encoder is pooled by its creator alone, before it is started.
* ClientServing: `ServingInvariant`, `ResourcesAlwaysOfClients`. A stream has its connection and a
  port its stream because of what the listener has set out to delete: all of it is alive and listed
  once, and nothing of the connection that goes is missing from the list (`ToJoinIsAlive`), one
  connection goes at a time (`OneCloses`), no two streams have a port (`OnePortEach`). These make
  `OwnersInv`, proved first (`OwnersStep`). Over it come the sessions (`SessionsStep`: only an HTTP
  or RTMP session is removed, and RTSP loses no stream, so that SETUP's look for the track
  suffices), the locked queues (`LocksStep`: an RTMP stream is not deleted once the encoder hangs)
  and the end of the process (`CrashesStep`: nothing steps after it; a stream without its connection
  is lost or abandoned; a stream that TEARDOWN cannot delete has a session that is known, by
  `SessionsAreOfClients`).
* ByteBuffer: `BufferInvariant`, `BufferAlwaysQueue`, for any strings and any memory. The window
  lies in the memory and agrees with what is expected byte by byte (`Holds`); the lemmas say what
  `memcpy` leaves (`WrittenIs`), what moving the window to new memory keeps (`MovedHolds`), and
  what comes in front of or behind a window (`InsertedBytes`, `AppendedBytes`).
* RtmpDelivery: `DeliveryInvariant`, `ClientAlwaysUnderstands`, for any sizes of chunks (also a
  size that gets smaller), lengths of messages and numbers of streams. That the client has
  understood is not inductive: what it will make of the response that is built and not sent has to
  be said first. `ResponseIsGood` says it of every client between two messages that takes chunks to
  be of the present size: it understands the chunks (`Leads`), then uses the size the server uses,
  and its message stream is the playing one's or what it was. Each message that is built adds to
  that (`LeadsFurther`, by `TakesMessage`: a message cut for a size is put together by a client that
  takes chunks to be of it), and a stream's own messages leave it alone (`ResponseStays`). While a
  video message is on its way the client is in just that message (`InVideo`). `send` is a recursive
  function of the chunks. What it computes is a run of `Take`, chunk by chunk, and two runs that
  begin alike have no first chunk at which they differ (`SentIs`, by `Least`: a set of naturals has
  a least element, from the library's theorem on minimal elements, which has no operator for a
  parameter).

**`RtpSequence_proofs`**

* RtpSequence: `SequenceInvariant`, `SequenceAlwaysHolds`, for any modulus, dropout, misorder and
  counter width that the code's own satisfy (dropout < modulus - misorder; the modulus divides
  `Word`). The property says what a step reports, so the invariant says what the session knows:
  cycles and highest number are the newest packet's place counted from the first one's
  (`Tracked`), and the packets of an undisturbed interval are those it has counted, but for one
  wrap of the difference (`IntervalCounted`). The heart is `AheadOrNot`: for packets within reach
  of the newest, the difference modulo 2^16 is below the dropout exactly if the packet is ahead by
  less than that or has the same number, and a carry is a cycle. It rests on lemmas about
  quotients and remainders (`NumbersApart`, `RemainderNear`, `QuotientBelow`), which the provers
  do not know.
* RtspPackets: `PacketInvariant`, `FrameAlwaysInPackets`, for any frame of bytes, any alignment of
  it, any size of packets above 2 and any modulus of their numbers. The search for a start code
  goes in words from an aligned address, so first `FindCodeIs`: it finds what a search byte by
  byte would (every code from there on is in a word that is looked at or in the rest, `WordOf`,
  `CodeInWord`, and words do not overlap). So a NAL unit ends where the next one's start code is
  (`EndIs`), and behind that the next one begins (`UnitFollows`; codes do not overlap either,
  `BeginsApart`). What a receiver has after one packet more is one step of `Receive`
  (`ReceivedOneMore`, where the recursive function is compared with any run of `Receive`, by
  `Least`). The invariant then says that it has the NAL units that begin before the place the code
  is at, and the bytes of the one it is in from its header on (`InFragments`), which needs that
  the first fragment is never the last one.

**`Recording_proofs`**

* EventRecorder: `RecorderInvariant`, `EventsAlwaysWhole`, `NeverClosedEarly`. An event
  begins with the store, so the store is strengthened to `StoreIsEnd`: it is the end of what was
  handled, from some place on, and the frame before that place is too old for an event that
  begins now, which time and further pops keep true. The rest are lemmas about the end of a
  sequence (`FromAppend`, `FromFrom`). That no event closes early takes `AlarmsArePast`: the
  shared time of the last alarm is never before a recorder's own and never in the future.
* InitialFrames: `InitialInvariant`, `StreamsAlwaysStartWell`. Whoever does not have the initial
  frame is about to get it (`RelayGives`, `EncoderGives`); order needs that what is in hand is
  younger than what was sent and older than what is queued (`HandIsNext`, `QueueIsNext`,
  `SentBefore`), the copies of the initial frame set aside.
* MatrixTiles: `TilesInvariant`, `TilesAlwaysShow`, for tiles of any size and any reduction of the
  colour planes. What is in hand is of the provider of the tile, and the tile's context of its size
  (`HandIsOfTile`, `ContextFits`), as long as nobody left whose frame was in hand. Every address of
  a plane holds what was last scaled into the tile it is in, which `Shown` computes from the address;
  that the loop writes just those addresses is division with remainder (`SeenWhereDrawn`,
  `DrawnWhereSeen`).
* AlarmClips: `ClipsInvariant`, `GroupsAlwaysKept`. The property looks back over everything seen,
  so the invariant relates the state to it: `StateFollows` (the alarm state is told by the last
  alarm, the first quiet frame after it and the tail), `KeysHaveLast` (each place has a last key
  frame before it), `FileFits` (a file begins with a key frame, its packets count from 0, and
  nothing coded is left out between two of them), `OpenIsCurrent`.
* MovieFiles: `MovieInvariant`, `FilesAlwaysHold`, for any latency of the codec, length of a file
  and size of the store. A frame is written in a step of its own, with the queue's mutex held
  (`Locked`), so that what is in the file and in the codec can be told after each (`FileHolds`): the
  two together are what was for the file; nothing is in the file before the codec is full; from the
  picture on that completes the file a full codec is emptied. A movie's frames are numbered through
  file and queue (`QueueIsNumbered`, `OutIsEarlier`), which says that none comes twice, so that the
  pictures up to the completing one can be counted (`CountUpToFull`).

Properties that are not proved, only model-checked:

* Liveness: `EndCascades`, the fairness of `RelaysFrames`, `TeardownReturns`, `WaitsEnd`, `LoopEnds`,
  `ChainEnds`, `AlarmEnds`, `FallsBack`, `UnusedEncoderEnds` and `ListenerServes`.
  The provers do not know fairness.
* What a recursion or a fold over data computes, for every input: `MessageDecoded`,
  `ReceivedAsSent`, and those of the image modules (`MaskIsPolygon`, `PicturesInPlace`,
  `LevelsHold`, `PictureIsKept`). The library's induction theorems, and those on folds, take an
  operator as a parameter, which the provers cannot instantiate; the argument by a least
  counterexample that serves `send`, `ReceivedFrom` and `Component` needs the recursion to be a
  function of a number, which the folds and the recursive operators over nested values are not.
  Where it is one (the walk over the bytes in `PixelLayouts`) the geometry
  behind it is left to the runs. These are checked on all inputs within the bounds.

## Seen in the code, without a run of their own

What follows is in the models (and excepted by name in the properties) unless marked with (-).

*Links and flow.* Above `mProviderLimit`, `registerProvider` calls `Fatal`, which throws with
`mProviderMutex` locked where `base/ozFeedConsumer.h:57-59` promises false
(`base/ozFeedConsumer.cpp:42-43`). A registration and a deregistration of a pair can chase each
other for ever (line 68). `waitForProviders( 1 )` never returns if all providers went away
before the size is read (lines 110, 161); it does not look at `mStop`. `checkProviders` tests
`!ended()` for `ended()`, so a provider in error passes (line 180). `InputFallback` is stopped by
it as soon as one feed has ended (`processors/ozInputFallback.cpp:124`). `videoProvider()` throws
an Exception that no thread catches when a provider in the chain has left, with the queue locked
(`base/ozFeedConsumer.cpp:321`). A converter whose `waitForProviders` fails returns without
cleanup (`processors/ozImageScale.cpp:65`). MatrixVideo frees the context of a provider that
leaves while its frame is in hand, `registerProvider` tries again for every empty slot, an odd
height of tiles puts colour rows past the plane, and a tile keeps its last picture.

*Recording.* `minTime` is compared with the time between the first and the last alarm, so a short
alarm records until the next (`consumers/ozEventRecorder.cpp:100`). A movie's codec is drained only
from the completing picture on, and only if it was full: a short file has no pictures
(`consumers/ozMovieFileOutput.cpp:329`); `stop` loses what the codec holds; VideoRecorder loses the
last `latency` pictures of each event and, stopped in an event, leaves the file without trailer
and END (`consumers/ozVideoRecorder.cpp:41`). Mp4FileOutput makes no file of an event without a
key frame in alarm and tail; `mMaxLength` is unused. A client of H264Encoder that registers before
the first output never gets the initial frame; a relay's client may get it twice. Relay and
encoders take only the first queued frame of a batch.

*Serving.* An encoder expires under its clients when the source pauses (`base/ozEncoder.cpp:55`),
and is not deleted when it has expired, as `base/ozEncoder.h:16-17` says it is: `UnusedEncoderEnds`
is about its end. HttpStream does not watch its encoder (`protocols/ozHttpStream.cpp:46`) (-). Two
HTTP requests that arrive together are taken for one, whose headers do not parse, and the connection
is closed (`protocols/ozHttpConnection.cpp:122-128`). An interleaved packet of which up to two bytes
are missing is taken for complete (`protocols/ozRtspConnection.cpp:322`). SETUP with an unknown
session number uses a NULL session (line 268). A Transport that cannot be parsed makes `newStream`
return NULL, which is used (`protocols/ozRtspSession.cpp:90`); an unknown transport, profile, lower
transport, port list or mode throws an RtspException through the listener's thread, which catches
only ThreadExceptions (`protocols/ozRtspStream.cpp:41-135`, `libgen/libgenThread.cpp:324`); the last
port taken, `requestPorts` panics. RTSP sessions are never deleted: `ozRtspSession.h:16` allows a
session other connections than its own, but it uses the one that made it, deleted or not. A client
that leaves without TEARDOWN leaves its streams running on the deleted connection, which an
interleaved one writes to (line 397 of `ozRtspStream.cpp`), or with their ports (`abandoned`). A UDP
port that cannot be bound ends the process (`protocols/ozRtspStream.cpp:291-295`) (-). A repeated
GET, or a repeated `play` of one message stream, makes a stream that no session knows and that
writes to the connection when it is deleted; a repeated SETUP is refused. DESCRIBE makes an MPEG4
encoder whatever the source is (`protocols/ozRtspConnection.cpp:185`), so today's server does not
send the H.264 packets that RtspPackets cuts (-). An RTMP write that times out leaves the loop with
the queue locked (`protocols/ozRtmpStream.cpp:314`). Receiver reports: duplicates count as received,
so the interval's loss wraps; late packets count as lost; the SDES loop uses the bytes left of the
whole compound and spins for ever when lengths do not divide; a source in probation cannot pass the
wrap; the NTP fraction is always 0 (-). AMF: the four bytes of an array's count are encoded but not
decoded; a name that begins with byte 9 closes its object. Buffer: `size(n)` does nothing at `n ==
mAllocation` and ignores the room at the head (and its growth within the allocation is left out);
`clear` of an adopted buffer makes the memory look owned (-).

*Threads and memory.* Two overlapping starts make two threads, a join during a start makes start
wait for ever, `running()` is true until joined. `getTimeout( double )` adds nanoseconds to
microseconds (-). A MemoryInput that is stopped early still attaches; an index one past the end
passes; a V1 reader that attaches before the first frame reads past the array and polls on when
memory is invalid; a trigger clears the header; an attach during initialisation delivers a blank
frame. A V1 reader of such memory, or of a header a trigger cleared, may get a frame twice: the
index points at a slot before there is a frame in it, and to the same slot when there is one.

*Images.* The six pairs of formats in `Oddity` are mixed wrongly. The limit of `boost` is one too
high, so bright pixels become black, and boost of YUV has the limits of luminance and colour
exchanged; the correction for brightness has no sign. Rows and planes that `flip`, `swell` and
`shrink` leave out are `gaps`/`Unknown`. GREY box fill of density 1 fills the whole image; text in RGB48
lands at half its offset; `annotate` stops at an empty first line; `red(x,y)` and the like multiply
by `mPixelStep` twice, so that SignalChecker looks at other pixels. UYVY422 given as a pixel format
is unpacked to RGB but called planar (`libimg/libimgImage.cpp:2456-2463`); `getFfPixFormat` of RGB48
is not known when the image is loaded again; samples of 16 bits have the low byte first. Odd sizes
shift colour. An exclusive zone in motion crashes the detector (no image to lay over).

## Not modelled

* The contents of frames beyond what a property needs: codecs, JPEG (`libimg/libimgJpeg.c`,
  `Image`'s files), the vision libraries behind FaceDetector, ShapeDetector and Recognizer, AVFilter's graph,
  the font table, colours chosen by names.
* Devices and sockets (`providers/*` but their states, `libgen/libgenComms`): system calls that
  are modelled by what they return where a caller reacts to it.
* Text: option parsing, SDP, HTTP and RTSP headers, HTTP authentication, logging, debug streams,
  zone strings, the RTMP handshake's digests, JSON and configuration.
* `Application::run`, signal handlers, `ThreadData` beyond the timer, `countedPtr`, destructors that run while
  other threads still use the object, comparators' composition, the two functions of `Image` that nothing
  calls (`copyYUYV2RGB`, `copyYUVP2YUVP` without expansion).
* Composition of the machines of one `part` run with each other (a detector feeding a recorder,
  a filter chain with full queues): each takes the other's promise as its environment.

## Plan

1. `MotionDetector` feeding `EventRecorder` and `AlarmClips`.
2. SDP and RTSP ports against UDP sockets; `Application`'s stop order over a pipeline.
3. `AVFilter` and `AVInput` against the library's send and receive calls.
