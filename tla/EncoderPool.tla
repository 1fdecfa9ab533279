----------------------------- MODULE EncoderPool -----------------------------
(***************************************************************************)
(* The pool of encoders for one pool key.  A network stream that starts    *)
(* asks the pool for an encoder, makes one when there is none, and         *)
(* registers as a consumer of it.  The encoder's own thread encodes for    *)
(* its clients; the source that feeds it finds, when it queues a frame,    *)
(* that the encoder has not been used for POOL_TIMEOUT and stops it; the   *)
(* encoder leaves the pool in its cleanup.  smPoolMutex protects each      *)
(* access to the pool, and nothing joins two of them.                      *)
(*                                                                         *)
(* Abstracted: time is one bit per encoder, "unused for POOL_TIMEOUT"; the *)
(* queue of an encoder is one bit; the source is up and stays up; a        *)
(* registration or cleanup of a link is one step (see FeedLinks).          *)
(***************************************************************************)
EXTENDS Integers, FiniteSets

CONSTANTS
    Stream,     \* the streams of the connected clients
    Encoder,    \* bound: the encoders the streams may create
    None

ASSUME PoolAssumption == None \notin Encoder

VARIABLES
    smEncoderPool,  \* the encoder in the pool under the key, or None
    mPooled,        \* [Encoder -> BOOLEAN]
    mStop,          \* [Encoder -> BOOLEAN]
    run,            \* [Encoder -> how far it has come]
    unused,         \* [Encoder -> mLastUse is more than POOL_TIMEOUT ago]
    fed,            \* [Encoder -> it is registered with the source]
    queued,         \* [Encoder -> there are frames in its queue]
    clients,        \* [Encoder -> SUBSET Stream], its mConsumers
    pc,             \* [Stream -> where its thread is]
    mEncoder        \* [Stream -> the encoder it uses, or None]

encoder == << mPooled, mStop, run, unused, fed, queued >>
vars    == << smEncoderPool, encoder, clients, pc, mEncoder >>

Run   == { "unborn", "made", "loop", "unpool", "endProvider", "endConsumer", "ended" }
Label == { "idle", "create", "pool", "start", "register", "streaming" }

Init ==
    /\ smEncoderPool = None
    /\ mPooled  = [e \in Encoder |-> FALSE]
    /\ mStop    = [e \in Encoder |-> FALSE]
    /\ run      = [e \in Encoder |-> "unborn"]
    /\ unused   = [e \in Encoder |-> FALSE]
    /\ fed      = [e \in Encoder |-> FALSE]
    /\ queued   = [e \in Encoder |-> FALSE]
    /\ clients  = [e \in Encoder |-> {}]
    /\ pc       = [s \in Stream |-> "idle"]
    /\ mEncoder = [s \in Stream |-> None]

-----------------------------------------------------------------------------
(* A stream: constructor, run, destructor *)

Goto(s, l) == pc' = [pc EXCEPT ![s] = l]

\* getPooledEncoder
Lookup(s) ==
    /\ pc[s] = "idle"
    /\ mEncoder' = [mEncoder EXCEPT ![s] = smEncoderPool]
    /\ Goto(s, IF smEncoderPool = None THEN "create" ELSE "register")
    /\ UNCHANGED << smEncoderPool, encoder, clients >>

\* A new encoder, registered with the source.
Create(s, e) ==
    /\ pc[s] = "create" /\ run[e] = "unborn"
    /\ mEncoder' = [mEncoder EXCEPT ![s] = e]
    /\ run' = [run EXCEPT ![e] = "made"]
    /\ fed' = [fed EXCEPT ![e] = TRUE]
    /\ Goto(s, "pool")
    /\ UNCHANGED << smEncoderPool, mPooled, mStop, unused, queued, clients >>

\* Mutant: an encoder that could not be inserted does not count as pooled.
PoolEncoderIfFree(s) == LET e == mEncoder[s] IN
    /\ pc[s] = "pool"
    /\ smEncoderPool' = IF smEncoderPool = None THEN e ELSE smEncoderPool
    /\ mPooled' = [mPooled EXCEPT ![e] = smEncoderPool = None]
    /\ Goto(s, "start")
    /\ UNCHANGED << mStop, run, unused, fed, queued, clients, mEncoder >>

\* poolEncoder: insert leaves an encoder that is there already, nobody looks at
\* the result, and mPooled is set in any case.
PoolEncoder(s) == LET e == mEncoder[s] IN
    /\ pc[s] = "pool"
    /\ smEncoderPool' = IF smEncoderPool = None THEN e ELSE smEncoderPool
    /\ mPooled' = [mPooled EXCEPT ![e] = TRUE]
    /\ Goto(s, "start")
    /\ UNCHANGED << mStop, run, unused, fed, queued, clients, mEncoder >>

Start(s) ==
    /\ pc[s] = "start"
    /\ run' = [run EXCEPT ![mEncoder[s]] = "loop"]
    /\ Goto(s, "register")
    /\ UNCHANGED << smEncoderPool, mPooled, mStop, unused, fed, queued, clients, mEncoder >>

Register(s) ==
    /\ pc[s] = "register"
    /\ clients' = [clients EXCEPT ![mEncoder[s]] = @ \cup {s}]
    /\ Goto(s, "streaming")
    /\ UNCHANGED << smEncoderPool, encoder, mEncoder >>

\* The client goes away; the stream is destroyed and its place is free for another.
Disconnect(s) ==
    /\ pc[s] = "streaming"
    /\ clients' = [clients EXCEPT ![mEncoder[s]] = @ \ {s}]
    /\ mEncoder' = [mEncoder EXCEPT ![s] = None]
    /\ Goto(s, "idle")
    /\ UNCHANGED << smEncoderPool, encoder >>

-----------------------------------------------------------------------------
(* The source's thread: Encoder::queueFrame *)

\* An expired encoder is stopped, and distributeFrame deregisters it because it
\* refused the frame; any other gets the frame.
QueueFrame(e) ==
    /\ fed[e]
    /\ IF mPooled[e] /\ unused[e]
       THEN /\ mStop' = [mStop EXCEPT ![e] = TRUE]
            /\ fed' = [fed EXCEPT ![e] = FALSE]
            /\ UNCHANGED queued
       ELSE /\ queued' = [queued EXCEPT ![e] = TRUE]
            /\ UNCHANGED << mStop, fed >>
    /\ UNCHANGED << smEncoderPool, mPooled, run, unused, clients, pc, mEncoder >>

\* The queue of the encoder is full.
RefuseFrame(e) ==
    /\ fed[e] /\ queued[e]
    /\ fed' = [fed EXCEPT ![e] = FALSE]
    /\ UNCHANGED << smEncoderPool, mPooled, mStop, run, unused, queued, clients, pc, mEncoder >>

\* POOL_TIMEOUT passes since the encoder last distributed a frame; an encoder
\* that has clients and a frame for them distributes it sooner.
TimePasses(e) ==
    /\ run[e] \notin {"unborn", "ended"} /\ ~unused[e]
    /\ ~(queued[e] /\ clients[e] # {})
    /\ unused' = [unused EXCEPT ![e] = TRUE]
    /\ UNCHANGED << smEncoderPool, mPooled, mStop, run, fed, queued, clients, pc, mEncoder >>

-----------------------------------------------------------------------------
(* The encoder's thread *)

\* One round of the loop: encode for the clients, if there are any, empty the
\* queue, and stop when the source is gone (checkProviders).
Encode(e) ==
    /\ run[e] = "loop" /\ ~mStop[e]
    /\ queued[e] \/ ~fed[e]
    /\ queued' = [queued EXCEPT ![e] = FALSE]
    /\ unused' = [unused EXCEPT ![e] = @ /\ ~(queued[e] /\ clients[e] # {})]
    /\ mStop' = [mStop EXCEPT ![e] = ~fed[e]]
    /\ UNCHANGED << smEncoderPool, mPooled, run, fed, clients, pc, mEncoder >>

Step(e, here, next) ==
    /\ run[e] = here
    /\ run' = [run EXCEPT ![e] = next]

LeaveLoop(e) ==
    /\ mStop[e]
    /\ Step(e, "loop", "unpool")
    /\ UNCHANGED << smEncoderPool, mPooled, mStop, unused, fed, queued, clients, pc, mEncoder >>

\* Mutant: the cleanup only notes that the encoder is no longer pooled.
UnpoolNothing(e) ==
    /\ Step(e, "unpool", "endProvider")
    /\ mPooled' = [mPooled EXCEPT ![e] = FALSE]
    /\ UNCHANGED << smEncoderPool, mStop, unused, fed, queued, clients, pc, mEncoder >>

\* unpoolEncoder erases the key, whichever encoder is there.
Unpool(e) ==
    /\ Step(e, "unpool", "endProvider")
    /\ smEncoderPool' = None
    /\ mPooled' = [mPooled EXCEPT ![e] = FALSE]
    /\ UNCHANGED << mStop, unused, fed, queued, clients, pc, mEncoder >>

EndProvider(e) ==
    /\ Step(e, "endProvider", "endConsumer")
    /\ clients' = [clients EXCEPT ![e] = {}]
    /\ UNCHANGED << smEncoderPool, mPooled, mStop, unused, fed, queued, pc, mEncoder >>

EndConsumer(e) ==
    /\ Step(e, "endConsumer", "ended")
    /\ fed' = [fed EXCEPT ![e] = FALSE]
    /\ queued' = [queued EXCEPT ![e] = FALSE]
    /\ UNCHANGED << smEncoderPool, mPooled, mStop, unused, clients, pc, mEncoder >>

-----------------------------------------------------------------------------

Connect(s) ==
    \/ PoolEncoder(s) \/ Start(s) \/ Register(s)
    \/ \E e \in Encoder : Create(s, e)

EncoderStep(e) == Encode(e) \/ LeaveLoop(e) \/ Unpool(e) \/ EndProvider(e) \/ EndConsumer(e)

Next ==
    \/ \E s \in Stream : Lookup(s) \/ Connect(s) \/ Disconnect(s)
    \/ \E e \in Encoder : QueueFrame(e) \/ RefuseFrame(e) \/ TimePasses(e) \/ EncoderStep(e)

Spec == Init /\ [][Next]_vars

\* Threads run, time passes and the source goes on capturing; clients connect and
\* disconnect as they like, and a queue need never be full.
FairSpec ==
    /\ Spec
    /\ \A s \in Stream : WF_vars(Connect(s))
    /\ \A e \in Encoder : /\ WF_vars(EncoderStep(e))
                          /\ WF_vars(QueueFrame(e))
                          /\ WF_vars(TimePasses(e))

-----------------------------------------------------------------------------
(* Properties *)

\* Every variable stays in its type.
TypeOK ==
    /\ smEncoderPool \in Encoder \cup {None}
    /\ mPooled \in [Encoder -> BOOLEAN]
    /\ mStop \in [Encoder -> BOOLEAN]
    /\ run \in [Encoder -> Run]
    /\ unused \in [Encoder -> BOOLEAN]
    /\ fed \in [Encoder -> BOOLEAN]
    /\ queued \in [Encoder -> BOOLEAN]
    /\ clients \in [Encoder -> SUBSET Stream]
    /\ pc \in [Stream -> Label]
    /\ mEncoder \in [Stream -> Encoder \cup {None}]

\* A stream never gets an encoder from the pool that is past unpooling itself
\* and will serve nobody, though several encoders of the key may come and go and
\* one may erase the entry of another (ozEncoder.cpp:33-43, 71-112).
PoolHoldsRunning ==
    smEncoderPool # None => run[smEncoderPool] \in {"made", "loop", "unpool"}

Uses(s, e) == mEncoder[s] = e /\ pc[s] # "idle"

\* "Once no client is using those streams, the encoder will expire itself"
\* (ozEncoder.h:16-17), also one that never got into the pool.
UnusedEncoderEnds ==
    \A e \in Encoder :
        []<>(run[e] \in {"unborn", "ended"} \/ \E s \in Stream : Uses(s, e))

-----------------------------------------------------------------------------
(* The inductive invariant behind PoolHoldsRunning *)

\* A stream past its lookup has an encoder, and one it made itself is in nobody
\* else's hands for pooling and starting.
CreatorsApart ==
    \A s \in Stream :
        /\ pc[s] \in {"pool", "start", "register", "streaming"} => mEncoder[s] \in Encoder
        /\ pc[s] \in {"pool", "start"} =>
             /\ run[mEncoder[s]] = "made"
             /\ \A t \in Stream \ {s} : pc[t] \in {"pool", "start"} => mEncoder[t] # mEncoder[s]

\* The inductive invariant: an encoder in the pool runs, and one that is being made is in one
\* stream's hands (Encoder::poolEncoder, unpoolEncoder).
PoolInv == TypeOK /\ CreatorsApart /\ PoolHoldsRunning
=============================================================================
