------------------------------ MODULE ThreadLife ------------------------------
(***************************************************************************)
(* libgen's Thread: other threads start, stop and join it, each call under *)
(* the object's mutex.  start waits in a condition, which gives the mutex  *)
(* up; join keeps it while it waits for the end of the thread.  A thread   *)
(* may be started again when it has been joined, but mStop stays set.      *)
(*                                                                         *)
(* Abstracted: what run does is to end by itself or when it sees mStop;    *)
(* the errors of the pthread calls, which their results could not show.    *)
(***************************************************************************)
EXTENDS Naturals, FiniteSets

CONSTANTS
    Caller,         \* the threads that use the object
    MaxThreads,     \* bound: kernel threads made for it
    MaxCalls        \* bound: calls made by each

ASSUME LifeAssumption == MaxThreads \in Nat /\ MaxCalls \in Nat

VARIABLES
    mThreadMutex,   \* who holds it: a caller, a kernel thread, 0 when free
    mRunning, mStop,
    mTid,           \* a thread has set it
    mThread,        \* the kernel thread made last
    kernel,         \* the state of each kernel thread
    call,           \* what each caller is doing
    calls,          \* calls it has made
    overlapped      \* history: which calls were under way at once with a call of start

lifeVars == << mThreadMutex, mRunning, mStop, mTid, mThread, kernel, call, calls, overlapped >>

Kernel == 1 .. MaxThreads
Live == { k \in Kernel : kernel[k] \in {"made", "entered", "run"} }
Starting == {"start", "make", "wait", "woken", "started"}

LifeInit ==
    /\ mThreadMutex = 0 /\ mRunning = FALSE /\ mStop = FALSE /\ mTid = FALSE /\ mThread = 0
    /\ kernel = [k \in Kernel |-> "none"]
    /\ call = [c \in Caller |-> "idle"]
    /\ calls = [c \in Caller |-> 0]
    /\ overlapped = {}

\* A call begins with isThread, which is false for another thread.
Calls(c, what) ==
    /\ call[c] = "idle" /\ calls[c] < MaxCalls
    /\ call' = [call EXCEPT ![c] = what]
    /\ calls' = [calls EXCEPT ![c] = @ + 1]
    /\ overlapped' = overlapped \cup
           (IF \E d \in Caller : call[d] \in Starting THEN {what} ELSE {}) \cup
           (IF what = "start" /\ \E d \in Caller : call[d] \in {"join", "joining"} THEN {"join"} ELSE {})
    /\ UNCHANGED << mThreadMutex, mRunning, mStop, mTid, mThread, kernel >>

\* Mutex::lock, on the way to another step.
Lock(c, from, to) ==
    /\ call[c] = from /\ mThreadMutex = 0
    /\ mThreadMutex' = c
    /\ call' = [call EXCEPT ![c] = to]
    /\ UNCHANGED << mRunning, mStop, mTid, mThread, kernel, calls, overlapped >>

Unlocks(c) == mThreadMutex' = 0 /\ call' = [call EXCEPT ![c] = "idle"]

\* start: a thread is made, and waited for ...
Start(c) == Calls(c, "start") \/ Lock(c, "start", "make") \/ Lock(c, "woken", "started")

\* ... without giving up the mutex, which the new thread needs.
MakeAndKeep(c) ==
    /\ call[c] = "make" /\ ~mRunning
    /\ mThread < MaxThreads
    /\ mThread' = mThread + 1
    /\ kernel' = [kernel EXCEPT ![mThread + 1] = "made"]
    /\ call' = [call EXCEPT ![c] = "wait"]
    /\ UNCHANGED << mThreadMutex, mRunning, mStop, mTid, calls, overlapped >>

Make(c) ==
    /\ call[c] = "make" /\ ~mRunning
    /\ mThread < MaxThreads
    /\ mThread' = mThread + 1
    /\ kernel' = [kernel EXCEPT ![mThread + 1] = "made"]
    /\ mThreadMutex' = 0
    /\ call' = [call EXCEPT ![c] = "wait"]
    /\ UNCHANGED << mRunning, mStop, mTid, calls, overlapped >>

\* "Attempt to start already running thread".
AlreadyRunning(c) ==
    /\ call[c] = "make" /\ mRunning
    /\ Unlocks(c)
    /\ UNCHANGED << mRunning, mStop, mTid, mThread, kernel, calls, overlapped >>

\* Woken, it waits on unless the thread runs.
Started(c) ==
    /\ call[c] = "started"
    /\ mThreadMutex' = 0
    /\ call' = [call EXCEPT ![c] = IF mRunning THEN "idle" ELSE "wait"]
    /\ UNCHANGED << mRunning, mStop, mTid, mThread, kernel, calls, overlapped >>

\* A condition may wake a waiter that nobody signalled.
SpuriousWake(c) ==
    /\ call[c] = "wait"
    /\ call' = [call EXCEPT ![c] = "woken"]
    /\ UNCHANGED << mThreadMutex, mRunning, mStop, mTid, mThread, kernel, calls, overlapped >>

\* mThreadFunc: the thread says that it runs ...
Enter(k) ==
    /\ kernel[k] = "made" /\ mThreadMutex = 0
    /\ mThreadMutex' = k
    /\ kernel' = [kernel EXCEPT ![k] = "entered"]
    /\ UNCHANGED << mRunning, mStop, mTid, mThread, call, calls, overlapped >>

\* ... and signals one that waits.
SayRunning(k) ==
    /\ kernel[k] = "entered"
    /\ mTid' = TRUE /\ mRunning' = TRUE /\ mThreadMutex' = 0
    /\ kernel' = [kernel EXCEPT ![k] = "run"]
    /\ LET waiting == { c \in Caller : call[c] = "wait" } IN
       IF waiting = {} THEN UNCHANGED call
       ELSE \E c \in waiting : call' = [call EXCEPT ![c] = "woken"]
    /\ UNCHANGED << mStop, mThread, calls, overlapped >>

\* run returns; nobody is told.
RunEnds(k) ==
    /\ kernel[k] = "run"
    /\ kernel' = [kernel EXCEPT ![k] = "over"]
    /\ UNCHANGED << mThreadMutex, mRunning, mStop, mTid, mThread, call, calls, overlapped >>

\* stop takes no mutex.
Stop(c) ==
    /\ call[c] = "idle" /\ calls[c] < MaxCalls
    /\ mStop' = TRUE
    /\ calls' = [calls EXCEPT ![c] = @ + 1]
    /\ UNCHANGED << mThreadMutex, mRunning, mTid, mThread, kernel, call, overlapped >>

\* join: a thread that was not started, or has been joined, is not waited for.
Join(c) == Calls(c, "join") \/ Lock(c, "join", "joining")

NothingToJoin(c) ==
    /\ call[c] = "joining" /\ ~(mTid /\ mRunning)
    /\ Unlocks(c)
    /\ UNCHANGED << mRunning, mStop, mTid, mThread, kernel, calls, overlapped >>

\* The thread is not waited for.
JoinedAtOnce(c) ==
    /\ call[c] = "joining" /\ mTid /\ mRunning
    /\ mRunning' = FALSE
    /\ Unlocks(c)
    /\ UNCHANGED << mStop, mTid, mThread, kernel, calls, overlapped >>

\* pthread_join of the thread made last.
Joined(c) ==
    /\ call[c] = "joining" /\ mTid /\ mRunning
    /\ kernel[mThread] = "over"
    /\ mRunning' = FALSE
    /\ Unlocks(c)
    /\ UNCHANGED << mStop, mTid, mThread, kernel, calls, overlapped >>

KernelStep(k) == Enter(k) \/ SayRunning(k)
MemberStep(c) ==
    \/ Lock(c, "start", "make") \/ Lock(c, "woken", "started") \/ Lock(c, "join", "joining")
    \/ Make(c) \/ AlreadyRunning(c) \/ Started(c) \/ NothingToJoin(c) \/ Joined(c)

LifeNext ==
    \/ \E c \in Caller :
           \/ Start(c) \/ Make(c) \/ AlreadyRunning(c) \/ Started(c) \/ SpuriousWake(c)
           \/ Stop(c) \/ Join(c) \/ NothingToJoin(c) \/ Joined(c)
    \/ \E k \in Kernel : KernelStep(k) \/ RunEnds(k)

\* The mutex is handed on; a thread that was told to stop ends.
LifeSpec ==
    /\ LifeInit /\ [][LifeNext]_lifeVars
    /\ \A c \in Caller : SF_lifeVars(MemberStep(c))
    /\ \A k \in Kernel : SF_lifeVars(KernelStep(k)) /\ WF_lifeVars(mStop /\ RunEnds(k))
-----------------------------------------------------------------------------

\* Calls of start that do not overlap each other make one thread at a time, however they are mixed
\* with stop and join: no thread lives that mRunning does not know of, no thread is made
\* before the one before it is over, and a join that has returned left none running.
OneThread ==
    "start" \notin overlapped =>
        /\ Cardinality(Live) <= 1
        /\ (Live # {} /\ ~mRunning) => \E c \in Caller : call[c] \in Starting

\* No start lasts for ever, nor a join of a thread that is told to stop, unless a start
\* overlapped another call: start gives the mutex up while it waits, so that another start
\* makes a second thread, and a join may find the thread over and clear mRunning before
\* start has seen it set.
CallsEnd ==
    \A c \in Caller :
        []<>(~(call[c] \in Starting \/ (call[c] \in {"join", "joining"} /\ mStop)) \/ overlapped # {})
=============================================================================
