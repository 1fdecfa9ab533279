----------------------------- MODULE TimerThread -----------------------------
(***************************************************************************)
(* libgen's Timer: a thread that waits for its duration and expires, again *)
(* and again when it repeats, while its owner resets or cancels it.  The   *)
(* owner tells it through a ThreadData flag, a value with a condition:     *)
(* what is told while nobody waits is not signalled to anybody.            *)
(*                                                                         *)
(* Abstracted: the clock; a wait ends when the duration is over, which may *)
(* be at any time.  A wait that is woken for no reason looks like one that *)
(* is over, the condition's result and mChanged being ignored.             *)
(***************************************************************************)
EXTENDS Naturals

CONSTANTS
    MaxTold,        \* bound: resets
    MaxRounds       \* bound: rounds of a timer that repeats

ASSUME TimerAssumption == MaxTold \in Nat /\ MaxRounds \in Nat

VARIABLES
    mRepeat, mReset,
    mExpiryFlag,    \* the value of the flag
    timer,          \* what the thread does next
    timerExpired,   \* the value it read
    resets,         \* resets made
    rounds,         \* rounds begun
    cancelled,      \* history: the owner has cancelled it
    told,           \* history: in this round the owner told the thread before it read the flag
    late            \* history: times it expired since it was cancelled

ownerVars == << mRepeat, resets, cancelled >>
timerVars == << ownerVars, mReset, mExpiryFlag, timer, timerExpired, rounds, told, late >>

\* Timer's constructor starts the thread.
TimerInit ==
    /\ mRepeat \in BOOLEAN /\ mReset = FALSE /\ mExpiryFlag = TRUE
    /\ timer = "begin" /\ timerExpired = FALSE
    /\ resets = 0 /\ rounds = 0 /\ cancelled = FALSE /\ told = FALSE /\ late = 0

\* A round begins: what was told before is forgotten, under the mutex.
BeginRound ==
    /\ timer = "begin" /\ rounds < MaxRounds
    /\ mReset' = FALSE /\ mExpiryFlag' = TRUE /\ told' = FALSE
    /\ rounds' = rounds + 1
    /\ timer' = "enter"
    /\ UNCHANGED << ownerVars, timerExpired, late >>

\* getUpdatedValue waits, whatever the flag says by now.
Wait ==
    /\ timer = "enter"
    /\ timer' = "wait"
    /\ UNCHANGED << ownerVars, mReset, mExpiryFlag, timerExpired, rounds, told, late >>

\* The duration is over, whatever the flag says.
ReadNothing ==
    /\ timer \in {"wait", "signalled"}
    /\ timerExpired' = TRUE
    /\ timer' = "handle"
    /\ UNCHANGED << ownerVars, mReset, mExpiryFlag, rounds, told, late >>

\* The wait is over, or was signalled: the flag tells which.
ReadFlag ==
    /\ timer \in {"wait", "signalled"}
    /\ timerExpired' = mExpiryFlag
    /\ timer' = "handle"
    /\ UNCHANGED << ownerVars, mReset, mExpiryFlag, rounds, told, late >>

Expire ==
    /\ timer = "handle" /\ timerExpired
    /\ late' = IF cancelled THEN late + 1 ELSE late
    /\ timer' = "next"
    /\ UNCHANGED << ownerVars, mReset, mExpiryFlag, timerExpired, rounds, told >>

NoExpiry ==
    /\ timer = "handle" /\ ~timerExpired
    /\ timer' = "next"
    /\ UNCHANGED << ownerVars, mReset, mExpiryFlag, timerExpired, rounds, told, late >>

\* The loop goes on for the thread of a timer that repeats or was reset in time.
NextRound ==
    /\ timer = "next"
    /\ timer' = IF mRepeat \/ (mReset /\ ~timerExpired) THEN "begin" ELSE "over"
    /\ UNCHANGED << ownerVars, mReset, mExpiryFlag, timerExpired, rounds, told, late >>

\* updateValueSignal: the value, and a signal for a thread that waits.
Tell ==
    /\ mExpiryFlag' = FALSE
    /\ timer' = IF timer = "wait" THEN "signalled" ELSE timer
    /\ told' = (told \/ timer \in {"enter", "wait", "signalled"})
    /\ UNCHANGED << timerExpired, rounds, late >>

\* The loop may have ended by then: mRunning is set until the thread is joined.
Cancel == Tell /\ cancelled' = TRUE /\ mRepeat' = FALSE /\ mReset' = FALSE /\ UNCHANGED resets

Reset ==
    /\ ~cancelled /\ resets < MaxTold
    /\ Tell
    /\ mReset' = TRUE /\ resets' = resets + 1
    /\ UNCHANGED << mRepeat, cancelled >>

TimerStep == BeginRound \/ Wait \/ ReadFlag \/ Expire \/ NoExpiry \/ NextRound

TimerNext == TimerStep \/ (~cancelled /\ Cancel) \/ Reset

TimerSpec == TimerInit /\ [][TimerNext]_timerVars
-----------------------------------------------------------------------------

\* A timer that was reset or cancelled while it waited, or was about to, does not expire in
\* that round, whether the thread got the signal or not; a cancel that comes between two
\* rounds, or after the flag was read, is followed by one more expiry and no second.
CancelHolds ==
    /\ (timer = "handle" /\ timerExpired) => ~told
    /\ late <= 1
=============================================================================
