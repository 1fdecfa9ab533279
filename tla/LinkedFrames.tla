----------------------------- MODULE LinkedFrames -----------------------------
(***************************************************************************)
(* FramePtr, the linked_ptr through which components share a frame: the    *)
(* pointers to one frame form a ring, a copy joins it beside the pointer   *)
(* copied, a pointer that goes leaves it, and the last one deletes the     *)
(* frame.  The pointers are in the queues and on the stacks of several     *)
(* threads, each in the hands of one thread at a time; the links between   *)
(* them are written by the neighbours' threads, with no lock in common.    *)
(*                                                                         *)
(* Abstracted: one frame; which queue or stack a pointer is in.  A         *)
(* pointer that has gone keeps its place in memory: what is written to it  *)
(* is written, and a NULL link ends the process.                           *)
(***************************************************************************)
EXTENDS Naturals

CONSTANTS Pointer, Splicer, NULL

ASSUME PointerAssumption == NULL \notin Pointer

VARIABLES
    itsPrev, itsNext,   \* [Pointer -> Pointer \cup {NULL}]
    pointing,           \* the pointers that are constructed and refer to the frame
    deleted,            \* the frame was; what happens then to pointers left is not followed
    splice,             \* [Splicer -> what the thread does to which pointer, with which other]
    together            \* history: two threads were at it at once

linkedVars == << itsPrev, itsNext, pointing, deleted, splice, together >>

Idle == [do |-> "idle", ptr |-> NULL, r |-> NULL]

\* The provider's pointer to a new frame: linked_ptr( X* ).
LinkedInit ==
    \E p \in Pointer :
        /\ itsPrev = [q \in Pointer |-> IF q = p THEN p ELSE NULL]
        /\ itsNext = itsPrev
        /\ pointing = {p}
        /\ deleted = FALSE
        /\ splice = [t \in Splicer |-> Idle]
        /\ together = FALSE

\* Nobody else has the pointer in his hands.
Free(p) == \A t \in Splicer : p \notin {splice[t].ptr, splice[t].r}

Goes(t, do) == splice' = [splice EXCEPT ![t] = IF do = "idle" THEN Idle ELSE [@ EXCEPT !.do = do]]

Begin(t, s) ==
    /\ splice[t] = Idle /\ ~deleted
    /\ splice' = [splice EXCEPT ![t] = s]
    /\ together' = (together \/ \E u \in Splicer : splice[u] # Idle)

\* acquire: the copy takes the next of the pointer copied, ...
Acquire(t, p, r) ==
    /\ p \notin pointing /\ r \in pointing /\ Free(p) /\ Free(r)
    /\ Begin(t, [do |-> "joinNext", ptr |-> p, r |-> r])
    /\ itsNext' = [itsNext EXCEPT ![p] = itsNext[r]]
    /\ UNCHANGED << itsPrev, pointing, deleted >>

\* ... becomes the previous one of that, ...
JoinNext(t) == LET p == splice[t].ptr IN
    /\ splice[t].do = "joinNext" /\ itsNext[p] # NULL
    /\ itsPrev' = [itsPrev EXCEPT ![itsNext[p]] = p]
    /\ Goes(t, "join")
    /\ UNCHANGED << itsNext, pointing, deleted, together >>

\* ... and the next of the pointer copied.
JoinPrev(t) == LET p == splice[t].ptr IN
    /\ splice[t].do = "join"
    /\ itsPrev' = [itsPrev EXCEPT ![p] = splice[t].r]
    /\ itsNext' = [itsNext EXCEPT ![splice[t].r] = p]
    /\ pointing' = pointing \cup {p}
    /\ Goes(t, "idle")
    /\ UNCHANGED << deleted, together >>

unique(p) == itsPrev[p] \in {p, NULL}

\* release: the last pointer deletes the frame, ...
Release(t, p) ==
    /\ p \in pointing /\ Free(p)
    /\ Begin(t, IF unique(p) THEN Idle ELSE [do |-> "leave", ptr |-> p, r |-> NULL])
    /\ deleted' = unique(p)
    /\ pointing' = pointing \ {p}
    /\ UNCHANGED << itsPrev, itsNext >>

\* ... another links its neighbours with each other.
Leave(t) == LET p == splice[t].ptr IN
    /\ splice[t].do = "leave" /\ itsPrev[p] # NULL
    /\ itsNext' = [itsNext EXCEPT ![itsPrev[p]] = itsNext[p]]
    /\ Goes(t, "leaveNext")
    /\ UNCHANGED << itsPrev, pointing, deleted, together >>

\* The next pointer still has the one that goes before it.
LeaveOneWay(t) ==
    /\ splice[t].do = "leaveNext"
    /\ Goes(t, "idle")
    /\ UNCHANGED << itsPrev, itsNext, pointing, deleted, together >>

LeaveNext(t) == LET p == splice[t].ptr IN
    /\ splice[t].do = "leaveNext" /\ itsNext[p] # NULL
    /\ itsPrev' = [itsPrev EXCEPT ![itsNext[p]] = itsPrev[p], ![p] = NULL]
    /\ itsNext' = [itsNext EXCEPT ![p] = NULL]
    /\ Goes(t, "idle")
    /\ UNCHANGED << pointing, deleted, together >>

LinkedNext ==
    \E t \in Splicer :
        \/ \E p, r \in Pointer : Acquire(t, p, r)
        \/ \E p \in Pointer : Release(t, p)
        \/ JoinNext(t) \/ JoinPrev(t) \/ Leave(t) \/ LeaveNext(t)

LinkedSpec == LinkedInit /\ [][LinkedNext]_linkedVars
-----------------------------------------------------------------------------

Link == Pointer \cup {NULL}

\* What is reached from p along a link: it is in every set the link of p is in and no link leaves.
Reached(link, p) ==
    { q \in Link : \A T \in SUBSET Link : link[p] \in T /\ (\A x \in T \ {NULL} : link[x] \in T) => q \in T }

\* As long as no two threads join or leave the ring at once it is one ring of all the
\* pointers, the same in both directions, and the frame is deleted by the last of
\* them: the copies and releases of one thread after the other come in any order.
RingIsWhole ==
    ~together =>
        /\ deleted <=> pointing = {}
        /\ (\A t \in Splicer : splice[t] = Idle) =>
               \A p \in pointing : Reached(itsNext, p) = pointing /\ Reached(itsPrev, p) = pointing

\* ozFeedBase.h:15-16: frames are freed once they are no longer referenced.
FreedUnreferenced == deleted => pointing = {}
-----------------------------------------------------------------------------
(***************************************************************************)
(* Why RingIsWhole holds: an inductive invariant.  As long as threads take *)
(* turns one at most is at work, and it knows how far its splice has come. *)
(***************************************************************************)

\* The two links are each other's inverse, and no part of the ring is a ring.
IsRing(S, link, back) ==
    /\ \A p \in S : link[p] \in S /\ back[p] \in S /\ back[link[p]] = p /\ link[back[p]] = p
    /\ \A T \in SUBSET S : T # {} /\ (\A p \in T : link[p] \in T) => T = S

LinkedTypes ==
    /\ itsPrev \in [Pointer -> Link] /\ itsNext \in [Pointer -> Link]
    /\ pointing \subseteq Pointer /\ deleted \in BOOLEAN /\ together \in BOOLEAN
    /\ splice \in [Splicer -> [do : {"idle", "joinNext", "join", "leave", "leaveNext"}, ptr : Link, r : Link]]
    /\ \A t \in Splicer : splice[t] # Idle => splice[t].do # "idle" /\ splice[t].ptr \in Pointer

OneAtWork == \A t, u \in Splicer : splice[t] # Idle /\ splice[u] # Idle => t = u

\* Between two threads' work the ring is whole, and the frame goes with its last pointer.
RestingRing ==
    /\ (\A t \in Splicer : splice[t] = Idle) => IsRing(pointing, itsNext, itsPrev)
    /\ deleted <=> pointing = {}

\* A pointer that joins is not in the ring yet, the one copied is.
JoiningRing(t) == LET p == splice[t].ptr  r == splice[t].r IN
    /\ splice[t].do \in {"joinNext", "join"} =>
           r \in pointing /\ p \notin pointing /\ itsNext[p] = itsNext[r]
    /\ splice[t].do = "joinNext" => IsRing(pointing, itsNext, itsPrev)
    /\ splice[t].do = "join" =>
           itsPrev[itsNext[r]] = p /\ IsRing(pointing, itsNext, [itsPrev EXCEPT ![itsNext[r]] = r])

\* A pointer that leaves is between two of the ring.
LeavingRing(t) == LET p == splice[t].ptr IN
    /\ splice[t].do \in {"leave", "leaveNext"} =>
           p \notin pointing /\ itsNext[p] \in pointing /\ itsPrev[p] \in pointing
    /\ splice[t].do = "leave" => IsRing(pointing \cup {p}, itsNext, itsPrev)
    /\ splice[t].do = "leaveNext" => IsRing(pointing, itsNext, [itsPrev EXCEPT ![itsNext[p]] = itsPrev[p]])

LinkedInv ==
    /\ LinkedTypes
    /\ ~together => OneAtWork /\ RestingRing /\ \A t \in Splicer : JoiningRing(t) /\ LeavingRing(t)
=============================================================================
