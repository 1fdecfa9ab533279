----------------------------- MODULE FrameRelay -----------------------------
(***************************************************************************)
(* What a component that passes frames on promises: the frames it accepts  *)
(* come out in the order they went in, none twice and none missing, until  *)
(* the component closes, and while it is open each of them does come out.  *)
(* Frames that were accepted before the first came out may be discarded:   *)
(* components empty their queues while they wait for their provider.       *)
(***************************************************************************)
EXTENDS Integers, Sequences

CONSTANTS Relay, Frame

VARIABLES
    accepted,   \* [Relay -> Seq(Frame)], the frames the component took in
    relayed,    \* [Relay -> Seq(Frame)], the frames it passed on
    open        \* [Relay -> BOOLEAN]

vars == << accepted, relayed, open >>

Init ==
    /\ accepted = [r \in Relay |-> << >>]
    /\ relayed  = [r \in Relay |-> << >>]
    /\ open     = [r \in Relay |-> TRUE]

Discard(r) ==
    /\ relayed[r] = << >>
    /\ accepted' = [accepted EXCEPT ![r] = << >>]
    /\ UNCHANGED << relayed, open >>

\* One frame may be given to several relays before any of them takes a step.
Accept(r, f) ==
    /\ accepted' = [accepted EXCEPT ![r] = Append(@, f)]
    /\ UNCHANGED << relayed, open >>

PassOn(r) ==
    /\ Len(relayed[r]) < Len(accepted[r])
    /\ relayed' = [relayed EXCEPT ![r] = Append(@, accepted[r][Len(@) + 1])]
    /\ UNCHANGED << accepted, open >>

Close(r) ==
    /\ open' = [open EXCEPT ![r] = FALSE]
    /\ UNCHANGED << accepted, relayed >>

Next == \E r \in Relay : Discard(r) \/ PassOn(r) \/ Close(r) \/ \E f \in Frame : Accept(r, f)

Spec == Init /\ [][Next]_vars

FairSpec == Spec /\ \A r \in Relay : WF_vars(open[r] /\ PassOn(r))
=============================================================================
