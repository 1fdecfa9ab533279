------------------------------ MODULE MCWatching ------------------------------
(***************************************************************************)
(* A consumer that waits for its providers and watches them, rows of       *)
(* filters whose threads do so, and the motion detector, checked in one    *)
(* run: `part' names the one that steps, the others stay in one initial    *)
(* state.                                                                  *)
(***************************************************************************)
EXTENDS ProviderWatch, FilterChain, MotionDetector

VARIABLE part

allVars == << part, vars, chainVars, motionVars >>

\* Every pair of filters, and rows of three.
MCChains ==
    { << a, b >> : a, b \in Filters } \cup
    {<< "stamp", "scale", "check" >>, << "scale", "stamp", "convert" >>, << "check", "convert", "stamp" >>}

MCTarget == [format |-> "rgb", width |-> 2]
MCPictures == {[format |-> "yuv420", width |-> 4], MCTarget}

MCInit ==
    /\ part \in {"watch", "chain", "motion"}
    /\ part # "chain" => chain = << "stamp", "scale" >> /\ picture = MCTarget
    /\ part # "motion" => mType = [z \in Zone |-> "ACTIVE"] /\ scene = [z \in Zone |-> 0]
    /\ Init /\ ChainInit /\ MotionInit

Watch(A) == part = "watch" /\ A /\ UNCHANGED << part, chainVars, motionVars >>
Row(A) == part = "chain" /\ A /\ UNCHANGED << part, vars, motionVars >>

MCNext ==
    \/ part = "watch" /\ Next /\ UNCHANGED << part, chainVars, motionVars >>
    \/ part = "chain" /\ ChainNext /\ UNCHANGED << part, vars, motionVars >>
    \/ part = "motion" /\ MotionNext /\ UNCHANGED << part, vars, chainVars >>

\* FairSpec of ProviderWatch, ChainSpec of FilterChain and MotionSpec of MotionDetector.
MCSpec ==
    /\ MCInit /\ [][MCNext]_allVars
    /\ WF_allVars(Watch(ConsumerStep))
    /\ \A p \in Provider : SF_allVars(Watch(LeaveMap(p)))
    /\ \A n \in 0 .. 4 : WF_allVars(Row(n \in Nodes /\ ThreadRuns(n)))
    /\ WF_allVars(part = "motion" /\ Frame /\ UNCHANGED << part, vars, chainVars >>)
=============================================================================
