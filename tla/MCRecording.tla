------------------------------ MODULE MCRecording ------------------------------
(***************************************************************************)
(* The machines that put video together and keep it: the recorders, the    *)
(* file outputs, the encoders that begin a stream and the matrix of        *)
(* pictures, checked in one run: `part' names the one that steps, the      *)
(* others stay in one initial state.                                       *)
(***************************************************************************)
EXTENDS EventRecorder, AlarmClips, MovieFiles, InitialFrames, MatrixTiles, TLC

CONSTANTS p1, p2

VARIABLE part

allVars == << part, vars, clipVars, movieVars, initialVars, tileVars >>

\* The two sources have pictures of different sizes.
MCSizeOf == (p1 :> "large") @@ (p2 :> "small")

\* No property tells the recorders apart.
RecorderSymmetry == Permutations(Recorder)

MCInit ==
    /\ part \in {"events", "clips", "movies", "initial", "tiles"}
    /\ part # "movies" => writer = "video" /\ latency = 0
    /\ part # "initial" => kind = "relay"
    /\ Init /\ ClipInit /\ MovieInit /\ InitialInit /\ TilesInit

MCNext ==
    \/ part = "events" /\ Next /\ UNCHANGED << part, clipVars, movieVars, initialVars, tileVars >>
    \/ part = "clips" /\ ClipNext /\ UNCHANGED << part, vars, movieVars, initialVars, tileVars >>
    \/ part = "movies" /\ MovieNext /\ UNCHANGED << part, vars, clipVars, initialVars, tileVars >>
    \/ part = "initial" /\ InitialNext /\ UNCHANGED << part, vars, clipVars, movieVars, tileVars >>
    \/ part = "tiles" /\ TilesNext /\ UNCHANGED << part, vars, clipVars, movieVars, initialVars >>

MCSpec == MCInit /\ [][MCNext]_allVars
=============================================================================
