------------------------------ MODULE MatrixTiles ------------------------------
(***************************************************************************)
(* MatrixVideo: one picture made of tiles, a tile for each provider.  The  *)
(* run thread polls the providers in turn and scales what it gets into the *)
(* tile, through a context made for the provider's size; providers come    *)
(* and go on other threads, and take context and frame with them.          *)
(*                                                                         *)
(* Abstracted: an address of the output picture holds what was last scaled *)
(* there: << provider, tile, row, column >>; polling a provider is one     *)
(* step with finding it in its slot; the frame rate is left out.           *)
(***************************************************************************)
EXTENDS Integers, FiniteSets

CONSTANTS
    Source,             \* the providers
    SizeOf,             \* [Source -> the size and format of its pictures]
    Empty,              \* NULL
    mTilesX, mTilesY,
    TileWidth, TileHeight,  \* of a tile's first plane
    ChromaLog,          \* log2 of how much smaller the other planes are
    MaxComings          \* bound: registrations

\* The size is divisible by the number of tiles, and what a tile is by the chroma's factor.
ASSUME TileAssumption ==
    /\ {mTilesX, mTilesY, TileWidth, TileHeight} \subseteq Nat \ {0} /\ ChromaLog \in Nat
    /\ 2^ChromaLog \in Nat \ {0} /\ TileWidth % (2^ChromaLog) = 0 /\ TileHeight % (2^ChromaLog) = 0
    /\ Empty \notin Source /\ MaxComings \in Nat

mTiles == mTilesX * mTilesY
Tile == 0 .. mTiles - 1
Planes == 0 .. 1

VARIABLES
    mProviderList,      \* [Tile -> provider or Empty]
    mProviders,         \* those the base class has
    comings,            \* registrations so far
    mInterFrames,       \* the tiles whose pointers are set
    mConvertContexts,   \* [Tile -> size or Empty]
    polled,             \* the providers that have had a frame
    tileStep,                 \* "wait", "top", "tile", "prepare", "scale", "show", "ended" or "crash"
    inTile,                  \* the tile of the loop
    provider,           \* what is in hand
    outputBuffer,       \* [plane -> [address -> what is there]]
    painted,            \* history: [Tile -> what was last scaled into it]
    confused            \* history: a provider left while it was in hand

slotVars == << mProviderList, mProviders, comings, mInterFrames, mConvertContexts >>
tileVars == << slotVars, polled, tileStep, inTile, provider, outputBuffer, painted, confused >>

-----------------------------------------------------------------------------
(* Where a tile is *)

interWidth(plane) == IF plane = 0 THEN TileWidth ELSE TileWidth \div (2^ChromaLog)

\* -((-interHeight) >> log2_chroma_h) rounds up.
planeHeight(plane) == IF plane = 0 THEN TileHeight ELSE -((-TileHeight) \div (2^ChromaLog))

linesize(plane) == interWidth(plane) * mTilesX

\* The data pointer of the tile's frame, and the address of its pixel in row r and column c.
TileData(plane, t) ==
    (t \div mTilesX) * planeHeight(plane) * linesize(plane) + (t % mTilesX) * interWidth(plane)

Address(plane, t, r, c) == TileData(plane, t) + r * linesize(plane) + c

Addresses(plane) == 0 .. linesize(plane) * planeHeight(plane) * mTilesY - 1

Scaled(buffer, p, t) ==
    [plane \in Planes |-> [a \in Addresses(plane) |->
        LET here == { rc \in (0 .. planeHeight(plane) - 1) \X (0 .. interWidth(plane) - 1) : Address(plane, t, rc[1], rc[2]) = a }
        IN  IF here = {} THEN buffer[plane][a] ELSE LET rc == CHOOSE rc \in here : TRUE IN << p, t, rc[1], rc[2] >>]]

-----------------------------------------------------------------------------

TilesInit ==
    /\ mProviderList = [t \in Tile |-> Empty] /\ mProviders = {} /\ comings = 0
    /\ mInterFrames = {} /\ mConvertContexts = [t \in Tile |-> Empty]
    /\ polled = {} /\ tileStep = "wait" /\ inTile = 0 /\ provider = Empty
    /\ outputBuffer = [plane \in Planes |-> [a \in Addresses(plane) |-> << >>]]
    /\ painted = [t \in Tile |-> Empty] /\ confused = FALSE

runVars == << tileStep, inTile, provider, outputBuffer, painted >>

\* A provider has its first frame.
FirstFrame(p) ==
    /\ p \notin polled /\ polled' = polled \cup {p}
    /\ UNCHANGED << slotVars, runVars, confused >>

\* The first empty slot; a provider that is registered already is refused.
registerProvider(p) ==
    /\ comings < MaxComings /\ p \notin mProviders /\ Cardinality(mProviders) < mTiles
    /\ \E slot \in Tile :
           /\ mProviderList[slot] = Empty /\ \A t \in Tile : mProviderList[t] = Empty => slot <= t
           /\ mProviderList' = [mProviderList EXCEPT ![slot] = p]
    /\ mProviders' = mProviders \cup {p}
    /\ comings' = comings + 1
    /\ UNCHANGED << mInterFrames, mConvertContexts, polled, runVars, confused >>

\* Mutant: the context stays for the next provider of the slot.
ReleasedNot(t) == mConvertContexts

Released(t) == [mConvertContexts EXCEPT ![t] = Empty]

deregisterProvider(p) ==
    /\ p \in mProviders
    /\ mProviders' = mProviders \ {p}
    /\ \E t \in Tile :
           /\ mProviderList[t] = p
           /\ mProviderList' = [mProviderList EXCEPT ![t] = Empty]
           /\ mConvertContexts' = Released(t)
           /\ mInterFrames' = mInterFrames \ {t}
    /\ confused' = (confused \/ provider = p)
    /\ UNCHANGED << comings, polled, runVars >>

-----------------------------------------------------------------------------
(* MatrixVideo::run *)

waitForProviders ==
    /\ tileStep = "wait" /\ tileStep' \in {"top", "ended"}
    /\ tileStep' = "top" => mProviders \cap polled # {}
    /\ UNCHANGED << slotVars, polled, inTile, provider, outputBuffer, painted, confused >>

\* With no consumer nothing is drawn.
BeginRound ==
    /\ tileStep = "top" /\ tileStep' \in {"tile", "show"} /\ inTile' = 0
    /\ UNCHANGED << slotVars, polled, provider, outputBuffer, painted, confused >>

OnTo(t) == /\ inTile' = t + 1 /\ tileStep' = IF t + 1 = mTiles THEN "show" ELSE "tile"

pollFrame ==
    /\ tileStep = "tile"
    /\ IF mProviderList[inTile] \in polled
       THEN provider' = mProviderList[inTile] /\ tileStep' = "prepare" /\ UNCHANGED inTile
       ELSE OnTo(inTile) /\ UNCHANGED provider
    /\ UNCHANGED << slotVars, polled, outputBuffer, painted, confused >>

\* The frame of the tile and the context, made if they are not there.
Prepare ==
    /\ tileStep = "prepare" /\ tileStep' = "scale"
    /\ mInterFrames' = mInterFrames \cup {inTile}
    /\ mConvertContexts' = [mConvertContexts EXCEPT ![inTile] = IF @ = Empty THEN SizeOf[provider] ELSE @]
    /\ UNCHANGED << mProviderList, mProviders, comings, polled, inTile, provider, outputBuffer, painted, confused >>

\* A context of another size reads past the frame; one that was freed is a crash.
Scale ==
    /\ tileStep = "scale"
    /\ IF inTile \in mInterFrames /\ mConvertContexts[inTile] = SizeOf[provider]
       THEN /\ outputBuffer' = Scaled(outputBuffer, provider, inTile)
            /\ painted' = [painted EXCEPT ![inTile] = provider]
            /\ OnTo(inTile)
       ELSE tileStep' = "crash" /\ UNCHANGED << inTile, outputBuffer, painted >>
    /\ provider' = Empty
    /\ UNCHANGED << slotVars, polled, confused >>

\* The picture goes out; checkProviders stops a thread that has no provider left, or stop is called.
Show ==
    /\ tileStep = "show"
    /\ tileStep' \in IF mProviders = {} THEN {"ended"} ELSE {"top", "ended"}
    /\ UNCHANGED << slotVars, polled, inTile, provider, outputBuffer, painted, confused >>

TilesNext ==
    \/ \E p \in Source : FirstFrame(p) \/ registerProvider(p) \/ deregisterProvider(p)
    \/ waitForProviders \/ BeginRound \/ pollFrame \/ Prepare \/ Scale \/ Show

TilesSpec == TilesInit /\ [][TilesNext]_tileVars

-----------------------------------------------------------------------------

\* What a viewer sees at address a of the picture: which tile, and which row and column of that.
TileAt(plane, a) ==
    ((a \div linesize(plane)) \div planeHeight(plane)) * mTilesX + (a % linesize(plane)) \div interWidth(plane)
RowAt(plane, a) == (a \div linesize(plane)) % planeHeight(plane)
ColumnAt(plane, a) == (a % linesize(plane)) % interWidth(plane)

Shown(plane, a) ==
    LET t == TileAt(plane, a)
    IN  IF painted[t] = Empty THEN << >> ELSE << painted[t], t, RowAt(plane, a), ColumnAt(plane, a) >>

\* Each tile shows the picture that was last scaled into it at the place where a viewer looks for
\* it, row by row of the whole picture, and no other tile's; and a context is only used for pictures
\* of the size it was made for, as long as no provider leaves while its frame is in hand
\* (ozMatrixVideo.cpp:164-222, 79-96).
TilesShowTheirProviders ==
    /\ \A plane \in Planes : \A a \in Addresses(plane) : outputBuffer[plane][a] = Shown(plane, a)
    /\ ~confused =>
           /\ tileStep # "crash"
           /\ \A t \in Tile : mConvertContexts[t] # Empty =>
                  mProviderList[t] # Empty /\ mConvertContexts[t] = SizeOf[mProviderList[t]] /\ t \in mInterFrames

-----------------------------------------------------------------------------
(* The inductive invariant behind TilesShowTheirProviders *)

TilesTyped ==
    /\ mProviderList \in [Tile -> Source \cup {Empty}] /\ mProviders \subseteq Source /\ polled \subseteq Source
    /\ mInterFrames \subseteq Tile /\ DOMAIN mConvertContexts = Tile
    /\ tileStep \in {"wait", "top", "tile", "prepare", "scale", "show", "ended", "crash"}
    /\ tileStep \in {"tile", "prepare", "scale"} => inTile \in Tile
    /\ provider \in IF tileStep \in {"prepare", "scale"} THEN Source ELSE {Empty}
    /\ painted \in [Tile -> Source \cup {Empty}] /\ confused \in BOOLEAN

\* A registered provider has one slot, whoever has a slot is registered.
SlotsAreOfProviders ==
    /\ \A s, t \in Tile : mProviderList[s] = mProviderList[t] /\ s # t => mProviderList[s] = Empty
    /\ \A t \in Tile : mProviderList[t] # Empty => mProviderList[t] \in mProviders

ContextFits(t) ==
    mConvertContexts[t] # Empty =>
        mProviderList[t] # Empty /\ mConvertContexts[t] = SizeOf[mProviderList[t]] /\ t \in mInterFrames

\* As long as nobody left whose frame was in hand, that is a frame of the tile's provider.
HandIsOfTile ==
    ~confused =>
        /\ tileStep # "crash"
        /\ tileStep \in {"prepare", "scale"} => mProviderList[inTile] = provider
        /\ tileStep = "scale" => inTile \in mInterFrames /\ mConvertContexts[inTile] = SizeOf[provider]

\* The inductive invariant (ozMatrixVideo.cpp:46-96, 164-222).
TilesInv ==
    /\ TilesTyped /\ SlotsAreOfProviders /\ HandIsOfTile
    /\ \A t \in Tile : ~confused => ContextFits(t)
    /\ \A plane \in Planes : \A a \in Addresses(plane) : outputBuffer[plane][a] = Shown(plane, a)
=============================================================================
