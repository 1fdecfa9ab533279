----------------------------- MODULE MCProcessing -----------------------------
(***************************************************************************)
(* The machines of the image library and the input fallback, checked in    *)
(* one run: `part' names the one that steps, the others stay in one        *)
(* initial state.                                                          *)
(***************************************************************************)
EXTENDS
    BlobScan, PolyMask, ImageBuffer, ImageFormats, PixelLevels, PictureDrawing, PictureFilters, PixelLayouts,
    InputFallback

VARIABLE part

pictureVars == << blobVars, polyVars, imageVars, formatVars, levelVars, drawingVars, filterVars, layoutVars >>
allVars == << part, pictureVars, fallbackVars >>

\* Masks with one corner and with more of a zone cut off.
MCMasks == {Pixel \ {<< 3, 2 >>}, Pixel \ {<< 0, 0 >>, << 3, 0 >>, << 0, 1 >>}}

Grid(n) == (0 .. n) \X (0 .. n)

\* The triangles of one grid and the quadrilaterals of the other that begin at the left edge,
\* but those in one row.
MCPolygons ==
    { p \in [1 .. 3 -> Grid(3)] \cup [1 .. 4 -> Grid(2)] :
        /\ p[1][1] = 0
        /\ Cardinality({ p[i][2] : i \in DOMAIN p }) > 1 }

\* Channels and planes: grey or planar, RGB, YUV in planes.
MCFormats == {<< 1, 1 >>, << 1, 3 >>, << 3, 1 >>}

MCLights == {-60, 0, 60}

\* A letter of two pixels, texts as the lengths of their lines, and where they are put.
MCGlyph == {<< 0, 0 >>, << 1, 1 >>}
MCTexts == {<< 1 >>, << 2, 1 >>, << 0, 1 >>, << 4 >>, << 1, 0, 2 >>}
MCPlaces == {<< 0, 0 >>, << 3, 2 >>, << -1, 9 >>, << 1, 1 >>}

\* The whole picture, one without corners, and one that is nowhere wide.
MCFilterMasks ==
    { Canvas, Canvas \ {<< 0, 0 >>, << 3, 0 >>, << 1, 1 >>},
      {<< 1, 0 >>, << 1, 1 >>, << 2, 1 >>, << 3, 2 >>, << 1, 2 >>} }

\* Sizes that all layouts divide, and odd ones.
MCSides == {<< 4, 4 >>, << 8, 4 >>, << 2, 2 >>, << 3, 2 >>, << 5, 3 >>}

MCInit ==
    /\ part \in {"blob", "poly", "buffer", "formats", "levels", "drawing", "filters", "layouts", "fallback"}
    /\ part # "blob" => mask = (CHOOSE m \in Masks : TRUE) /\ white = {}
    /\ part # "poly" => mPoly = << << 0, 0 >>, << 1, 0 >>, << 0, 1 >> >>
    /\ part # "buffer" => mPlanes = 1 /\ mPixelStep = 1
    /\ part # "formats" => mFormat = "GREY"
    /\ part # "levels" => levelFormat = "GREY" /\ level = [p \in Pixels2 |-> 17]
    /\ part # "drawing" => pictureFormat = "GREY"
    /\ part # "filters" => lit = {}
    /\ part # "layouts" => by = "palette" /\ layout = (CHOOSE l \in Palettes : TRUE) /\ side = << 2, 2 >>
    /\ part # "fallback" => mState = [p \in Provider |-> "wait"] /\ mProviders = Provider
    /\ BlobInit /\ PolyInit /\ ImageInit /\ FormatInit /\ LevelInit /\ DrawingInit /\ FilterInit /\ LayoutInit
    /\ FallbackInit
\* Only the picture machine of the part steps.
PictureStep(p, A, others) == part = p /\ A /\ UNCHANGED << part, others, fallbackVars >>

MCNext ==
    \/ PictureStep("blob", BlobNext, << polyVars, imageVars, formatVars, levelVars, drawingVars, filterVars, layoutVars >>)
    \/ PictureStep("poly", PolyNext, << blobVars, imageVars, formatVars, levelVars, drawingVars, filterVars, layoutVars >>)
    \/ PictureStep("buffer", ImageNext, << blobVars, polyVars, formatVars, levelVars, drawingVars, filterVars, layoutVars >>)
    \/ PictureStep("formats", FormatNext, << blobVars, polyVars, imageVars, levelVars, drawingVars, filterVars, layoutVars >>)
    \/ PictureStep("levels", LevelNext, << blobVars, polyVars, imageVars, formatVars, drawingVars, filterVars, layoutVars >>)
    \/ PictureStep("drawing", DrawingNext, << blobVars, polyVars, imageVars, formatVars, levelVars, filterVars, layoutVars >>)
    \/ PictureStep("filters", FilterNext, << blobVars, polyVars, imageVars, formatVars, levelVars, drawingVars, layoutVars >>)
    \/ PictureStep("layouts", LayoutNext, << blobVars, polyVars, imageVars, formatVars, levelVars, drawingVars, filterVars >>)
    \/ part = "fallback" /\ FallbackNext /\ UNCHANGED << part, pictureVars >>

\* The fallback's thread runs.
MCSpec ==
    /\ MCInit /\ [][MCNext]_allVars
    /\ WF_allVars(part = "fallback" /\ RunStep /\ UNCHANGED << part, pictureVars >>)

\* Every operation on a picture, one after the other and in whichever format, finds the bytes
\* where the others left them: turning and scaling, drawing and reading, filtering in place
\* (libimgImage.cpp:1066-1340,3447-3458,6119-6510,9186-9780,10181-10486).
PicturesInPlace == PixelsInPlace /\ DrawnInPlace /\ FiltersAgree
=============================================================================
