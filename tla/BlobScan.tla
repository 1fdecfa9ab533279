------------------------------ MODULE BlobScan -------------------------------
(***************************************************************************)
(* Image::locateBlobs: one scan over the white pixels of a mask gives every *)
(* pixel the tag of its blob.  A pixel joins the blob to its left or above; *)
(* where the two differ the smaller one is repainted with the other's tag;  *)
(* where there is none a new blob takes the highest free tag, and on the    *)
(* way down the tags a blob that can no longer grow and is out of size      *)
(* gives its tag back.  Without a free tag the scan stops.  The blobs out   *)
(* of size are removed at the end.  One action is one pixel of the scan,    *)
(* all the repainting that goes with it included.                           *)
(*                                                                          *)
(* As Zone::checkMotion does, only pixels of the mask are white.  The       *)
(* centres and extents of the blobs are left out.                           *)
(***************************************************************************)
EXTENDS Integers, FiniteSets

CONSTANTS
    Width, Height,
    NTags,              \* WHITE - 1
    MinSize, MaxSize,   \* BlobGroup's filter, 0 for none
    Masks               \* the masks looked through, each a set of pixels

ASSUME BlobAssumption ==
    /\ {Width, Height, NTags} \subseteq Nat \ {0}
    /\ {MinSize, MaxSize} \subseteq Nat
    /\ \A mask \in Masks : mask \subseteq (0 .. Width - 1) \X (0 .. Height - 1)

Pixel == (0 .. Width - 1) \X (0 .. Height - 1)
Tag   == 1 .. NTags
BLACK == 0
WHITE == NTags + 1

VARIABLES
    mask,
    white,      \* history: the white pixels at the start
    img,        \* [Pixel -> BLACK, WHITE or a tag]
    blobs,      \* [Tag -> BlobData]
    blobCount,
    pos,        \* the pixels scanned so far, row by row
    tooMany     \* no free tag: the scan was stopped

blobVars == << mask, white, img, blobs, blobCount, pos, tooMany >>

NoBlob == [pixels |-> 0, loX |-> 0, hiX |-> 0, loY |-> 0, hiY |-> 0]

Max2(a, b) == IF a > b THEN a ELSE b
Min2(a, b) == IF a < b THEN a ELSE b

scanX == pos % Width
scanY == pos \div Width
here == << scanX, scanY >>
Scanning == pos < Width * Height

BlobInit ==
    /\ mask \in Masks
    /\ white \in SUBSET mask
    /\ img = [p \in Pixel |-> IF p \in white THEN WHITE ELSE BLACK]
    /\ blobs = [t \in Tag |-> NoBlob]
    /\ blobCount = 0
    /\ pos = 0
    /\ tooMany = FALSE

\* The tags to the left and above, BLACK if they are not of the mask.
tagAt(p) == IF p \in mask THEN img[p] ELSE BLACK
lastX == tagAt(<< scanX - 1, scanY >>)
lastY == tagAt(<< scanX, scanY - 1 >>)

OutOfSize(blob) ==
    \/ MinSize # 0 /\ blob.pixels < MinSize
    \/ MaxSize # 0 /\ blob.pixels > MaxSize

\* The pixels of a blob's box, within the mask, that carry its tag.
Painted(picture, t) ==
    { p \in mask : /\ blobs[t].loX <= p[1] /\ p[1] <= blobs[t].hiX
                   /\ blobs[t].loY <= p[2] /\ p[2] <= blobs[t].hiY
                   /\ picture[p] = t }

Repaint(picture, pixels, value) == [p \in Pixel |-> IF p \in pixels THEN value ELSE picture[p]]

-----------------------------------------------------------------------------

\* Not a white pixel of the mask.
Pass ==
    /\ Scanning
    /\ ~(here \in mask /\ img[here] = WHITE)
    /\ pos' = pos + 1
    /\ UNCHANGED << mask, white, img, blobs, blobCount, tooMany >>

AtWhite == Scanning /\ here \in mask /\ img[here] = WHITE

Grown(blob) == [blob EXCEPT !.pixels = @ + 1, !.hiX = Max2(@, scanX), !.hiY = Max2(@, scanY)]

\* Only one side has a blob, or both have the same.
AddPixel ==
    /\ AtWhite
    /\ \E t \in {lastX, lastY} \ {BLACK} :
          /\ {lastX, lastY} \subseteq {t, BLACK}
          /\ img' = [img EXCEPT ![here] = t]
          /\ blobs' = [blobs EXCEPT ![t] = Grown(@)]
    /\ pos' = pos + 1
    /\ UNCHANGED << mask, white, blobCount, tooMany >>

Merged(pri, sec) ==
    [pixels |-> pri.pixels + sec.pixels + 1,
     loX |-> Min2(pri.loX, sec.loX),
     hiX |-> Max2(Max2(pri.hiX, scanX), sec.hiX),
     loY |-> Min2(pri.loY, sec.loY),
     hiY |-> Max2(Max2(pri.hiY, scanY), sec.hiY)]

Merge ==
    /\ AtWhite /\ lastX # BLACK /\ lastY # BLACK /\ lastX # lastY
    /\ LET pri == IF blobs[lastX].pixels >= blobs[lastY].pixels THEN lastX ELSE lastY
           sec == IF pri = lastX THEN lastY ELSE lastX
       IN  /\ img' = Repaint(img, Painted(img, sec) \cup {here}, pri)
           /\ blobs' = [blobs EXCEPT ![pri] = Merged(blobs[pri], blobs[sec]), ![sec] = NoBlob]
    /\ blobCount' = blobCount - 1
    /\ pos' = pos + 1
    /\ UNCHANGED << mask, white, tooMany >>

\* Mutant: the row above counts as two rows up.
RecyclableEarly(t) == blobs[t].pixels # 0 /\ blobs[t].hiY < scanY /\ OutOfSize(blobs[t])

Recyclable(t) == blobs[t].pixels # 0 /\ blobs[t].hiY < scanY - 1 /\ OutOfSize(blobs[t])
Usable(t)     == blobs[t].pixels = 0 \/ Recyclable(t)

\* The tags are tried from the highest down to the first usable one.
NewBlob ==
    /\ AtWhite /\ lastX = BLACK /\ lastY = BLACK
    /\ \E t \in Tag :
          /\ Usable(t) /\ \A higher \in Tag : higher > t => ~Usable(higher)
          /\ img' = [Repaint(img, IF Recyclable(t) THEN Painted(img, t) ELSE {}, BLACK)
                        EXCEPT ![here] = t]
          /\ blobs' = [blobs EXCEPT ![t] = [pixels |-> 1, loX |-> scanX, hiX |-> scanX, loY |-> scanY, hiY |-> scanY]]
          /\ blobCount' = IF Recyclable(t) THEN blobCount ELSE blobCount + 1
    /\ pos' = pos + 1
    /\ UNCHANGED << mask, white, tooMany >>

NoFreeTag ==
    /\ AtWhite /\ lastX = BLACK /\ lastY = BLACK
    /\ \A t \in Tag : ~Usable(t)
    /\ tooMany' = TRUE
    /\ pos' = Width * Height
    /\ UNCHANGED << mask, white, img, blobs, blobCount >>

\* The blobs out of size are removed, with their pixels.
Eliminate ==
    /\ pos = Width * Height
    /\ LET bad == { t \in Tag : blobs[t].pixels # 0 /\ OutOfSize(blobs[t]) }
       IN  /\ img' = Repaint(img, UNION { Painted(img, t) : t \in bad }, BLACK)
           /\ blobs' = [t \in Tag |-> IF t \in bad THEN NoBlob ELSE blobs[t]]
           /\ blobCount' = blobCount - Cardinality(bad)
    /\ pos' = Width * Height + 1
    /\ UNCHANGED << mask, white, tooMany >>

BlobNext == Pass \/ AddPixel \/ Merge \/ NewBlob \/ NoFreeTag \/ Eliminate

BlobSpec == BlobInit /\ [][BlobNext]_blobVars

-----------------------------------------------------------------------------
(* Properties *)

Tagged(t) == { p \in Pixel : img[p] = t }

Adjacent(p, q) ==
    \/ p[1] = q[1] /\ p[2] - q[2] \in {-1, 1}
    \/ p[2] = q[2] /\ p[1] - q[1] \in {-1, 1}

\* The pixels of a set that a path within the set joins to p.
Component(p, set) ==
    LET Reached[n \in Nat] ==
            IF n = 0 THEN {p}
            ELSE LET near == Reached[n - 1]
                 IN  near \cup { q \in set : \E r \in near : Adjacent(q, r) }
    IN  Reached[Cardinality(set)]

\* At every pixel of the scan (libimgImage.cpp:6563-6685) a blob in use is one
\* connected set of pixels, its data give the number and the box of just these,
\* and neighbours that are both still tagged belong to one blob.
ScanInv ==
    /\ \A t \in Tag :
          LET pixels == Tagged(t)
          IN  /\ blobs[t].pixels = Cardinality(pixels)
              /\ pixels # {} =>
                    /\ LET p == CHOOSE q \in pixels : TRUE IN Component(p, pixels) = pixels
                    /\ \A p \in pixels : /\ p[1] \in blobs[t].loX .. blobs[t].hiX
                                         /\ p[2] \in blobs[t].loY .. blobs[t].hiY
    /\ \A p, q \in Pixel :
          img[p] \in Tag /\ img[q] \in Tag /\ Adjacent(p, q) => img[p] = img[q]
    /\ blobCount = Cardinality({ t \in Tag : blobs[t].pixels # 0 })

\* The scan keeps ScanInv, and in the end the blobs are the connected components of the white pixels that are
\* within the limits, whichever blobs were merged and whichever tags were used
\* again (libimgImage.cpp:6640-6668,6840-6880).  A scan without a free tag finds fewer.
BlobsAreComponents ==
    /\ ScanInv
    /\ pos > Width * Height /\ ~tooMany =>
           { Tagged(t) : t \in Tag } \ {{}} =
               { set \in { Component(p, white) : p \in white } : ~OutOfSize([pixels |-> Cardinality(set)]) }
=============================================================================
