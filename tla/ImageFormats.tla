---------------------------- MODULE ImageFormats -----------------------------
(***************************************************************************)
(* The operations of Image that mix formats: convert, overlay, blend, delta *)
(* and yDelta.  Each is a switch on this image's format around a switch on  *)
(* the other's, with a loop over the pixels in every case.  A case treats   *)
(* all pixels alike, so one pixel stands for the image; where its bytes lie *)
(* in the buffer is left to ImageBuffer.                                    *)
(*                                                                          *)
(* A byte is known by its kind - which channel, in which colour space and   *)
(* range - and by the images it is made of.  A conversion gives the right   *)
(* kind only if it is given the kinds it is for.  Kinds: R G B; Y U V of    *)
(* the full range (YUVJ and GREY); y u v of the limited range (YUV); and    *)
(* the low bytes of the formats with 16 bits.                               *)
(***************************************************************************)
EXTENDS Integers, Sequences

CONSTANTS
    FormatsUsed,    \* the formats images are in
    MaxImages       \* bound: images that take part

Format == {"GREY", "GREY16", "RGB", "RGB48", "YUV", "YUVJ", "YUVP", "YUVJP"}

ASSUME FormatAssumption == FormatsUsed \subseteq Format /\ MaxImages \in Nat \ {0}

\* The kinds of the bytes of a pixel, in the order of its buffer or of its planes.
Kinds ==
    [GREY   |-> << "Y" >>,
     GREY16 |-> << "Y", "YLow" >>,
     RGB    |-> << "R", "G", "B" >>,
     RGB48  |-> << "R", "RLow", "G", "GLow", "B", "BLow" >>,
     YUV    |-> << "y", "u", "v" >>,    YUVP  |-> << "y", "u", "v" >>,
     YUVJ   |-> << "Y", "U", "V" >>,    YUVJP |-> << "Y", "U", "V" >>]

mColourDepth == [f \in Format |-> IF f \in {"GREY16", "RGB48"} THEN 16 ELSE 8]

\* What a pixel looks like.  Blue is the colour without red and green.
Colour == {"black", "blue", "white"}

VARIABLES
    mFormat,
    pixel,          \* its bytes
    made,           \* history: the images that it should be made of
    images,         \* the images that have taken part
    differences,    \* the pairs of bytes the last delta has compared
    odd             \* history: an operation has gone wrong in one of the ways in Oddity

formatVars == << mFormat, pixel, made, images, differences, odd >>

Zero    == [is |-> "0", of |-> {}]
Neutral == [is |-> "128", of |-> {}]

\* A pixel of image k.
Fresh(f, k) == [c \in DOMAIN Kinds[f] |-> [is |-> Kinds[f][c], of |-> {k}]]

FormatInit ==
    /\ mFormat \in FormatsUsed
    /\ pixel = Fresh(mFormat, 1)
    /\ made = {1}
    /\ images = 1
    /\ differences = {}
    /\ odd = FALSE

-----------------------------------------------------------------------------
(* The conversions, by channel.  Colourless is no colour in either range. *)

Fits(byte, kind) == byte.is = kind \/ (byte.is = "128" /\ kind \in {"u", "v", "U", "V"})

Calculated(kind, bytes, kinds) ==
    [is |-> IF \A i \in DOMAIN kinds : Fits(bytes[i], kinds[i]) THEN kind ELSE "wrong",
     of |-> UNION { bytes[i].of : i \in DOMAIN bytes }]

RGB == << "R", "G", "B" >>
RGBLow == << "RLow", "GLow", "BLow" >>
yuv == << "y", "u", "v" >>
YUV == << "Y", "U", "V" >>

RGB2YUV(c, rgb)  == Calculated(yuv[c], rgb, RGB)
RGB2YUVJ(c, rgb) == Calculated(YUV[c], rgb, RGB)
YUV2RGB(c, b)    == Calculated(RGB[c], b, yuv)
YUVJ2RGB(c, b)   == Calculated(RGB[c], b, YUV)
YUV2YUVJ(c, byte) == Calculated(YUV[c], << byte >>, << yuv[c] >>)
YUVJ2YUV(c, byte) == Calculated(yuv[c], << byte >>, << YUV[c] >>)

High(b) == << b[1], b[3], b[5] >>

\* Every function reads the bytes b of a pixel of format f like this, but for the
\* exceptions below.
Luminance(f, b) ==
    CASE f \in {"GREY", "GREY16", "YUVJ", "YUVJP"} -> b[1]
      [] f = "RGB"            -> RGB2YUVJ(1, b)
      [] f = "RGB48"          -> RGB2YUVJ(1, High(b))
      [] f \in {"YUV", "YUVP"} -> YUV2YUVJ(1, b[1])

Rgb(f, b) ==
    CASE f \in {"GREY", "GREY16"}   -> [c \in 1 .. 3 |-> Calculated(RGB[c], << b[1] >>, << "Y" >>)]
      [] f = "RGB"                  -> b
      [] f = "RGB48"                -> High(b)
      [] f \in {"YUV", "YUVP"}      -> [c \in 1 .. 3 |-> YUV2RGB(c, b)]
      [] f \in {"YUVJ", "YUVJP"}    -> [c \in 1 .. 3 |-> YUVJ2RGB(c, b)]

Yuv(f, b) ==
    CASE f \in {"GREY", "GREY16"}   -> << YUVJ2YUV(1, b[1]), Neutral, Neutral >>
      [] f = "RGB"                  -> [c \in 1 .. 3 |-> RGB2YUV(c, b)]
      [] f = "RGB48"                -> [c \in 1 .. 3 |-> RGB2YUV(c, High(b))]
      [] f \in {"YUV", "YUVP"}      -> b
      [] f \in {"YUVJ", "YUVJP"}    -> [c \in 1 .. 3 |-> YUVJ2YUV(c, b[c])]

Yuvj(f, b) ==
    CASE f \in {"GREY", "GREY16"}   -> << b[1], Neutral, Neutral >>
      [] f = "RGB"                  -> [c \in 1 .. 3 |-> RGB2YUVJ(c, b)]
      [] f = "RGB48"                -> [c \in 1 .. 3 |-> RGB2YUVJ(c, High(b))]
      [] f \in {"YUV", "YUVP"}      -> [c \in 1 .. 3 |-> YUV2YUVJ(c, b[c])]
      [] f \in {"YUVJ", "YUVJP"}    -> b

\* Three channels of 16 bits; low gives the low bytes.
Wide(rgb, low) == << rgb[1], low[1], rgb[2], low[2], rgb[3], low[3] >>
NoLow == << Zero, Zero, Zero >>

-----------------------------------------------------------------------------
(* convert: the buffer is erased, so a low byte that is not written is 0. *)

ConvertGrey(f, b)   == << Luminance(f, b) >>
ConvertGrey16(f, b) == << Luminance(f, b), Zero >>
ConvertRgb(f, b)    == Rgb(f, b)
ConvertRgb48(f, b)  == Wide(Rgb(f, b), NoLow)
ConvertYuv(f, b)    == Yuv(f, b)
ConvertYuvj(f, b)   == Yuvj(f, b)
\* Mutant: the planes of the full range are copied.
ConvertYuvpCopied(f, b) == IF f = "YUVJP" THEN b ELSE Yuv(f, b)
ConvertYuvp(f, b)   == Yuv(f, b)
ConvertYuvjp(f, b)  == Yuvj(f, b)

Convert(to, f, b) ==
    CASE to = "GREY"  -> ConvertGrey(f, b)   [] to = "GREY16" -> ConvertGrey16(f, b)
      [] to = "RGB"   -> ConvertRgb(f, b)    [] to = "RGB48"  -> ConvertRgb48(f, b)
      [] to = "YUV"   -> ConvertYuv(f, b)    [] to = "YUVJ"   -> ConvertYuvj(f, b)
      [] to = "YUVP"  -> ConvertYuvp(f, b)   [] to = "YUVJP"  -> ConvertYuvjp(f, b)

\* Image::Image( format, image )
ConvertTo(f) ==
    /\ f # mFormat
    /\ mFormat' = f
    /\ pixel' = Convert(f, mFormat, pixel)
    /\ UNCHANGED << made, images, odd >>
    /\ differences' = {}

-----------------------------------------------------------------------------
(* overlay: only pixels that are not black are laid over. *)

\* A byte is not 0, or, as y, more than 16.
Lit(byte, colour) ==
    \/ colour = "white" /\ byte.is \in {"R", "G", "B", "Y", "y"}
    \/ colour = "blue" /\ byte.is \in {"B", "Y", "y"}

Shows(f, b, colour) ==
    LET tested == CASE f = "RGB" -> {1, 2, 3}  [] f = "RGB48" -> {1, 3, 5}  [] OTHER -> {1}
    IN  \E i \in tested : Lit(b[i], colour)

\* Over grey formats the red and green of RGB48 are looked for in the first three bytes.
ShowsInGrey(f, b, colour) ==
    IF f = "RGB48" THEN \E i \in 1 .. 3 : Lit(b[i], colour) ELSE Shows(f, b, colour)

OverlayGrey(f, b, colour)   == IF ShowsInGrey(f, b, colour) THEN << Luminance(f, b) >> ELSE pixel
OverlayGrey16(f, b, colour) ==
    IF ShowsInGrey(f, b, colour) THEN << Luminance(f, b), IF f = "GREY16" THEN b[2] ELSE Zero >> ELSE pixel
OverlayRgb(f, b, colour)    == IF Shows(f, b, colour) THEN Rgb(f, b) ELSE pixel
\* The bytes of RGB are first written as they lie, then in their places.
OverlayRgb48(f, b, colour)  ==
    IF ~Shows(f, b, colour) THEN pixel
    ELSE IF f = "RGB48" THEN b
    ELSE Wide(Rgb(f, b), CASE f = "RGB" -> << b[2], pixel[4], pixel[6] >>
                           [] f = "GREY16" -> [c \in 1 .. 3 |-> Calculated(RGBLow[c], << b[2] >>, << "YLow" >>)]
                           [] OTHER -> NoLow)
OverlayYuv(f, b, colour)    == IF Shows(f, b, colour) THEN Yuv(f, b) ELSE pixel
OverlayYuvj(f, b, colour)   == IF Shows(f, b, colour) THEN Yuvj(f, b) ELSE pixel
OverlayYuvp(f, b, colour)   == IF Shows(f, b, colour) THEN Yuv(f, b) ELSE pixel
OverlayYuvjp(f, b, colour)  == IF Shows(f, b, colour) THEN Yuvj(f, b) ELSE pixel

Overlaid(f, b, colour) ==
    CASE mFormat = "GREY"  -> OverlayGrey(f, b, colour)   [] mFormat = "GREY16" -> OverlayGrey16(f, b, colour)
      [] mFormat = "RGB"   -> OverlayRgb(f, b, colour)    [] mFormat = "RGB48"  -> OverlayRgb48(f, b, colour)
      [] mFormat = "YUV"   -> OverlayYuv(f, b, colour)    [] mFormat = "YUVJ"   -> OverlayYuvj(f, b, colour)
      [] mFormat = "YUVP"  -> OverlayYuvp(f, b, colour)   [] mFormat = "YUVJP"  -> OverlayYuvjp(f, b, colour)

\* The pairs of formats for which a function is not what it is for all others.
Oddity == {<< "overlay", "GREY", "RGB48" >>, << "overlay", "GREY16", "RGB48" >>,
           << "overlay", "RGB48", "RGB" >>, << "blend", "GREY", "RGB48" >>,
           << "delta", "RGB48", "RGB48" >>, << "yDelta", "RGB48", "YUVP" >>}

TakesPart(op, f) ==
    /\ images < MaxImages
    /\ images' = images + 1
    /\ odd' = (odd \/ << op, mFormat, f >> \in Oddity)
    /\ UNCHANGED mFormat

Overlay(f, colour) ==
    /\ TakesPart("overlay", f)
    /\ pixel' = Overlaid(f, Fresh(f, images'), colour)
    /\ made' = IF colour = "black" THEN made ELSE {images'}
    /\ differences' = {}

-----------------------------------------------------------------------------
(* blend: ref - ( ref >> refShift ) + ( img >> imgShift ).  imgShift begins  *)
(* with the difference of the depths; where only the high byte of 16 bits is *)
(* read 8 must be taken off, or nothing is left of the other image.          *)

Faded(ref, img, bitsRead, shiftLess, f) ==
    [is |-> IF ref.is = img.is \/ img.is = "128" THEN ref.is
            ELSE IF ref.is \in {"0", "128"} THEN img.is
            ELSE "wrong",
     of |-> ref.of \cup IF mColourDepth[f] - shiftLess = bitsRead THEN img.of ELSE {}]

\* Both bytes of 16 bits.
FadedWide(high, low, img, bitsRead, shiftLess, f) ==
    LET faded == Faded(high, img, bitsRead, shiftLess, f)
    IN  << faded, [is |-> IF low.is = "0" THEN "low" ELSE low.is, of |-> faded.of] >>

Faded3(b, f, less) == [c \in 1 .. 3 |-> Faded(pixel[c], b[c], 8, less, f)]
Less8(f, formats)  == IF f \in formats THEN 8 ELSE 0
BothWide == {"GREY16", "RGB48"}

BlendGrey(f, b)   == << Faded(pixel[1], Luminance(f, b), 8, Less8(f, {"GREY16"}), f) >>
BlendGrey16(f, b) == FadedWide(pixel[1], pixel[2], Luminance(f, b), IF f = "GREY16" THEN 16 ELSE 8, Less8(f, {"RGB48"}), f)
BlendRgb(f, b)    == Faded3(Rgb(f, b), f, Less8(f, BothWide))
BlendRgb48(f, b)  ==
    LET Channel(c) == FadedWide(pixel[2 * c - 1], pixel[2 * c], Rgb(f, b)[c], mColourDepth[f], 0, f)
    IN  Wide([c \in 1 .. 3 |-> Channel(c)[1]], [c \in 1 .. 3 |-> Channel(c)[2]])
BlendYuv(f, b)    == Faded3(Yuv(f, b), f, Less8(f, BothWide))
BlendYuvj(f, b)   == Faded3(Yuvj(f, b), f, Less8(f, BothWide))
BlendYuvp(f, b)   == Faded3(Yuv(f, b), f, Less8(f, BothWide))
BlendYuvjp(f, b)  == Faded3(Yuvj(f, b), f, Less8(f, BothWide))

BlendedWith(f, b) ==
    CASE mFormat = "GREY"  -> BlendGrey(f, b)   [] mFormat = "GREY16" -> BlendGrey16(f, b)
      [] mFormat = "RGB"   -> BlendRgb(f, b)    [] mFormat = "RGB48"  -> BlendRgb48(f, b)
      [] mFormat = "YUV"   -> BlendYuv(f, b)    [] mFormat = "YUVJ"   -> BlendYuvj(f, b)
      [] mFormat = "YUVP"  -> BlendYuvp(f, b)   [] mFormat = "YUVJP"  -> BlendYuvjp(f, b)

Blend(f) ==
    /\ TakesPart("blend", f)
    /\ pixel' = BlendedWith(f, Fresh(f, images'))
    /\ made' = made \cup {images'}
    /\ differences' = {}

-----------------------------------------------------------------------------
(* delta, of colours, and yDelta, of luminances.  The corrections for a change *)
(* of the whole image's brightness are left out.                              *)

YDeltaGrey(f, b)   == << pixel[1], Luminance(f, b) >>
YDeltaGrey16(f, b) == << pixel[1], Luminance(f, b) >>
YDeltaRgb(f, b)    == << RGB2YUVJ(1, pixel), Luminance(f, b) >>
\* Beside YUVP the green byte is read for blue.
YDeltaRgb48(f, b)  ==
    << RGB2YUVJ(1, IF f = "YUVP" THEN << pixel[1], pixel[3], pixel[3] >> ELSE High(pixel)), Luminance(f, b) >>
YDeltaYuv(f, b)    == << YUV2YUVJ(1, pixel[1]), Luminance(f, b) >>
YDeltaYuvj(f, b)   == << pixel[1], Luminance(f, b) >>
YDeltaYuvp(f, b)   == << YUV2YUVJ(1, pixel[1]), Luminance(f, b) >>
YDeltaYuvjp(f, b)  == << pixel[1], Luminance(f, b) >>

YDelta(f, b) ==
    CASE mFormat = "GREY"  -> YDeltaGrey(f, b)   [] mFormat = "GREY16" -> YDeltaGrey16(f, b)
      [] mFormat = "RGB"   -> YDeltaRgb(f, b)    [] mFormat = "RGB48"  -> YDeltaRgb48(f, b)
      [] mFormat = "YUV"   -> YDeltaYuv(f, b)    [] mFormat = "YUVJ"   -> YDeltaYuvj(f, b)
      [] mFormat = "YUVP"  -> YDeltaYuvp(f, b)   [] mFormat = "YUVJP"  -> YDeltaYuvjp(f, b)

DeltaRgb(f, b)    == { << pixel[c], Rgb(f, b)[c] >> : c \in 1 .. 3 }
\* Of two RGB48 the differences are written over each other, and blue is the last.
DeltaRgb48(f, b)  ==
    IF f = "RGB48" THEN { << pixel[5], b[5] >> } ELSE { << pixel[2 * c - 1], Rgb(f, b)[c] >> : c \in 1 .. 3 }

\* Images of one channel to a plane are compared by luminance; so the cases of delta for
\* YUVP and YUVJP are never reached.
ComparedBy(f, g) ==
    IF f \notin {"RGB", "RGB48"} \/ g \in {"GREY", "GREY16", "YUVP", "YUVJP"} THEN "yDelta" ELSE "delta"

Delta(f, b) ==
    IF ComparedBy(mFormat, f) = "yDelta" THEN {YDelta(f, b)}
    ELSE IF mFormat = "RGB" THEN DeltaRgb(f, b) ELSE DeltaRgb48(f, b)

CompareColours(f) ==
    /\ TakesPart(ComparedBy(mFormat, f), f)
    /\ differences' = Delta(f, Fresh(f, images'))
    /\ UNCHANGED << pixel, made >>

CompareLuminance(f) ==
    /\ TakesPart("yDelta", f)
    /\ differences' = {YDelta(f, Fresh(f, images'))}
    /\ UNCHANGED << pixel, made >>

FormatNext ==
    \E f \in FormatsUsed :
        \/ ConvertTo(f) \/ Blend(f) \/ CompareColours(f) \/ CompareLuminance(f)
        \/ \E colour \in Colour : Overlay(f, colour)

FormatSpec == FormatInit /\ [][FormatNext]_formatVars

-----------------------------------------------------------------------------
(* Properties *)

IsLow(kind) == kind \in {"YLow", "RLow", "GLow", "BLow"}

\* A byte is of its kind and made of the images S; colour may be missing, and a low byte
\* may be 0 or mixed.
ByteOf(byte, kind, S) ==
    IF IsLow(kind) THEN byte.is \in {"0", "low", kind} /\ byte.of \subseteq S
    ELSE IF kind \in {"u", "v", "U", "V"} THEN Fits(byte, kind) /\ byte.of \subseteq S
    ELSE byte.is = kind /\ byte.of = S

\* A pixel of format f made of the images S.
PixelOf(f, b, S) == DOMAIN b = DOMAIN Kinds[f] /\ \A c \in DOMAIN Kinds[f] : ByteOf(b[c], Kinds[f][c], S)

\* Bytes of one kind, of images S and images T, that take in the luminance or all colours.
DifferenceOf(pair, S, T) == pair[1].is = pair[2].is /\ pair[1].of = S /\ pair[2].of = T
DifferencesOf(pairs, S, T) ==
    /\ \A pair \in pairs : DifferenceOf(pair, S, T)
    /\ { pair[1].is : pair \in pairs } \in {{"Y"}, {"R", "G", "B"}}

\* Whatever is converted, laid over and blended in whichever formats, each byte is of the
\* kind its place calls for, no pixel has channels of different images, and an image
\* that was blended in has left its share in the brightness of the pixel, unless it
\* went through one of the odd pairs (libimgImage.cpp:1437-2155,3484-4492,4570-5722).
ChannelsAgree == ~odd => PixelOf(mFormat, pixel, made)

\* A difference is between bytes of one kind, of this image and of the other, and takes in
\* the luminance or all three colours (libimgImage.cpp:7077-9140).
DifferencesAgree == ~odd /\ differences # {} => DifferencesOf(differences, made, {images})

\* Channels stay channels in whatever is made of several images (libimgImage.cpp:1437-9140).
FormatsAgree == ChannelsAgree /\ DifferencesAgree

\* With the format, it is inductive.
FormatInv == mFormat \in Format /\ FormatsAgree
=============================================================================
