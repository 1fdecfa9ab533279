---------------------------- MODULE PictureDrawing ----------------------------
(***************************************************************************)
(* Where Image draws and looks: fill of a point and of a box, annotate, and *)
(* the channels of a pixel, with checkSignal of the SignalChecker, which    *)
(* reads them.  Each function is a switch on the format with a pointer of   *)
(* its own into the buffer; the bytes it leads to are compared with those   *)
(* of the pixels that are meant.  Colours are left to ImageFormats.         *)
(***************************************************************************)
EXTENDS Integers, Sequences, FiniteSets, FiniteSetsExt

CONSTANTS
    PictureWidth, PictureHeight,
    OZ_CHAR_WIDTH, OZ_CHAR_HEIGHT,  \* 6 and 11 in the code
    Glyph,          \* the font: the pixels that are lit in a character
    Texts,          \* bound: texts, as the lengths of their lines
    Places,         \* bound: where texts are put
    Densities,      \* bound: the densities of filled boxes
    CheckPoints     \* config.signal_check_points

ASSUME DrawingAssumption ==
    /\ {PictureWidth, PictureHeight, OZ_CHAR_WIDTH, OZ_CHAR_HEIGHT, CheckPoints} \subseteq Nat \ {0}
    /\ Glyph \subseteq (0 .. OZ_CHAR_WIDTH - 1) \X (0 .. OZ_CHAR_HEIGHT - 1)
    /\ Densities \subseteq Nat /\ Places \subseteq Int \X Int /\ Texts \subseteq Seq(Nat)

PictureFormat == {"GREY", "GREY16", "RGB", "RGB48", "YUV", "YUVP"}

VARIABLES
    pictureFormat,
    touched,        \* the bytes of the buffer the last operation has written or read
    meant,          \* the specification: the bytes of the pixels it was about
    oddPlace        \* the last operation was one of those that miss their pixels

drawingVars == << pictureFormat, touched, meant, oddPlace >>

ChannelsOf(f)   == IF f \in {"RGB", "RGB48", "YUV"} THEN 3 ELSE 1
PixelWidthOf(f) == IF f \in {"GREY16", "RGB48"} THEN 2 ELSE 1
StepOf(f)       == ChannelsOf(f) * PixelWidthOf(f)
PlanesOf(f)     == IF f = "YUVP" THEN 3 ELSE 1
StrideOf(f)     == StepOf(f) * PictureWidth
PlaneSizeOf(f)  == StrideOf(f) * PictureHeight

InPicture == (0 .. PictureWidth - 1) \X (0 .. PictureHeight - 1)

\* The bytes of pixel << x, y >>, plane by plane.
BytesOf(f, pixel) ==
    { p * PlaneSizeOf(f) + pixel[2] * StrideOf(f) + pixel[1] * StepOf(f) + z :
        p \in 0 .. PlanesOf(f) - 1, z \in 0 .. StepOf(f) - 1 }

DrawingInit ==
    /\ pictureFormat \in PictureFormat
    /\ touched = {} /\ meant = {} /\ oddPlace = FALSE

Touches(bytes, pixels, odd) ==
    /\ touched' = bytes
    /\ meant' = UNION { BytesOf(pictureFormat, pixel) : pixel \in pixels }
    /\ oddPlace' = odd
    /\ UNCHANGED pictureFormat

-----------------------------------------------------------------------------
(* fill *)

\* From pointer p a pixel is written.
FillGrey(p)   == {p}
FillGrey16(p) == {p, p + 1}
FillRgb(p)    == {p, p + 1, p + 2}
FillRgb48(p)  == {p, p + 2, p + 4} \cup {p + 1, p + 3, p + 5}
FillYuv(p)    == {p, p + 1, p + 2}
FillYuvp(p)   == {p, p + PlaneSizeOf("YUVP"), p + 2 * PlaneSizeOf("YUVP")}

FillPixel(f, p) ==
    CASE f = "GREY" -> FillGrey(p)  [] f = "GREY16" -> FillGrey16(p)  [] f = "RGB" -> FillRgb(p)
      [] f = "RGB48" -> FillRgb48(p)  [] f = "YUV" -> FillYuv(p)  [] f = "YUVP" -> FillYuvp(p)

FillPoint(x, y) ==
    Touches(FillPixel(pictureFormat, StepOf(pictureFormat) * (y * PictureWidth + x)), {<< x, y >>}, FALSE)

\* The border of a box is filled, and what density leaves of the rest.
InBox(x, y, lo, hi, density) ==
    \/ density <= 1
    \/ x \in {lo[1], hi[1]} \/ y \in {lo[2], hi[2]}
    \/ x % density = 0 /\ y % density = 0

\* Row by row, from a pointer to the first pixel of the row.
BoxRows(f, lo, hi, density) ==
    UNION { FillPixel(f, StepOf(f) * (y * PictureWidth + lo[1]) + (x - lo[1]) * StepOf(f)) :
              << x, y >> \in { pixel \in (lo[1] .. hi[1]) \X (lo[2] .. hi[2]) : InBox(pixel[1], pixel[2], lo, hi, density) } }

\* In GREY a density of one fills the whole buffer, whatever the box.
FillBox(lo, hi, density) ==
    LET whole == pictureFormat = "GREY" /\ density = 1
    IN  Touches(IF whole THEN 0 .. PlaneSizeOf("GREY") - 1 ELSE BoxRows(pictureFormat, lo, hi, density),
                { pixel \in (lo[1] .. hi[1]) \X (lo[2] .. hi[2]) : InBox(pixel[1], pixel[2], lo, hi, density) },
                whole /\ << lo, hi >> # << << 0, 0 >>, << PictureWidth - 1, PictureHeight - 1 >> >>)

-----------------------------------------------------------------------------
(* annotate.  An empty line at the beginning ends the text; between lines it is *)
(* skipped.                                                                     *)

LINE_HEIGHT == OZ_CHAR_HEIGHT

LinesOf(text) == IF text # << >> /\ text[1] = 0 THEN << >> ELSE SelectSeq(text, LAMBDA length : length > 0)

PulledIn(at, size, limit) ==
    LET lo == IF at > limit - size THEN limit - size ELSE at IN IF lo < 0 THEN 0 ELSE lo

Lesser(a, b) == IF a < b THEN a ELSE b

\* Where line n of the text goes: each line is pulled into the picture for itself, and
\* cut off at its right and lower end.
LinePlace(lines, n, at) ==
    LET width == lines[n] * OZ_CHAR_WIDTH
        loX == PulledIn(at[1], width, PictureWidth)
        loY == PulledIn(at[2] + (n - 1) * LINE_HEIGHT, LINE_HEIGHT, PictureHeight)
    IN  [loX |-> loX, loY |-> loY,
         hiX |-> Lesser(loX + width, PictureWidth), hiY |-> Lesser(loY + LINE_HEIGHT, PictureHeight)]

\* The pixels of a line, counted from its corner, that are written: all of them, or where
\* the background is transparent those of the characters.
Written(place, background) ==
    { << dx, dy >> \in (0 .. place.hiX - place.loX - 1) \X (0 .. place.hiY - place.loY - 1) :
        dy < OZ_CHAR_HEIGHT /\ (background \/ << dx % OZ_CHAR_WIDTH, dy >> \in Glyph) }

\* The byte of the line's corner: in RGB48 the channels are counted for the bytes.
CornerGrey(f, place)  == place.loY * StrideOf(f) + place.loX * StepOf(f)
CornerRgb(f, place)   == (place.loY * PictureWidth + place.loX) * ChannelsOf(f)
CornerRgb48(f, place) == (place.loY * PictureWidth + place.loX) * ChannelsOf(f)
CornerYuv(f, place)   == (place.loY * PictureWidth + place.loX) * ChannelsOf(f)
CornerYuvp(f, place)  == place.loY * PictureWidth + place.loX

CornerOf(f, place) ==
    CASE f \in {"GREY", "GREY16"} -> CornerGrey(f, place)  [] f = "RGB" -> CornerRgb(f, place)
      [] f = "RGB48" -> CornerRgb48(f, place)  [] f = "YUV" -> CornerYuv(f, place)  [] f = "YUVP" -> CornerYuvp(f, place)

\* In GREY16 a character leaves the low bytes as they are.
TextPixel(f, p) == IF f = "GREY16" THEN FillGrey(p) ELSE FillPixel(f, p)

Annotate(text, at, background) ==
    LET f == pictureFormat
        lines == LinesOf(text)
        bytes == UNION { LET place == LinePlace(lines, n, at)
                         IN  UNION { TextPixel(f, CornerOf(f, place) + d[2] * StrideOf(f) + d[1] * StepOf(f)) :
                                       d \in Written(place, background) } : n \in DOMAIN lines }
        pixels == UNION { LET place == LinePlace(lines, n, at)
                          IN  { << place.loX + d[1], place.loY + d[2] >> : d \in Written(place, background) } : n \in DOMAIN lines }
    IN  /\ Touches(bytes, pixels, f = "RGB48")

\* textCentreCoord
TextCentreCoord(text) ==
    LET lines == LinesOf(text)
        longest == IF lines = << >> THEN 0 ELSE Max({ lines[n] : n \in DOMAIN lines })
        \* Division of C rounds towards zero.
        Half(x) == IF x < 0 THEN -((-x) \div 2) ELSE x \div 2
    IN  << Half(PictureWidth - longest * OZ_CHAR_WIDTH), Half(PictureHeight - Len(lines) * LINE_HEIGHT) >>

-----------------------------------------------------------------------------
(* red, green, blue, and y, u, v: the pixel is multiplied by mPixelStep twice. *)

PixelOffset(f, x, y) == (x + y * PictureWidth) * StepOf(f)

\* The bytes that are read for the n-th pixel.
ReadRed(f, n) ==
    LET p == n * StepOf(f)
    IN  CASE f \in {"GREY", "GREY16", "RGB", "RGB48"} -> {p}
          [] f = "YUV" -> FillYuv(p)  [] f = "YUVP" -> FillYuvp(p)

ReadGreen(f, n) ==
    LET p == n * StepOf(f)
    IN  CASE f \in {"GREY", "GREY16"} -> {p}
          [] f \in {"RGB", "RGB48"} -> {p + PixelWidthOf(f)}
          [] f = "YUV" -> FillYuv(p)  [] f = "YUVP" -> FillYuvp(p)

ReadBlue(f, n) ==
    LET p == n * StepOf(f)
    IN  CASE f \in {"GREY", "GREY16"} -> {p}
          [] f \in {"RGB", "RGB48"} -> {p + 2 * PixelWidthOf(f)}
          [] f = "YUV" -> FillYuv(p)  [] f = "YUVP" -> FillYuvp(p)

ReadPixel(f, n) == ReadRed(f, n) \cup ReadGreen(f, n) \cup ReadBlue(f, n)

\* SignalChecker::checkSignal looks at points of the first row, but for its last, which
\* is one value of rand() away.
CheckSignal(points) ==
    /\ Touches(UNION { ReadPixel(pictureFormat, PixelOffset(pictureFormat, x, 0)) : x \in points },
               { << x, 0 >> : x \in points }, StepOf(pictureFormat) > 1)

\* y, u and v of a pixel; grey has no u and v.
ReadY(f, n) ==
    LET p == n * StepOf(f)
    IN  CASE f \in {"GREY", "GREY16", "YUV", "YUVP"} -> {p}
          [] f \in {"RGB", "RGB48"} -> {p, p + PixelWidthOf(f), p + 2 * PixelWidthOf(f)}

ReadU(f, n) ==
    CASE f \in {"GREY", "GREY16"} -> {}
      [] f \in {"RGB", "RGB48"} -> ReadY(f, n)
      [] f = "YUV" -> {n * StepOf(f) + 1}  [] f = "YUVP" -> {n + PlaneSizeOf(f)}

ReadV(f, n) ==
    CASE f \in {"GREY", "GREY16"} -> {}
      [] f \in {"RGB", "RGB48"} -> ReadY(f, n)
      [] f = "YUV" -> {n * StepOf(f) + 2}  [] f = "YUVP" -> {n + 2 * PlaneSizeOf(f)}

\* y, u and v by the number of the pixel, not by its place.
LookAt(x, y) ==
    LET n == x + y * PictureWidth
    IN  Touches(ReadY(pictureFormat, n) \cup ReadU(pictureFormat, n) \cup ReadV(pictureFormat, n), {<< x, y >>}, FALSE)

Erase ==
    Touches(0 .. PlanesOf(pictureFormat) * PlaneSizeOf(pictureFormat) - 1, InPicture, FALSE)

\* One operation: none depends on an earlier one.
DrawingNext ==
    /\ touched = {}
    /\ \/ Erase
       \/ \E << x, y >> \in InPicture : FillPoint(x, y) \/ LookAt(x, y)
       \/ \E lo, hi \in InPicture, density \in Densities :
             lo[1] <= hi[1] /\ lo[2] <= hi[2] /\ FillBox(lo, hi, density)
       \/ \E text \in Texts, at \in Places, background \in BOOLEAN : Annotate(text, at, background)
       \/ \E text \in Texts : Annotate(text, TextCentreCoord(text), TRUE)
       \/ \E points \in SUBSET (0 .. PictureWidth - 2) : Cardinality(points) \in 1 .. CheckPoints /\ CheckSignal(points)

DrawingSpec == DrawingInit /\ [][DrawingNext]_drawingVars

-----------------------------------------------------------------------------
(* Properties *)

\* The high bytes, which are all that text changes and signal_check looks at in 16 bits.
HighBytes(bytes) == { b \in bytes : b % PixelWidthOf(pictureFormat) = 0 }

\* Boxes, points, texts and the pixels that are looked at are where they are said to be,
\* in every format, wherever a text is put and however little of it fits; texts in RGB48,
\* boxes filled in GREY and single pixels of formats with more than one byte are not
\* where they are said to be.  What is touched is in the buffer all the same, but for
\* single pixels in a picture of fewer rows than a pixel has bytes
\* (libimgImage.cpp:1066-1340,9186-9420,9498-9780).
DrawnInPlace ==
    /\ ~oddPlace => HighBytes(touched) = HighBytes(meant) /\ touched \subseteq meant
    /\ PictureHeight >= StepOf(pictureFormat) => touched \subseteq 0 .. PlanesOf(pictureFormat) * PlaneSizeOf(pictureFormat) - 1
=============================================================================
