----------------------------- MODULE PixelLayouts -----------------------------
(***************************************************************************)
(* How an image is made of a captured or decoded picture: the two          *)
(* constructors of Image that take a layout foreign to the library, a      *)
(* palette of Video4Linux or a pixel format of FFmpeg, unpack the bytes    *)
(* into one of the library's own formats.  The pixel format that the image *)
(* declares afterwards is what the next filter loads it by, so a picture   *)
(* may come through here again.                                            *)
(*                                                                         *)
(* A byte is known by the sample it holds: a channel and its place in the  *)
(* channel's own plane.  The words of the packed RGB layouts are numbers.  *)
(* The host is little-endian.                                              *)
(***************************************************************************)
EXTENDS Integers, Sequences

CONSTANTS
    Sides,          \* the sizes of pictures: << width, height >>
    MaxLoads        \* bound: times a picture is loaded

ASSUME SidesAssumption ==
    /\ \A s \in Sides : s[1] \in Nat \ {0} /\ s[2] \in Nat \ {0}
    /\ MaxLoads \in Nat \ {0}

\* The pixels that share a sample of colour, across and down, in the planar layouts.
Density(l) ==
    CASE l \in {"YUV420P", "YUVJ420P"} -> << 2, 2 >>
      [] l \in {"YUV422P", "YUVJ422P"} -> << 2, 1 >>
      [] l = "YUV411P"                 -> << 4, 1 >>
      [] l = "YUV410P"                 -> << 4, 4 >>
      [] l \in {"YUV440P", "YUVJ440P"} -> << 1, 2 >>
      [] OTHER                         -> << 1, 1 >>

\* The bits of red, green and blue in a word.
Bits(l) == IF l = "RGB565" THEN << 5, 6, 5 >> ELSE << 5, 5, 5 >>

Limited == {"YUV420P", "YUV422P", "YUV411P", "YUV410P", "YUV440P", "YUV444P"}
Full    == {"YUVJ420P", "YUVJ422P", "YUVJ440P", "YUVJ444P"}
Pairs   == {"YUYV", "UYVY"}
Words   == {"RGB565", "RGB555"}
Sixteen == {"GRAY16", "RGB48"}

Palettes    == {"YUV420P", "YUV410P", "YUV422P", "YUV411P", "RGB24", "BGR24", "GRAY8"} \cup Pairs \cup Words
PixelFormat == Limited \cup Full \cup Pairs \cup Words \cup Sixteen \cup {"RGB24", "BGR24", "GRAY8"}

\* getFormatFromPixelFormat; the constructors' own switches agree with it.
FormatOf(l) ==
    CASE l \in Limited \cup Pairs               -> "YUVP"
      [] l \in Full                             -> "YUVJP"
      [] l \in Words \cup {"RGB24", "BGR24"}    -> "RGB"
      [] l = "GRAY8"  -> "GREY"
      [] l = "GRAY16" -> "GREY16"
      [] l = "RGB48"  -> "RGB48"

\* getFfPixFormat: of the 48 bits the big-endian layout, which on this host is not RGB48.
FfPixFormat ==
    [GREY |-> "GRAY8", GREY16 |-> "GRAY16", RGB |-> "RGB24", RGB48 |-> "RGB48BE",
     YUVP |-> "YUV444P", YUVJP |-> "YUVJ444P"]

\* calcBufferSize: bytes of a pixel in the format it is converted to.
PixelBytes == [GREY |-> 1, GREY16 |-> 2, RGB |-> 3, RGB48 |-> 6, YUVP |-> 3, YUVJP |-> 3]

VARIABLES
    by,             \* which constructor: "palette", "pixel format"
    layout,         \* what the bytes are said to be
    side,
    data,           \* the bytes, or words, from 0
    image,          \* [format, buffer]; before a load, no format
    panicked,
    loads,
    taken           \* history: the layout and constructor of the first load

layoutVars == << by, layout, side, data, image, panicked, loads, taken >>

SideX  == side[1]
SideY == side[2]
Area == SideX * SideY
Up(a, b) == (a + b - 1) \div b

Sample(c, x, y) == << c, x, y >>
\* The samples of a picture, of channel c at pixel p.
At(c, p) == Sample(c, p % SideX, p \div SideX)

\* A word whose fields differ from pixel to pixel.
Levels(l, p) == << (p + 1) % 32, (2 * p + 3) % 2 ^ Bits(l)[2], (3 * p + 2) % 32 >>
Word(l, p) ==
    LET b == Bits(l)  v == Levels(l, p)
    IN  v[1] * 2 ^ (b[2] + b[3]) + v[2] * 2 ^ b[3] + v[3]

Filled(n, Byte(_)) == [i \in 0 .. n - 1 |-> Byte(i)]

\* A picture as the driver or the decoder hands it over.
Planes(l) ==
    LET d == Density(l)
        w == Up(SideX, d[1])
        n == w * Up(SideY, d[2])
        Chroma(c, i) == Sample(c, i % w, i \div w)
        Byte(i) == CASE i < Area     -> At("y", i)
                     [] i >= Area /\ i < Area + n -> Chroma("u", i - Area)
                     [] OTHER          -> Chroma("v", i - Area - n)
    IN  Filled(Area + 2 * n, Byte)

PairBytes(l) ==
    LET \* the brightness is second in UYVY
        Byte(i) == LET p == i \div 2 IN
            IF (i % 2 = 0) = (l = "YUYV") THEN At("y", p)
            ELSE Sample(IF i % 4 < 2 THEN "u" ELSE "v", (p % SideX) \div 2, p \div SideX)
    IN  Filled(2 * Area, Byte)

Rgb24(l) ==
    LET order == IF l = "BGR24" THEN << "b", "g", "r" >> ELSE << "r", "g", "b" >>
        Byte(i) == At(order[(i % 3) + 1], i \div 3)
    IN  Filled(3 * Area, Byte)

WideBytes(channels) ==
    LET n == Len(channels)
        Byte(i) == At(channels[(i % n) + 1], i \div n)
    IN  Filled(n * Area, Byte)

Captured(l) ==
    CASE l \in Limited \cup Full -> Planes(l)
      [] l \in Pairs             -> PairBytes(l)
      [] l \in Words             -> LET W(i) == Word(l, i) IN Filled(Area, W)
      [] l = "GRAY8"             -> WideBytes(<< "y" >>)
      [] l = "GRAY16"            -> WideBytes(<< "y low", "y" >>)
      [] l = "RGB48"             -> WideBytes(<< "r low", "r", "g low", "g", "b low", "b" >>)
      [] OTHER                   -> Rgb24(l)

LayoutInit ==
    /\ by \in {"palette", "pixel format"}
    /\ layout \in IF by = "palette" THEN Palettes ELSE PixelFormat
    /\ side \in { s \in Sides : layout \in Pairs => s[1] % 2 = 0 }
    /\ data = Captured(layout)
    /\ image = [format |-> "UNDEF", buffer |-> << >>]
    /\ panicked = FALSE
    /\ loads = 0
    /\ taken = << by, layout >>

-----------------------------------------------------------------------------
(* The copies.  The buffer they fill is not initialised. *)

\* Mutant: the copies start at the row that was just written, y2 = 0.
PlaneRowsFrom0(row, densityY) == row + densityY * SideX

\* Bytes for a row of colour and its copies.
PlaneRows(row, densityY) == row + (densityY - 1) * SideX

\* Rows of colour are spread over densityX columns; the densityY - 1 rows that follow
\* are copies of the `width' bytes before, whatever the width of the row just written.
copyYUVP2YUVP(densityX, densityY) ==
    LET srcUvPlaneWidth  == SideX \div densityX
        srcUvPlaneHeight == SideY \div densityY
        row   == srcUvPlaneWidth * densityX
        block == PlaneRows(row, densityY)
        byte[i \in 0 .. 3 * Area - 1] ==
            LET y == (i - Area) \div block
                o == (i - Area) % block
            IN  IF i < Area THEN data[i]
                ELSE IF block = 0 \/ y >= 2 * srcUvPlaneHeight THEN "garbage"
                ELSE IF o < row THEN data[Area + y * srcUvPlaneWidth + o \div densityX]
                ELSE byte[i - SideX]
    IN  byte

\* Two pixels in four bytes: y1 u y2 v, or u y1 v y2.
FromPairs(first, u, v) ==
    LET Byte(i) == CASE i < Area     -> data[2 * i + first]
                     [] i >= Area /\ i < 2 * Area -> data[4 * ((i - Area) \div 2) + u]
                     [] OTHER          -> data[4 * ((i - 2 * Area) \div 2) + v]
    IN  Filled(3 * Area, Byte)

copyYUYV2YUVP == FromPairs(0, 1, 3)
copyUYVY2YUVP == FromPairs(1, 0, 2)

\* Pixels of RGB, channel by channel.
copyUYVY2RGB ==
    LET Byte(i) == LET p == i \div 3 IN
            << << "R", "G", "B" >>[(i % 3) + 1], data[2 * p + 1], data[4 * (p \div 2)], data[4 * (p \div 2) + 2] >>
    IN  Filled(3 * Area, Byte)

copyBGR2RGB == LET Byte(i) == data[3 * (i \div 3) + 2 - (i % 3)] IN Filled(3 * Area, Byte)

\* The fields of the words as they are: five or six bits, at the low end of a byte.
copyRGBP2RGB(b) ==
    LET shift == << b[2] + b[3], b[3], 0 >>
        Byte(i) == (data[i \div 3] \div 2 ^ shift[(i % 3) + 1]) % 2 ^ b[(i % 3) + 1]
    IN  Filled(3 * Area, Byte)

FromPalette ==
    CASE layout \in Limited -> copyYUVP2YUVP(Density(layout)[1], Density(layout)[2])
      [] layout = "YUYV"    -> copyYUYV2YUVP
      [] layout = "UYVY"    -> copyUYVY2YUVP
      [] layout \in Words   -> copyRGBP2RGB(Bits(layout))
      [] layout = "BGR24"   -> copyBGR2RGB
      [] OTHER              -> data

FromPixelFormat ==
    CASE layout \in Limited \cup Full -> copyYUVP2YUVP(Density(layout)[1], Density(layout)[2])
      [] layout = "YUYV"    -> copyYUYV2YUVP
      [] layout = "UYVY"    -> copyUYVY2RGB
      [] layout \in Words   -> copyRGBP2RGB(Bits(layout))
      [] layout = "BGR24"   -> copyBGR2RGB
      [] OTHER              -> data

Unloaded == image.format = "UNDEF" /\ ~panicked

\* Image::Image( v4lPalette, ... )
LoadPalette ==
    /\ by = "palette" /\ Unloaded
    /\ image' = [format |-> FormatOf(layout), buffer |-> FromPalette]
    /\ loads' = loads + 1
    /\ UNCHANGED << by, layout, side, data, panicked, taken >>

\* Image::Image( pixFormat, ... )
LoadPixelFormat ==
    /\ by = "pixel format" /\ Unloaded /\ layout \in PixelFormat
    /\ image' = [format |-> FormatOf(layout), buffer |-> FromPixelFormat]
    /\ loads' = loads + 1
    /\ UNCHANGED << by, layout, side, data, panicked, taken >>

PanicAtLoad ==
    /\ by = "pixel format" /\ Unloaded /\ layout \notin PixelFormat
    /\ panicked' = TRUE
    /\ UNCHANGED << by, layout, side, data, image, loads, taken >>

\* A filter sends the image's buffer on, under its native pixel format.
SendOn ==
    /\ image.format # "UNDEF" /\ loads < MaxLoads
    /\ by' = "pixel format"
    /\ layout' = FfPixFormat[image.format]
    /\ data' = image.buffer
    /\ image' = [format |-> "UNDEF", buffer |-> << >>]
    /\ UNCHANGED << side, panicked, loads, taken >>

LayoutNext == LoadPalette \/ LoadPixelFormat \/ PanicAtLoad \/ SendOn

LayoutSpec == LayoutInit /\ [][LayoutNext]_layoutVars

-----------------------------------------------------------------------------
(* Properties *)

\* red( p ), green( p ) and blue( p ) are calculated from these bytes.
Read(p) ==
    LET b(i) == image.buffer[i]
        n == PixelBytes[image.format]
    IN  CASE image.format \in {"YUVP", "YUVJP"} -> << b(p), b(p + Area), b(p + 2 * Area) >>
          [] image.format \in {"GREY", "GREY16"} -> << b(n * p) >>
          [] image.format = "RGB"               -> << b(3 * p), b(3 * p + 1), b(3 * p + 2) >>
          [] image.format = "RGB48"             -> << b(6 * p), b(6 * p + 2), b(6 * p + 4) >>

\* What they should be for the picture that was taken.
Wanted(l, p) ==
    LET d == IF l \in Pairs THEN << 2, 1 >> ELSE Density(l)
        c(k) == Sample(k, (p % SideX) \div d[1], (p \div SideX) \div d[2])
    IN  CASE l \in Limited \cup Full \cup Pairs -> << At("y", p), c("u"), c("v") >>
          [] l \in {"GRAY8", "GRAY16"}          -> << At("y", p) >>
          [] l \in Words                        -> Levels(l, p)
          [] OTHER                              -> << At("r", p), At("g", p), At("b", p) >>

Divides(l) == SideX % Density(l)[1] = 0 /\ SideY % Density(l)[2] = 0

\* Every pixel of the image shows the samples of the picture it was taken from, also
\* when it has gone through a filter and is loaded by its native format: the brightness
\* always, the colour if the sides are multiples of the layout's densities.  Not so
\* UYVY422, which is unpacked to RGB but called planar (libimgImage.cpp:2456-2463), and
\* 16 bits, whose first byte is the low one here (1070-1075).  Only a 48-bit picture
\* that is loaded again is refused (957, 1019, 2595).
PictureIsKept ==
    /\ image.format # "UNDEF" =>
        /\ DOMAIN image.buffer = 0 .. PixelBytes[image.format] * Area - 1
        /\ taken # << "pixel format", "UYVY" >> /\ taken[2] \notin Sixteen =>
            \A p \in 0 .. Area - 1 :
                /\ Read(p)[1] = Wanted(taken[2], p)[1]
                /\ Divides(taken[2]) => Read(p) = Wanted(taken[2], p)
    /\ panicked => taken[2] = "RGB48"
=============================================================================
