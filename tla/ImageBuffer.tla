----------------------------- MODULE ImageBuffer -----------------------------
(***************************************************************************)
(* The operations of Image that move pixels: crop, flip, rotate, swell,     *)
(* shrink and scale.  The code walks pointers through one linear buffer,    *)
(* plane by plane; what it should do is said in coordinates.  Both are kept *)
(* here: `buffer' is what the pointers leave, `at' is the coordinate that   *)
(* each pixel should come from.  A byte is known by the pixel and channel   *)
(* it came from, so that no two bytes of the first image are equal.         *)
(*                                                                          *)
(* A format is its planes and its bytes to a pixel: one plane of one byte   *)
(* (GREY), one of three (RGB, YUV), three of one (YUVP).  GREY16 and RGB48  *)
(* are cases of the same loops with more bytes.                             *)
(***************************************************************************)
EXTENDS Integers, Sequences, FiniteSets

CONSTANTS
    Formats,        \* a set of << mPlanes, mPixelStep >>
    FirstWidth, FirstHeight,
    Factors,        \* of shrink and swell: powers of two
    Percents,       \* of scale, whose SCALE_BASE is 100
    MaxSide,        \* bound: of an image
    MaxOps          \* bound: operations in a row

ASSUME ImageAssumption ==
    /\ Formats \subseteq (Nat \ {0}) \X (Nat \ {0})
    /\ {FirstWidth, FirstHeight, MaxSide, MaxOps} \subseteq Nat \ {0}
    /\ Factors \cup Percents \subseteq Nat \ {0, 1}

VARIABLES
    mPlanes, mPixelStep, mWidth, mHeight,
    buffer,         \* [0 .. mSize - 1 -> bytes]
    at,             \* the specification: [the pixels -> the first image's pixels, or as below]
    gaps,           \* history: an operation has left bytes of its new buffer unset
    ops             \* operations so far

imageVars == << mPlanes, mPixelStep, mWidth, mHeight, buffer, at, gaps, ops >>

\* Pixels and bytes that are none of the first image's.
Mixed   == << -1, 0 >>          \* the average of different ones
Unknown == << -2, 0 >>          \* a pixel nothing is said about
Unset   == << << -3, 0 >>, 0, 0 >>      \* a byte of a new buffer that was not written

Pixels(w, h)   == (0 .. w - 1) \X (0 .. h - 1)
mStride        == mPixelStep * mWidth
mPlaneSize     == mStride * mHeight

\* A new buffer for w x h pixels, byte z of pixel << x, y >> of plane p being Byte(p, x, y, z).
NewBuffer(w, h, Byte(_, _, _, _)) ==
    [k \in 0 .. (mPlanes * mPixelStep * w * h) - 1 |->
        LET pixel == (k \div mPixelStep) % (w * h)
        IN  Byte(k \div (mPixelStep * w * h), pixel % w, pixel \div w, k % mPixelStep)]

\* Byte z of the n-th pixel of plane p of the present buffer.
Source(p, n, z) == buffer[p * mPlaneSize + n * mPixelStep + z]

\* Byte z of a pixel in plane p.
Origin(pixel, p, z) == IF pixel = Mixed THEN << Mixed, 0, 0 >> ELSE << pixel, p, z >>

ImageInit ==
    /\ \E format \in Formats : mPlanes = format[1] /\ mPixelStep = format[2]
    /\ mWidth = FirstWidth
    /\ mHeight = FirstHeight
    /\ buffer = NewBuffer(FirstWidth, FirstHeight, LAMBDA p, x, y, z : Origin(<< x, y >>, p, z))
    /\ at = [pixel \in Pixels(FirstWidth, FirstHeight) |-> pixel]
    /\ gaps = FALSE
    /\ ops = 0

Become(w, h, newBuffer, newAt, leavesGaps) ==
    /\ ops < MaxOps /\ {w, h} \subseteq 1 .. MaxSide
    /\ mWidth' = w /\ mHeight' = h
    /\ buffer' = newBuffer
    /\ at' = newAt
    /\ gaps' = (gaps \/ leavesGaps)
    /\ ops' = ops + 1
    /\ UNCHANGED << mPlanes, mPixelStep >>

-----------------------------------------------------------------------------

\* The whole image and what lies outside it are left as they are.
Crop(loX, loY, hiX, hiY) ==
    LET w == hiX - loX + 1
        h == hiY - loY + 1
    IN  /\ loX <= hiX /\ loY <= hiY
        /\ 0 <= loX /\ hiX < mWidth /\ 0 <= loY /\ hiY < mHeight
        /\ << w, h >> # << mWidth, mHeight >>
        /\ Become(w, h,
             NewBuffer(w, h, LAMBDA p, x, y, z : Source(p, (y + loY) * mWidth + loX + x, z)),
             [pixel \in Pixels(w, h) |-> at[<< pixel[1] + loX, pixel[2] + loY >>]], FALSE)

\* flip( true ).  In the formats of one plane the walk ends when it stands at the
\* end of the buffer, which it does before the last row.
FlipLeftRight ==
    Become(mWidth, mHeight,
        NewBuffer(mWidth, mHeight, LAMBDA p, x, y, z :
            IF mPlanes > 1 \/ y < mHeight - 1
            THEN Source(p, y * mWidth + mWidth - 1 - x, z)
            ELSE Unset),
        [pixel \in DOMAIN at |-> at[<< mWidth - 1 - pixel[1], pixel[2] >>]], mPlanes = 1)

\* flip( false )
FlipTopBottom ==
    Become(mWidth, mHeight,
        NewBuffer(mWidth, mHeight, LAMBDA p, x, y, z : Source(p, (mHeight - 1 - y) * mWidth + x, z)),
        [pixel \in DOMAIN at |-> at[<< pixel[1], mHeight - 1 - pixel[2] >>]], FALSE)

\* Mutant: the columns are filled from the left.
RotateQuarterWrong ==
    Become(mHeight, mWidth,
        NewBuffer(mHeight, mWidth, LAMBDA p, x, y, z : Source(p, x * mWidth + y, z)),
        [pixel \in Pixels(mHeight, mWidth) |-> at[<< pixel[2], mHeight - 1 - pixel[1] >>]], FALSE)

\* rotate( 90 ): the source is read on, the columns of the new image are filled from the right.
RotateQuarter ==
    Become(mHeight, mWidth,
        NewBuffer(mHeight, mWidth, LAMBDA p, x, y, z : Source(p, (mHeight - 1 - x) * mWidth + y, z)),
        [pixel \in Pixels(mHeight, mWidth) |-> at[<< pixel[2], mHeight - 1 - pixel[1] >>]], FALSE)

\* rotate( 180 ): the new buffer is filled backwards.
RotateHalf ==
    Become(mWidth, mHeight,
        NewBuffer(mWidth, mHeight, LAMBDA p, x, y, z :
            Source(p, mWidth * mHeight - 1 - (y * mWidth + x), z)),
        [pixel \in DOMAIN at |-> at[<< mWidth - 1 - pixel[1], mHeight - 1 - pixel[2] >>]], FALSE)

\* rotate( 270 ): columns from the left, each from its bottom.
RotateThreeQuarters ==
    Become(mHeight, mWidth,
        NewBuffer(mHeight, mWidth, LAMBDA p, x, y, z : Source(p, x * mWidth + mWidth - 1 - y, z)),
        [pixel \in Pixels(mHeight, mWidth) |-> at[<< mWidth - 1 - pixel[2], pixel[1] >>]], FALSE)

\* Every row is written twice, whatever the factor, and only in the first plane.
Swell(factor) ==
    Become(mWidth * factor, mHeight * factor,
        NewBuffer(mWidth * factor, mHeight * factor, LAMBDA p, x, y, z :
            IF p = 0 /\ y < 2 * mHeight
            THEN Source(p, (y \div 2) * mWidth + x \div factor, z)
            ELSE Unset),
        [pixel \in Pixels(mWidth * factor, mHeight * factor) |->
            IF factor = 2 THEN at[<< pixel[1] \div 2, pixel[2] \div 2 >>] ELSE Unknown],
        mPlanes > 1 \/ factor > 2)

\* An average, where only equal values have a name for it, and none with nothing among them.
Average(values, mixed, nothing) ==
    IF nothing \in values THEN nothing
    ELSE IF Cardinality(values) = 1 THEN CHOOSE value \in values : TRUE ELSE mixed

\* The bytes the loops add up for byte z of block << x, y >>: the next pixel of a row is
\* taken to be one byte on, and a row of blocks to end where the image's row does.
Block(factor, x, y, z) ==
    LET first == y * ((mWidth \div factor) * factor * mPixelStep + (factor - 1) * mStride)
                 + x * factor * mPixelStep
    IN  { buffer[first + z + dX + mStride * dY] : dX \in 0 .. factor - 1, dY \in 0 .. factor - 1 }

Shrink(factor) ==
    LET w == mWidth \div factor
        h == mHeight \div factor
        Square(pixel) == { at[<< factor * pixel[1] + dX, factor * pixel[2] + dY >>] :
                               dX \in 0 .. factor - 1, dY \in 0 .. factor - 1 }
    IN  Become(w, h,
            NewBuffer(w, h, LAMBDA p, x, y, z : IF p = 0 THEN Average(Block(factor, x, y, z), Origin(Mixed, p, z), Unset) ELSE Unset),
            [pixel \in Pixels(w, h) |->
                IF mPixelStep = 1 /\ mWidth % factor = 0 THEN Average(Square(pixel), Mixed, Unknown) ELSE Unknown],
            mPlanes > 1)

\* How often each of n rows or columns is taken: the steps of a count that starts at `start'.
CountOf(start, percent, i) == (start + i * percent) \div 100
Taken(start, percent, n) ==
    LET Row[i \in 0 .. n] ==
            IF i = 0 THEN << >>
            ELSE Row[i - 1] \o [k \in 1 .. CountOf(start, percent, i) - CountOf(start, percent, i - 1) |-> i - 1]
    IN  Row[n]

\* The pixels taken follow each other in the new buffer, whatever its width.  For a
\* reduction the count starts at half the factor, not half the base, and may take
\* fewer columns and rows than the new image has.
Scale(percent) ==
    LET start == IF percent > 100 THEN 50 ELSE percent \div 2
        w == (mWidth * percent + 50) \div 100
        h == (mHeight * percent + 50) \div 100
        columns == Taken(start, percent, mWidth)
        rows    == Taken(start, percent, mHeight)
        fits    == Len(columns) = w
    IN  /\ percent # 100
        /\ Become(w, h,
             NewBuffer(w, h, LAMBDA p, x, y, z :
                LET n == y * w + x
                IN  IF n < Len(columns) * Len(rows)
                    THEN Source(p, rows[n \div Len(columns) + 1] * mWidth + columns[(n % Len(columns)) + 1], z)
                    ELSE Unset),
             [pixel \in Pixels(w, h) |->
                IF fits /\ pixel[2] < Len(rows)
                THEN at[<< columns[pixel[1] + 1], rows[pixel[2] + 1] >>]
                ELSE Unknown],
             percent < 100)

Rotate == RotateQuarter \/ RotateHalf \/ RotateThreeQuarters
Resize == (\E factor \in Factors : Swell(factor) \/ Shrink(factor)) \/ \E percent \in Percents : Scale(percent)

ImageNext ==
    \/ \E loX, hiX \in 0 .. mWidth - 1, loY, hiY \in 0 .. mHeight - 1 : Crop(loX, loY, hiX, hiY)
    \/ FlipLeftRight \/ FlipTopBottom \/ Rotate \/ Resize

ImageSpec == ImageInit /\ [][ImageNext]_imageVars

-----------------------------------------------------------------------------
(* Properties *)

\* After any operations in a row, and in every format, each byte is the byte of its own
\* channel from the pixel that geometry says: the pointers of one operation agree with
\* those of the next (libimgImage.cpp:3447-3458,6119-6390,10181-10486).  Bytes are unset
\* only once a packed image was flipped left to right, planes were resized, an image
\* was swollen by more than 2 or scaled down.
PixelsInPlace ==
    /\ \A pixel \in DOMAIN at, p \in 0 .. mPlanes - 1, z \in 0 .. mPixelStep - 1 :
          at[pixel] # Unknown =>
              Source(p, pixel[2] * mWidth + pixel[1], z) \in {Unset, Origin(at[pixel], p, z)}
    /\ gaps \/ \A k \in DOMAIN buffer : buffer[k] # Unset
=============================================================================
