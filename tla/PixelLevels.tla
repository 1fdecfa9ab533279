----------------------------- MODULE PixelLevels ------------------------------
(***************************************************************************)
(* The arithmetic of Image on brightness: decay, boost, square, squareRoot, *)
(* the tables between the full and the limited range, total, and yDelta     *)
(* with its correction for a change of the light.                           *)
(*                                                                          *)
(* An image is a few grey pixels.  A pixel is one sample of 8 bits, or of   *)
(* 16 in GREY16 and RGB48: the loops treat all samples alike, and the channels of a   *)
(* grey pixel are equal.  Which bytes are read is left to ImageFormats.     *)
(***************************************************************************)
EXTENDS Integers, Sequences, FiniteSets, SequencesExt

CONSTANTS
    Samples,        \* bound: the levels of the pixels, of 8 bits
    WideSamples,    \* bound: of 16 bits
    Fractions,      \* bound: the arguments of decay and boost
    Lights,         \* bound: changes of the light, positive if it gets brighter
    MaxChanges      \* bound: operations in a row

ASSUME LevelAssumption ==
    /\ Samples \subseteq 0 .. 255 /\ WideSamples \subseteq 0 .. 65535
    /\ Fractions \subseteq Nat /\ Lights \subseteq -255 .. 255 /\ MaxChanges \in Nat

LevelFormat == {"GREY", "GREY16", "RGB", "RGB48", "YUV", "YUVJ", "YUVP", "YUVJP"}
WideFormat == {"GREY16", "RGB48"}
LimitedFormat == {"YUV", "YUVP"}

VARIABLES
    levelFormat,
    level,          \* the two pixels
    before,         \* for the properties: the pixels before the last operation
    overflown,      \* for the properties: boost took a pixel to the end of its range
    changes,        \* counts the operations
    compared        \* the last yDelta

levelVars == << levelFormat, level, before, overflown, changes, compared >>

Pixels2 == {1, 2}
NothingCompared == [with |-> "GREY", light |-> 0, correct |-> FALSE, image |-> << 0, 0 >>, diff |-> << 0, 0 >>]

clamp(value, min, max) == IF value < min THEN min ELSE IF value > max THEN max ELSE value
Magnitude(x) == IF x < 0 THEN -x ELSE x
Shifted(x, bits) == x \div 2 ^ bits
Depth(f) == IF f \in WideFormat THEN 16 ELSE 8

LevelInit ==
    /\ levelFormat \in LevelFormat
    /\ level \in [Pixels2 -> IF levelFormat \in WideFormat THEN WideSamples
                           ELSE IF levelFormat \in LimitedFormat THEN Samples \cap 16 .. 235 ELSE Samples]
    /\ before = level
    /\ overflown = FALSE
    /\ changes = 0
    /\ compared = NothingCompared

Becomes(after) ==
    /\ changes < MaxChanges
    /\ changes' = changes + 1
    /\ level' = after
    /\ before' = level
    /\ compared' = NothingCompared

-----------------------------------------------------------------------------
(* decay and boost *)

\* A fraction that is no power of two takes the largest shift; it is never refused.
RefShift(fraction) == IF \E s \in 1 .. 15 : fraction = 2 ^ s THEN CHOOSE s \in 1 .. 15 : fraction = 2 ^ s ELSE 15

Less(x, shift) == x - Shifted(x, shift)
More(x, shift) == x + Shifted(x, shift)

\* Mutant: the two bytes of a wide sample are decayed each for itself.
DecayedByByte(f, x, shift) == 256 * Less(Shifted(x, 8), shift) + Less(x % 256, shift)

Decayed(f, x, shift) == IF f \in LimitedFormat THEN clamp(Less(x, shift), 16, 256) ELSE Less(x, shift)

Decay(fraction) ==
    /\ RefShift(fraction) < Depth(levelFormat)
    /\ Becomes([p \in Pixels2 |-> Decayed(levelFormat, level[p], RefShift(fraction))])
    /\ UNCHANGED << levelFormat, overflown >>

\* The limit is one above what a sample can hold: what reaches it becomes 0.
Boosted(f, x, shift) ==
    IF f \in LimitedFormat THEN clamp(More(x, shift), 16, 240) ELSE clamp(More(x, shift), 0, 2 ^ Depth(f)) % 2 ^ Depth(f)

Boost(fraction) ==
    /\ RefShift(fraction) < Depth(levelFormat)
    /\ Becomes([p \in Pixels2 |-> Boosted(levelFormat, level[p], RefShift(fraction))])
    /\ overflown' = (overflown \/ \E p \in Pixels2 : level'[p] < level[p])
    /\ UNCHANGED levelFormat

-----------------------------------------------------------------------------
(* square and squareRoot, for wide samples: ( x * x ) >> 16 and sqrt( x << 16 ). *)
(* Both overflow an int; the build keeps the low 32 bits, and reads them without  *)
(* a sign.                                                                        *)

LowOfSquare(x) == 512 * Shifted(x, 8) * (x % 256) + (x % 256) * (x % 256)

Squared(x) == Shifted(x, 8) * Shifted(x, 8) + Shifted(LowOfSquare(x), 16)

\* x * x <= of << 16
SquareFits(x, of) == Squared(x) < of \/ (Squared(x) = of /\ LowOfSquare(x) % 65536 = 0)

Rooted(x) ==
    FoldLeft(LAMBDA root, bit : IF SquareFits(root + 2 ^ bit, x) THEN root + 2 ^ bit ELSE root,
             0, [i \in 1 .. 16 |-> 16 - i])

Square ==
    /\ levelFormat \in WideFormat
    /\ Becomes([p \in Pixels2 |-> Squared(level[p])])
    /\ UNCHANGED << levelFormat, overflown >>

SquareRoot ==
    /\ levelFormat \in WideFormat
    /\ Becomes([p \in Pixels2 |-> Rooted(level[p])])
    /\ UNCHANGED << levelFormat, overflown >>

-----------------------------------------------------------------------------
(* The tables of the ranges. *)

YUVJ2YUV_Y(i) == clamp((i * 219) \div 255 + 16, 16, 235)

YUV2YUVJ_Y(i) == IF i < 16 THEN 0 ELSE IF i > 235 THEN 255 ELSE clamp((255 * (i - 16)) \div 219, 0, 255)

\* Of a grey pixel; the three products are rounded down each for itself.
RGB2YUVJ_Y(i) == clamp((299 * i) \div 1000 + (587 * i) \div 1000 + (114 * i) \div 1000, 0, 255)

Limit ==
    /\ levelFormat = "YUVJ" /\ levelFormat' = "YUV"
    /\ Becomes([p \in Pixels2 |-> YUVJ2YUV_Y(level[p])])
    /\ UNCHANGED overflown

Expand ==
    /\ levelFormat = "YUV" /\ levelFormat' = "YUVJ"
    /\ Becomes([p \in Pixels2 |-> YUV2YUVJ_Y(level[p])])
    /\ UNCHANGED overflown

-----------------------------------------------------------------------------
(* yDelta *)

\* The luminance that is read from a sample, and the sample an image of a luminance has.
Luma(f, x) ==
    CASE f \in {"GREY", "YUVJ", "YUVJP"} -> x
      [] f = "GREY16" -> Shifted(x, 8)
      [] f = "RGB" -> RGB2YUVJ_Y(x)
      [] f = "RGB48" -> RGB2YUVJ_Y(Shifted(x, 8))
      [] f \in LimitedFormat -> YUV2YUVJ_Y(x)

Stored(f, y) == CASE f \in WideFormat -> 256 * y  [] f \in LimitedFormat -> YUVJ2YUV_Y(y)  [] OTHER -> y

\* total: of 16 bits the high byte.
Total(f, x) == Luma(f, x[1]) + Luma(f, x[2])

Corr(f, ref, g, cmp) == Magnitude(Total(g, cmp) - Total(f, ref)) \div Cardinality(Pixels2)

\* It is taken off whether the light has grown or gone; a byte keeps what fits in it.
DiffGrey(ref, y, corr) == Magnitude(y - ref - corr) % 256
DiffRgb(ref, y, corr)  == Magnitude(y - RGB2YUVJ_Y(ref) - corr) % 256
DiffYuv(ref, y, corr)  == Magnitude(y - YUV2YUVJ_Y(ref) - corr) % 256
DiffYuvj(ref, y, corr) == Magnitude(y - ref - corr) % 256
DiffYuvp(ref, y, corr)  == Magnitude(y - YUV2YUVJ_Y(ref) - corr) % 256
DiffYuvjp(ref, y, corr) == Magnitude(y - ref - corr) % 256
DiffRgb48(ref, y, corr) == Magnitude(y - RGB2YUVJ_Y(Shifted(ref, 8)) - corr) % 256
\* Two images of GREY16 are compared the other way round, with a correction that is a short;
\* beside another format the high bytes are.
Short(x) == ((x + 32768) % 65536) - 32768
DiffWide(ref, cmp, corr) == Magnitude(ref - cmp - Short(256 * corr)) % 65536
DiffGrey16(ref, y, corr) == 256 * (Magnitude(y - Shifted(ref, 8) - corr) % 256)

Diff(f, ref, g, cmp, corr) ==
    CASE f = "GREY"  -> DiffGrey(ref, Luma(g, cmp), corr)
      [] f = "GREY16" -> IF g = "GREY16" THEN DiffWide(ref, cmp, corr) ELSE DiffGrey16(ref, Luma(g, cmp), corr)
      [] f = "RGB"   -> DiffRgb(ref, Luma(g, cmp), corr)
      [] f = "YUV"   -> DiffYuv(ref, Luma(g, cmp), corr)
      [] f = "YUVJ"  -> DiffYuvj(ref, Luma(g, cmp), corr)
      [] f = "YUVP"  -> DiffYuvp(ref, Luma(g, cmp), corr)
      [] f = "YUVJP" -> DiffYuvjp(ref, Luma(g, cmp), corr)
      [] f = "RGB48" -> DiffRgb48(ref, Luma(g, cmp), corr)

\* The same scene, in a format of its own and in another light.
InLight(g, light) == [p \in Pixels2 |-> Stored(g, clamp(Luma(levelFormat, level[p]) + light, 0, 255))]

Compare(g, light, correct) ==
    LET image == InLight(g, light)
        corr  == IF correct THEN Corr(levelFormat, level, g, image) ELSE 0
    IN  /\ compared' = [with |-> g, light |-> light, correct |-> correct, image |-> image,
                        diff |-> [p \in Pixels2 |-> Diff(levelFormat, level[p], g, image[p], corr)]]
        /\ UNCHANGED << levelFormat, level, before, overflown, changes >>

LevelNext ==
    \/ \E fraction \in Fractions : Decay(fraction) \/ Boost(fraction)
    \/ Square \/ SquareRoot \/ Limit \/ Expand
    \/ compared = NothingCompared /\ \E g \in LevelFormat, light \in Lights, correct \in BOOLEAN : Compare(g, light, correct)

LevelSpec == LevelInit /\ [][LevelNext]_levelVars

-----------------------------------------------------------------------------
(* Properties *)

\* No operation makes the darker of two pixels the brighter one, whatever it rounds, as
\* long as boost has not taken one past the end of its range, where it becomes black
\* (libimgImage.cpp:5730-5950,490-506).
OrderKept ==
    ~overflown => \A p, q \in Pixels2 : before[p] <= before[q] => level[p] <= level[q]

\* No pixel is at the end of its range in the other light.
Unclipped == \A p \in Pixels2 : Luma(levelFormat, level[p]) + compared.light \in 0 .. 255

\* What a level can lose by being read, stored and read again in another format.
Rounding == 4

HighByte(f, diff) == IF f = "GREY16" THEN Shifted(diff, 8) ELSE diff

\* Without correction a scene differs from itself by the change of the light; with it a
\* scene that got brighter does not differ from itself, but for two images of 16 bits,
\* where it is the scene that got darker.  In the other direction the code takes the
\* change off on the wrong side and doubles the difference (libimgImage.cpp:7679-7685,7700,7786).
CorrectionHolds ==
    compared # NothingCompared /\ Unclipped =>
        LET rightWay == IF levelFormat = "GREY16" /\ compared.with = "GREY16" THEN -1 ELSE 1
        IN  \A p \in Pixels2 :
                LET diff == HighByte(levelFormat, compared.diff[p])
                IN  /\ ~compared.correct => Magnitude(diff - Magnitude(compared.light)) <= Rounding
                    /\ compared.correct /\ compared.light * rightWay >= Rounding => diff <= Rounding

\* Levels keep their order and a change of the light is known for what it is
\* (libimgImage.cpp:5730-5950,7660-8384).
LevelsHold == OrderKept /\ CorrectionHolds
=============================================================================
