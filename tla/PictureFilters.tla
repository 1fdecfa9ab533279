---------------------------- MODULE PictureFilters ----------------------------
(***************************************************************************)
(* The filters of Image that look at a pixel's neighbours: despeckleFilter, *)
(* which works in place, and highlightEdges.  A picture is the set of its   *)
(* pixels that are not black.                                               *)
(***************************************************************************)
EXTENDS Integers, Sequences, FiniteSets, FiniteSetsExt, SequencesExt

CONSTANTS
    FilteredWidth, FilteredHeight,
    FilterSizes,    \* bound: the sizes of the despeckle filter
    FilterMasks     \* bound: the masks edges are looked for in

Canvas == (0 .. FilteredWidth - 1) \X (0 .. FilteredHeight - 1)

ASSUME FilterAssumption ==
    /\ {FilteredWidth, FilteredHeight} \subseteq Nat \ {0}
    /\ FilterSizes \subseteq Nat /\ FilterMasks \subseteq SUBSET Canvas
    \* A polygon has a pixel in each of its rows.
    /\ \A mask \in FilterMasks : \A p, q \in mask : \A y \in p[2] .. q[2] : \E r \in mask : r[2] = y

VARIABLES
    lit,        \* the pixels that are not black
    edges,      \* the pixels of the picture with the edges
    filtered    \* what was done: [by, size or mask, of]

filterVars == << lit, edges, filtered >>

FilterInit ==
    /\ lit \in SUBSET Canvas
    /\ edges = {}
    /\ filtered = [by |-> "nothing"]

-----------------------------------------------------------------------------
(* despeckleFilter *)

\* The pixels in the order of the loops.
Scan == [k \in 1 .. FilteredWidth * FilteredHeight |-> << (k - 1) % FilteredWidth, (k - 1) \div FilteredWidth >>]

\* Where the blocks begin that hold a pixel, relative to it, along one side.
BlocksFrom(at, reach, size) ==
    (IF at >= reach THEN -reach ELSE -at) .. (IF at <= size - 1 - reach THEN 0 ELSE size - 1 - at - reach)

InBlock(left, x, y, filterSize) ==
    \E dX \in BlocksFrom(x, filterSize - 1, FilteredWidth), dY \in BlocksFrom(y, filterSize - 1, FilteredHeight) :
        \A dX2, dY2 \in 0 .. filterSize - 1 : << x + dX + dX2, y + dY + dY2 >> \in left

\* Pixel after pixel; those that were blackened count as black for the next.
Despeckled(picture, filterSize) ==
    FoldLeft(LAMBDA left, p : IF p \in left /\ ~InBlock(left, p[1], p[2], filterSize) THEN left \ {p} ELSE left,
             picture, Scan)

Despeckle(filterSize) ==
    /\ filtered.by = "nothing"
    /\ lit' = IF filterSize < 1 THEN lit ELSE Despeckled(lit, filterSize)
    /\ filtered' = [by |-> "despeckle", size |-> filterSize, of |-> lit]
    /\ UNCHANGED edges

-----------------------------------------------------------------------------
(* highlightEdges, through a mask.  The ranges of a mask's rows are those of    *)
(* PolyMask: a row of one pixel has none.                                       *)

RowOf(mask, y) == { p[1] : p \in { q \in mask : q[2] = y } }
LineLoX(mask, y) == Min(RowOf(mask, y))
LineHiX(mask, y) == IF Cardinality(RowOf(mask, y)) > 1 THEN Max(RowOf(mask, y)) ELSE -1
LoY(mask) == Min({ p[2] : p \in mask })
HiY(mask) == Max({ p[2] : p \in mask })

IsEdge(mask, x, y) ==
    LET Off(x2, y2) == << x2, y2 >> \notin mask \/ << x2, y2 >> \notin lit
    IN  /\ << x, y >> \in mask /\ << x, y >> \in lit
        /\ \/ x = LineLoX(mask, y) \/ Off(x - 1, y)
           \/ x = LineHiX(mask, y) \/ Off(x + 1, y)
           \/ y = LoY(mask) \/ Off(x, y - 1)
           \/ y = HiY(mask) \/ Off(x, y + 1)

HighlightEdges(mask) ==
    /\ filtered.by = "nothing"
    /\ edges' = { p \in Canvas : /\ p[2] \in LoY(mask) .. HiY(mask)
                                 /\ p[1] \in LineLoX(mask, p[2]) .. LineHiX(mask, p[2]) /\ IsEdge(mask, p[1], p[2]) }
    /\ filtered' = [by |-> "edges", mask |-> mask, of |-> lit]
    /\ UNCHANGED lit

FilterNext ==
    \/ \E filterSize \in FilterSizes : Despeckle(filterSize)
    \/ \E mask \in FilterMasks : HighlightEdges(mask)

FilterSpec == FilterInit /\ [][FilterNext]_filterVars

-----------------------------------------------------------------------------
(* Properties *)

SquareAt(x, y, size) == { << x + dX, y + dY >> : dX, dY \in 0 .. size - 1 }

\* Though it works in place the despeckle filter leaves exactly the squares of its size
\* that were lit before (an opening), and does so up to the border of the picture.  The
\* edges are the lit pixels that have a neighbour which is dark or outside of the mask,
\* but for rows of one pixel (libimgImage.cpp:2795-2808,6392-6510).
FiltersAgree ==
    /\ filtered.by = "despeckle" /\ filtered.size > 0 =>
           lit = UNION { b \in { SquareAt(p[1], p[2], filtered.size) : p \in Canvas } : b \subseteq filtered.of }
    /\ filtered.by = "edges" =>
           LET inside == filtered.of \cap filtered.mask
           IN  edges = { p \in inside :
                           /\ Cardinality(RowOf(filtered.mask, p[2])) > 1
                           /\ { << p[1] + d, p[2] >> : d \in {-1, 1} } \cup { << p[1], p[2] + d >> : d \in {-1, 1} } \notin SUBSET inside }
=============================================================================
