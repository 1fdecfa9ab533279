------------------------------ MODULE PolyMask -------------------------------
(***************************************************************************)
(* The mask of a zone: PolyMask::createMaskImage fills the polygon row by   *)
(* row (Image::fill) and draws its outline over it; the constructor then    *)
(* takes from every row the range that loops over the mask go through.      *)
(*                                                                          *)
(* Image::fill keeps the edges that cross the current row sorted by x and   *)
(* paints from every first to every second of them.  The comparison of the  *)
(* sort cuts differences to whole pixels, so edges closer than that come in *)
(* any order.  Positions on an edge are kept in 1/Fine pixels, with Fine a  *)
(* multiple of every height of an edge, which makes the code's doubles exact.*)
(* The image, the crop to the polygon's extent and the density (always 1)   *)
(* are left out: the mask is the set of its pixels.                         *)
(***************************************************************************)
EXTENDS Integers, Sequences, FiniteSets, Functions

CONSTANTS
    Polygons,       \* sequences of coordinates << x, y >>, not all in one row
    Fine            \* bound: a common multiple of the heights of their edges

VARIABLES
    mPoly,
    phase,          \* of createMaskImage: "edges", "row", "step", "outline" or "done"
    rowY,           \* y
    globalEdges,    \* the edges below the current row
    activeEdges,    \* the edges that cross it
    maskImage       \* the white pixels

polyVars == << mPoly, phase, rowY, globalEdges, activeEdges, maskImage >>

Corner(poly) == 1 .. Len(poly)
Before(poly, j) == poly[IF j = 1 THEN Len(poly) ELSE j - 1]

Least(set)    == CHOOSE n \in set : \A k \in set : n <= k
Greatest(set) == CHOOSE n \in set : \A k \in set : n >= k
Abs(n) == IF n < 0 THEN -n ELSE n

\* round( n / d ) for n >= 0
Rounded(n, d) == (2 * n + d) \div (2 * d)

\* The edge that ends in corner j; x is where it crosses the current row.
Edge(poly, j) ==
    LET p1 == Before(poly, j)
        p2 == poly[j]
        top == IF p1[2] < p2[2] THEN p1 ELSE p2
    IN  [corner |-> j,
         minY |-> top[2],
         maxY |-> Greatest({p1[2], p2[2]}),
         x    |-> Fine * top[1],
         m    |-> IF p1[2] = p2[2] THEN 0 ELSE (Fine * (p2[1] - p1[1])) \div (p2[2] - p1[2])]

Edges(poly) == { Edge(poly, j) : j \in { k \in Corner(poly) : Before(poly, k)[2] # poly[k][2] } }

PolyInit ==
    /\ mPoly \in Polygons
    /\ phase = "edges"
    /\ globalEdges = Edges(mPoly)
    /\ activeEdges = {}
    /\ rowY = Least({ e.minY : e \in Edges(mPoly) })
    /\ maskImage = {}

-----------------------------------------------------------------------------
(* Image::fill( colour, polygon ) *)

MoveEdges ==
    /\ phase = "edges"
    /\ activeEdges' = activeEdges \cup { e \in globalEdges : e.minY = rowY }
    /\ globalEdges' = { e \in globalEdges : e.minY # rowY }
    /\ phase' = "row"
    /\ UNCHANGED << mPoly, rowY, maskImage >>

\* The orders qsort may leave: no edge before one that is a whole pixel to its left.
Sorted ==
    { order \in [1 .. Cardinality(activeEdges) -> activeEdges] :
        /\ IsInjective(order)
        /\ \A i \in 1 .. Cardinality(activeEdges) - 1 : order[i].x - order[i + 1].x < Fine }

Span(order, i) == Rounded(order[2 * i - 1].x, Fine) .. Rounded(order[2 * i].x, Fine)

FillRow ==
    /\ phase = "row"
    /\ \E order \in Sorted :
          maskImage' = maskImage \cup
              UNION { Span(order, i) \X {rowY} : i \in 1 .. Cardinality(activeEdges) \div 2 }
    /\ phase' = "step"
    /\ UNCHANGED << mPoly, rowY, globalEdges, activeEdges >>

StepRow ==
    /\ phase = "step"
    /\ rowY' = rowY + 1
    /\ activeEdges' = { [e EXCEPT !.x = @ + e.m] : e \in { f \in activeEdges : rowY + 1 < f.maxY } }
    /\ phase' = IF globalEdges \cup activeEdges' = {} THEN "outline" ELSE "edges"
    /\ UNCHANGED << mPoly, globalEdges, maskImage >>

-----------------------------------------------------------------------------
(* Image::outline( colour, polygon ) *)

\* The pixels of the line from p1 to p2, one for every row or column on the way.
Line(p1, p2) ==
    LET dx == p2[1] - p1[1]
        dy == p2[2] - p1[2]
        steps == Greatest({Abs(dx), Abs(dy)})
    IN  { << Rounded(p1[1] * steps + k * dx, steps), Rounded(p1[2] * steps + k * dy, steps) >> :
            k \in 0 .. steps - 1 }

\* Mutant: the outline is left out.
OutlineNothing == phase = "outline" /\ phase' = "done" /\ UNCHANGED << mPoly, rowY, globalEdges, activeEdges, maskImage >>

Outline ==
    /\ phase = "outline"
    /\ maskImage' = maskImage \cup UNION { Line(Before(mPoly, j), mPoly[j]) : j \in Corner(mPoly) }
    /\ phase' = "done"
    /\ UNCHANGED << mPoly, rowY, globalEdges, activeEdges >>

PolyNext == MoveEdges \/ FillRow \/ StepRow \/ Outline

PolySpec == PolyInit /\ [][PolyNext]_polyVars

-----------------------------------------------------------------------------
(* The constructor's ranges of the rows *)

InRow(row) == { p[1] : p \in { q \in maskImage : q[2] = row } }

\* hiX stays -1 in a row of one pixel: the second pixel is the first to set it.
rowRange(row) ==
    LET xs == InRow(row)
        lo == IF xs = {} THEN -1 ELSE Least(xs)
    IN  [loX |-> lo, hiX |-> IF xs \ {lo} = {} THEN -1 ELSE Greatest(xs)]

-----------------------------------------------------------------------------
(* Properties *)

\* A row is crossed by an even number of edges, whatever corners lie on it: the
\* second edge of a pair is always there (libimgImage.cpp:9878-9881).
EdgesPairUp == phase = "row" => Cardinality(activeEdges) % 2 = 0

Box == { << i, j >> : i \in 0 .. Greatest({ mPoly[k][1] : k \in Corner(mPoly) }),
                      j \in 0 .. Greatest({ mPoly[k][2] : k \in Corner(mPoly) }) }

\* The edges to the right of a point, by exact arithmetic, are odd in number.
Inside(point) ==
    LET Crossed(e) ==
            /\ e.minY <= point[2] /\ point[2] < e.maxY
            /\ Fine * point[1] < e.x + (point[2] - e.minY) * e.m
    IN  Cardinality({ e \in Edges(mPoly) : Crossed(e) }) % 2 = 1

\* Half a pixel at most, across or down, between a point and an edge.
OnEdge(point) ==
    \E j \in Corner(mPoly) :
        LET p1 == Before(mPoly, j)
            p2 == mPoly[j]
            dx == p2[1] - p1[1]
            dy == p2[2] - p1[2]
        IN  /\ \A c \in 1 .. 2 : point[c] \in Least({p1[c], p2[c]}) .. Greatest({p1[c], p2[c]})
            /\ 2 * Abs(dx * (point[2] - p1[2]) - dy * (point[1] - p1[1])) <= Greatest({Abs(dx), Abs(dy)})

\* The mask has every point inside the polygon, in the range of its row unless it is
\* alone there, and no other points than those on its edges: what the sort leaves in
\* any order and what rounding takes away is drawn again by the outline, and nothing
\* is painted beyond it; on the way edges pair up (libimgImage.cpp:137-165,184-192).
MaskIsPolygon ==
    /\ EdgesPairUp
    /\ phase = "done" => \A point \in Box :
           /\ Inside(point) =>
                 /\ point \in maskImage
                 /\ \/ point[1] \in rowRange(point[2]).loX .. rowRange(point[2]).hiX
                    \/ InRow(point[2]) = {point[1]}
           /\ point \in maskImage => Inside(point) \/ OnEdge(point)
=============================================================================
