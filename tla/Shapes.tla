------------------------------- MODULE Shapes -------------------------------
(***************************************************************************)
(* The drawing routines of simple_graphics.c: each is the set of pixels    *)
(* that it writes.  The colour, the depth of the display and the address   *)
(* of a pixel are in FrameBuffer.  A program draws one shape after the     *)
(* other; the state is the last call and its pixels.                       *)
(***************************************************************************)
EXTENDS Integers, FiniteSets

CONSTANTS
  Coord,        \* the coordinates of lines and boxes
  Corner,       \* those of triangles
  Centre,       \* those of the centres of circles
  Bend,         \* the radii of round corners
  Radius        \* those of circles

VARIABLES
  call,         \* the last call, without its colour and its display
  pixels        \* the pixels that it has written

vars == <<call, pixels>>

Abs(a) == IF a < 0 THEN -a ELSE a
Sign(a) == IF a < 0 THEN -1 ELSE 1
Least(S) == CHOOSE a \in S : \A b \in S : a <= b
Greatest(S) == CHOOSE a \in S : \A b \in S : a >= b

\* Division of C, which rounds towards zero.
Quotient(a, b) == Sign(a) * (Abs(a) \div b)

\* The sign of the decision variable of Bresenham's algorithm.
Turn(P, short, long) == P > 0

\* The points of a line, where i steps go along the longer side.
Bresenham(x0, y0, x1, y1) ==
  LET dx == Abs(x1 - x0)
      dy == Abs(y1 - y0)
      long == IF dx >= dy THEN dx ELSE dy
      short == IF dx >= dy THEN dy ELSE dx
      at[i \in 0 .. long] ==
        IF i = 0 THEN [x |-> x0, y |-> y0, P |-> 2 * short - long]
        ELSE LET s == at[i - 1]
                 turn == Turn(s.P, short, long)
             IN [x |-> IF dx >= dy \/ turn THEN s.x + Sign(x1 - x0) ELSE s.x,
                 y |-> IF dx < dy \/ turn THEN s.y + Sign(y1 - y0) ELSE s.y,
                 P |-> s.P + 2 * short - (IF turn THEN 2 * long ELSE 0)]
  IN {<<at[i].x, at[i].y>> : i \in 0 .. long}

\* vid_draw_sloped_line, whose parameters are unsigned shorts.
SlopedLine(x0, y0, x1, y1) ==
  Bresenham(x0 % 65536, y0 % 65536, x1 % 65536, y1 % 65536)

\* vid_draw_horiz_line: the end on the right is not drawn.
HorizLine(x0, x1, y) ==
  LET lo == IF x0 > x1 THEN x1 ELSE x0
      hi == IF x0 > x1 THEN x0 ELSE x1
  IN (lo .. hi - 1) \X {y}

Line(x0, y0, x1, y1) ==
  IF y0 = y1 THEN HorizLine(x0, x1, y0) ELSE SlopedLine(x0, y0, x1, y1)

PaintBlock(x0, y0, x1, y1) == (x0 .. x1 - 1) \X (y0 .. y1 - 1)

Outline(x0, y0, x1, y1) ==
  Line(x0, y0, x0, y1 - 1) \cup Line(x1 - 1, y0, x1 - 1, y1 - 1)
    \cup Line(x0, y0, x1 - 1, y0) \cup Line(x0, y1 - 1, x1 - 1, y1 - 1)

Box(x0, y0, x1, y1, fill) == IF fill THEN PaintBlock(x0, y0, x1, y1) ELSE Outline(x0, y0, x1, y1)

\* The offsets x <= y of an eighth of a circle from the top.
RECURSIVE Arc(_, _, _)
Arc(x, y, p) ==
  {<<x, y>>} \cup
  IF x >= y THEN {}
  ELSE IF p < 0 THEN Arc(x + 1, y, p + 2 * (x + 1) + 1)
  ELSE Arc(x + 1, y - 1, p + 2 * (x - y + 2) + 1)

Eighth(radius) == Arc(0, radius, Quotient(5 - radius * 4, 4))

\* The two rows of an offset, when the centre is stretched to a box.
RowsOf(cy, y, height) == {cy - y, cy + y + height}

ColumnsOf(cx, x, width) == {cx - x, cx + x + width}

\* vid_round_corner_points without fill.  An offset with x > y draws nothing.
CornerPixels(cx, cy, x, y, width, height) ==
  LET at(a, b) == ColumnsOf(cx, a, width) \X RowsOf(cy, b, height)
  IN IF x = 0 THEN at(0, y) \cup at(y, 0)
     ELSE IF x = y THEN at(x, y)
     ELSE IF x < y THEN at(x, y) \cup at(y, x)
     ELSE {}

\* vid_round_corner_points with fill
CornerLines(cx, cy, x, y, width, height) ==
  LET across(a, b) == UNION {HorizLine(cx - a, cx + a + width, row) : row \in RowsOf(cy, b, height)}
  IN IF x = 0 THEN (ColumnsOf(cx, 0, width) \X RowsOf(cy, y, height)) \cup across(y, 0)
     ELSE IF x = y THEN across(x, y)
     ELSE IF x < y THEN across(x, y) \cup across(y, x)
     ELSE {}

Corners(cx, cy, radius, width, height, fill) ==
  UNION {IF fill THEN CornerLines(cx, cy, d[1], d[2], width, height)
                 ELSE CornerPixels(cx, cy, d[1], d[2], width, height) : d \in Eighth(radius)}

Circle(cx, cy, radius, fill) == Corners(cx, cy, radius, 0, 0, fill)

\* A corner is never larger than half of the box.
Clamped(radius, width, height) == Least({radius, width \div 2, height \div 2})

RoundBox(x0, y0, x1, y1, radius, fill) ==
  LET r == Clamped(radius, x1 - x0, y1 - y0)
  IN Corners(x0 + r, y0 + r, r, x1 - x0 - 2 * r, y1 - y0 - 2 * r, fill)
     \cup IF fill THEN PaintBlock(x0, y0 + r, x1, y1 - r)
          ELSE Line(x0, y0 + r, x0, y1 - r) \cup Line(x1, y0 + r, x1, y1 - r)
               \cup Line(x0 + r, y0, x1 - r, y0) \cup Line(x0 + r, y1, x1 - r, y1)

\* Mutant: only the columns of the end points are swapped.
EdgeCrossed(a, b) == IF a[1] > b[1] THEN Bresenham(b[1], a[2], a[1], b[2]) ELSE Bresenham(a[1], a[2], b[1], b[2])

\* vid_bres_scan_edges always goes from left to right.
Edge(a, b) == IF a[1] > b[1] THEN Bresenham(b[1], b[2], a[1], a[2]) ELSE Bresenham(a[1], a[2], b[1], b[2])

\* The columns that the edges of a triangle have in a row.
SpanMap(a, b, c, y) ==
  {p[1] : p \in {q \in Edge(a, b) \cup Edge(b, c) \cup Edge(c, a) : q[2] = y}}

\* top_y .. bottom_y
TriangleRows(a, b, c) == Least({a[2], b[2], c[2]}) .. Greatest({a[2], b[2], c[2]})

TriangleOutline(a, b, c) ==
  Line(a[1], a[2], b[1], b[2]) \cup Line(b[1], b[2], c[1], c[2]) \cup Line(c[1], c[2], a[1], a[2])

Triangle(a, b, c, fill) ==
  TriangleOutline(a, b, c) \cup
  IF ~fill THEN {}
  ELSE UNION {LET span == SpanMap(a, b, c, y) IN HorizLine(Least(span), Greatest(span), y) :
                y \in TriangleRows(a, b, c)}

-----------------------------------------------------------------------------
Draw(c, drawn) == call' = c /\ pixels' = drawn

DrawLine == \E x0, y0, x1, y1 \in Coord :
  Draw([routine |-> "line", x0 |-> x0, y0 |-> y0, x1 |-> x1, y1 |-> y1], Line(x0, y0, x1, y1))

DrawBox == \E x0, y0, x1, y1 \in Coord, fill \in BOOLEAN :
  /\ x0 < x1 /\ y0 < y1
  /\ Draw([routine |-> "box", x0 |-> x0, y0 |-> y0, x1 |-> x1, y1 |-> y1, fill |-> fill],
          Box(x0, y0, x1, y1, fill))

DrawCircle == \E cx, cy \in Centre, radius \in Radius, fill \in BOOLEAN :
  /\ cx >= radius /\ cy >= radius
  /\ Draw([routine |-> "circle", x0 |-> cx, y0 |-> cy, radius |-> radius, fill |-> fill],
          Circle(cx, cy, radius, fill))

\* The code puts the corners of a box into order first.
DrawRoundBox == \E x0, y0, x1, y1 \in Coord, radius \in Bend, fill \in BOOLEAN :
  /\ x0 <= x1 /\ y0 <= y1
  /\ Draw([routine |-> "roundbox", x0 |-> x0, y0 |-> y0, x1 |-> x1, y1 |-> y1, radius |-> radius, fill |-> fill],
          RoundBox(x0, y0, x1, y1, radius, fill))

DrawTriangle == \E a, b, c \in Corner \X Corner, fill \in BOOLEAN :
  Draw([routine |-> "triangle", a |-> a, b |-> b, c |-> c, fill |-> fill], Triangle(a, b, c, fill))

Init == call = [routine |-> "none"] /\ pixels = {}

\* One call is enough: a routine does not look at what is on the display.
Next ==
  /\ call.routine = "none"
  /\ DrawLine \/ DrawBox \/ DrawCircle \/ DrawRoundBox \/ DrawTriangle

Spec == Init /\ [][Next]_vars

-----------------------------------------------------------------------------
Is(routine) == call.routine = routine

\* A line has one pixel for each step along its longer side, at most half a
\* pixel away from the line between its two end points, and has both of these;
\* but a horizontal line lacks its end on the right.
LineIsNearest ==
  Is("line") =>
    LET dx == call.x1 - call.x0
        dy == call.y1 - call.y0
        missing == IF dy = 0 THEN {<<Greatest({call.x0, call.x1}), call.y0>>} ELSE {}
        whole == pixels \cup missing
    IN /\ missing \cap pixels = {}
       /\ {<<call.x0, call.y0>>, <<call.x1, call.y1>>} \subseteq whole
       /\ Cardinality(whole) = Greatest({Abs(dx), Abs(dy)}) + 1
       /\ \A p \in whole : 2 * Abs((p[1] - call.x0) * dy - (p[2] - call.y0) * dx) <= Greatest({Abs(dx), Abs(dy)})

\* A filled box has all of its pixels and one that is not filled those at its
\* border; but when this is a single row it lacks its end on the right.
BoxIsWhole ==
  Is("box") =>
    LET area == (call.x0 .. call.x1 - 1) \X (call.y0 .. call.y1 - 1)
        border == {p \in area : p[1] \in {call.x0, call.x1 - 1} \/ p[2] \in {call.y0, call.y1 - 1}}
        missing == IF call.y1 = call.y0 + 1 THEN {<<call.x1 - 1, call.y0>>} ELSE {}
    IN pixels = IF call.fill THEN area ELSE border \ missing

\* A circle that is not filled looks the same from the eight sides.
OutlineSymmetric ==
  (Is("circle") /\ ~call.fill) =>
    \A p \in pixels : LET x == p[1] - call.x0  y == p[2] - call.y0 IN
      (({call.x0 + x, call.x0 - x} \X {call.y0 + y, call.y0 - y})
         \cup ({call.x0 + y, call.x0 - y} \X {call.y0 + x, call.y0 - x})) \subseteq pixels

\* The square of the distance of a pixel from the centre.
Distance2(p) == (p[1] - call.x0) ^ 2 + (p[2] - call.y0) ^ 2

\* The pixels of a circle that is not filled are less than one pixel away from
\* the radius.
NearRadius ==
  (Is("circle") /\ ~call.fill /\ call.radius > 0) =>
    \A p \in pixels : (call.radius - 1) ^ 2 < Distance2(p) /\ Distance2(p) < (call.radius + 1) ^ 2

\* A round box that is not filled looks the same from its four sides, and what
\* it encloses is closed: a row between its ends begins and ends with a pixel.
BoxSymmetric ==
  (Is("roundbox") /\ ~call.fill) =>
    /\ \A p \in pixels :
         {p[1], call.x0 + call.x1 - p[1]} \X {p[2], call.y0 + call.y1 - p[2]} \subseteq pixels
    /\ \A y \in call.y0 .. call.y1 : \E x \in call.x0 .. call.x1 : <<x, y>> \in pixels
    /\ \A x \in call.x0 .. call.x1 : \E y \in call.y0 .. call.y1 : <<x, y>> \in pixels

\* The columns that a row of a shape has.
Columns(shape, y) == {p[1] : p \in {q \in shape : q[2] = y}}

\* From the first to the last pixel of each of its rows.
Enclosed(outline) ==
  UNION {(Least(Columns(outline, y)) .. Greatest(Columns(outline, y))) \X {y} : y \in {p[2] : p \in outline}}

\* The last pixels of the rows that have more than one.
RightEnds(outline) ==
  {p \in outline : p[1] = Greatest(Columns(outline, p[2])) /\ p[1] # Least(Columns(outline, p[2]))}

\* A filled circle is what the circle that is not filled encloses; but each row
\* lacks its end on the right.
FillsCircle ==
  (Is("circle") /\ call.fill) =>
    LET outline == Circle(call.x0, call.y0, call.radius, FALSE)
    IN pixels = Enclosed(outline) \ RightEnds(outline)

\* A filled round box is what the one that is not filled encloses; but each row
\* lacks its end on the right, and with a radius of one or two the first and the
\* last row have nothing between their ends.  These ends are drawn by themselves
\* as long as the radius is not more than two.
FillsRoundBox ==
  (Is("roundbox") /\ call.fill) =>
    LET outline == RoundBox(call.x0, call.y0, call.x1, call.y1, call.radius, FALSE)
        radius == Clamped(call.radius, call.x1 - call.x0, call.y1 - call.y0)
        first(p) == Least(Columns(outline, p[2]))
        last(p) == Greatest(Columns(outline, p[2]))
        outer(p) == p[2] \in {call.y0, call.y1} /\ radius <= 2
        missing(p) == IF outer(p) THEN radius # 0 /\ first(p) < p[1] /\ p[1] < last(p) ELSE p[1] = last(p)
    IN pixels = {p \in Enclosed(outline) : ~missing(p)}

\* A triangle has its three corners; but when they are in one row it lacks the
\* one on the right.
KeepsCorners ==
  Is("triangle") =>
    LET corners == {call.a, call.b, call.c}
        rows == {p[2] : p \in corners}
    IN corners \ pixels =
         IF Cardinality(rows) = 1 THEN {Greatest({p[1] : p \in corners})} \X rows ELSE {}

\* Twice the area of a triangle, negative when its corners turn the other way.
Area2(a, b, c) == (b[1] - a[1]) * (c[2] - a[2]) - (c[1] - a[1]) * (b[2] - a[2])

Row(y) == Columns(pixels, y)

\* Columns between the outermost ones of a row that are not drawn.
Holes(y) == (Least(Row(y)) .. Greatest(Row(y))) \ Row(y)

\* A pixel is at most half a pixel outside of the edge from a to b, when the
\* third corner is on the side that is given.
Within(p, a, b, side) ==
  LET dx == b[1] - a[1]
      dy == b[2] - a[2]
  IN 2 * side * (dx * (p[2] - a[2]) - dy * (p[1] - a[1])) >= -Greatest({Abs(dx), Abs(dy)})

\* A triangle that is not flat does not leave its edges; a filled one has a pixel
\* in each of its rows, and lacks at most the one beside the outline on the right.
FillsTriangle ==
  (Is("triangle") /\ Area2(call.a, call.b, call.c) # 0) =>
    LET side == Sign(Area2(call.a, call.b, call.c)) IN
      /\ \A p \in pixels :
           /\ Within(p, call.a, call.b, side)
           /\ Within(p, call.b, call.c, side)
           /\ Within(p, call.c, call.a, side)
      /\ call.fill => \A y \in TriangleRows(call.a, call.b, call.c) :
           Row(y) # {} /\ Holes(y) \subseteq {Greatest(Row(y)) - 1}

\* Each shape is the one that is asked for, pixel by pixel, but for the ends on
\* the right that horizontal lines lack, and with them filled circles and round
\* boxes, and for the rows of round boxes that are not filled.
DrawsShapes ==
  /\ LineIsNearest /\ BoxIsWhole
  /\ OutlineSymmetric /\ NearRadius /\ FillsCircle
  /\ BoxSymmetric /\ FillsRoundBox
  /\ KeepsCorners /\ FillsTriangle
=============================================================================
