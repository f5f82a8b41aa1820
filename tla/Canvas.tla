------------------------------- MODULE Canvas -------------------------------
(***************************************************************************)
(* What the drawing routines of Lab5 promise, by their names, parameters   *)
(* and comments: two pages of pixels, of which one is shown.  A call       *)
(* changes the pixels that it names on the page that is not shown, or, for *)
(* an image, on the one that is, and no other.  FrameBuffer has the bytes  *)
(* and addresses, and says which calls keep the promise.                   *)
(***************************************************************************)
EXTENDS Integers, Sequences

CONSTANTS
  Width, Height,
  Images,       \* functions from the positions in an image to colours
  Transparent,  \* the colour of the pixels of an image that are not drawn
  Lines         \* of each depth a line of pixels in memory

VARIABLES
  bytes,        \* how many bytes a pixel has
  one,          \* whether both pages are the same
  pages,        \* the colours of the pixels
  shown,        \* the page on the screen
  seen,         \* the colour that was read last
  call          \* what was called last, with its arguments

Pixel == (0 .. Width - 1) \X (0 .. Height - 1)

\* The part of a colour that a pixel shows
Shade(c) == SubSeq(c, 1, IF bytes = 2 THEN 2 ELSE 3)

Drawn == IF one THEN 0 ELSE 1 - shown
Shown == IF one THEN 0 ELSE shown

Painted(area, c) ==
  [pages EXCEPT ![Drawn] = [p \in Pixel |-> IF p \in area THEN Shade(c) ELSE @[p]]]

\* The pixels from a corner up to the opposite one, which is not painted.
Block(from, to) == (from[1] .. to[1] - 1) \X (from[2] .. to[2] - 1)

\* A place in an image that is drawn at a place of the page
Inside(p, at) == <<p[1] - at[1], p[2] - at[2]>>

\* The image with its first pixel at a place, of which the pixels of interest
\* are drawn.
Pasted(image, at, Drawable(_)) ==
  [pages EXCEPT ![Shown] = [p \in Pixel |->
     LET q == Inside(p, at)
     IN IF q \in DOMAIN image /\ Drawable(q) THEN Shade(image[q]) ELSE @[p]]]

\* Where the block comes to
Taken(from, to, by) == {<<p[1] + by[1], p[2] + by[2]>> : p \in Block(from, to)}

\* The block at its new place, and the colour where it has left.
Moved(from, to, by, c) ==
  [pages EXCEPT ![Drawn] = [p \in Pixel |->
     IF p \in Taken(from, to, by) THEN @[Inside(p, by)]
     ELSE IF p \in Block(from, to) THEN Shade(c) ELSE @[p]]]

\* A pixel of 16 bits as the number that it is, and its channels
Number(p) == p[1] + 256 * p[2]

\* Red, green and blue of a pixel of a line, with eight bits each
Channels(p, depth) ==
  IF depth = 16
  THEN <<8 * (Number(p) \div 2048), 4 * ((Number(p) \div 32) % 64), 8 * (Number(p) % 32)>>
  ELSE SubSeq(p, 1, 3)

\* A pixel of a line with the depth of the page
Converted(p, depth) ==
  LET rgb == Channels(p, depth)
      number == (rgb[1] \div 8) * 2048 + (rgb[2] \div 4) * 32 + rgb[3] \div 8
  IN IF bytes = 2 THEN <<number % 256, number \div 256>> ELSE rgb

\* n pixels in a row
Segment(at, n) == (at[1] .. at[1] + n - 1) \X {at[2]}

Copied(at, n, depth) ==
  [pages EXCEPT ![Drawn] = [p \in Pixel |->
     IF p \in Segment(at, n) THEN Converted(Lines[depth][p[1] - at[1] + 1], depth) ELSE @[p]]]

Result(k) ==
  CASE k.op = "pixel" -> Painted({k.from}, k.c)
    [] k.op \in {"block", "line"} -> Painted(Block(k.from, k.to), k.c)
    [] k.op = "erase" -> Painted(Pixel, k.c)
    [] k.op = "move" -> Moved(k.from, k.to, k.by, k.c)
    [] k.op = "copy" -> Copied(k.from, k.n, k.depth)
    [] k.op = "reserve" -> [pages EXCEPT ![Drawn] = pages[Shown]]
    [] k.op = "show" -> Pasted(Images[k.n], k.from, LAMBDA q : Images[k.n][q] # Transparent)
    [] k.op = "fit" -> Pasted(Images[k.n], k.from, LAMBDA q : q[1] < k.to[1] /\ q[2] < k.to[2])
    [] k.op = "blit" -> Pasted(Images[k.n], k.from, LAMBDA q : TRUE)
    [] OTHER -> pages

Init == shown = 0 /\ call.op = "none"

Step ==
  /\ UNCHANGED <<bytes, one>>
  /\ seen' = IF call'.op \in {"get", "read"} THEN pages[Drawn][call'.from] ELSE seen
  /\ pages' = Result(call')
  /\ shown' = IF call'.op = "flip" THEN 1 - shown ELSE shown

\* The pixels that a call names
Named(k) ==
  CASE k.op = "pixel" -> {k.from}
    [] k.op \in {"block", "line"} -> Block(k.from, k.to)
    [] k.op \in {"erase", "reserve"} -> Pixel
    [] k.op = "move" -> Block(k.from, k.to) \cup Taken(k.from, k.to, k.by)
    [] k.op = "copy" -> Segment(k.from, k.n)
    [] k.op \in {"show", "fit", "blit"} -> {p \in Pixel : Inside(p, k.from) \in DOMAIN Images[k.n]}
    [] OTHER -> {}

\* Whatever a call does to the pixels that it names, it leaves the others alone.
Confined ==
  \A page \in DOMAIN pages, p \in Pixel :
    \/ page = (IF call'.op \in {"show", "fit", "blit"} THEN Shown ELSE Drawn) /\ p \in Named(call')
    \/ pages'[page][p] = pages[page][p]
=============================================================================
