---------------------------- MODULE FrameBuffer -----------------------------
(***************************************************************************)
(* The frames of the video output in memory and the routines that write    *)
(* to them: vip_fr.c, the parts of simple_graphics.c below the shapes, and *)
(* the images of draw_gimps.c.  A pixel is as many bytes as the depth of   *)
(* the display says, the lowest byte first, row after row.                 *)
(***************************************************************************)
EXTENDS Integers, Sequences, SequencesExt, TLC

CONSTANTS
  Width, Height,
  Frame0_Base,
  Memory,                    \* how many bytes the memory has
  Colour, Grey,              \* a colour of four different bytes, and one of equal ones
  Images, Transparent,       \* as in Canvas
  Lines,                     \* of each depth a line of pixels in memory
  HeapBytes,                 \* what malloc may leave in the bytes that it gives
  Distances,                 \* how far blocks are moved
  MaxCalls                   \* how many operations are called

VARIABLES
  color_depth, Frame1_Base,  \* fields of the display, given to VIPFR_Init
  mem,
  DisplayFrame,
  value,        \* what was read last
  call,
  calls         \* the calls that are left

display == <<color_depth, Frame1_Base>>
vars == <<display, mem, DisplayFrame, value, call, calls>>

NoCall == [op |-> "none", from |-> <<0, 0>>, to |-> <<0, 0>>, by |-> <<0, 0>>, c |-> <<0, 0, 0, 0>>, n |-> 0, depth |-> 0]

\* The operation is called with those arguments that it takes.
Called(op, arguments) ==
  /\ calls > 0
  /\ calls' = calls - 1
  /\ call' = [op |-> op] @@ arguments @@ NoCall
  /\ UNCHANGED display

\* bytes_per_pixel
Bytes == color_depth \div 8

Size == Width * Height * Bytes

GetDrawFrame == IF DisplayFrame = 0 THEN Frame1_Base ELSE Frame0_Base

ShownFrame == IF DisplayFrame = 0 THEN Frame0_Base ELSE Frame1_Base

Address(x, y) == GetDrawFrame + y * Width * Bytes + x * Bytes

\* A sequence of bytes in the memory from an address on
Written(m, address, bytes) ==
  [a \in DOMAIN m |-> IF a \in address .. address + Len(bytes) - 1 THEN bytes[a - address + 1] ELSE m[a]]

\* Mutant: the line is filled with words.
LineOfWords(n, c) == [i \in 1 .. n * Bytes |-> c[((i - 1) % 4) + 1]]

\* A line of n pixels of one colour
Line(n, c) == [i \in 1 .. n * Bytes |-> c[((i - 1) % Bytes) + 1]]

-----------------------------------------------------------------------------
(* The operations *)

Put(m, x, y, c) == Written(m, Address(x, y), SubSeq(c, 1, Bytes))

SetPixel(x, y, c) ==
  /\ Called("pixel", [from |-> <<x, y>>, c |-> c])
  /\ mem' = Put(mem, x, y, c)
  /\ UNCHANGED <<DisplayFrame, value>>

\* The rows that are painted: for (i = Vstart; i < Vend; i++)
Rows(y1, y2) == y1 .. y2 - 1

PaintBlock(x1, y1, x2, y2, c) ==
  /\ Called("block", [from |-> <<x1, y1>>, to |-> <<x2, y2>>, c |-> c])
  /\ mem' = FoldLeft(LAMBDA m, y : Written(m, Address(x1, y), Line(x2 - x1, c)), mem, SetToSeq(Rows(y1, y2)))
  /\ UNCHANGED <<DisplayFrame, value>>

HorizLine(x1, x2, y, c) ==
  LET left == IF x1 > x2 THEN x2 ELSE x1
      right == IF x1 > x2 THEN x1 ELSE x2
  IN /\ Called("line", [from |-> <<left, y>>, to |-> <<right, y + 1>>, c |-> c])
     /\ mem' = Written(mem, Address(left, y), Line(right - left, c))
     /\ UNCHANGED <<DisplayFrame, value>>

\* vid_get_pixel takes two bytes for a pixel, whatever the depth is.
Get(m, x, y) ==
  LET a == GetDrawFrame + y * Width * 2 + x * 2
  IN <<m[a], m[a + 1]>>

GetPixel(x, y) ==
  /\ Called("get", [from |-> <<x, y>>])
  /\ value' = Get(mem, x, y)
  /\ UNCHANGED <<mem, DisplayFrame>>

\* read_from_frame knows the depth and leaves out the fourth byte.
ReadFromFrame(x, y) ==
  /\ Called("read", [from |-> <<x, y>>])
  /\ value' = [i \in 1 .. IF Bytes = 2 THEN 2 ELSE 3 |-> mem[Address(x, y) + i - 1]]
  /\ UNCHANGED <<mem, DisplayFrame>>

\* The block has left the pixel, so that it is filled.
Left(x, y, xend, yend, dx, dy) == x >= xend + dx \/ y >= yend + dy

\* vid_get_pixel returns a short, which is extended to the colour.
Extended(bytes) ==
  LET sign == IF bytes[2] >= 128 THEN 255 ELSE 0
  IN bytes \o <<sign, sign>>

\* A block is moved pixel by pixel; to the right or down it is not moved at all.
MoveBlock(x1, y1, x2, y2, dx, dy, c) ==
  LET places == [i \in 1 .. (x2 - x1) * (y2 - y1) |-> <<x1 + ((i - 1) % (x2 - x1)), y1 + ((i - 1) \div (x2 - x1))>>]
      OnePixel(m, p) ==
        LET moved == Put(m, p[1] + dx, p[2] + dy, Extended(Get(m, p[1], p[2])))
        IN IF Left(p[1], p[2], x2, y2, dx, dy) THEN Put(moved, p[1], p[2], c) ELSE moved
  IN /\ Called("move", [from |-> <<x1, y1>>, to |-> <<x2, y2>>, by |-> <<dx, dy>>, c |-> c])
     /\ mem' = IF dx <= 0 /\ dy <= 0 THEN FoldLeft(OnePixel, mem, places) ELSE mem
     /\ UNCHANGED <<DisplayFrame, value>>

\* DRAW_EraseScreen sets every byte to the lowest one of the colour.
EraseScreen(c) ==
  /\ Called("erase", [c |-> c])
  /\ mem' = Written(mem, GetDrawFrame, [i \in 1 .. Size |-> c[1]])
  /\ UNCHANGED <<DisplayFrame, value>>

\* The images are words of 32 bits on every display, and go to the frame that is
\* shown.  An image is at hand with the colours that the copy leaves.
Pasted(image, x, y, Drawable(_)) ==
  LET word(a) == (a - ShownFrame) \div 4
      place(a) == <<(word(a) % Width) - x, (word(a) \div Width) - y>>
  IN [a \in DOMAIN mem |->
        IF a >= ShownFrame /\ place(a) \in DOMAIN image /\ Drawable(place(a))
        THEN image[place(a)][((a - ShownFrame) % 4) + 1] ELSE mem[a]]

Seen(c) == c # Transparent

ShowImage(n, x, y) ==
  /\ Called("show", [from |-> <<x, y>>, n |-> n])
  /\ mem' = Pasted(Images[n], x, y, LAMBDA q : Seen(Images[n][q]))
  /\ UNCHANGED <<DisplayFrame, value>>

\* Of a w * h picture one column and one row more are drawn.
FitImage(n, x, y, w, h) ==
  /\ Called("fit", [from |-> <<x, y>>, to |-> <<w, h>>, n |-> n])
  /\ mem' = Pasted(Images[n], x, y, LAMBDA q : q[2] <= h /\ q[1] <= w)
  /\ UNCHANGED <<DisplayFrame, value>>

NextFrame == (DisplayFrame + 1) % 2

ActiveDrawFrame ==
  /\ Called("flip", NoCall)
  /\ DisplayFrame' = NextFrame
  /\ UNCHANGED <<mem, value>>

ReserveBackground ==
  /\ Called("reserve", NoCall)
  /\ mem' = Written(mem, GetDrawFrame, [i \in 1 .. Size |-> mem[ShownFrame + i - 1]])
  /\ UNCHANGED <<DisplayFrame, value>>

\* DispIMAGE leaves the position out, and the fourth byte as the image has it.
BlitImage(n, x, y) ==
  /\ Called("blit", [from |-> <<x, y>>, n |-> n])
  /\ mem' = Pasted([q \in DOMAIN Images[n] |-> [Images[n][q] EXCEPT ![4] = 255]], 0, 0, LAMBDA q : TRUE)
  /\ UNCHANGED <<DisplayFrame, value>>

\* vid_color_convert24_16_m: five bits of red, six of green and five of blue
Reduced(rgb) ==
  <<(rgb[3] \div 8) + ((rgb[2] \div 4) % 8) * 32, (rgb[1] \div 8) * 8 + (rgb[2] \div 32)>>

\* vid_color_convert16_24, called with one byte of the line, which is extended:
\* its sign fills the five bits of red, and one bit of green is left.
Widened(byte) == <<IF byte >= 128 THEN 31 ELSE 0, (byte \div 32) % 2, byte % 32>>

\* The bytes that the routine sets of the n pixels that it copies.  From 24 to 16
\* bits the loop ends when it has read, not written, as many bytes as the line
\* has.  From 16 to 24 bits it goes on by bytes in the line that it reads, and by
\* six in the one that it writes, beyond the end of which nothing is modelled.
Prepared(n, depth) ==
  LET byte(i) == Lines[depth][(i \div (depth \div 8)) + 1][(i % (depth \div 8)) + 1]
  IN CASE depth = color_depth -> [i \in 0 .. n * Bytes - 1 |-> byte(i)]
       [] depth = 24 -> [i \in 0 .. 2 * ((2 * n + 2) \div 3) - 1 |-> Reduced(Lines[24][(i \div 2) + 1])[(i % 2) + 1]]
       [] OTHER -> [i \in {j \in 0 .. 3 * n - 1 : j % 6 < 3} |-> Widened(byte(i \div 6))[(i % 6) + 1]]

\* Lines and displays have 16 or 24 bits; otherwise nothing is copied.  What is
\* not set in the line that malloc gives is copied as it is.
CopyLine(x, y, n, depth) ==
  /\ Called("copy", [from |-> <<x, y>>, n |-> n, depth |-> depth])
  /\ IF {depth, color_depth} \subseteq {16, 24}
     THEN \E heap \in [(0 .. n * Bytes - 1) \ DOMAIN Prepared(n, depth) -> HeapBytes] :
            mem' = Written(mem, Address(x, y), [i \in 1 .. n * Bytes |-> (Prepared(n, depth) @@ heap)[i - 1]])
     ELSE mem' = mem
  /\ UNCHANGED <<DisplayFrame, value>>

-----------------------------------------------------------------------------

\* Every byte of the memory is another one, so that a byte at a wrong place shows.
Init ==
  /\ mem = [a \in 0 .. Memory - 1 |-> a]
  /\ DisplayFrame = 0 /\ value = <<>>
  /\ call = NoCall /\ calls = MaxCalls

X == 0 .. Width - 1
Y == 0 .. Height - 1

\* The blocks and images that lie inside the screen
Next ==
  \/ \E x \in X, y \in Y : GetPixel(x, y) \/ ReadFromFrame(x, y) \/ SetPixel(x, y, Colour)
  \/ \E x1 \in X, y1 \in Y : \E x2 \in x1 .. Width, y2 \in y1 .. Height : PaintBlock(x1, y1, x2, y2, Colour)
  \/ \E x1, x2 \in 0 .. Width, y \in Y : HorizLine(x1, x2, y, Colour)
  \/ \E x1 \in X, y1 \in Y : \E x2 \in x1 + 1 .. Width, y2 \in y1 + 1 .. Height :
       \E dx \in {d \in Distances : x1 + d >= 0 /\ x2 + d <= Width},
          dy \in {d \in Distances : y1 + d >= 0 /\ y2 + d <= Height} : MoveBlock(x1, y1, x2, y2, dx, dy, Colour)
  \/ \E c \in {Colour, Grey} : EraseScreen(c)
  \/ \E x \in X, y \in Y : \E n \in 1 .. Width - x, depth \in DOMAIN Lines : CopyLine(x, y, n, depth)
  \/ \E n \in DOMAIN Images, x \in X, y \in Y :
       /\ \A q \in DOMAIN Images[n] : x + q[1] \in X /\ y + q[2] \in Y
       /\ \/ ShowImage(n, x, y)
          \/ BlitImage(n, x, y)
          \/ \E w \in 0 .. Width, h \in 0 .. Height : FitImage(n, x, y, w, h)
  \/ ActiveDrawFrame
  \/ ReserveBackground

Spec == Init /\ [][Next]_vars

-----------------------------------------------------------------------------
(* What the frames must keep *)

\* The colours of the pixels of a frame.  The fourth byte of a pixel is none.
Picture(base) ==
  [p \in X \X Y |-> [i \in 1 .. IF Bytes = 2 THEN 2 ELSE 3 |-> mem[base + p[2] * Width * Bytes + p[1] * Bytes + i - 1]]]

OnePage == Frame0_Base = Frame1_Base

Pages == [f \in IF OnePage THEN {0} ELSE {0, 1} |-> Picture(IF f = 0 THEN Frame0_Base ELSE Frame1_Base)]

Promise == INSTANCE Canvas WITH
  bytes <- Bytes, one <- OnePage, pages <- Pages, shown <- DisplayFrame, seen <- value

\* The images need a display of 32 bits.
FitsDisplay(k) == k.op \in {"show", "fit", "blit"} => color_depth = 32

\* The calls that do what they are said to do.  The others are those that
\* deviate: a pixel is read, and so a block moved, in 16 bits only, and no block
\* to the right or down; the screen is erased with one byte; of lines with
\* another depth than the display at most two pixels are converted, and only from
\* 24 to 16 bits; an image that is to fit is given one column and one row more;
\* and one that is copied as a whole always goes to the corner.
KeepsPromise(k) ==
  /\ FitsDisplay(k)
  /\ k.op \in {"get", "move"} => color_depth = 16
  /\ k.op = "move" => k.by[1] <= 0 /\ k.by[2] <= 0
  /\ k.op = "erase" => \A i \in 2 .. Bytes : k.c[i] = k.c[1]
  /\ k.op = "copy" =>
       \/ k.depth = color_depth /\ color_depth # 32
       \/ k.depth = 24 /\ color_depth = 16 /\ k.n <= 2
  /\ k.op = "fit" => \A q \in DOMAIN Images[k.n] : q[1] # k.to[1] /\ q[2] # k.to[2]
  /\ k.op = "blit" => k.from = <<0, 0>>

\* The memory beside the two frames is as it was.
OutsideKept ==
  \A a \in DOMAIN mem :
    \/ a \in Frame0_Base .. Frame0_Base + Size - 1
    \/ a \in Frame1_Base .. Frame1_Base + Size - 1
    \/ mem'[a] = mem[a]

\* Every call that does not deviate paints the pixels that it is said to paint
\* with the colour that it is given, and leaves the other pixels of both frames
\* as they are; what is read is the colour of the pixel.  A call that deviates
\* still stays in its frame and in the pixels that it names, but for an image
\* that is copied as a whole.  Nothing is written beside the frames, but by an
\* image on a display that has not 32 bits.
ImplementsCanvas ==
  /\ Promise!Init
  /\ [][/\ KeepsPromise(call') => Promise!Step
        /\ FitsDisplay(call') => OutsideKept /\ (call'.op = "blit" \/ Promise!Confined)]_vars
=============================================================================
