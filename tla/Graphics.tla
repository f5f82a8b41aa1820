------------------------------ MODULE Graphics ------------------------------
(***************************************************************************)
(* The graphics library of Lab5: the pixels of the frames, the shapes and  *)
(* the text with soft edges.  A program calls one routine after the other; *)
(* a behaviour is a series of calls of one part of the library, on a       *)
(* display of one depth.                                                   *)
(***************************************************************************)
EXTENDS Integers, Sequences, TLC

CONSTANTS
  FrameWidth, FrameHeight,      \* of the frames that the routines write to
  Frame0_Base, OtherBase, Memory,
  MaxCalls,
  TextWidth, TextHeight         \* of the frame that text is printed to

VARIABLES
  part,                         \* the part of the library that is called
  color_depth, Frame1_Base,     \* of the display
  mem, DisplayFrame, value, call, calls,
  shape, pixels,
  frame, text, before, i, horiz_offset, vert_offset, length

frameVars == <<mem, DisplayFrame, value, call, calls>>
shapeVars == <<shape, pixels>>
textVars == <<frame, text, before, i, horiz_offset, vert_offset, length>>
vars == <<part, color_depth, Frame1_Base, frameVars, shapeVars, textVars>>

Black == <<0, 0, 0, 0>>

\* An image of two pixels, the second of which is transparent, and one that is
\* two pixels high
Images == <<
  [q \in (0 .. 1) \X {0} |-> IF q[1] = 1 THEN Black ELSE <<221, 222, 223, 0>>],
  [q \in {0} \X (0 .. 1) |-> <<231 + q[2], 232, 233, 0>>]>>

\* Three pixels of two, of three and of four bytes
Lines ==
  16 :> <<<<101, 102>>, <<103, 104>>, <<105, 106>>>>
  @@ 24 :> <<<<201, 102, 103>>, <<104, 205, 106>>, <<107, 108, 209>>>>
  @@ 32 :> <<<<111, 112, 113, 0>>, <<114, 115, 116, 0>>, <<117, 118, 119, 0>>>>

\* Three characters of two lines, with solid, empty and soft pixels
Font ==
  "a" :> [bounds_width |-> 2, bounds_height |-> 2, char_alpha_map |-> <<0, 255, 128, 64>>]
  @@ "-" :> [bounds_width |-> 2, bounds_height |-> 2, char_alpha_map |-> <<255, 254, 0, 1>>]
  @@ "|" :> [bounds_width |-> 1, bounds_height |-> 2, char_alpha_map |-> <<255, 200>>]

Strings == {<<"a", "space", "|">>, <<"a", "newline", "|", "a">>, <<"|", "-", "a">>, <<"tab", "|">>}

\* White, the blue of a button and its complement, and three colours of 16 bits
TextColours == [depth \in {16, 24, 32} |-> IF depth = 16 THEN <<65535, 33808, 1234>> ELSE <<16777215, 26316, 16751923>>]

Frames == INSTANCE FrameBuffer WITH
  Width <- FrameWidth, Height <- FrameHeight, Transparent <- Black,
  Colour <- <<201, 202, 203, 204>>, Grey <- <<211, 211, 211, 211>>, HeapBytes <- {0, 255}, Distances <- -2 .. 1

Shapes == INSTANCE Shapes WITH
  Coord <- 0 .. 6 \cup {11}, Corner <- 0 .. 3, Centre <- {40, 45}, Bend <- 0 .. 4, Radius <- 0 .. 40, call <- shape

Text == INSTANCE AlphaText WITH
  Width <- TextWidth, Height <- TextHeight, Colours <- TextColours, Offsets <- {<<0, 0>>, <<1, 0>>}, call <- text

-----------------------------------------------------------------------------
\* The display of main has 32 bits and both frames at one address; VIPFR_Init
\* and the routines provide for other displays too.  Shapes are the same on
\* every display, and text of 24 bits is that of 32.
Init ==
  /\ part \in {"frames", "shapes", "text"}
  /\ color_depth \in {16, 24, 32} /\ Frame1_Base \in {Frame0_Base, OtherBase}
  /\ part = "shapes" => color_depth = 32
  /\ part = "text" => color_depth # 24
  /\ part # "frames" => Frame1_Base = Frame0_Base
  /\ Frames!Init
  /\ Shapes!Init
  /\ Text!Init

DrawInFrames == part = "frames" /\ Frames!Next /\ UNCHANGED <<part, shapeVars, textVars>>

DrawShape == part = "shapes" /\ Shapes!Next /\ UNCHANGED <<part, color_depth, Frame1_Base, frameVars, textVars>>

PrintText == part = "text" /\ Text!Next /\ UNCHANGED <<part, Frame1_Base, frameVars, shapeVars>>

Next == DrawInFrames \/ DrawShape \/ PrintText

Spec == Init /\ [][Next]_vars

-----------------------------------------------------------------------------
\* Every call of the routines that write to the frames paints the pixels that
\* it is said to paint with the colour that it is given, and leaves the other
\* pixels of both frames as they are; what is read is the colour of the pixel.
\* No address is in the row or in the frame beside the one that is meant,
\* whatever the depth of the display is and whether it has one frame or two.
\* This excepts the calls that KeepsPromise of FrameBuffer names, which do
\* something else; of these it says where they may do it.
ImplementsCanvas == Frames!ImplementsCanvas

\* A line has the pixels nearest to the ideal one and both of its ends, a box its
\* border or its area; circles and round boxes that are not filled are symmetric
\* and closed, circles keep to their radius, and both when filled have what
\* these enclose; a triangle has its corners, keeps to its edges and when filled
\* has no hole but beside the right one.  This excepts, pixel by pixel, what the
\* code does not draw: the right ends of horizontal lines and of the rows of
\* filled circles and round boxes, and the first and the last row of a filled
\* round box with a radius of one or two.
DrawsShapes == Shapes!DrawsShapes

\* Each character of a string stands behind those before it in its line; where
\* it is solid the text has its colour, where it is empty the background shows,
\* at the edges each channel lies between the two, and nothing else changes.
TextBlends == Text!TextBlends
=============================================================================
