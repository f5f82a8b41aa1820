----------------------------- MODULE AlphaText ------------------------------
(***************************************************************************)
(* Text with soft edges: vid_print_string_alpha lays a string down one     *)
(* character at a time, and mixes the colour of the text into the pixels   *)
(* below as the alpha map of each character says.  A pixel is a number     *)
(* with the bits of its three channels: the fourth byte that               *)
(* vid_print_char_alpha writes to a frame of 32 bits is not initialized,   *)
(* but nothing shows it or reads it back.                                  *)
(***************************************************************************)
EXTENDS Integers, Sequences, FiniteSets, FiniteSetsExt

CONSTANTS
  Width, Height,      \* of the frame
  Font,               \* of each character the width, the height and the alpha map
  Strings,            \* the strings that are printed
  Colours,            \* of each depth those of text and backgrounds, in a sequence
  Offsets             \* where strings begin

CLEAR_BACKGROUND == -1

TAB_SPACING == 2

Printable == DOMAIN Font

VARIABLES
  color_depth,        \* of the display
  frame,              \* the colours of the pixels
  call,               \* the arguments of vid_print_string_alpha
  before,             \* the frame when it was called
  i, horiz_offset, vert_offset,
  length              \* what vid_string_pixel_length_alpha returns, or -1

vars == <<color_depth, frame, call, before, i, horiz_offset, vert_offset, length>>

Palette == {Colours[color_depth][k] : k \in DOMAIN Colours[color_depth]}

Pixels == (0 .. Width - 1) \X (0 .. Height - 1)

-----------------------------------------------------------------------------
(* Colours *)

\* The first bit and the size of each channel, red first
Channels == IF color_depth = 16 THEN <<<<11, 5>>, <<5, 6>>, <<0, 5>>>> ELSE <<<<16, 8>>, <<8, 8>>, <<0, 8>>>>

seperate_color_channels(color) == [k \in 1 .. 3 |-> (color \div 2^Channels[k][1]) % 2^Channels[k][2]]

merge_color_channels(rgb) == (rgb[1] * 2^Channels[1][1]) + (rgb[2] * 2^Channels[2][1]) + (rgb[3] * 2^Channels[3][1])

\* Mutant: the division comes before the sum.
alpha_rounded(text, below, alpha) ==
  [k \in 1 .. 3 |-> text[k] * (alpha \div 255) + below[k] * ((255 - alpha) \div 255)]

\* The channels of the text and of what is below it, mixed and clipped
alpha_blending(text, below, alpha) ==
  [k \in 1 .. 3 |-> Min({(text[k] * alpha + below[k] * (255 - alpha)) \div 255, 2^Channels[k][2] - 1})]

-----------------------------------------------------------------------------
(* Printing *)

Cell(c, x, y) == (x .. x + Font[c].bounds_width - 1) \X (y .. y + Font[c].bounds_height - 1)

vid_print_char_alpha(f, x, y, color, c, background) ==
  [p \in Pixels |->
     IF p \notin Cell(c, x, y) THEN f[p]
     ELSE LET alpha == Font[c].char_alpha_map[(p[2] - y) * Font[c].bounds_width + p[1] - x + 1]
              below == IF background = CLEAR_BACKGROUND THEN f[p] ELSE background
          IN merge_color_channels(alpha_blending(seperate_color_channels(color), seperate_color_channels(below), alpha))]

\* A box the size of "-" in the colour of the background, unless that is clear
Blank(f, x) ==
  IF call.background = CLEAR_BACKGROUND THEN f
  ELSE vid_print_char_alpha(f, x, vert_offset, call.background, "-", call.background)

Dash == Font["-"].bounds_width

Printing == call.string # <<>> /\ i <= Len(call.string)

Newline ==
  /\ Printing /\ call.string[i] = "newline"
  /\ horiz_offset' = call.at[1]
  /\ vert_offset' = vert_offset + Font["|"].bounds_height
  /\ i' = i + 1
  /\ UNCHANGED <<color_depth, frame, call, before, length>>

Space ==
  /\ Printing /\ call.string[i] = "space"
  /\ frame' = Blank(frame, horiz_offset)
  /\ horiz_offset' = horiz_offset + Dash
  /\ i' = i + 1
  /\ UNCHANGED <<color_depth, call, before, vert_offset, length>>

Tab ==
  /\ Printing /\ call.string[i] = "tab"
  /\ frame' = Blank(Blank(frame, horiz_offset), horiz_offset + Dash)
  /\ horiz_offset' = horiz_offset + TAB_SPACING * Dash
  /\ i' = i + 1
  /\ UNCHANGED <<color_depth, call, before, vert_offset, length>>

Character ==
  /\ Printing /\ call.string[i] \in Printable
  /\ frame' = vid_print_char_alpha(frame, horiz_offset, vert_offset, call.color, call.string[i], call.background)
  /\ horiz_offset' = horiz_offset + Font[call.string[i]].bounds_width
  /\ i' = i + 1
  /\ UNCHANGED <<color_depth, call, before, vert_offset, length>>

-----------------------------------------------------------------------------
(* The length of a string *)

\* A tab and a newline are looked up before the first character of the font,
\* where the memory holds anything.
CharWidth(c, stray) == IF c = "space" THEN Dash ELSE IF c \in Printable THEN Font[c].bounds_width ELSE stray

vid_string_pixel_length_alpha ==
  /\ call.string # <<>> /\ length = -1
  /\ \E stray \in {0, 255} :
       length' = MapThenSumSet(LAMBDA k : CharWidth(call.string[k], stray), DOMAIN call.string)
  /\ UNCHANGED <<color_depth, frame, call, before, i, horiz_offset, vert_offset>>

-----------------------------------------------------------------------------
(* The calls stay inside the frame, as those of Lab5 do. *)

vid_print_string_alpha ==
  /\ call.string = <<>>
  /\ \E s \in Strings, color \in Palette, background \in Palette \cup {CLEAR_BACKGROUND}, at \in Offsets :
       /\ call' = [string |-> s, color |-> color, background |-> background, at |-> at]
       /\ horiz_offset' = at[1] /\ vert_offset' = at[2]
  /\ i' = 1
  /\ before' = frame
  /\ UNCHANGED <<color_depth, frame, length>>

Init ==
  /\ frame = [p \in Pixels |-> Colours[color_depth][((p[1] + p[2]) % Len(Colours[color_depth])) + 1]]
  /\ call = [string |-> <<>>, color |-> 0, background |-> 0, at |-> <<0, 0>>]
  /\ before = frame
  /\ i = 1 /\ horiz_offset = 0 /\ vert_offset = 0
  /\ length = -1

Next == vid_print_string_alpha \/ Newline \/ Space \/ Tab \/ Character \/ vid_string_pixel_length_alpha

Spec == Init /\ [][Next]_vars

-----------------------------------------------------------------------------
(* What a text must look like.  Where each character belongs is said with  *)
(* the whole string in view: a line begins at the offset of the call, and  *)
(* each character stands behind those before it in its line.               *)

Newlines(k) == {n \in 1 .. k - 1 : call.string[n] = "newline"}

Advance(c) ==
  CASE c = "space" -> Font["-"].bounds_width
    [] c = "tab" -> 2 * Font["-"].bounds_width
    [] OTHER -> Font[c].bounds_width

Left(k) == call.at[1] + MapThenSumSet(LAMBDA n : Advance(call.string[n]), (Max({0} \cup Newlines(k)) + 1) .. (k - 1))

Top(k) == call.at[2] + Cardinality(Newlines(k)) * Font["|"].bounds_height

\* The character that a pixel belongs to, or none
Owner(p) ==
  {k \in DOMAIN call.string :
     /\ call.string[k] # "newline"
     /\ p[1] - Left(k) \in 0 .. Advance(call.string[k]) - 1
     /\ p[2] - Top(k) \in 0 .. Font["|"].bounds_height - 1}

AlphaAt(k, p) == Font[call.string[k]].char_alpha_map[(p[2] - Top(k)) * Font[call.string[k]].bounds_width + p[1] - Left(k) + 1]

Printed == call.string # <<>> /\ i = Len(call.string) + 1

Below(p) == IF call.background = CLEAR_BACKGROUND THEN before[p] ELSE call.background

\* Where a character is solid the text has its colour, where it has nothing
\* and in spaces and tabs the background shows, and no other pixel changes.
InkAndPaper ==
  Printed => \A p \in Pixels :
    /\ Owner(p) = {} => frame[p] = before[p]
    /\ \A k \in Owner(p) :
         IF call.string[k] \in {"space", "tab"} THEN frame[p] = Below(p)
         ELSE /\ AlphaAt(k, p) = 255 => frame[p] = call.color
              /\ AlphaAt(k, p) = 0 => frame[p] = Below(p)

\* At the edges each channel lies between that of the text and that of what is
\* below, and the more alpha there is the closer it is to the text.
EdgesBetween ==
  Printed => \A p, q \in Pixels : \A k \in Owner(p), n \in Owner(q) :
    /\ {call.string[k], call.string[n]} \subseteq Printable
    /\ Below(p) = Below(q) /\ AlphaAt(k, p) <= AlphaAt(n, q)
    => \A c \in 1 .. 3 :
         LET text == seperate_color_channels(call.color)[c]
             paper == seperate_color_channels(Below(p))[c]
             light == seperate_color_channels(frame[p])[c]
             strong == seperate_color_channels(frame[q])[c]
         IN IF text >= paper THEN paper <= light /\ light <= strong /\ strong <= text
            ELSE text <= strong /\ strong <= light /\ light <= paper

\* Each character begins where those before it say.
InPlace ==
  Printing => horiz_offset = Left(i) /\ vert_offset = Top(i)

Plain == \A k \in DOMAIN call.string : call.string[k] \notin {"tab", "newline"}

\* The length of a string of one line without tabs is how far its end is from
\* its beginning on the screen.
LengthIsAdvance ==
  (Printed /\ length # -1 /\ Plain) => length = horiz_offset - call.at[1]

\* Each character stands in its place in the colours that are asked for.
TextBlends == InkAndPaper /\ EdgesBetween /\ InPlace /\ LengthIsAdvance
=============================================================================
