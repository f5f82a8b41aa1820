--------------------------- MODULE DesktopProofs ---------------------------
(***************************************************************************)
(* Theorems about the two tasks of the desktop, for every size of the song *)
(* and of the buffers, every FIFO and all frequencies.                     *)
(***************************************************************************)
EXTENDS Desktop, FiniteSetTheorems, TLAPS

Songs == {"play", "pause", "stop"}
Speeds == {"back", "ford"}

\* Where task2 is when it works neither on a song button nor on a speed button.
Between == {"delay", "modulation", "signal", "image", "wait"}

TypeOK ==
  /\ key \in BOOLEAN
  /\ pc1 \in {"delay", "send"}
  /\ pc2 \in Between \cup Songs \cup Speeds
  /\ nth \in 1 .. 3
  /\ due \in BOOLEAN
  /\ flags \subseteq Songs
  /\ freq_reader \in Increment .. Maximum
  /\ fifo \in 0 .. FifoSize
  /\ sample \in 0 .. Muestras

\* What is drawn is what is selected, at every moment.
Drawn == \E image \in Songs \cup Speeds \cup {"none"} :
  /\ drawn = <<modulation, signal, image>>
  /\ pc2 \in Songs \cup Speeds => image = pc2

\* The first flags are those of the button, the others are not assigned yet.
Assigned ==
  /\ pc2 \in Songs => \A n \in 1 .. nth - 1 : FlagOrder[n] \in flags <=> FlagOrder[n] = pc2
  /\ pc2 \notin Songs =>
       /\ nth = 1
       /\ flags = {} \/ \E f \in Songs : flags = {f}
       /\ drawn[3] \in Songs => flags = {drawn[3]}

\* task1 sends only while the song plays, so that nobody stops it in between.
PlaysWhileSending == pc1 = "send" => "play" \in flags

\* The counter stands at a whole buffer, and what was written last is the sample
\* before the one that comes next, unless that one is the first of the song.
Multiple(address) == \E k \in Nat : address = k * Muestras

InSong ==
  /\ last \in Nat
  /\ address_counter \in 0 .. SizeSong
  /\ Multiple(address_counter)
  /\ pc1 = "delay" \/ sample = 0 => address_counter % SizeSong = 0 \/ last = address_counter - 1
  /\ pc1 = "send" /\ sample > 0 => last = (address_counter % SizeSong) + sample - 1

\* The inductive invariant.
DesktopInv ==
  TypeOK /\ Drawn /\ Assigned /\ PlaysWhileSending /\ InSong /\ StopRewinds /\ DividerBounded

-----------------------------------------------------------------------------
\* Arithmetic of the buffers and of the divider.

\* A larger divisor gives a smaller quotient.
LEMMA DivAntitone ==
  ASSUME NEW n \in Nat, NEW x \in Nat \ {0}, NEW y \in Nat \ {0}, x <= y
  PROVE  n \div y <= n \div x
  <1> DEFINE q == n \div y
             r == n \div x
  <1>1. q \in Nat /\ r \in Nat /\ y * q <= n /\ n < x * r + x
    OBVIOUS
  <1>2. x * q <= y * q
    BY <1>1
  <1>3. SUFFICES ASSUME r + 1 <= q PROVE FALSE
    BY <1>1
  <1>4. x * (r + 1) <= x * q
    BY <1>1, <1>3
  <1>5. QED
    BY <1>1, <1>2, <1>4

\* The divider of a frequency between the bounds is between theirs.
LEMMA DividerBetween ==
  ASSUME NEW freq \in Increment .. Maximum
  PROVE  Divider(freq) \in Divider(Maximum) .. Divider(Increment)
  <1>1. 2 * Increment \in Nat \ {0} /\ 2 * freq \in Nat \ {0} /\ 2 * Maximum \in Nat \ {0}
    BY AudioAssumption DEF Maximum
  <1>2. 2 * Increment <= 2 * freq /\ 2 * freq <= 2 * Maximum
    BY AudioAssumption DEF Maximum
  <1>3. ASSUME NEW n \in Nat
        PROVE  /\ n \div (2 * freq) <= n \div (2 * Increment)
               /\ n \div (2 * Maximum) <= n \div (2 * freq)
    BY <1>1, <1>2, DivAntitone
  <1>4. ASSUME NEW n \in Nat
        PROVE  (n \div (2 * freq)) - 1 \in ((n \div (2 * Maximum)) - 1) .. ((n \div (2 * Increment)) - 1)
    <2>1. n \div (2 * freq) \in Int /\ n \div (2 * Increment) \in Int /\ n \div (2 * Maximum) \in Int
      BY <1>1
    <2>2. \A a, b, c \in Int : c <= a /\ a <= b => a - 1 \in (c - 1) .. (b - 1)
      OBVIOUS
    <2>3. QED
      BY <1>3, <2>1, <2>2, Zenon
  <1>5. QED
    BY <1>4, SMT DEF Divider

\* A song holds whole buffers only.
LEMMA WholeBuffers == \E k \in Nat : SizeSong = k * Muestras
  <1>1. SizeSong = Muestras * (SizeSong \div Muestras) + (SizeSong % Muestras)
    BY SongAssumption
  <1>2. SizeSong \div Muestras \in Nat
    BY SongAssumption
  <1>3. \A k \in Nat : Muestras * k = k * Muestras /\ (Muestras * k) + 0 = Muestras * k
    BY SongAssumption
  <1>4. QED
    BY <1>1, <1>2, <1>3, SongAssumption, Zenon

\* There is a whole buffer behind every multiple that is not the last one.
LEMMA NextBuffer ==
  ASSUME NEW address \in Nat, Multiple(address), address < SizeSong
  PROVE  Multiple(address + Muestras) /\ address + Muestras <= SizeSong
  <1>1. PICK k \in Nat : address = k * Muestras
    BY DEF Multiple
  <1>2. PICK n \in Nat : SizeSong = n * Muestras
    BY WholeBuffers
  <1>3. address + Muestras = (k + 1) * Muestras
    BY <1>1, SongAssumption
  <1>4. k < n
    <2>1. SUFFICES ASSUME n <= k PROVE FALSE
      OBVIOUS
    <2>2. n * Muestras <= k * Muestras
      BY <2>1, SongAssumption
    <2>3. QED
      BY <1>1, <1>2, <2>2, SongAssumption
  <1>5. (k + 1) * Muestras <= n * Muestras
    BY <1>4, SongAssumption
  <1>6. QED
    BY <1>2, <1>3, <1>5 DEF Multiple

\* A song holds a buffer at least.
LEMMA BufferFits == Muestras <= SizeSong
  BY NextBuffer, SongAssumption DEF Multiple

\* The sample that task1 writes next follows the last one, or is the first one
\* of the song; it is a sample of the song.
LEMMA SendInSong ==
  ASSUME DesktopInv, Send
  PROVE  last' \in {last + 1, 0} /\ last' \in Nat /\ last' < SizeSong
  <1> DEFINE a == address_counter % SizeSong
  <1>1. sample \in 0 .. Muestras - 1 /\ last \in Nat /\ address_counter \in 0 .. SizeSong
    BY SongAssumption DEF DesktopInv, TypeOK, InSong, Send
  <1>2. last' = a + sample
    <2>1. sample % SizeSong = sample
      BY <1>1, BufferFits, SongAssumption
    <2>2. QED
      BY <2>1 DEF Send, Index
  <1>3. a \in Nat /\ (address_counter = SizeSong \/ a = address_counter)
    BY <1>1, SongAssumption
  <1>4. a + Muestras <= SizeSong
    <2>1. CASE address_counter = SizeSong
      <3>1. a = 0
        BY <2>1, SongAssumption
      <3>2. QED
        BY <3>1, BufferFits, SongAssumption
    <2>2. CASE address_counter # SizeSong
      BY <1>1, <1>3, <2>2, NextBuffer, SongAssumption DEF DesktopInv, InSong
    <2>3. QED
      BY <2>1, <2>2
  <1>5. a + sample \in {last + 1, 0}
    <2>1. CASE sample = 0
      BY <1>1, <1>3, <2>1, SongAssumption DEF DesktopInv, InSong
    <2>2. CASE sample > 0
      BY <1>1, <1>3, <2>2 DEF DesktopInv, InSong, Send
    <2>3. QED
      BY <1>1, <2>1, <2>2
  <1>6. QED
    BY <1>1, <1>2, <1>3, <1>4, <1>5, SongAssumption
-----------------------------------------------------------------------------
\* The inductive invariant, conjunct by conjunct.

\* Every image of the song is a button of the song or of its speed.
LEMMA ImageNames == \A i \in DOMAIN Images : Images[i].name \in Songs \cup Speeds
  BY DEF Images, Songs, Speeds

\* A speed button keeps the frequency between its bounds.
LEMMA SpeedBounded ==
  ASSUME NEW freq \in Increment .. Maximum
  PROVE  Slower(freq) \in Increment .. Maximum /\ Faster(freq) \in Increment .. Maximum
  BY AudioAssumption DEF Slower, Faster, Maximum

\* A speed button changes the frequency to another one between the bounds.
SpeedChange == \E image \in Speeds, freq \in Increment .. Maximum : Change(image, freq)

LEMMA ChangeIsSpeed ==
  ASSUME TypeOK, Change("back", Slower(freq_reader)) \/ Change("ford", Faster(freq_reader))
  PROVE  SpeedChange
  BY SpeedBounded DEF TypeOK, SpeedChange, Speeds

LEMMA NextCases ==
  ASSUME TypeOK, [Next]_vars
  PROVE  \/ Wake \/ Send \/ Sent \/ Look \/ Modulation \/ Signal \/ Image \/ Wait
         \/ \E wanted \in Songs : SetFlag(wanted)
         \/ SpeedChange \/ Press \/ Drain \/ UNCHANGED vars
  BY ChangeIsSpeed DEF Next, Songs

LEMMA TypeStep == ASSUME TypeOK, [Next]_vars PROVE TypeOK'
  <1> USE DEF TypeOK, Between, Songs, Speeds, keyVars, panel, player, Runs
  <1>1. CASE Wake
    <2>1. CASE "play" \in flags
      <3>1. 0 \in 0 .. Muestras
        BY SongAssumption
      <3>2. QED
        BY <1>1, <2>1, <3>1 DEF Wake
    <2>2. CASE "play" \notin flags
      BY <1>1, <2>2 DEF Wake
    <2>3. QED
      BY <2>1, <2>2
  <1>2. CASE Send
    BY <1>2, AudioAssumption, SongAssumption DEF Send, Room
  <1>3. CASE Sent
    BY <1>3 DEF Sent
  <1>4. CASE Look
    BY <1>4 DEF Look
  <1>5. CASE Modulation
    BY <1>5 DEF Modulation
  <1>6. CASE Signal
    BY <1>6 DEF Signal
  <1>7. CASE Image
    <2>1. pc2' = "wait" \/ \E i \in DOMAIN Images : pc2' = Images[i].name
      BY <1>7 DEF Image, FirstImage
    <2>2. pc2' \in Between \cup Songs \cup Speeds
      BY <2>1, ImageNames
    <2>3. UNCHANGED <<keyVars, pc1, nth, due, flags, freq_reader, fifo, player>>
      BY <1>7 DEF Image
    <2>4. QED
      BY <2>2, <2>3
  <1>8. CASE Wait
    BY <1>8 DEF Wait
  <1>9. ASSUME NEW wanted \in Songs, SetFlag(wanted) PROVE TypeOK'
    <2>1. flags' \subseteq Songs
      BY <1>9 DEF SetFlag, Assign
    <2>2. nth' \in 1 .. 3
      BY <1>9 DEF SetFlag
    <2>3. QED
      BY <1>9, <2>1, <2>2 DEF SetFlag
  <1>10. CASE SpeedChange
    BY <1>10 DEF SpeedChange, Change
  <1>11. CASE Press
    BY <1>11 DEF Press
  <1>12. CASE Drain
    BY <1>12, AudioAssumption DEF Drain
  <1>13. CASE UNCHANGED vars
    BY <1>13 DEF vars
  <1>14. QED
    BY <1>1, <1>2, <1>3, <1>4, <1>5, <1>6, <1>7, <1>8, <1>9, <1>10, <1>11, <1>12, <1>13, NextCases

\* Whoever draws a button selects what it says.
LEMMA DrawnStep == ASSUME TypeOK, Drawn, [Next]_vars PROVE Drawn'
  <1> USE DEF keyVars, panel, player, Runs, Between, Songs, Speeds
  <1>1. PICK image \in Songs \cup Speeds \cup {"none"} :
          drawn = <<modulation, signal, image>> /\ (pc2 \in Songs \cup Speeds => image = pc2)
    BY DEF Drawn
  <1>2. CASE Modulation
    BY <1>1, <1>2 DEF Modulation, Drawn, Select
  <1>3. CASE Signal
    BY <1>1, <1>3 DEF Signal, Drawn
  <1>4. CASE Image
    <2>1. CASE FirstImage(mouse) = {}
      BY <1>1, <1>4, <2>1 DEF Image, Drawn
    <2>2. CASE FirstImage(mouse) # {}
      <3>1. PICK i \in DOMAIN Images : drawn' = [drawn EXCEPT ![3] = Images[i].name] /\ pc2' = Images[i].name
        BY <1>4, <2>2 DEF Image, FirstImage
      <3>2. drawn' = <<modulation, signal, Images[i].name>>
        BY <1>1, <3>1
      <3>3. QED
        BY <1>4, <3>1, <3>2, ImageNames DEF Image, Drawn
    <2>3. QED
      BY <2>1, <2>2
  <1>5. CASE Wake \/ Send \/ Sent \/ Press \/ Drain
    BY <1>1, <1>5 DEF Wake, Send, Sent, Press, Drain, Drawn
  <1>6. CASE Look \/ Wait
    BY <1>1, <1>6 DEF Look, Wait, Drawn
  <1>7. ASSUME NEW wanted \in Songs, SetFlag(wanted) PROVE Drawn'
    BY <1>1, <1>7 DEF SetFlag, Drawn
  <1>8. CASE SpeedChange
    BY <1>1, <1>8 DEF SpeedChange, Change, Drawn
  <1>9. CASE UNCHANGED vars
    BY <1>1, <1>9 DEF vars, Drawn
  <1>10. QED
    BY <1>2, <1>3, <1>4, <1>5, <1>6, <1>7, <1>8, <1>9, NextCases

\* The three flags are assigned one by one, and then one of them is up.
LEMMA AssignedStep == ASSUME TypeOK, Drawn, Assigned, [Next]_vars PROVE Assigned'
  <1> USE DEF TypeOK, keyVars, panel, player, Runs, Between, Songs, Speeds, FlagOrder
  <1>1. PICK image \in Songs \cup Speeds \cup {"none"} :
          drawn = <<modulation, signal, image>> /\ (pc2 \in Songs \cup Speeds => image = pc2)
    BY DEF Drawn
  <1>2. CASE Modulation
    BY <1>1, <1>2 DEF Modulation, Assigned
  <1>3. CASE Signal
    BY <1>1, <1>3 DEF Signal, Assigned
  <1>4. CASE Image
    <2>1. CASE FirstImage(mouse) = {}
      BY <1>4, <2>1 DEF Image, Assigned
    <2>2. CASE FirstImage(mouse) # {}
      <3>1. PICK i \in DOMAIN Images : drawn' = [drawn EXCEPT ![3] = Images[i].name] /\ pc2' = Images[i].name
        BY <1>4, <2>2 DEF Image, FirstImage
      <3>2. drawn'[3] = Images[i].name
        BY <1>1, <3>1
      <3>3. QED
        BY <1>4, <3>1, <3>2, ImageNames DEF Image, Assigned
    <2>3. QED
      BY <2>1, <2>2
  <1>5. CASE Wake \/ Send \/ Sent \/ Press \/ Drain
    BY <1>5 DEF Wake, Send, Sent, Press, Drain, Assigned
  <1>6. CASE Look \/ Wait
    BY <1>6 DEF Look, Wait, Assigned
  <1>7. ASSUME NEW wanted \in Songs, SetFlag(wanted) PROVE Assigned'
    <2>1. drawn'[3] = wanted /\ drawn' = drawn /\ pc2 = wanted
      BY <1>1, <1>7 DEF SetFlag
    <2>2. CASE nth < 3
      BY <1>7, <2>1, <2>2 DEF SetFlag, Assign, Assigned
    <2>3. CASE nth = 3
      <3>1. flags' = {wanted}
        <4>1. \A n \in 1 .. 2 : FlagOrder[n] \in flags <=> FlagOrder[n] = wanted
          BY <2>1, <2>3 DEF Assigned
        <4>2. /\ "play" \in flags <=> wanted = "play"
              /\ "pause" \in flags <=> wanted = "pause"
          BY <4>1
        <4>3. flags' = IF wanted = "stop" THEN flags \cup {"stop"} ELSE flags \ {"stop"}
          BY <1>7, <2>3 DEF SetFlag, Assign
        <4>4. CASE wanted = "stop"
          BY <4>2, <4>3, <4>4
        <4>5. CASE wanted # "stop"
          BY <4>2, <4>3, <4>5
        <4>6. QED
          BY <4>4, <4>5
      <3>2. QED
        BY <1>7, <2>1, <2>3, <3>1 DEF SetFlag, Assigned
    <2>4. QED
      BY <2>2, <2>3
  <1>8. CASE SpeedChange
    BY <1>8 DEF SpeedChange, Change, Assigned
  <1>9. CASE UNCHANGED vars
    BY <1>9 DEF vars, Assigned
  <1>10. QED
    BY <1>2, <1>3, <1>4, <1>5, <1>6, <1>7, <1>8, <1>9, NextCases
\* The flags do not change while task1 sends.
LEMMA PlaysStep == ASSUME TypeOK, PlaysWhileSending, [Next]_vars PROVE PlaysWhileSending'
  <1> USE DEF PlaysWhileSending, keyVars, panel, player, Runs
  <1>1. CASE Wake \/ Send \/ Sent
    BY <1>1 DEF Wake, Send, Sent
  <1>2. CASE Look \/ Modulation \/ Signal \/ Image \/ Wait
    BY <1>2 DEF Look, Modulation, Signal, Image, Wait
  <1>3. CASE \E wanted \in Songs : SetFlag(wanted)
    BY <1>3 DEF SetFlag
  <1>4. CASE SpeedChange \/ Press \/ Drain
    BY <1>4 DEF SpeedChange, Change, Press, Drain
  <1>5. CASE UNCHANGED vars
    BY <1>5 DEF vars
  <1>6. QED
    BY <1>1, <1>2, <1>3, <1>4, <1>5, NextCases

\* Only task1 touches what it plays from.
LEMMA PlayerKept ==
  ASSUME TypeOK, [Next]_vars, ~Wake, ~Send, ~Sent
  PROVE  UNCHANGED <<pc1, player>>
  <1> USE DEF keyVars, panel
  <1>1. CASE Look \/ Modulation \/ Signal \/ Image \/ Wait
    BY <1>1 DEF Look, Modulation, Signal, Image, Wait
  <1>2. CASE \E wanted \in Songs : SetFlag(wanted)
    BY <1>2 DEF SetFlag
  <1>3. CASE SpeedChange \/ Press \/ Drain
    BY <1>3 DEF SpeedChange, Change, Press, Drain, player
  <1>4. CASE UNCHANGED vars
    BY <1>4 DEF vars
  <1>5. QED
    BY <1>1, <1>2, <1>3, <1>4, NextCases

\* The counter and the last sample agree through every buffer.
LEMMA InSongStep == ASSUME DesktopInv, [Next]_vars PROVE InSong'
  <1> USE DEF player
  <1>1. TypeOK /\ InSong
    BY DEF DesktopInv
  <1>2. Multiple(0)
    BY SongAssumption DEF Multiple
  <1>3. 0 % SizeSong = 0 /\ SizeSong % SizeSong = 0
    BY SongAssumption
  <1>4. CASE Wake
    <2>1. \/ UNCHANGED address_counter
          \/ pc1' = "delay" /\ address_counter' = 0
      BY <1>4 DEF Wake, Rewind
    <2>2. UNCHANGED last /\ pc1 = "delay" /\ (pc1' = "send" => sample' = 0)
      BY <1>4 DEF Wake
    <2>3. CASE UNCHANGED address_counter
      BY <1>1, <2>2, <2>3, SongAssumption DEF InSong, Multiple
    <2>4. CASE pc1' = "delay" /\ address_counter' = 0
      BY <1>1, <1>2, <1>3, <2>2, <2>4, SongAssumption DEF InSong, Multiple
    <2>5. QED
      BY <2>1, <2>3, <2>4
  <1>5. CASE Send
    <2>1. last' = (address_counter % SizeSong) + sample /\ last' \in Nat
      <3>1. sample \in 0 .. Muestras - 1
        BY <1>1, <1>5, SongAssumption DEF TypeOK, Send
      <3>2. sample % SizeSong = sample
        BY <3>1, BufferFits, SongAssumption
      <3>3. QED
        BY <1>5, <3>2, SendInSong DEF Send, Index
    <2>2. pc1' = "send" /\ sample' = sample + 1 /\ sample \in Nat /\ UNCHANGED address_counter
      BY <1>1, <1>5 DEF Send, TypeOK
    <2>3. QED
      BY <1>1, <2>1, <2>2, SongAssumption DEF InSong, Multiple
  <1>6. CASE Sent
    <2>1. /\ last = (address_counter % SizeSong) + Muestras - 1
          /\ UNCHANGED last /\ pc1' = "delay"
          /\ address_counter' = Advance(address_counter)
      BY <1>1, <1>6, SongAssumption DEF InSong, Sent
    <2>2. CASE address_counter < SizeSong
      <3>1. address_counter % SizeSong = address_counter
        BY <1>1, <2>2, SongAssumption DEF InSong
      <3>2. address_counter' = address_counter + Muestras
        BY <2>1, <2>2 DEF Advance
      <3>3. Multiple(address_counter + Muestras) /\ address_counter + Muestras <= SizeSong
        BY <1>1, <2>2, NextBuffer, SongAssumption DEF InSong
      <3>4. address_counter \in Nat /\ last \in Nat
        BY <1>1 DEF InSong
      <3>5. last' = address_counter' - 1 /\ address_counter' \in 0 .. SizeSong
        <4>1. Muestras \in Nat /\ SizeSong \in Nat
          BY SongAssumption
        <4>2. last = address_counter + Muestras - 1
          BY <2>1, <3>1
        <4>3. QED
          BY <2>1, <3>2, <3>3, <3>4, <4>1, <4>2
      <3>6. Multiple(address_counter)'
        BY <3>2, <3>3 DEF Multiple
      <3>7. QED
        BY <2>1, <3>4, <3>5, <3>6 DEF InSong
    <2>3. CASE ~(address_counter < SizeSong)
      <3>1. address_counter' = 0
        BY <2>1, <2>3 DEF Advance
      <3>2. Multiple(address_counter)'
        BY <1>2, <3>1 DEF Multiple
      <3>3. last \in Nat
        BY <1>1 DEF InSong
      <3>4. QED
        BY <1>3, <2>1, <3>1, <3>2, <3>3, SongAssumption DEF InSong
    <2>4. QED
      BY <2>2, <2>3
  <1>7. CASE ~Wake /\ ~Send /\ ~Sent
    <2>1. UNCHANGED <<pc1, player>>
      BY <1>1, <1>7, PlayerKept
    <2>2. QED
      BY <1>1, <2>1 DEF InSong, Multiple
  <1>8. QED
    BY <1>4, <1>5, <1>6, <1>7

\* A song that was stopped is rewound before the next look.
LEMMA RewindStep ==
  ASSUME TypeOK, PlaysWhileSending, StopRewinds, [Next]_vars
  PROVE  StopRewinds'
  <1> USE DEF StopRewinds, AtRest, keyVars, panel, player, Runs
  <1>1. CASE Wake
    BY <1>1 DEF Wake, Rewind
  <1>2. CASE Send
    BY <1>2 DEF Send
  <1>3. CASE Sent
    BY <1>3 DEF Sent, PlaysWhileSending
  <1>4. CASE Look \/ Wait
    BY <1>4 DEF Look, Wait
  <1>5. CASE Modulation \/ Signal
    BY <1>5 DEF Modulation, Signal
  <1>6. CASE Image
    <2>1. pc2' = "wait" \/ \E i \in DOMAIN Images : pc2' = Images[i].name
      BY <1>6 DEF Image, FirstImage
    <2>2. pc2' # "delay"
      BY <2>1, ImageNames DEF Songs, Speeds
    <2>3. QED
      BY <2>2
  <1>7. CASE \E wanted \in Songs : SetFlag(wanted)
    BY <1>7 DEF SetFlag, Songs
  <1>8. CASE SpeedChange
    BY <1>8 DEF SpeedChange, Change
  <1>9. CASE Press \/ Drain
    BY <1>9 DEF Press, Drain
  <1>10. CASE UNCHANGED vars
    BY <1>10 DEF vars
  <1>11. QED
    BY <1>1, <1>2, <1>3, <1>4, <1>5, <1>6, <1>7, <1>8, <1>9, <1>10, NextCases

\* The divider is that of a frequency between the bounds.
LEMMA DividerStep == ASSUME TypeOK, DividerBounded, [Next]_vars PROVE DividerBounded'
  <1> USE DEF keyVars, panel, player
  <1>1. CASE SpeedChange
    <2>1. PICK freq \in Increment .. Maximum : divider' = Divider(freq)
      BY <1>1 DEF SpeedChange, Change
    <2>2. QED
      BY <2>1, DividerBetween, Zenon DEF DividerBounded
  <1>2. CASE ~SpeedChange
    <2>1. UNCHANGED divider
      BY <1>2, NextCases DEF Wake, Send, Sent, Look, Modulation, Signal, Image, Wait, SetFlag, Press, Drain, vars
    <2>2. QED
      BY <2>1, Zenon DEF DividerBounded
  <1>3. QED
    BY <1>1, <1>2

-----------------------------------------------------------------------------
LEMMA InvInit == Init => DesktopInv
  <1> SUFFICES ASSUME Init PROVE DesktopInv
    OBVIOUS
  <1>1. Nominal \in Increment .. Maximum
    BY AudioAssumption DEF Maximum
  <1>2. TypeOK
    <2>1. 0 \in 0 .. Muestras /\ 0 \in 0 .. FifoSize
      BY AudioAssumption, SongAssumption
    <2>2. /\ key = FALSE /\ due = TRUE /\ pc1 = "delay" /\ pc2 = "delay" /\ nth = 1
          /\ flags = {} /\ freq_reader = Nominal /\ fifo = 0 /\ sample = 0
      BY DEF Init
    <2>3. key \in BOOLEAN /\ due \in BOOLEAN
      BY <2>2
    <2>4. QED
      BY <1>1, <2>1, <2>2, <2>3 DEF TypeOK, Between, Songs
  <1>3. Drawn /\ Assigned /\ PlaysWhileSending /\ StopRewinds
    BY DEF Init, Drawn, Assigned, PlaysWhileSending, StopRewinds, Songs, Speeds
  <1>4. InSong
    BY SongAssumption DEF Init, InSong, Multiple
  <1>5. DividerBounded
    BY <1>1, DividerBetween, Zenon DEF Init, DividerBounded
  <1>6. QED
    BY <1>2, <1>3, <1>4, <1>5 DEF DesktopInv

LEMMA InvStep == DesktopInv /\ [Next]_vars => DesktopInv'
  BY TypeStep, DrawnStep, AssignedStep, PlaysStep, InSongStep, RewindStep, DividerStep DEF DesktopInv

\* DesktopInv is an invariant: the two tasks agree about flags, counter and buttons.
THEOREM DesktopInvariant == Spec => []DesktopInv
  BY InvInit, InvStep, PTL DEF Spec

\* What the screen shows is what the desktop does: the selections, the mode of
\* the song, its rewinding, the bounds of the FIFO and of the divider.
THEOREM ScreenIsTrue == Spec => []ShownIsDone
  <1>1. DesktopInv => ShownIsDone
    <2> SUFFICES ASSUME DesktopInv PROVE ShownIsDone
      OBVIOUS
    <2>1. FifoHolds
      BY DEF DesktopInv, TypeOK, FifoHolds
    <2>2. ModeIsDrawn
      <3> SUFFICES ASSUME pc2 = "delay" PROVE Cardinality(flags) <= 1 /\ (drawn[3] \in Songs => flags = {drawn[3]})
        BY DEF ModeIsDrawn, Songs
      <3>1. (flags = {} \/ \E f \in Songs : flags = {f}) /\ (drawn[3] \in Songs => flags = {drawn[3]})
        BY DEF DesktopInv, Assigned, Songs
      <3>2. Cardinality(flags) \in {0, 1}
        BY <3>1, FS_EmptySet, FS_Singleton
      <3>3. QED
        BY <3>1, <3>2
    <2>3. ShownIsSelected
      BY DEF DesktopInv, Drawn, ShownIsSelected
    <2>4. QED
      BY <2>1, <2>2, <2>3 DEF ShownIsDone, DesktopInv
  <1>2. QED
    BY <1>1, DesktopInvariant, PTL

\* The song is written to the FIFO sample by sample, inside its array.
THEOREM SongIsInOrder == Spec => SongInOrder
  <1>1. DesktopInv /\ [Next]_vars => [last' # last => last' \in {last + 1, 0} /\ last' < SizeSong]_vars
    <2> SUFFICES ASSUME DesktopInv, [Next]_vars, last' # last
                 PROVE  last' \in {last + 1, 0} /\ last' < SizeSong
      OBVIOUS
    <2>1. CASE Send
      BY <2>1, SendInSong
    <2>2. CASE Wake \/ Sent
      BY <2>2 DEF Wake, Sent
    <2>3. CASE ~Wake /\ ~Send /\ ~Sent
      BY <2>3, PlayerKept DEF DesktopInv, player
    <2>4. QED
      BY <2>1, <2>2, <2>3
  <1>2. QED
    BY <1>1, DesktopInvariant, PTL DEF Spec, SongInOrder
=============================================================================
