------------------------------ MODULE Desktop -------------------------------
(***************************************************************************)
(* The two tasks of hello_ucosii.c: task1 plays the song and task2 looks   *)
(* at the mouse and at the space key, draws the buttons and selects what   *)
(* they say.  task1 has the higher priority: task2 runs only while task1   *)
(* delays itself, and task1 can preempt it between any two statements.     *)
(***************************************************************************)
EXTENDS Integers, Sequences, FiniteSets

CONSTANTS
  SizeSong,     \* size_song, which comes with the song
  Muestras,     \* NUMERO_DE_MUESTRAS
  FifoSize,     \* how many samples the FIFO of the audio controller holds
  Increment,    \* FREQ_READER_INCREMENT
  Nominal       \* FREQ_READER_NOMINAL

\* A song is made of whole buffers: task1 would read past its array otherwise.
ASSUME SongAssumption ==
  /\ Muestras \in Nat \ {0}
  /\ SizeSong \in Nat \ {0}
  /\ SizeSong % Muestras = 0

ASSUME AudioAssumption ==
  /\ FifoSize \in Nat
  /\ Increment \in Nat \ {0}
  /\ Nominal \in Nat
  /\ Increment <= Nominal

VARIABLES
  key,              \* the space key
  space,            \* mouse_pos: the key when it was looked at last
  mouse,            \* the position that task2 works on
  pc1, pc2,         \* where the tasks are
  nth,              \* which of the three flags task2 assigns next
  due,              \* task1 has not run since task2 began to wait
  modulation,       \* MODULATION_SELECTOR
  signal,           \* SIGNAL_SELECTOR
  drawn,            \* the button that is drawn as pressed: <<modulation, signal, song>>
  flags,            \* play_song, pause_song and stop_song, those that are 1
  freq_reader,
  divider,          \* AUDIO_DATA_FREGEN
  address_counter,
  sample,           \* i in send_audio_fifo
  fifo,             \* how many samples are in the FIFO
  last              \* the index in the song of the sample that was written last

keyVars == <<key, space, mouse>>
player == <<address_counter, sample, last>>
panel == <<modulation, signal, drawn>>
vars == <<keyVars, pc1, pc2, nth, due, panel, flags, freq_reader, divider, player, fifo>>

Maximum == 2 * Nominal

\* set_audio_frequency_audio_controller divides the clock of 50 MHz.
Divider(freq) == (50000000 \div (2 * freq)) - 1

Inside(p, x, y, width, height) ==
  x <= p[1] /\ p[1] <= x + width /\ y <= p[2] /\ p[2] <= y + height

\* The rows of the four buttons for the modulation and of those for the signal.
ModulationRows == <<252, 289, 326, 365>>
SignalRows == <<426, 470, 512, 554>>

\* The first test that holds is the one that counts.
FirstRow(p, rows) ==
  {i \in DOMAIN rows : /\ Inside(p, 667, rows[i], 120, 35)
                       /\ \A j \in 1 .. i - 1 : ~Inside(p, 667, rows[j], 120, 35)}

\* The images of the song with their places and sizes.
Images == <<
  [name |-> "play", x |-> 296, y |-> 45, width |-> 94, height |-> 109],
  [name |-> "stop", x |-> 404, y |-> 45, width |-> 98, height |-> 111],
  [name |-> "pause", x |-> 523, y |-> 45, width |-> 108, height |-> 112],
  [name |-> "back", x |-> 333, y |-> 177, width |-> 61, height |-> 57],
  [name |-> "ford", x |-> 512, y |-> 177, width |-> 61, height |-> 57]>>

FirstImage(p) ==
  LET on(i) == Inside(p, Images[i].x, Images[i].y, Images[i].width, Images[i].height)
  IN {i \in DOMAIN Images : on(i) /\ \A j \in 1 .. i - 1 : ~on(j)}

\* The positions that the mouse has: a place without a button, the first corner
\* of each image, the last corner of a button for the modulation, which is the
\* lowest one, and the first corner of the highest one for the signal.
Points ==
  {<<10, 10>>, <<787, ModulationRows[4] + 35>>, <<667, SignalRows[1]>>}
    \cup {<<Images[i].x, Images[i].y>> : i \in DOMAIN Images}

-----------------------------------------------------------------------------
(* task1 *)

Rewind == address_counter' = 0

\* The delay is over; what task1 does is seen before task2 goes on.
Wake ==
  /\ pc1 = "delay"
  /\ due' = FALSE
  /\ IF "play" \in flags
     THEN pc1' = "send" /\ sample' = 0 /\ UNCHANGED address_counter
     ELSE /\ UNCHANGED <<pc1, sample>>
          /\ IF "pause" \notin flags /\ "stop" \in flags THEN Rewind ELSE UNCHANGED address_counter
  /\ UNCHANGED <<keyVars, pc2, nth, panel, flags, freq_reader, divider, last, fifo>>

\* buf[i % size_song], where buf is &song[address_counter % size_song]
Index(address, i) == (address % SizeSong) + (i % SizeSong)

\* Mutant: task1 waits while the FIFO is not full.
RoomInverted == fifo = FifoSize

Room == fifo < FifoSize

Send ==
  /\ pc1 = "send" /\ sample < Muestras
  /\ Room
  /\ last' = Index(address_counter, sample)
  /\ sample' = sample + 1
  /\ fifo' = fifo + 1
  /\ UNCHANGED <<keyVars, pc1, pc2, nth, due, panel, flags, freq_reader, divider, address_counter>>

\* Mutant: one sample is left out between two buffers.
AdvanceFar(address) == IF address < SizeSong THEN address + Muestras + 1 ELSE 0

\* The counter reaches size_song, so that the first buffer is played twice.
Advance(address) == IF address < SizeSong THEN address + Muestras ELSE 0

\* OSTimeDlyHMSM after the samples
Sent ==
  /\ pc1 = "send" /\ sample = Muestras
  /\ pc1' = "delay"
  /\ address_counter' = Advance(address_counter)
  /\ UNCHANGED <<keyVars, pc2, nth, due, panel, flags, freq_reader, divider, sample, last, fifo>>

-----------------------------------------------------------------------------
(* task2, whose statements run while task1 delays itself *)

Runs(here) == pc1 = "delay" /\ pc2 = here

\* mouse_pos returns 1: the key has gone down, or is still down.
Down(now) == (~space /\ now) \/ now

\* The tasks delay themselves by 100 and by 10 milliseconds, so that task1 has
\* run between two looks of task2.
Look ==
  /\ Runs("delay") /\ ~due
  /\ space' = key
  /\ \E p \in Points : mouse' = p
  /\ pc2' = IF Down(key) THEN "modulation" ELSE "delay"
  /\ due' = (pc2' = "delay")
  /\ UNCHANGED <<key, pc1, nth, panel, flags, freq_reader, divider, player, fifo>>

Select(row) == modulation' = row - 1

Modulation ==
  /\ Runs("modulation")
  /\ IF FirstRow(mouse, ModulationRows) = {} THEN UNCHANGED <<modulation, drawn>>
     ELSE \E row \in FirstRow(mouse, ModulationRows) : Select(row) /\ drawn' = [drawn EXCEPT ![1] = row - 1]
  /\ pc2' = "signal"
  /\ UNCHANGED <<keyVars, pc1, nth, due, signal, flags, freq_reader, divider, player, fifo>>

Signal ==
  /\ Runs("signal")
  /\ IF FirstRow(mouse, SignalRows) = {} THEN UNCHANGED <<signal, drawn>>
     ELSE \E row \in FirstRow(mouse, SignalRows) : signal' = row - 1 /\ drawn' = [drawn EXCEPT ![2] = row - 1]
  /\ pc2' = "image"
  /\ UNCHANGED <<keyVars, pc1, nth, due, modulation, flags, freq_reader, divider, player, fifo>>

\* What the image says is done after it has been drawn.
Image ==
  /\ Runs("image")
  /\ IF FirstImage(mouse) = {} THEN pc2' = "wait" /\ UNCHANGED drawn
     ELSE \E i \in FirstImage(mouse) : drawn' = [drawn EXCEPT ![3] = Images[i].name] /\ pc2' = Images[i].name
  /\ UNCHANGED <<keyVars, pc1, nth, due, modulation, signal, flags, freq_reader, divider, player, fifo>>

\* The flags are assigned one after the other: play, pause and stop.
FlagOrder == <<"play", "pause", "stop">>

\* Mutant: the flags of the other buttons stay.
AssignOnly(wanted, n) == flags' = IF FlagOrder[n] = wanted THEN flags \cup {wanted} ELSE flags

Assign(wanted, n) ==
  flags' = IF FlagOrder[n] = wanted THEN flags \cup {wanted} ELSE flags \ {FlagOrder[n]}

SetFlag(wanted) ==
  /\ Runs(wanted)
  /\ Assign(wanted, nth)
  /\ nth' = (nth % 3) + 1
  /\ pc2' = IF nth = 3 THEN "wait" ELSE wanted
  /\ UNCHANGED <<keyVars, pc1, due, panel, freq_reader, divider, player, fifo>>

Slower(freq) == IF freq - Increment < Increment THEN Increment ELSE freq - Increment
Faster(freq) == IF freq + Increment > Maximum THEN Maximum ELSE freq + Increment

Change(image, freq) ==
  /\ Runs(image)
  /\ freq_reader' = freq
  /\ divider' = Divider(freq)
  /\ pc2' = "wait"
  /\ UNCHANGED <<keyVars, pc1, nth, due, panel, flags, player, fifo>>

\* OSTimeDlyHMSM of task2
Wait ==
  /\ Runs("wait")
  /\ pc2' = "delay"
  /\ due' = TRUE
  /\ UNCHANGED <<keyVars, pc1, nth, panel, flags, freq_reader, divider, player, fifo>>

-----------------------------------------------------------------------------
(* The user and the audio controller *)

Press ==
  /\ key' = ~key
  /\ UNCHANGED <<space, mouse, pc1, pc2, nth, due, panel, flags, freq_reader, divider, player, fifo>>

Drain ==
  /\ fifo > 0
  /\ fifo' = fifo - 1
  /\ UNCHANGED <<keyVars, pc1, pc2, nth, due, panel, flags, freq_reader, divider, player>>

\* main draws ASK and SQUARE as pressed and selects them.
Init ==
  /\ key = FALSE /\ space = FALSE /\ mouse \in Points
  /\ pc1 = "delay" /\ pc2 = "delay" /\ nth = 1 /\ due = TRUE
  /\ modulation = 0 /\ signal = 3 /\ drawn = <<0, 3, "none">>
  /\ flags = {}
  /\ freq_reader = Nominal /\ divider = Divider(Nominal)
  /\ address_counter = 0 /\ sample = 0 /\ last = 0 /\ fifo = 0

Next ==
  \/ Wake \/ Send \/ Sent
  \/ Look \/ Modulation \/ Signal \/ Image \/ Wait
  \/ \E wanted \in {"play", "pause", "stop"} : SetFlag(wanted)
  \/ Change("back", Slower(freq_reader))
  \/ Change("ford", Faster(freq_reader))
  \/ Press \/ Drain

Spec == Init /\ [][Next]_vars

Task2 == Modulation \/ Signal \/ Image \/ Wait \/ (\E wanted \in {"play", "pause", "stop"} : SetFlag(wanted))
         \/ Change("back", Slower(freq_reader)) \/ Change("ford", Faster(freq_reader))

\* The kernel runs task1 when its delay is over, and task2 in every delay of
\* task1, which lasts longer than a statement; the audio controller takes the
\* samples.
LiveSpec ==
  /\ Spec
  /\ WF_vars(Wake) /\ WF_vars(Send \/ Sent) /\ WF_vars(Drain)
  /\ SF_vars(Look) /\ SF_vars(Task2)

-----------------------------------------------------------------------------
(* What the desktop must keep *)

AtRest == pc2 = "delay" /\ ~due

\* The song is played sample by sample and read inside its array, also where the
\* counter has reached its size and goes on from there before it is set back;
\* only the first sample of the song may follow another one than that before it.
SongInOrder == [][last' # last => last' \in {last + 1, 0} /\ last' < SizeSong]_vars

\* The FIFO is never written while it is full.
FifoHolds == fifo <= FifoSize

\* A song that was stopped starts from its beginning: task1 has seen the flag
\* and has set its counter back before the next button can be pressed, although
\* it does nothing but poll three flags that are assigned one by one.
StopRewinds == (AtRest /\ flags = {"stop"}) => address_counter = 0

\* Between two presses one flag at most is up, and it is that of the song button
\* that is drawn as pressed unless one of the speed buttons was pressed after it.
ModeIsDrawn ==
  pc2 = "delay" =>
    /\ Cardinality(flags) <= 1
    /\ drawn[3] \in {"play", "pause", "stop"} => flags = {drawn[3]}

\* What is drawn as pressed between two presses is what the modulator does.
ShownIsSelected == pc2 = "delay" => drawn[1] = modulation /\ drawn[2] = signal

\* The divider of the audio clock is that of a frequency between the bounds,
\* so that it fits its 32 bits and is never computed with a division by zero.
DividerBounded == divider \in Divider(Maximum) .. Divider(Increment)

\* What the screen shows is what the desktop does: the modulation, the signal,
\* the mode of the song and its rewinding agree with the buttons, although two
\* tasks share the flags and the counter without a lock.
ShownIsDone == FifoHolds /\ StopRewinds /\ ModeIsDrawn /\ ShownIsSelected /\ DividerBounded

\* A key that stays down is looked at again and again, although task1 waits
\* for the FIFO with a higher priority.
HeldIsHandled == <>[]key => []<>(pc2 = "modulation")
=============================================================================
