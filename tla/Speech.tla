------------------------------- MODULE Speech -------------------------------
(***************************************************************************)
(* The speech synthesizer of Final as speech_synthesizer_solution.v wires  *)
(* it: the keyboard starts and stops, the PicoBlaze program chooses the    *)
(* phonemes, narrator_ctrl.v looks up their addresses, and the address     *)
(* machine reads the flash and plays the bytes at the sample clock.  One   *)
(* step is one rising edge of CLK_50M.                                     *)
(***************************************************************************)
EXTENDS Integers, Sequences

CONSTANTS
  MaxWord, MaxReads,
  Phoneme, Script,
  Narration   \* the table of narrator_ctrl.v: [silent, pointer, end_val]

ASSUME SizeAssumption == MaxWord \in Nat /\ MaxReads \in Nat \ {0}
ASSUME ScriptAssumption == 0 \in Phoneme /\ Script \in Seq(Phoneme) /\ Script # <<>>
ASSUME NarrationAssumption ==
  /\ Narration \in [Phoneme -> [silent : BOOLEAN, pointer : Nat, end_val : Nat]]
  /\ \A p \in Phoneme : /\ Narration[p].pointer <= Narration[p].end_val
                        /\ Narration[p].end_val \div 4 <= MaxWord

VARIABLES
  adr_state, lane, addr, end_addr_word, outData,
  rd_state,
  kbd_state,
  pc, pos, output_phoneme, pico_ack, in_port,
  silent, pointer, end_val,      \* the output registers of narrator_ctrl.v
  reads, readdata, readdatavalid,
  sync_clk,                      \* the synchronized sample clock
  sample                         \* history: what was heard last

adrVars == <<adr_state, lane, addr, end_addr_word, outData>>
narVars == <<silent, pointer, end_val>>

Adr == INSTANCE FlashAddress WITH state <- adr_state
Rd  == INSTANCE FlashRead WITH state <- rd_state
Kbd == INSTANCE KeyboardControl WITH state <- kbd_state
P   == INSTANCE Pico
F   == INSTANCE Flash WITH Word <- Adr!Word
T   == INSTANCE Talk

vars == <<adrVars, rd_state, kbd_state, P!picoVars, narVars, F!flashVars, sync_clk, sample>>

Init ==
  /\ Adr!Init /\ Rd!Init /\ Kbd!Init /\ P!Init /\ F!Init
  /\ silent = FALSE /\ pointer = 0 /\ end_val = 0
  /\ sync_clk = FALSE
  /\ T!Init

\* narrator_ctrl.v registers the table entry of the selected phoneme.
Narrate ==
  /\ silent' = Narration[output_phoneme].silent
  /\ pointer' = Narration[output_phoneme].pointer
  /\ end_val' = Narration[output_phoneme].end_val

\* The byte that is on the audio output when the sample clock moves on.
Hear ==
  sample' =
    IF adr_state = "out_data" /\ sync_clk
    THEN [pos |-> pos, silent |-> silent, word |-> readdata, lane |-> lane]
    ELSE sample

\* A sample lasts some thousand clocks, a read of the flash some tens and the
\* program's way from one wait for the machine to the next about as many: the
\* sample clock only rises when every read has been answered and the program
\* waits for the machine to be ready.
SlowClock(rise) ==
  rise /\ ~sync_clk => reads = <<>> /\ pc \in {"wait_phoneme_ready", "read_ready"}

\* The keyboard needs a millisecond for a key, the program a microsecond for
\* its first phoneme, so no key comes before it.
SlowKey(key) == key = "E" => pos # 0

Clk(stall, waitrequest, answer, rise, key) ==
  /\ SlowClock(rise) /\ SlowKey(key)
  /\ Adr!Clock(Kbd!read_signal, sync_clk, Rd!complete, readdata, pointer, end_val, pico_ack)
  /\ Rd!Clock(Adr!read, Adr!read, waitrequest, readdatavalid)
  /\ Kbd!Clock(key)
  /\ IF stall THEN P!Stall ELSE P!Run(Adr!complete)
  /\ F!Clock(Adr!read, addr, waitrequest, answer)
  /\ Narrate
  /\ sync_clk' = rise
  /\ Hear

Step(Stalls, Waits, Answers, Rises) ==
  \E stall \in Stalls, waitrequest \in Waits, answer \in Answers, rise \in Rises, key \in Kbd!Key :
    Clk(stall, waitrequest, answer, rise, key)

Next == Step(BOOLEAN, BOOLEAN, BOOLEAN, BOOLEAN)

\* The processor, the flash and the sample clock do not stop.
Fairness ==
  /\ WF_vars(Step({FALSE}, BOOLEAN, BOOLEAN, BOOLEAN))
  /\ WF_vars(Adr!read /\ Step(BOOLEAN, {FALSE}, BOOLEAN, BOOLEAN))
  /\ WF_vars(Step(BOOLEAN, BOOLEAN, {TRUE}, BOOLEAN))
  /\ WF_vars(~sync_clk /\ Step(BOOLEAN, BOOLEAN, BOOLEAN, {TRUE}))
  /\ WF_vars(sync_clk /\ Step(BOOLEAN, BOOLEAN, BOOLEAN, {FALSE}))

Spec == Init /\ [][Next]_vars /\ Fairness

-----------------------------------------------------------------------------
TypeOK ==
  /\ Adr!TypeOK /\ Rd!TypeOK /\ Kbd!TypeOK /\ P!TypeOK /\ F!TypeOK
  /\ silent \in BOOLEAN /\ pointer \in Nat /\ end_val \in Nat
  /\ sync_clk \in BOOLEAN
  /\ sample \in [pos : 0 .. Len(Script), silent : BOOLEAN, word : Adr!Word, lane : Adr!Lane]

Playing == adr_state \notin {"idle", "phoneme_ready", "finished"}

(***************************************************************************)
(* While a phoneme plays, the two address registers and the silence flag   *)
(* are those of the phoneme that the program said last: the program, which *)
(* runs at its own pace, has said it before the machine left idle and does *)
(* not change it before the machine is done.                               *)
(***************************************************************************)
AddressesLoaded ==
  Playing => /\ pos # 0
             /\ end_addr_word = T!LastWord(pos)
             /\ silent = Narration[Script[pos]].silent
             /\ addr \in T!FirstWord(pos) .. T!LastWord(pos) + 1

(***************************************************************************)
(* Although wait_read is left before the word arrives, the bus shows the   *)
(* word of addr whenever no answer is outstanding and a byte is output.    *)
(***************************************************************************)
WordOnBus == adr_state = "out_data" /\ reads = <<>> => readdata = addr

\* The registers and the bus are those of the phoneme and of the word that
\* plays, and every register keeps to its width.
SpeechInv == TypeOK /\ AddressesLoaded /\ WordOnBus

(***************************************************************************)
(* The full handshake that speech.psm describes: after the first phoneme,  *)
(* the program says a new phoneme only while the machine shows with its    *)
(* complete signal that it is ready for one.                               *)
(***************************************************************************)
SaysWhenReady == [][pos' # pos => pos = 0 \/ Adr!complete]_vars

(***************************************************************************)
(* What is heard is the script (module Talk): no phoneme, word or byte is  *)
(* left out, repeated or replaced by a stale one, whenever the keyboard    *)
(* pauses and however long the processor and the flash take.               *)
(***************************************************************************)
ImplementsTalk == T!Spec

(***************************************************************************)
(* Neither side of the handshake waits for the other forever: once the     *)
(* keyboard leaves the machine on, every phoneme is heard again and again. *)
(***************************************************************************)
KeepsTalking == <>[](kbd_state = "play") => \A p \in P!Place : []<>(sample.pos = p)
=============================================================================
