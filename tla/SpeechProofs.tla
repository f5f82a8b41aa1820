---------------------------- MODULE SpeechProofs ----------------------------
(***************************************************************************)
(* Theorems about the speech synthesizer for every script, every table of  *)
(* phonemes, every size of the flash and every number of reads that it     *)
(* holds: the handshakes, the words on the bus, and that what is heard is  *)
(* the script.                                                             *)
(***************************************************************************)
EXTENDS Speech, SequenceTheorems, TLAPS

\* The program waits for the machine to be ready for a phoneme.
Waits == pc \in {"wait_phoneme_ready", "read_ready"}

\* The program has said a phoneme and waits for the machine to take it.
Offers == pc \in {"acknowledge", "wait_phoneme_recieve", "read_recieve"}

\* The machine reads or plays a word.
Reading == adr_state \in {"read_flash", "wait_data", "out_data"}

\* Before the first sample: the machine may start while the program is still
\* in the handshake of the first phoneme, but the sample clock is slower.
BeforeFirst == ~sync_clk /\ (adr_state = "idle" \/ (Reading /\ lane = 0))

(***************************************************************************)
(* The full handshake.  The acknowledgement is up from Acknowledge to      *)
(* AcknowledgeInput, and the machine is where the program believes it is.  *)
(***************************************************************************)
Handshake ==
  /\ pico_ack <=> pc \in {"wait_phoneme_recieve", "read_recieve", "acknowledge_input"}
  /\ pos = 0 => pc = "say_phoneme" /\ adr_state = "idle" /\ kbd_state = "idle" /\ ~sync_clk
  /\ pc = "say_phoneme" /\ pos # 0 => adr_state = "phoneme_ready"
  /\ pc = "acknowledge" => adr_state = "phoneme_ready" \/ BeforeFirst
  /\ pc \in {"wait_phoneme_recieve", "read_recieve"} =>
       adr_state \in {"phoneme_ready", "finished"} \/ BeforeFirst
  /\ pc = "read_recieve" /\ ~in_port => adr_state # "phoneme_ready"
  /\ pc = "acknowledge_input" => adr_state = "finished" \/ BeforeFirst
  /\ pc = "read_ready" /\ in_port => adr_state = "phoneme_ready"

\* The registers of narrator_ctrl.v hold the entry of the phoneme said last.
Entry == Narration[Script[pos]]
Loaded == silent = Entry.silent /\ pointer = Entry.pointer /\ end_val = Entry.end_val

(***************************************************************************)
(* The registers are one clock behind the program, and nobody looks at     *)
(* them in that clock; a machine that plays has the words of the phoneme.  *)
(***************************************************************************)
Loading ==
  /\ pos # 0 => output_phoneme = Script[pos]
  /\ pos # 0 /\ (pc # "acknowledge" \/ Playing \/ (adr_state = "idle" /\ kbd_state = "play")) => Loaded
  /\ Playing => /\ end_addr_word = T!LastWord(pos)
                /\ \/ adr_state # "check_addr" /\ addr \in T!FirstWord(pos) .. T!LastWord(pos)
                   \/ adr_state = "check_addr" /\ addr - 1 \in T!FirstWord(pos) .. T!LastWord(pos)

\* Both address registers of the narrator are those of words of the flash.
RegistersInFlash == pointer \div 4 \in Adr!Word /\ end_val \div 4 \in Adr!Word

(***************************************************************************)
(* All the reads that are not answered yet are for the word at addr, and   *)
(* there are none when the machine moves on; once slave_init is left, the  *)
(* word is on its way or on the bus.                                       *)
(***************************************************************************)
Bus ==
  /\ reads \in Seq({addr}) /\ Len(reads) <= MaxReads
  /\ ~Reading => reads = <<>>
  /\ adr_state = "out_data" /\ sync_clk => reads = <<>>
  /\ rd_state # "idle" => adr_state = "read_flash"
  /\ \/ rd_state \in {"wait_read", "finished"}
     \/ adr_state \in {"wait_data", "out_data"}
     => reads # <<>> \/ readdata = addr

(***************************************************************************)
(* What was heard last, by what the machine does: the sample before the    *)
(* next one, the last byte of a word, or the last byte of a phoneme.       *)
(***************************************************************************)
Heard ==
  /\ pos = 0 => sample = [pos |-> 0, silent |-> TRUE, word |-> 0, lane |-> 0]
  /\ pos # 0 =>
       /\ Reading => T!Successor = T!Sample(pos, addr, lane)
       /\ adr_state = "inc_addr" => sample = T!Sample(pos, addr, 3)
       /\ adr_state = "check_addr" => sample = T!Sample(pos, addr - 1, 3)
       /\ adr_state = "phoneme_ready" /\ ~Offers => sample = T!Sample(pos, T!LastWord(pos), 3)
       /\ \/ adr_state = "phoneme_ready" /\ Offers
          \/ adr_state \in {"finished", "idle"}
          => T!Successor = T!Sample(pos, T!FirstWord(pos), 0)

\* lane is 0 where no byte is played.
LaneZero == adr_state \notin {"wait_data", "out_data"} => lane = 0

\* The inductive invariant.
TalkInv == TypeOK /\ RegistersInFlash /\ LaneZero /\ Handshake /\ Loading /\ Bus /\ Heard

-----------------------------------------------------------------------------
\* One clock: what the program and the machine do in it.

AClock == \E stall, waitrequest, answer, rise \in BOOLEAN, key \in Kbd!Key :
            Clk(stall, waitrequest, answer, rise, key)

LEMMA NextIsClock == Next <=> AClock
  BY DEF Next, Step, AClock

\* The steps of the program.
LEMMA PicoSteps ==
  ASSUME AClock
  PROVE  \/ P!SayPhoneme \/ P!Acknowledge \/ P!AcknowledgeInput \/ P!Stall
         \/ P!Select("wait_phoneme_recieve", "read_recieve", Adr!complete) \/ P!ReadRecieve
         \/ P!Select("wait_phoneme_ready", "read_ready", Adr!complete) \/ P!ReadReady
  BY DEF AClock, Clk, P!Run

\* The steps of the machine.
LEMMA AdrSteps ==
  ASSUME AClock
  PROVE  \/ Adr!Idle(Kbd!read_signal, pointer, end_val)
         \/ Adr!Await("read_flash", Rd!complete, "wait_data")
         \/ Adr!Await("wait_data", ~sync_clk, "out_data")
         \/ Adr!OutData(sync_clk, readdata)
         \/ Adr!IncAddr
         \/ Adr!CheckAddr
         \/ Adr!Await("phoneme_ready", pico_ack, "finished")
         \/ Adr!Finished(pico_ack)
  BY DEF AClock, Clk, Adr!Clock

\* The address of a word of the narrator's table is that of a word of the flash.
LEMMA TableInFlash ==
  ASSUME NEW p \in Phoneme
  PROVE  /\ Narration[p].silent \in BOOLEAN /\ Narration[p].pointer \in Nat /\ Narration[p].end_val \in Nat
         /\ Narration[p].pointer \div 4 \in Adr!Word /\ Narration[p].end_val \div 4 \in Adr!Word
         /\ Narration[p].pointer \div 4 <= Narration[p].end_val \div 4
  <1>1. /\ Narration[p].silent \in BOOLEAN /\ Narration[p].pointer \in Nat /\ Narration[p].end_val \in Nat
        /\ Narration[p].pointer <= Narration[p].end_val /\ Narration[p].end_val \div 4 <= MaxWord
    BY NarrationAssumption
  <1>2. \A a, b \in Nat : a <= b => a \div 4 \in Nat /\ b \div 4 \in Nat /\ a \div 4 <= b \div 4
    OBVIOUS
  <1>3. QED
    BY <1>1, <1>2, SizeAssumption DEF Adr!Word

\* The phonemes of the script are phonemes, and the script goes round.
LEMMA ScriptPlace ==
  /\ Len(Script) \in Nat \ {0}
  /\ \A p \in 1 .. Len(Script) : Script[p] \in Phoneme
  /\ \A p \in 0 .. Len(Script) : P!After(p) \in 1 .. Len(Script) /\ T!Following(p) = P!After(p)
  <1>1. Len(Script) \in Nat \ {0} /\ \A p \in 1 .. Len(Script) : Script[p] \in Phoneme
    BY ScriptAssumption, EmptySeq, ElementOfSeq
  <1>2. QED
    BY <1>1 DEF P!After, T!Following

\* The words of a place of the script.
LEMMA WordsOfPlace ==
  ASSUME NEW p \in 1 .. Len(Script)
  PROVE  /\ T!FirstWord(p) \in Adr!Word /\ T!LastWord(p) \in Adr!Word
         /\ T!FirstWord(p) <= T!LastWord(p)
         /\ Narration[Script[p]].silent \in BOOLEAN
  BY ScriptPlace, TableInFlash DEF T!FirstWord, T!LastWord

-----------------------------------------------------------------------------
\* What every clock does besides the steps of the machine and of the program.
LEMMA ClockFacts ==
  ASSUME AClock
  PROVE  /\ sync_clk' \in BOOLEAN
         /\ sync_clk' /\ ~sync_clk => reads = <<>> /\ Waits
         /\ Narrate
         /\ Hear
         /\ Kbd!TypeOK'
         /\ pos = 0 /\ kbd_state = "idle" => kbd_state' = "idle"
  BY DEF AClock, Clk, SlowClock, SlowKey, Waits, Kbd!Clock, Kbd!TypeOK

\* The flash and the state machine that reads it see the same waitrequest.
LEMMA FlashSteps ==
  ASSUME AClock
  PROVE  \E waitrequest, answer \in BOOLEAN :
           /\ Rd!Clock(Adr!read, Adr!read, waitrequest, readdatavalid)
           /\ F!Clock(Adr!read, addr, waitrequest, answer)
  BY DEF AClock, Clk

-----------------------------------------------------------------------------
\* Types.

\* While a phoneme plays, incrementing the address stays within the register.
LEMMA NoWrap ==
  ASSUME NEW a \in 0 .. MaxWord
  PROVE  (a + 1) % (2 * (MaxWord + 1)) = a + 1
  BY SizeAssumption

LEMMA MachineTypes ==
  ASSUME TalkInv, AClock
  PROVE  Adr!TypeOK'
  <1>1. /\ adr_state \in Adr!States /\ lane \in 0 .. 3 /\ addr \in Adr!Addr /\ end_addr_word \in Adr!Word
        /\ outData \in Adr!Word \X Adr!Lane /\ readdata \in Adr!Word
        /\ pointer \div 4 \in Adr!Word /\ end_val \div 4 \in Adr!Word
    BY DEF TalkInv, TypeOK, RegistersInFlash, Adr!TypeOK, Adr!Lane, F!TypeOK
  <1>2. \A w \in Adr!Word : w \in Adr!Addr
    BY SizeAssumption DEF Adr!Word, Adr!Addr
  <1>3. (lane + 1) % 4 \in 0 .. 3
    BY <1>1
  <1>4. adr_state = "inc_addr" => (addr + 1) % (2 * (MaxWord + 1)) \in Adr!Addr
    <2>1. addr + 1 \in Nat /\ 2 * (MaxWord + 1) \in Nat \ {0}
      BY <1>1, SizeAssumption DEF Adr!Addr
    <2>2. \A a \in Nat, b \in Nat \ {0} : a % b \in 0 .. b - 1
      OBVIOUS
    <2>3. (addr + 1) % (2 * (MaxWord + 1)) \in 0 .. 2 * (MaxWord + 1) - 1
      BY <2>1, <2>2, Zenon
    <2>4. QED
      BY <2>3, SizeAssumption DEF Adr!Addr
  <1>5. CASE Adr!Idle(Kbd!read_signal, pointer, end_val)
    BY <1>1, <1>2, <1>5 DEF Adr!Idle, Adr!TypeOK, Adr!States, Adr!Lane
  <1>6. CASE Adr!OutData(sync_clk, readdata)
    BY <1>1, <1>3, <1>6 DEF Adr!OutData, Adr!TypeOK, Adr!States, Adr!Lane
  <1>7. CASE Adr!IncAddr
    BY <1>1, <1>4, <1>7 DEF Adr!IncAddr, Adr!TypeOK, Adr!States, Adr!Lane
  <1>8. CASE Adr!CheckAddr
    BY <1>1, <1>8 DEF Adr!CheckAddr, Adr!TypeOK, Adr!States, Adr!Lane
  <1>9. CASE \/ Adr!Await("read_flash", Rd!complete, "wait_data")
             \/ Adr!Await("wait_data", ~sync_clk, "out_data")
             \/ Adr!Await("phoneme_ready", pico_ack, "finished")
             \/ Adr!Finished(pico_ack)
    BY <1>1, <1>9 DEF Adr!Await, Adr!Finished, Adr!TypeOK, Adr!States, Adr!Lane
  <1>10. QED
    BY <1>5, <1>6, <1>7, <1>8, <1>9, AdrSteps

LEMMA ProgramTypes ==
  ASSUME TalkInv, AClock
  PROVE  P!TypeOK'
  <1>1. P!TypeOK /\ Adr!complete \in BOOLEAN
    BY DEF TalkInv, TypeOK, Adr!complete
  <1>2. /\ P!After(pos) \in 1 .. Len(Script) /\ Script[P!After(pos)] \in Phoneme
        /\ \A p \in 1 .. Len(Script) : p \in 0 .. Len(Script)
    BY <1>1, ScriptPlace DEF P!TypeOK
  <1>3. CASE P!SayPhoneme
    BY <1>1, <1>2, <1>3 DEF P!SayPhoneme, P!Undefined, P!TypeOK, P!States
  <1>4. CASE P!Acknowledge \/ P!AcknowledgeInput \/ P!Stall
    BY <1>1, <1>4 DEF P!Acknowledge, P!AcknowledgeInput, P!Stall, P!Undefined, P!TypeOK, P!States
  <1>5. CASE \/ P!Select("wait_phoneme_recieve", "read_recieve", Adr!complete)
             \/ P!Select("wait_phoneme_ready", "read_ready", Adr!complete)
    BY <1>1, <1>5 DEF P!Select, P!TypeOK, P!States
  <1>6. CASE P!ReadRecieve \/ P!ReadReady
    BY <1>1, <1>6 DEF P!ReadRecieve, P!ReadReady, P!Decide, P!Undefined, P!TypeOK, P!States
  <1>7. QED
    BY <1>3, <1>4, <1>5, <1>6, PicoSteps

\* The registers of narrator_ctrl.v after a clock.
LEMMA RegisterTypes ==
  ASSUME TalkInv, AClock
  PROVE  /\ silent' \in BOOLEAN /\ pointer' \in Nat /\ end_val' \in Nat
         /\ RegistersInFlash'
  <1>1. output_phoneme \in Phoneme
    BY DEF TalkInv, TypeOK, P!TypeOK
  <1>2. QED
    BY <1>1, TableInFlash, ClockFacts DEF Narrate, RegistersInFlash, Adr!Word

\* The queue of the flash after a clock: the oldest read may be answered, the
\* new one is for the word at addr, and there is room for it.
LEMMA ReadsStep ==
  ASSUME Bus, Len(reads) \in Nat, NEW waitrequest \in BOOLEAN, NEW answer \in BOOLEAN,
         F!Clock(Adr!read, addr, waitrequest, answer)
  PROVE  /\ reads' \in Seq({addr}) /\ Len(reads') <= MaxReads /\ Len(reads') \in Nat
         /\ answer => readdata' = addr
         /\ ~answer => readdata' = readdata
         /\ readdatavalid' = answer
         /\ Adr!read /\ ~waitrequest => reads' # <<>>
         /\ ~Adr!read /\ reads = <<>> => reads' = <<>>
         /\ ~Adr!read => Len(reads') <= Len(reads)
         /\ ~answer /\ reads # <<>> => reads' # <<>>
  <1> DEFINE rest == IF answer THEN Tail(reads) ELSE reads
  <1>1. reads \in Seq({addr}) /\ Len(reads) <= MaxReads
    BY DEF Bus
  <1>2. answer => /\ reads # <<>> /\ Head(reads) = addr
                  /\ Tail(reads) \in Seq({addr}) /\ Len(Tail(reads)) = Len(reads) - 1
    BY <1>1, HeadTailProperties DEF F!Clock, F!MayAnswer
  <1>3. rest \in Seq({addr}) /\ Len(rest) \in Nat /\ Len(rest) <= Len(reads)
    BY <1>1, <1>2
  <1>4. /\ Append(rest, addr) \in Seq({addr}) /\ Append(rest, addr) # <<>>
        /\ Len(Append(rest, addr)) = Len(rest) + 1
    BY <1>3, AppendProperties
  <1>5. ~waitrequest => Len(reads) < MaxReads
    BY DEF F!Clock, F!MayAccept
  <1>6. /\ Adr!read /\ ~waitrequest => reads' = Append(rest, addr)
        /\ ~(Adr!read /\ ~waitrequest) => reads' = rest
        /\ readdata' = IF answer THEN Head(reads) ELSE readdata
        /\ readdatavalid' = answer
    BY DEF F!Clock
  <1>7. ~answer => rest = reads
    OBVIOUS
  <1> HIDE DEF rest
  <1>8. CASE Adr!read /\ ~waitrequest
    <2>1. reads' = Append(rest, addr)
      BY <1>6, <1>8
    <2>2. Len(rest) + 1 <= MaxReads /\ Len(rest) + 1 \in Nat
      BY <1>3, <1>5, <1>8, SizeAssumption
    <2>3. QED
      BY <1>2, <1>4, <1>6, <1>8, <2>1, <2>2
  <1>9. CASE ~(Adr!read /\ ~waitrequest)
    <2>1. Len(rest) <= MaxReads
      BY <1>1, <1>3, SizeAssumption
    <2>2. QED
      BY <1>2, <1>3, <1>6, <1>7, <1>9, <2>1
  <1>10. QED
    BY <1>8, <1>9

\* The number of reads of the flash is a number.
LEMMA ReadsCounted ==
  ASSUME TalkInv
  PROVE  Len(reads) \in Nat
  BY LenProperties DEF TalkInv, Bus

LEMMA FlashTypes ==
  ASSUME TalkInv, AClock
  PROVE  F!TypeOK'
  <1>1. PICK waitrequest \in BOOLEAN, answer \in BOOLEAN : F!Clock(Adr!read, addr, waitrequest, answer)
    BY FlashSteps
  <1>2. /\ reads' \in Seq({addr}) /\ Len(reads') <= MaxReads /\ Len(reads') \in Nat
        /\ answer => readdata' = addr /\ reads # <<>>
        /\ ~answer => readdata' = readdata
        /\ readdatavalid' \in BOOLEAN
        /\ Adr!read \/ reads # <<>> \/ reads' = <<>>
    BY <1>1, ReadsStep, ReadsCounted DEF TalkInv, F!Clock, F!MayAnswer
  <1>3. Reading => addr \in Adr!Word
    <2>1. Reading => pos \in 1 .. Len(Script) /\ addr \in T!FirstWord(pos) .. T!LastWord(pos)
      BY ScriptPlace DEF TalkInv, TypeOK, P!TypeOK, Handshake, Loading, Reading, Playing
    <2>2. QED
      BY <2>1, WordsOfPlace, SizeAssumption DEF Adr!Word
  <1>4. reads' = <<>> \/ addr \in Adr!Word
    BY <1>2, <1>3 DEF TalkInv, Bus, Adr!read, Reading
  <1>5. readdata' \in Adr!Word
    BY <1>2, <1>3 DEF TalkInv, Bus, TypeOK, F!TypeOK
  <1>6. reads' \in [1 .. Len(reads') -> Adr!Word]
    <2>1. reads' \in [1 .. Len(reads') -> {addr}]
      BY <1>2, LenProperties
    <2>2. CASE addr \in Adr!Word
      BY <2>1, <2>2
    <2>3. CASE reads' = <<>>
      BY <2>1, <2>3, LenProperties, EmptySeq
    <2>4. QED
      BY <1>4, <2>2, <2>3
  <1>7. Len(reads') \in 0 .. MaxReads
    BY <1>2, SizeAssumption
  <1>8. QED
    BY <1>2, <1>5, <1>6, <1>7 DEF F!TypeOK

-----------------------------------------------------------------------------
\* The words on the bus.

LEMMA BusStep ==
  ASSUME TalkInv, AClock
  PROVE  Bus'
  <1> USE DEF Reading
  <1>1. PICK waitrequest \in BOOLEAN, answer \in BOOLEAN :
          /\ Rd!Clock(Adr!read, Adr!read, waitrequest, readdatavalid)
          /\ F!Clock(Adr!read, addr, waitrequest, answer)
    BY FlashSteps
  <1>2. /\ reads' \in Seq({addr}) /\ Len(reads') <= MaxReads
        /\ answer => readdata' = addr
        /\ ~answer => readdata' = readdata
        /\ Adr!read /\ ~waitrequest => reads' # <<>>
        /\ ~Adr!read /\ reads = <<>> => reads' = <<>>
        /\ ~answer /\ reads # <<>> => reads' # <<>>
    BY <1>1, ReadsStep, ReadsCounted DEF TalkInv
  <1>3. /\ ~Reading => reads = <<>>
        /\ adr_state = "out_data" /\ sync_clk => reads = <<>>
        /\ rd_state # "idle" => adr_state = "read_flash"
        /\ \/ rd_state \in {"wait_read", "finished"}
           \/ adr_state \in {"wait_data", "out_data"}
           => reads # <<>> \/ readdata = addr
    BY DEF TalkInv, Bus
  <1>4. sync_clk' /\ ~sync_clk => reads = <<>>
    BY ClockFacts
  <1>5. Adr!read <=> adr_state = "read_flash"
    BY DEF Adr!read
  <1>6. /\ rd_state' = "wait_read" => rd_state = "wait_read" \/ (rd_state = "slave_init" /\ ~waitrequest)
        /\ rd_state' = "finished" => rd_state = "wait_read"
        /\ rd_state' # "idle" => rd_state \notin {"idle", "finished"} \/ (rd_state = "idle" /\ Adr!read)
        /\ Rd!complete => rd_state = "finished" /\ rd_state' = "idle"
    BY <1>1 DEF Rd!Clock, Rd!SlaveInit, Rd!Await, Rd!complete
  <1>7. /\ adr_state' = "read_flash" \/ adr_state # "read_flash" \/ Rd!complete
        /\ adr_state' = "wait_data" => adr_state \in {"wait_data", "out_data"} \/ Rd!complete
        /\ adr_state' = "out_data" => ~sync_clk /\ adr_state \in {"wait_data", "out_data"}
        /\ ~(adr_state' \in {"read_flash", "wait_data", "out_data"})
             => ~Reading \/ (adr_state = "out_data" /\ sync_clk)
        /\ Reading => addr' = addr
    BY AdrSteps DEF Adr!Idle, Adr!Await, Adr!OutData, Adr!IncAddr, Adr!CheckAddr, Adr!Finished
  <1>8. reads' \in Seq({addr'})
    <2>1. CASE Reading
      BY <1>2, <1>7, <2>1
    <2>2. CASE ~Reading
      BY <1>2, <1>3, <1>5, <2>2, EmptySeq
    <2>3. QED
      BY <2>1, <2>2
  <1>9. ~Reading' => reads' = <<>>
    BY <1>2, <1>3, <1>5, <1>7
  <1>10. adr_state' = "out_data" /\ sync_clk' => reads' = <<>>
    BY <1>2, <1>4, <1>5, <1>7, ClockFacts
  <1>11. rd_state' # "idle" => adr_state' = "read_flash"
    BY <1>3, <1>5, <1>6, <1>7
  <1>12. ASSUME \/ rd_state' \in {"wait_read", "finished"}
                \/ adr_state' \in {"wait_data", "out_data"}
         PROVE  reads' # <<>> \/ readdata' = addr'
    <2>1. Reading /\ addr' = addr
      BY <1>3, <1>6, <1>7, <1>12, <1>5 DEF Rd!complete
    <2>2. \/ rd_state = "slave_init" /\ ~waitrequest
          \/ reads # <<>> \/ readdata = addr
      BY <1>3, <1>6, <1>7, <1>12 DEF Rd!complete
    <2>3. QED
      BY <1>2, <1>3, <1>5, <2>1, <2>2
  <1>13. QED
    BY <1>2, <1>8, <1>9, <1>10, <1>11, <1>12 DEF Bus

-----------------------------------------------------------------------------
\* The handshake of the program and the machine.

LEMMA LaneZeroStep ==
  ASSUME TalkInv, AClock
  PROVE  LaneZero'
  <1>1. lane \in 0 .. 3 /\ (adr_state \notin {"wait_data", "out_data"} => lane = 0)
    BY DEF TalkInv, TypeOK, LaneZero, Adr!TypeOK, Adr!Lane
  <1>2. CASE Adr!OutData(sync_clk, readdata)
    <2>1. lane = 3 => (lane + 1) % 4 = 0
      OBVIOUS
    <2>2. QED
      BY <1>1, <1>2, <2>1 DEF Adr!OutData, LaneZero
  <1>3. QED
    BY <1>1, <1>2, AdrSteps
       DEF LaneZero, Adr!Idle, Adr!Await, Adr!IncAddr, Adr!CheckAddr, Adr!Finished

\* What the machine may do in a clock, by its state.
LEMMA MachineMoves ==
  ASSUME TalkInv, AClock
  PROVE  /\ adr_state = "idle" =>
              adr_state' = IF kbd_state = "play" THEN "read_flash" ELSE "idle"
         /\ adr_state = "phoneme_ready" =>
              adr_state' = IF pico_ack THEN "finished" ELSE "phoneme_ready"
         /\ adr_state = "finished" =>
              adr_state' = IF pico_ack THEN "finished" ELSE "idle"
         /\ Reading /\ lane = 0 /\ ~sync_clk => Reading' /\ lane' = 0
  BY AdrSteps DEF Kbd!read_signal, Reading, Adr!Idle, Adr!Await, Adr!OutData, Adr!IncAddr,
                  Adr!CheckAddr, Adr!Finished

\* Before the first sample the machine stays there while the program is busy.
LEMMA StaysBeforeFirst ==
  ASSUME TalkInv, AClock, BeforeFirst, ~Waits
  PROVE  BeforeFirst'
  <1>1. ~sync_clk'
    BY ClockFacts DEF BeforeFirst
  <1>2. adr_state = "idle" => lane = 0 /\ adr_state' \in {"idle", "read_flash"} /\ lane' = 0
    BY AdrSteps, LaneZeroStep DEF TalkInv, LaneZero, Adr!Idle, Adr!Await, Adr!OutData, Adr!IncAddr,
                  Adr!CheckAddr, Adr!Finished
  <1>3. QED
    BY <1>1, <1>2, MachineMoves DEF BeforeFirst, Reading

LEMMA HandshakeStep ==
  ASSUME TalkInv, AClock
  PROVE  Handshake'
  <1> USE DEF Waits
  <1>1. Handshake /\ pos \in 0 .. Len(Script) /\ pico_ack \in BOOLEAN /\ in_port \in BOOLEAN
    BY DEF TalkInv, TypeOK, P!TypeOK
  <1>2. P!After(pos) # 0
    BY <1>1, ScriptPlace
  <1>3. pos = 0 /\ ~Waits => /\ adr_state' = "idle" /\ kbd_state' = "idle" /\ ~sync_clk'
                             /\ BeforeFirst'
    BY <1>1, ClockFacts, MachineMoves DEF Handshake, BeforeFirst
  <1>4. CASE P!SayPhoneme
    BY <1>1, <1>2, <1>3, <1>4, MachineMoves DEF P!SayPhoneme, Handshake
  <1>5. CASE P!Acknowledge
    BY <1>1, <1>3, <1>5, MachineMoves, StaysBeforeFirst DEF P!Acknowledge, Handshake
  <1>6. CASE P!AcknowledgeInput
    BY <1>1, <1>3, <1>6 DEF P!AcknowledgeInput, Handshake
  <1>7. CASE P!Select("wait_phoneme_recieve", "read_recieve", Adr!complete)
    BY <1>1, <1>3, <1>7, MachineMoves, StaysBeforeFirst DEF P!Select, Adr!complete, Handshake, BeforeFirst, Reading
  <1>8. CASE P!ReadRecieve
    BY <1>1, <1>3, <1>8, MachineMoves, StaysBeforeFirst DEF P!ReadRecieve, P!Decide, Handshake, BeforeFirst, Reading
  <1>9. CASE P!Select("wait_phoneme_ready", "read_ready", Adr!complete)
    BY <1>1, <1>3, <1>9, MachineMoves DEF P!Select, Adr!complete, Handshake
  <1>10. CASE P!ReadReady
    BY <1>1, <1>10, MachineMoves DEF P!ReadReady, P!Decide, Handshake
  <1>11. CASE P!Stall
    BY <1>1, <1>3, <1>11, MachineMoves, StaysBeforeFirst DEF P!Stall, Handshake
  <1>12. QED
    BY <1>4, <1>5, <1>6, <1>7, <1>8, <1>9, <1>10, <1>11, PicoSteps

-----------------------------------------------------------------------------
\* The registers of the phoneme.

\* The program goes on in the script only by saying a phoneme, and then the
\* machine neither plays nor looks at the registers.
LEMMA PlaceMoves ==
  ASSUME TalkInv, AClock
  PROVE  \/ /\ ~P!SayPhoneme /\ pos' = pos /\ output_phoneme' = output_phoneme
            /\ pc' = "acknowledge" => pc = "acknowledge"
         \/ /\ P!SayPhoneme /\ pc = "say_phoneme" /\ pc' = "acknowledge" /\ ~pico_ack
            /\ pos' = P!After(pos) /\ output_phoneme' = Script[P!After(pos)]
            /\ \/ adr_state = "phoneme_ready" /\ adr_state' = "phoneme_ready"
               \/ pos = 0 /\ adr_state = "idle" /\ adr_state' = "idle" /\ kbd_state' = "idle"
  <1>1. Handshake /\ pico_ack \in BOOLEAN
    BY DEF TalkInv, TypeOK, P!TypeOK
  <1>2. CASE P!SayPhoneme
    BY <1>1, <1>2, MachineMoves, ClockFacts DEF P!SayPhoneme, Handshake
  <1>3. CASE ~P!SayPhoneme
    BY <1>3, PicoSteps DEF P!Acknowledge, P!Select, P!ReadRecieve, P!ReadReady, P!Decide,
                           P!AcknowledgeInput, P!Stall
  <1>4. QED
    BY <1>2, <1>3

LEMMA LoadingStep ==
  ASSUME TalkInv, AClock
  PROVE  Loading'
  <1>1. /\ pos \in 0 .. Len(Script)
        /\ pos # 0 => output_phoneme = Script[pos]
        /\ pos # 0 /\ (pc # "acknowledge" \/ Playing \/ (adr_state = "idle" /\ kbd_state = "play")) => Loaded
        /\ pos = 0 => adr_state = "idle" /\ kbd_state = "idle"
    BY DEF TalkInv, TypeOK, P!TypeOK, Loading, Handshake
  <1>2. Narrate
    BY ClockFacts
  <1>3. pos' # 0 => output_phoneme' = Script[pos']
    BY <1>1, PlaceMoves
  <1>4. ASSUME pos' # 0,
               pc' # "acknowledge" \/ Playing' \/ (adr_state' = "idle" /\ kbd_state' = "play")
        PROVE  Loaded'
    <2>1. pos' = pos /\ output_phoneme = Script[pos]
      BY <1>1, <1>4, PlaceMoves DEF Playing
    <2>2. QED
      BY <1>2, <2>1 DEF Narrate, Loaded, Entry
  <1>5. ASSUME Playing'
        PROVE  /\ end_addr_word' = T!LastWord(pos')
               /\ \/ adr_state' # "check_addr" /\ addr' \in T!FirstWord(pos') .. T!LastWord(pos')
                  \/ adr_state' = "check_addr" /\ addr' - 1 \in T!FirstWord(pos') .. T!LastWord(pos')
    <2>1. CASE adr_state = "idle"
      <3>1. adr_state' = "read_flash" /\ kbd_state = "play"
        BY <1>5, <2>1, MachineMoves DEF Playing
      <3>2. pos' = pos /\ pos \in 1 .. Len(Script) /\ Loaded
        BY <1>1, <2>1, <3>1, PlaceMoves, ScriptPlace
      <3>3. addr' = pointer \div 4 /\ end_addr_word' = end_val \div 4
        BY <2>1, AdrSteps DEF Adr!Idle, Adr!Await, Adr!OutData, Adr!IncAddr, Adr!CheckAddr, Adr!Finished
      <3>4. addr' = T!FirstWord(pos') /\ end_addr_word' = T!LastWord(pos')
        BY <3>2, <3>3 DEF Loaded, Entry, T!FirstWord, T!LastWord
      <3>5. QED
        BY <3>1, <3>2, <3>4, WordsOfPlace DEF Adr!Word
    <2>2. CASE adr_state # "idle"
      <3>1. Playing /\ adr_state \notin {"phoneme_ready", "finished"}
        BY <1>5, <2>2, MachineMoves DEF Playing
      <3>2. pos' = pos /\ pos \in 1 .. Len(Script)
        BY <1>1, <2>2, <3>1, PlaceMoves, ScriptPlace DEF Playing
      <3>3. /\ end_addr_word = T!LastWord(pos)
            /\ \/ adr_state # "check_addr" /\ addr \in T!FirstWord(pos) .. T!LastWord(pos)
               \/ adr_state = "check_addr" /\ addr - 1 \in T!FirstWord(pos) .. T!LastWord(pos)
            /\ addr \in Nat
        BY <3>1, SizeAssumption DEF TalkInv, Loading, TypeOK, Adr!TypeOK, Adr!Addr
      <3>4. T!FirstWord(pos) \in 0 .. MaxWord /\ T!LastWord(pos) \in 0 .. MaxWord
        BY <3>2, WordsOfPlace DEF Adr!Word
      <3>5. CASE Adr!IncAddr
        <4>1. addr \in 0 .. MaxWord /\ addr \in T!FirstWord(pos) .. T!LastWord(pos)
          BY <3>3, <3>4, <3>5, SizeAssumption DEF Adr!IncAddr
        <4>2. addr' = addr + 1 /\ adr_state' = "check_addr" /\ end_addr_word' = end_addr_word
          BY <3>5, <4>1, NoWrap DEF Adr!IncAddr
        <4>3. QED
          BY <3>2, <3>3, <4>1, <4>2
      <3>6. CASE ~Adr!IncAddr
        <4>1. /\ addr' = addr /\ end_addr_word' = end_addr_word /\ adr_state' # "check_addr"
              /\ adr_state = "check_addr" => addr <= end_addr_word
          BY <1>5, <3>1, <3>6, AdrSteps
             DEF Playing, Adr!Idle, Adr!Await, Adr!OutData, Adr!CheckAddr, Adr!Finished
        <4>2. QED
          BY <3>2, <3>3, <3>4, <4>1
      <3>7. QED
        BY <3>5, <3>6
    <2>3. QED
      BY <2>1, <2>2
  <1>6. QED
    BY <1>3, <1>4, <1>5 DEF Loading

-----------------------------------------------------------------------------
\* What is heard.

\* The sample that comes after s.
SuccessorOf(s) ==
  IF s.pos # 0 /\ s.lane < 3 THEN T!Sample(s.pos, s.word, s.lane + 1)
  ELSE IF s.pos # 0 /\ s.word < T!LastWord(s.pos)
       THEN T!Sample(s.pos, s.word + 1, 0)
       ELSE T!Sample(T!Following(s.pos), T!FirstWord(T!Following(s.pos)), 0)

LEMMA SuccessorIs == T!Successor = SuccessorOf(sample) /\ T!Successor' = SuccessorOf(sample')
  BY DEF SuccessorOf, T!Successor, T!Sample, T!Following, T!FirstWord, T!LastWord

LEMMA SamplesInOrder ==
  ASSUME NEW p \in 1 .. Len(Script)
  PROVE  /\ \A w \in Nat, n \in 0 .. 2 : SuccessorOf(T!Sample(p, w, n)) = T!Sample(p, w, n + 1)
         /\ \A w \in Nat : w < T!LastWord(p) => SuccessorOf(T!Sample(p, w, 3)) = T!Sample(p, w + 1, 0)
         /\ SuccessorOf(T!Sample(p, T!LastWord(p), 3)) =
              T!Sample(P!After(p), T!FirstWord(P!After(p)), 0)
  <1>1. p # 0 /\ p \in 0 .. Len(Script) /\ T!LastWord(p) \in Nat
    BY ScriptPlace, WordsOfPlace DEF Adr!Word
  <1>2. \A w, n : /\ T!Sample(p, w, n).pos = p
                  /\ T!Sample(p, w, n).word = w /\ T!Sample(p, w, n).lane = n
    BY DEF T!Sample
  <1>3. T!Following(p) = P!After(p)
    BY <1>1, ScriptPlace
  <1>4. QED
    BY <1>1, <1>2, <1>3 DEF SuccessorOf

\* The first sample of all.
LEMMA FirstSample ==
  SuccessorOf([pos |-> 0, silent |-> TRUE, word |-> 0, lane |-> 0]) =
    T!Sample(P!After(0), T!FirstWord(P!After(0)), 0)
  <1>1. T!Following(0) = P!After(0)
    BY ScriptPlace
  <1>2. QED
    BY <1>1 DEF SuccessorOf

\* A byte is heard only as the next sample of the script.
LEMMA HearsTheNext ==
  ASSUME TalkInv, AClock
  PROVE  IF adr_state = "out_data" /\ sync_clk
         THEN sample' = T!Sample(pos, addr, lane) /\ sample' = T!Successor
         ELSE sample' = sample
  <1>1. CASE adr_state = "out_data" /\ sync_clk
    <2>1. pos # 0 /\ Playing /\ Reading
      BY <1>1 DEF TalkInv, Handshake, Playing, Reading
    <2>2. silent = Narration[Script[pos]].silent
      BY <2>1 DEF TalkInv, Loading, Loaded, Entry
    <2>3. readdata = addr
      BY <1>1 DEF TalkInv, Bus
    <2>4. sample' = T!Sample(pos, addr, lane)
      BY <1>1, <2>2, <2>3, ClockFacts DEF Hear, T!Sample
    <2>5. QED
      BY <1>1, <2>1, <2>4 DEF TalkInv, Heard
  <1>2. CASE ~(adr_state = "out_data" /\ sync_clk)
    BY <1>2, ClockFacts DEF Hear
  <1>3. QED
    BY <1>1, <1>2

LEMMA SampleType ==
  ASSUME TalkInv, AClock
  PROVE  sample' \in [pos : 0 .. Len(Script), silent : BOOLEAN, word : Adr!Word, lane : Adr!Lane]
  BY ClockFacts DEF TalkInv, TypeOK, Hear, P!TypeOK, F!TypeOK, Adr!TypeOK

LEMMA HeardStep ==
  ASSUME TalkInv, AClock
  PROVE  Heard'
  <1> DEFINE Byte(p, w, n) == T!Sample(p, w, n)
  <1>1. /\ pos \in 0 .. Len(Script) /\ lane \in 0 .. 3
        /\ LaneZero /\ Heard /\ Handshake
    BY DEF TalkInv, TypeOK, P!TypeOK, Adr!TypeOK, Adr!Lane
  <1>2. pos # 0 => pos \in 1 .. Len(Script)
    BY <1>1, ScriptPlace
  <1>3. pos' = 0 => pos = 0 /\ adr_state = "idle"
    BY <1>1, PlaceMoves, ScriptPlace DEF Handshake
  <1>4. pos' = 0 => sample' = [pos |-> 0, silent |-> TRUE, word |-> 0, lane |-> 0]
    BY <1>1, <1>3, HearsTheNext DEF Heard
  <1>5. SUFFICES ASSUME pos' # 0
                 PROVE  /\ Reading' => SuccessorOf(sample') = Byte(pos', addr', lane')
                        /\ adr_state' = "inc_addr" => sample' = Byte(pos', addr', 3)
                        /\ adr_state' = "check_addr" => sample' = Byte(pos', addr' - 1, 3)
                        /\ adr_state' = "phoneme_ready" /\ ~Offers'
                             => sample' = Byte(pos', T!LastWord(pos'), 3)
                        /\ \/ adr_state' = "phoneme_ready" /\ Offers'
                           \/ adr_state' \in {"finished", "idle"}
                           => SuccessorOf(sample') = Byte(pos', T!FirstWord(pos'), 0)
    BY <1>4, SuccessorIs DEF Heard, Byte, T!Sample, T!FirstWord, T!LastWord
  <1>6. CASE P!SayPhoneme
    <2>1. /\ pc = "say_phoneme" /\ pc' = "acknowledge" /\ pos' = P!After(pos)
          /\ \/ adr_state = "phoneme_ready" /\ adr_state' = "phoneme_ready"
             \/ pos = 0 /\ adr_state = "idle" /\ adr_state' = "idle"
      BY <1>6, PlaceMoves
    <2>2. sample' = sample /\ Offers' /\ ~Offers
      BY <2>1, HearsTheNext DEF Offers
    <2>3. SuccessorOf(sample) = Byte(pos', T!FirstWord(pos'), 0)
      <3>1. CASE pos = 0
        BY <1>1, <2>1, <3>1, FirstSample DEF Heard
      <3>2. CASE pos # 0
        BY <1>1, <1>2, <2>1, <2>2, <3>2, SamplesInOrder DEF Heard
      <3>3. QED
        BY <3>1, <3>2
    <2>4. QED
      BY <2>1, <2>2, <2>3 DEF Reading
  <1>7. CASE ~P!SayPhoneme
    <2> pos' = pos
      BY <1>7, PlaceMoves
    <2>1. /\ pos \in 1 .. Len(Script) /\ T!FirstWord(pos) \in 0 .. MaxWord /\ T!LastWord(pos) \in 0 .. MaxWord
          /\ Playing => /\ \/ adr_state # "check_addr" /\ addr \in T!FirstWord(pos) .. T!LastWord(pos)
                           \/ adr_state = "check_addr" /\ addr - 1 \in T!FirstWord(pos) .. T!LastWord(pos)
                        /\ addr \in Nat
                        /\ end_addr_word = T!LastWord(pos)
      BY <1>2, <1>5, <1>7, WordsOfPlace, SizeAssumption DEF TalkInv, Loading, TypeOK, Adr!TypeOK, Adr!Addr, Adr!Word
    <2>2. /\ Reading => SuccessorOf(sample) = Byte(pos, addr, lane)
          /\ adr_state = "inc_addr" => sample = Byte(pos, addr, 3)
          /\ adr_state = "check_addr" => sample = Byte(pos, addr - 1, 3)
          /\ adr_state = "phoneme_ready" /\ ~Offers => sample = Byte(pos, T!LastWord(pos), 3)
          /\ \/ adr_state = "phoneme_ready" /\ Offers
             \/ adr_state \in {"finished", "idle"}
             => SuccessorOf(sample) = Byte(pos, T!FirstWord(pos), 0)
      BY <1>1, <2>1, SuccessorIs DEF Heard
    <2>3. CASE Adr!OutData(sync_clk, readdata)
      <3>1. adr_state = "out_data" /\ addr' = addr
        BY <2>3 DEF Adr!OutData
      <3>2. CASE ~sync_clk
        BY <1>7, <2>2, <2>3, <3>1, <3>2, HearsTheNext DEF Adr!OutData, Reading
      <3>3. CASE sync_clk
        <4>1. sample' = Byte(pos, addr, lane)
          BY <3>1, <3>3, HearsTheNext
        <4>2. CASE lane = 3
          BY <1>7, <2>3, <3>1, <3>3, <4>1, <4>2 DEF Adr!OutData, Reading
        <4>3. CASE lane \in 0 .. 2
          <5>1. lane' = lane + 1 /\ adr_state' = "wait_data"
            BY <2>3, <3>3, <4>3 DEF Adr!OutData
          <5>2. SuccessorOf(sample') = Byte(pos, addr, lane + 1)
            BY <2>1, <3>1, <4>1, <4>3, SamplesInOrder DEF Playing
          <5>3. QED
            BY <1>7, <3>1, <5>1, <5>2
        <4>4. QED
          BY <1>1, <4>2, <4>3
      <3>4. QED
        BY <1>1, <3>2, <3>3
    <2>4. ASSUME adr_state # "out_data" PROVE sample' = sample
      BY <2>4, HearsTheNext
    <2>5. CASE Adr!IncAddr
      <3>1. addr' = addr + 1
        <4>1. addr \in 0 .. MaxWord
          BY <2>1, <2>5, SizeAssumption DEF Playing, Adr!IncAddr
        <4>2. QED
          BY <2>5, <4>1, NoWrap DEF Adr!IncAddr
      <3>2. addr' - 1 = addr
        BY <2>1, <2>5, <3>1 DEF Playing, Adr!IncAddr
      <3>3. QED
        BY <1>7, <2>2, <2>4, <2>5, <3>2 DEF Adr!IncAddr, Reading
    <2>6. CASE Adr!CheckAddr
      <3>1. sample' = Byte(pos, addr - 1, 3) /\ addr' = addr /\ lane' = 0 /\ adr_state = "check_addr"
        BY <1>1, <2>2, <2>4, <2>6 DEF Adr!CheckAddr, LaneZero
      <3>2. CASE addr <= T!LastWord(pos)
        <4>1. adr_state' = "read_flash"
          BY <2>1, <2>6, <3>2 DEF Adr!CheckAddr, Playing
        <4>2. addr \in Nat /\ T!LastWord(pos) \in Nat
          BY <2>1, <3>1 DEF Playing
        <4>3. SuccessorOf(Byte(pos, addr - 1, 3)) = Byte(pos, addr, 0)
          <5>1. addr - 1 \in Nat /\ addr - 1 < T!LastWord(pos) /\ (addr - 1) + 1 = addr
            BY <2>1, <3>1, <3>2, <4>2 DEF Playing
          <5>2. QED
            BY <2>1, <5>1, SamplesInOrder
        <4>4. QED
          BY <1>7, <3>1, <4>1, <4>3
      <3>3. CASE addr > T!LastWord(pos)
        <4>1. adr_state' = "phoneme_ready" /\ addr - 1 = T!LastWord(pos)
          BY <2>1, <2>6, <3>1, <3>3 DEF Adr!CheckAddr, Playing
        <4>2. ~Offers'
          <5>1. ~Offers /\ pc # "say_phoneme"
            BY <1>1, <3>1, <2>1 DEF Handshake, Offers, BeforeFirst, Reading
          <5>2. QED
            BY <5>1, PicoSteps
               DEF Offers, P!SayPhoneme, P!Acknowledge, P!Select, P!ReadRecieve, P!ReadReady, P!Decide,
                   P!AcknowledgeInput, P!Stall
        <4>3. QED
          BY <1>7, <3>1, <4>1, <4>2 DEF Reading
      <3>4. QED
        BY <2>1, <3>1, <3>2, <3>3 DEF Playing
    <2>7. CASE Adr!Idle(Kbd!read_signal, pointer, end_val)
      <3>1. sample' = sample /\ adr_state = "idle" /\ lane' = 0
        BY <1>1, <2>4, <2>7 DEF Adr!Idle, LaneZero
      <3>2. adr_state' = "read_flash" => addr' = T!FirstWord(pos)
        BY <2>1, <2>7 DEF Adr!Idle, Kbd!read_signal, TalkInv, Loading, Loaded, Entry, T!FirstWord
      <3>3. QED
        BY <1>7, <2>2, <2>7, <3>1, <3>2 DEF Adr!Idle, Reading
    <2>8. CASE \/ Adr!Await("read_flash", Rd!complete, "wait_data")
               \/ Adr!Await("wait_data", ~sync_clk, "out_data")
      BY <1>7, <2>2, <2>4, <2>8 DEF Adr!Await, Reading
    <2>9. CASE Adr!Await("phoneme_ready", pico_ack, "finished")
      <3>1. sample' = sample /\ adr_state = "phoneme_ready"
        BY <2>4, <2>9 DEF Adr!Await
      <3>2. CASE pico_ack
        <4>1. Offers
          BY <1>1, <3>1, <3>2 DEF Handshake, Offers, BeforeFirst, Reading
        <4>2. QED
          BY <1>7, <2>2, <2>9, <3>1, <3>2, <4>1 DEF Adr!Await, Reading
      <3>3. CASE ~pico_ack
        <4>1. Offers <=> Offers'
          <5>1. pc \notin {"wait_phoneme_recieve", "read_recieve", "acknowledge_input"}
            BY <1>1, <3>3 DEF Handshake
          <5>2. QED
            BY <1>7, <5>1, PicoSteps
               DEF Offers, P!Acknowledge, P!Select, P!ReadRecieve, P!ReadReady, P!Decide,
                   P!AcknowledgeInput, P!Stall
        <4>2. QED
          BY <1>7, <2>2, <2>9, <3>1, <3>3, <4>1 DEF Adr!Await, Reading
      <3>4. QED
        BY <3>2, <3>3
    <2>10. CASE Adr!Finished(pico_ack)
      BY <1>7, <2>2, <2>4, <2>10 DEF Adr!Finished, Adr!Await, Reading
    <2>11. QED
      BY <2>3, <2>5, <2>6, <2>7, <2>8, <2>9, <2>10, AdrSteps
  <1>8. QED
    BY <1>6, <1>7

-----------------------------------------------------------------------------
\* The theorems.

LEMMA TalkInvInit == Init => TalkInv
  <1> SUFFICES ASSUME Init PROVE TalkInv
    OBVIOUS
  <1>1. /\ adr_state = "idle" /\ lane = 0 /\ addr = 0 /\ end_addr_word = 0 /\ outData = <<0, 0>>
        /\ rd_state = "idle" /\ kbd_state = "idle"
        /\ pc = "say_phoneme" /\ pos = 0 /\ output_phoneme = 0 /\ pico_ack = FALSE /\ in_port = FALSE
        /\ silent = FALSE /\ pointer = 0 /\ end_val = 0
        /\ reads = <<>> /\ readdata = 0 /\ readdatavalid = FALSE /\ sync_clk = FALSE
        /\ sample = [pos |-> 0, silent |-> TRUE, word |-> 0, lane |-> 0]
    BY DEF Init, Adr!Init, Rd!Init, Kbd!Init, P!Init, F!Init, T!Init
  <1>2. 0 \in Adr!Word /\ 0 \in Adr!Addr /\ 0 \in Adr!Lane /\ 0 \div 4 = 0 /\ 0 \in 0 .. Len(Script)
    BY SizeAssumption, ScriptPlace DEF Adr!Word, Adr!Addr, Adr!Lane
  <1>3. reads \in Seq({addr}) /\ Len(reads) = 0 /\ reads \in [1 .. 0 -> Adr!Word] /\ 0 \in 0 .. MaxReads
    BY <1>1, SizeAssumption, EmptySeq, LenProperties
  <1>4. Adr!TypeOK /\ Rd!TypeOK /\ Kbd!TypeOK
    BY <1>1, <1>2 DEF Adr!TypeOK, Adr!States, Rd!TypeOK, Rd!States, Kbd!TypeOK
  <1>5. P!TypeOK
    BY <1>1, <1>2, ScriptAssumption DEF P!TypeOK, P!States
  <1>6. F!TypeOK
    BY <1>1, <1>2, <1>3 DEF F!TypeOK
  <1>7. TypeOK
    BY <1>1, <1>2, <1>4, <1>5, <1>6 DEF TypeOK
  <1>8. RegistersInFlash /\ LaneZero /\ Handshake
    BY <1>1, <1>2 DEF RegistersInFlash, LaneZero, Handshake
  <1>9. Loading /\ Heard
    BY <1>1 DEF Loading, Heard, Playing
  <1>10. Bus
    BY <1>1, <1>3, SizeAssumption DEF Bus, Reading
  <1>11. QED
    BY <1>7, <1>8, <1>9, <1>10 DEF TalkInv

LEMMA TalkInvStep == TalkInv /\ [Next]_vars => TalkInv'
  <1> SUFFICES ASSUME TalkInv, [Next]_vars PROVE TalkInv'
    OBVIOUS
  <1>1. CASE Next
    <2>1. AClock
      BY <1>1, NextIsClock
    <2>2. Rd!TypeOK'
      BY <2>1, FlashSteps DEF TalkInv, TypeOK, Rd!TypeOK, Rd!States, Rd!Clock, Rd!SlaveInit, Rd!Await
    <2>3. TypeOK'
      BY <2>1, <2>2, MachineTypes, ProgramTypes, RegisterTypes, FlashTypes, SampleType, ClockFacts DEF TypeOK
    <2>4. QED
      BY <2>1, <2>3, RegisterTypes, LaneZeroStep, HandshakeStep, LoadingStep, BusStep, HeardStep DEF TalkInv
  <1>2. CASE UNCHANGED vars
    <2>1. /\ UNCHANGED <<adr_state, lane, addr, end_addr_word, outData>>
          /\ UNCHANGED <<rd_state, kbd_state, sync_clk, sample>>
          /\ UNCHANGED <<pc, pos, output_phoneme, pico_ack, in_port>>
          /\ UNCHANGED <<silent, pointer, end_val, reads, readdata, readdatavalid>>
      BY <1>2 DEF vars, adrVars, narVars, P!picoVars, F!flashVars
    <2>2. TypeOK' /\ RegistersInFlash' /\ LaneZero'
      BY <2>1 DEF TalkInv, TypeOK, RegistersInFlash, LaneZero, Adr!TypeOK, Rd!TypeOK, Kbd!TypeOK, P!TypeOK, F!TypeOK
    <2>3. Handshake' /\ Loading'
      BY <2>1 DEF TalkInv, Handshake, BeforeFirst, Reading, Loading, Loaded, Entry, Playing, T!FirstWord, T!LastWord
    <2>4. Bus' /\ Heard'
      BY <2>1 DEF TalkInv, Bus, Heard, Reading, Offers, T!Successor, T!Sample, T!FirstWord, T!LastWord, T!Following
    <2>5. QED
      BY <2>2, <2>3, <2>4 DEF TalkInv
  <1>3. QED
    BY <1>1, <1>2

(***************************************************************************)
(* The inductive invariant: the full handshake of speech.psm and           *)
(* flash_address_control.sv, the registers of narrator_ctrl.v, the reads   *)
(* that the flash has not answered, and what was heard, fit together.      *)
(***************************************************************************)
THEOREM TalkInvariant == Spec => []TalkInv
  BY TalkInvInit, TalkInvStep, PTL DEF Spec

(***************************************************************************)
(* Although the reader leaves wait_read before the word arrives, and the   *)
(* registers follow the program a clock later, the machine plays the words *)
(* of the phoneme that was said last and the bus shows the word it plays.  *)
(***************************************************************************)
THEOREM PlaysWhatWasSaid == Spec => []SpeechInv
  <1>1. TalkInv => SpeechInv
    <2> SUFFICES ASSUME TalkInv PROVE SpeechInv
      OBVIOUS
    <2>1. AddressesLoaded
      <3> SUFFICES ASSUME Playing
                   PROVE  /\ pos # 0
                          /\ end_addr_word = T!LastWord(pos)
                          /\ silent = Narration[Script[pos]].silent
                          /\ addr \in T!FirstWord(pos) .. T!LastWord(pos) + 1
        BY DEF AddressesLoaded
      <3>1. pos # 0 /\ pos \in 1 .. Len(Script)
        BY ScriptPlace DEF TalkInv, TypeOK, P!TypeOK, Handshake, Playing
      <3>2. T!FirstWord(pos) \in Nat /\ T!LastWord(pos) \in Nat /\ addr \in Nat
        BY <3>1, WordsOfPlace, SizeAssumption DEF TalkInv, TypeOK, Adr!TypeOK, Adr!Addr, Adr!Word
      <3>3. QED
        BY <3>1, <3>2 DEF TalkInv, Loading, Loaded, Entry
    <2>2. QED
      BY <2>1 DEF TalkInv, SpeechInv, WordOnBus, Bus
  <1>2. QED
    BY <1>1, TalkInvariant, PTL

(***************************************************************************)
(* After the first phoneme, the program of speech.psm says the next one    *)
(* only while the machine shows that it is ready for it.                   *)
(***************************************************************************)
THEOREM NeverTalksOver == Spec => SaysWhenReady
  <1>1. TalkInv /\ [Next]_vars => [pos' # pos => pos = 0 \/ Adr!complete]_vars
    <2> SUFFICES ASSUME TalkInv, Next PROVE pos' # pos => pos = 0 \/ Adr!complete
      OBVIOUS
    <2>1. QED
      BY NextIsClock, PlaceMoves DEF Adr!complete
  <1>2. QED
    BY <1>1, TalkInvariant, PTL DEF Spec, SaysWhenReady

(***************************************************************************)
(* What is heard is the script: every step of the synthesizer is the next  *)
(* sample of module Talk, or leaves what was heard last.                   *)
(***************************************************************************)
THEOREM ScriptIsHeard == Spec => ImplementsTalk
  <1>1. Init => T!Init
    BY DEF Init
  <1>2. TalkInv /\ [Next]_vars => [T!Next]_sample
    <2>1. ASSUME TalkInv, Next PROVE T!Next \/ UNCHANGED sample
      BY <2>1, NextIsClock, HearsTheNext DEF T!Next
    <2>2. UNCHANGED vars => UNCHANGED sample
      BY DEF vars
    <2>3. QED
      BY <2>1, <2>2
  <1>3. QED
    BY <1>1, <1>2, TalkInvariant, PTL DEF Spec, ImplementsTalk, T!Spec

=============================================================================
