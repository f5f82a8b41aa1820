---------------------------- MODULE FlashAddress ----------------------------
(***************************************************************************)
(* flash_address_control.sv of the speech synthesizer: plays the words of  *)
(* one phoneme byte by byte at the sample clock, then hands over to the    *)
(* PicoBlaze for the next phoneme.  The states wait_data_n and out_data_n  *)
(* of the code are state = "wait_data" and "out_data" with lane = n; lane  *)
(* is 0 in the other states.                                               *)
(*                                                                         *)
(* A word is named by its address in the flash: phonemeData is the address *)
(* of the word that the bus shows, and a byte is a word and a lane.        *)
(***************************************************************************)
EXTENDS Integers

CONSTANT MaxWord  \* the last word of the flash: addresses have 24 - 2 bits

VARIABLES
  state, lane,
  addr, end_addr_word,  \* the word to read and the last word of the phoneme
  outData               \* the byte given to the audio output

Word == 0 .. MaxWord
Lane == 0 .. 3
Addr == 0 .. 2 * MaxWord + 1  \* the register has one bit more than a word address

States == {"idle", "read_flash", "wait_data", "out_data", "inc_addr", "check_addr",
           "phoneme_ready", "finished"}

TypeOK ==
  /\ state \in States /\ lane \in Lane
  /\ addr \in Addr /\ end_addr_word \in Word
  /\ outData \in Word \X Lane

\* The output assignments.
read     == state = "read_flash"
complete == state = "phoneme_ready"

Init == state = "idle" /\ lane = 0 /\ addr = 0 /\ end_addr_word = 0 /\ outData = <<0, 0>>

Await(from, condition, next) ==
  /\ state = from
  /\ state' = IF condition THEN next ELSE from
  /\ UNCHANGED <<lane, addr, end_addr_word, outData>>

\* Both address registers follow the narrator until the machine starts.
Idle(start, start_addr, end_addr) ==
  /\ state = "idle"
  /\ state' = IF start THEN "read_flash" ELSE "idle"
  /\ addr' = start_addr \div 4
  /\ end_addr_word' = end_addr \div 4
  /\ UNCHANGED <<lane, outData>>

\* The byte follows the bus until the sample clock ends its time.
OutData(sync_clk, phonemeData) ==
  /\ state = "out_data"
  /\ outData' = <<phonemeData, lane>>
  /\ state' = IF ~sync_clk THEN "out_data" ELSE IF lane = 3 THEN "inc_addr" ELSE "wait_data"
  /\ lane' = IF sync_clk THEN (lane + 1) % 4 ELSE lane
  /\ UNCHANGED <<addr, end_addr_word>>

IncAddr ==
  /\ state = "inc_addr"
  /\ state' = "check_addr"
  /\ addr' = (addr + 1) % (2 * (MaxWord + 1))
  /\ UNCHANGED <<lane, end_addr_word, outData>>

\* Mutant: the last word of the phoneme is left out.
CheckAddrShort ==
  /\ state = "check_addr"
  /\ state' = IF addr < end_addr_word THEN "read_flash" ELSE "phoneme_ready"
  /\ UNCHANGED <<lane, addr, end_addr_word, outData>>

CheckAddr ==
  /\ state = "check_addr"
  /\ state' = IF addr <= end_addr_word THEN "read_flash" ELSE "phoneme_ready"
  /\ UNCHANGED <<lane, addr, end_addr_word, outData>>

Finished(pico_recieved) == Await("finished", ~pico_recieved, "idle")

Clock(start, sync_clk, readComplete, phonemeData, start_addr, end_addr, pico_recieved) ==
  \/ Idle(start, start_addr, end_addr)
  \/ Await("read_flash", readComplete, "wait_data")
  \/ Await("wait_data", ~sync_clk, "out_data")
  \/ OutData(sync_clk, phonemeData)
  \/ IncAddr
  \/ CheckAddr
  \/ Await("phoneme_ready", pico_recieved, "finished")
  \/ Finished(pico_recieved)
=============================================================================
