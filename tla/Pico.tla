-------------------------------- MODULE Pico --------------------------------
(***************************************************************************)
(* The PicoBlaze side of the speech synthesizer: the program speech.psm    *)
(* and the port registers of picoblaze_interface.v.  The program says the  *)
(* phonemes of Script in a loop, each through the routine say_phoneme.     *)
(*                                                                         *)
(* One step is one clock edge of the port registers.  The instructions     *)
(* that touch a port are steps; the others (LOAD, COMPARE, JUMP, CALL)     *)
(* are the clocks in which the processor does not touch one (stall).  An   *)
(* INPUT takes two clocks: the port is selected in the first, and the      *)
(* pipelined multiplexer shows it in the second.                           *)
(***************************************************************************)
EXTENDS Integers, Sequences

CONSTANTS
  Phoneme,  \* phoneme codes; 0 is the power-up value of the register
  Script    \* the phonemes that the program says, in order

VARIABLES
  pc,
  pos,             \* place in Script of the phoneme said last, 0 at power-up
  output_phoneme,  \* the port registers
  pico_ack,
  in_port

picoVars == <<pc, pos, output_phoneme, pico_ack, in_port>>

Place == 1 .. Len(Script)

\* The Script is said in a loop.
After(p) == IF p = Len(Script) THEN 1 ELSE p + 1

States == {"say_phoneme", "acknowledge", "wait_phoneme_recieve", "read_recieve",
           "acknowledge_input", "wait_phoneme_ready", "read_ready"}

TypeOK ==
  /\ pc \in States
  /\ pos \in 0 .. Len(Script)
  /\ output_phoneme \in Phoneme
  /\ pico_ack \in BOOLEAN
  /\ in_port \in BOOLEAN

Init == pc = "say_phoneme" /\ pos = 0 /\ output_phoneme = 0
        /\ pico_ack = FALSE /\ in_port = FALSE

\* in_port is undefined when another port than port 0 is selected.
Undefined == in_port' \in BOOLEAN

SayPhoneme ==
  /\ pc = "say_phoneme"
  /\ pc' = "acknowledge"
  /\ pos' = After(pos)
  /\ output_phoneme' = Script[After(pos)]
  /\ Undefined
  /\ UNCHANGED pico_ack

\* The acknowledgements, ack_out_port <- s1.
Acknowledge ==
  /\ pc = "acknowledge"
  /\ pc' = "wait_phoneme_recieve"
  /\ pico_ack' = TRUE
  /\ Undefined
  /\ UNCHANGED <<pos, output_phoneme>>

\* Mutant: the acknowledgement is not taken back.
AcknowledgeForever ==
  /\ pc = "acknowledge_input"
  /\ pc' = "wait_phoneme_ready"
  /\ pico_ack' = TRUE
  /\ Undefined
  /\ UNCHANGED <<pos, output_phoneme>>

AcknowledgeInput ==
  /\ pc = "acknowledge_input"
  /\ pc' = "wait_phoneme_ready"
  /\ pico_ack' = FALSE
  /\ Undefined
  /\ UNCHANGED <<pos, output_phoneme>>

\* First clock of an INPUT of DATA_IN_PORT.
Select(from, next, input_sig) ==
  /\ pc = from
  /\ pc' = next
  /\ in_port' = input_sig
  /\ UNCHANGED <<pos, output_phoneme, pico_ack>>

\* Second clock, and the COMPARE and JUMP that follow.
Decide(from, next) ==
  /\ pc = from
  /\ pc' = next
  /\ Undefined
  /\ UNCHANGED <<pos, output_phoneme, pico_ack>>

\* Mutant: the next phoneme is said without waiting for the last to end.
ReadReadyHasty == Decide("read_ready", "say_phoneme")

ReadRecieve == Decide("read_recieve", IF in_port THEN "wait_phoneme_recieve" ELSE "acknowledge_input")
ReadReady   == Decide("read_ready", IF in_port THEN "say_phoneme" ELSE "wait_phoneme_ready")

\* A clock in which the program touches no port.
Stall ==
  /\ pc \notin {"read_recieve", "read_ready"}
  /\ Undefined
  /\ UNCHANGED <<pc, pos, output_phoneme, pico_ack>>

Run(input_sig) ==
  \/ SayPhoneme
  \/ Acknowledge
  \/ Select("wait_phoneme_recieve", "read_recieve", input_sig)
  \/ ReadRecieve
  \/ AcknowledgeInput
  \/ Select("wait_phoneme_ready", "read_ready", input_sig)
  \/ ReadReady
=============================================================================
