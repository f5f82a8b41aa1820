---------------------------- MODULE LightControl ----------------------------
(***************************************************************************)
(* Final, Light_Control.sv: the volume meter.  The state machine sums the  *)
(* magnitudes of Window samples, divides by Window by dropping the low     *)
(* half of the sum, and lights one LED for each level that the average     *)
(* exceeds, and one more.  One step is a rising edge of CLK_50M.           *)
(*                                                                         *)
(* The widths follow from Half, the magnitude of the most negative sample: *)
(* in the code it is 128, a sample has 8 bits, the counter 9 and the sum   *)
(* 16.  Levels holds the seven thresholds of the code, 128 down to 2.  The *)
(* pattern of led is its number of ones.                                   *)
(***************************************************************************)
EXTENDS Integers, FiniteSets

CONSTANTS Half, Levels

ASSUME HalfAssumption == Half \in Nat \ {0}
ASSUME LevelsAssumption == Levels \subseteq Nat /\ IsFiniteSet(Levels) /\ Half \in Levels

Window == 2 * Half

VARIABLES
  state, count, audio_abs, sum, led,
  read_sig,      \* from Keyboard_Control
  paused,        \* history: the machine was held in incr_count since reset,
  summed, total  \* the samples in the sum and, unless paused, what they add up to

regs == <<state, count, audio_abs, sum, led>>
vars == <<regs, read_sig, paused, summed, total>>

States == {"incr_count", "check_count", "abs", "addavg", "display", "reset"}
Sample == 0 .. Window - 1

\* The 8-bit ~audio + 1 of a sample with its sign bit set.
Magnitude(audio) == IF audio >= Half THEN Window - audio ELSE audio

Lit(average) == 1 + Cardinality({level \in Levels : average > level})

Init ==
  /\ state = "incr_count" /\ count = 0 /\ sum = 0 /\ led = 0
  /\ audio_abs \in Sample
  /\ read_sig = FALSE
  /\ paused = FALSE /\ summed = 0 /\ total = 0

-----------------------------------------------------------------------------
IncrCount ==
  /\ state = "incr_count"
  /\ count' = (count + 1) % (2 * Window)
  /\ state' = IF read_sig THEN "check_count" ELSE state
  /\ UNCHANGED <<audio_abs, sum, led>>

\* Mutant: one sample too few.
CheckCountShort ==
  /\ state = "check_count"
  /\ state' = IF count >= Window THEN "display" ELSE "abs"
  /\ UNCHANGED <<count, audio_abs, sum, led>>

\* Mutant: a bound that the counter does not reach.
CheckCountWide ==
  /\ state = "check_count"
  /\ state' = IF count > 2 * Window THEN "display" ELSE "abs"
  /\ UNCHANGED <<count, audio_abs, sum, led>>

CheckCount ==
  /\ state = "check_count"
  /\ state' = IF count > Window THEN "display" ELSE "abs"
  /\ UNCHANGED <<count, audio_abs, sum, led>>

Abs(audio) ==
  /\ state = "abs"
  /\ state' = "addavg"
  /\ audio_abs' = Magnitude(audio)
  /\ UNCHANGED <<count, sum, led>>

AddAvg ==
  /\ state = "addavg"
  /\ state' = "incr_count"
  /\ sum' = (sum + audio_abs) % (Window * Window)
  /\ UNCHANGED <<count, audio_abs, led>>

Display ==
  /\ state = "display"
  /\ state' = "reset"
  /\ led' = Lit(sum \div Window)
  /\ UNCHANGED <<count, audio_abs, sum>>

DoReset ==
  /\ state = "reset"
  /\ state' = "incr_count"
  /\ count' = 0 /\ sum' = 0
  /\ UNCHANGED <<audio_abs, led>>

\* The history; summed stops counting at Window + 1.
Record ==
  /\ paused' = IF state = "reset" THEN FALSE
               ELSE paused \/ (state = "incr_count" /\ ~read_sig)
  /\ summed' = IF state = "reset" THEN 0
               ELSE IF state = "addavg" /\ summed <= Window THEN summed + 1 ELSE summed
  /\ total' = IF state = "reset" \/ paused' THEN 0
              ELSE IF state = "addavg" THEN total + audio_abs ELSE total

Clk(audio) ==
  /\ \/ IncrCount
     \/ CheckCount
     \/ Abs(audio)
     \/ AddAvg
     \/ Display
     \/ DoReset
  /\ Record
  /\ read_sig' \in BOOLEAN

Next == \E audio \in Sample : Clk(audio)

\* CLK_50M never stops.
Spec == Init /\ [][Next]_vars /\ WF_vars(Next)

-----------------------------------------------------------------------------
TypeOK ==
  /\ state \in States
  /\ count \in 0 .. 2 * Window - 1
  /\ audio_abs \in Sample
  /\ sum \in 0 .. Window * Window - 1
  /\ led \in 0 .. Cardinality(Levels) + 1
  /\ read_sig \in BOOLEAN /\ paused \in BOOLEAN
  /\ summed \in 0 .. Window + 1
  /\ total \in Nat

(***************************************************************************)
(* Unless it was paused, the meter shows the average of exactly Window     *)
(* samples, and the sum of their magnitudes never overflows its register.  *)
(***************************************************************************)
AveragesWindow == ~paused => sum = total /\ (state = "display" => summed = Window)

(***************************************************************************)
(* The magnitudes never average to more than Half, so the last LED, which  *)
(* asks for more, stays dark as long as the player is not paused.          *)
(***************************************************************************)
LastLedDark == [][state = "display" /\ ~paused => led' <= Cardinality(Levels)]_vars

(***************************************************************************)
(* A player that is not paused for ever shows its volume again and again,  *)
(* from whatever count the last pause left.                                *)
(***************************************************************************)
KeepsMetering == <>[]read_sig => []<>(state = "display")

-----------------------------------------------------------------------------
(***************************************************************************)
(* The inductive invariant: as long as the machine is not held in          *)
(* incr_count the counter follows the samples, and the sum is at most Half *)
(* for each of them.                                                       *)
(***************************************************************************)
CountsSamples ==
  /\ summed <= Window
  /\ state = "incr_count" => count = summed
  /\ state \in {"check_count", "abs", "addavg", "display"} => count = summed + 1
  /\ state \in {"abs", "addavg"} => summed < Window
  /\ state = "display" => summed = Window

MeterInv ==
  /\ TypeOK
  /\ state = "addavg" => audio_abs <= Half
  /\ ~paused => CountsSamples /\ sum = total /\ total <= summed * Half

-----------------------------------------------------------------------------
(***************************************************************************)
(* What the annotations say of the meter, paused or not: it sums Window    *)
(* inputs.                                                                 *)
(***************************************************************************)
SumsWindow == state = "display" => summed = Window
=============================================================================
