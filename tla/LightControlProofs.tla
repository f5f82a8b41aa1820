------------------------ MODULE LightControlProofs ------------------------
(***************************************************************************)
(* The volume meter at every width: unless it was paused it averages       *)
(* exactly Window samples, its sum never overflows, and its last LED stays *)
(* dark.                                                                   *)
(***************************************************************************)
EXTENDS LightControl, FiniteSetTheorems, TLAPS

LEMMA Widths ==
  /\ Window \in Nat /\ Window = 2 * Half /\ Window >= 2
  /\ Window * Window \in Nat /\ Window * Half < Window * Window
BY HalfAssumption, SMT DEF Window

(***************************************************************************)
(* A remainder is the number itself below the modulus, and below the       *)
(* modulus in any case.                                                    *)
(***************************************************************************)
LEMMA Remainder ==
  ASSUME NEW m \in Nat, m > 0, NEW x \in Nat
  PROVE  /\ x % m \in 0 .. m - 1
         /\ x < m => x % m = x
BY SMT

(***************************************************************************)
(* The magnitude of a sample is at most Half.                              *)
(***************************************************************************)
LEMMA MagnitudeBound ==
  ASSUME NEW audio \in Sample
  PROVE  Magnitude(audio) \in 0 .. Half
BY HalfAssumption, SMT DEF Magnitude, Sample, Window

(***************************************************************************)
(* Between one LED and one more than there are levels are lit, and the     *)
(* last one only for an average above Half.                                *)
(***************************************************************************)
LEMMA LitBound ==
  ASSUME NEW average \in Nat
  PROVE  /\ Lit(average) \in 1 .. Cardinality(Levels) + 1
         /\ average <= Half => Lit(average) <= Cardinality(Levels)
<1> DEFINE Over == {level \in Levels : average > level}
<1>1. Cardinality(Levels) \in Nat
  BY LevelsAssumption, FS_CardinalityType
<1>2. Cardinality(Over) \in Nat /\ Cardinality(Over) <= Cardinality(Levels)
  BY LevelsAssumption, FS_Subset, FS_CardinalityType
<1>3. average <= Half => Cardinality(Over) < Cardinality(Levels)
  <2>1. SUFFICES ASSUME average <= Half
                 PROVE  Over # Levels
    BY <1>1, <1>2, LevelsAssumption, FS_Subset
  <2>2. Half \notin Over
    BY <2>1, HalfAssumption, SMT
  <2> QED
    BY <2>2, LevelsAssumption
<1> QED
  BY <1>1, <1>2, <1>3, SMT DEF Lit

-----------------------------------------------------------------------------
(***************************************************************************)
(* The registers keep their widths over one clock edge.                    *)
(***************************************************************************)
LEMMA TypeEdge ==
  ASSUME TypeOK, NEW audio \in Sample, Clk(audio)
  PROVE  TypeOK'
<1> USE DEF TypeOK, Clk
<1>1. state' \in States
  BY SMT DEF States, IncrCount, CheckCount, Abs, AddAvg, Display, DoReset
<1>2. count' \in 0 .. 2 * Window - 1
  <2>1. (count + 1) % (2 * Window) \in 0 .. 2 * Window - 1
    BY Widths, Remainder, SMT
  <2>2. 0 \in 0 .. 2 * Window - 1
    BY Widths, SMT
  <2> QED
    BY <2>1, <2>2 DEF IncrCount, CheckCount, Abs, AddAvg, Display, DoReset
<1>3. audio_abs' \in Sample
  <2>1. Magnitude(audio) \in Sample
    BY MagnitudeBound, Widths, HalfAssumption, SMT DEF Sample
  <2> QED
    BY <2>1 DEF IncrCount, CheckCount, Abs, AddAvg, Display, DoReset
<1>4. sum' \in 0 .. Window * Window - 1
  <2>1. Window * Window > 0
    BY Widths, SMT
  <2>2. sum + audio_abs \in Nat
    BY Widths, SMT DEF Sample
  <2>3. (sum + audio_abs) % (Window * Window) \in 0 .. Window * Window - 1
    BY <2>1, <2>2, Widths, Remainder
  <2>4. 0 \in 0 .. Window * Window - 1
    BY <2>1, Widths
  <2> QED
    BY <2>3, <2>4 DEF IncrCount, CheckCount, Abs, AddAvg, Display, DoReset
<1>5. led' \in 0 .. Cardinality(Levels) + 1
  <2>1. sum \div Window \in Nat
    BY Widths, SMT
  <2>2. Lit(sum \div Window) \in 0 .. Cardinality(Levels) + 1
    BY <2>1, LitBound
  <2> QED
    BY <2>2 DEF IncrCount, CheckCount, Abs, AddAvg, Display, DoReset
<1>6. read_sig' \in BOOLEAN /\ paused' \in BOOLEAN
  BY DEF Record
<1>7. summed' \in 0 .. Window + 1 /\ total' \in Nat
  BY Widths, SMT DEF Record, Sample
<1> QED
  BY <1>1, <1>2, <1>3, <1>4, <1>5, <1>6, <1>7

(***************************************************************************)
(* One clock edge keeps the counter with the samples.                      *)
(***************************************************************************)
LEMMA CountEdge ==
  ASSUME MeterInv, NEW audio \in Sample, Clk(audio), ~paused'
  PROVE  CountsSamples'
<1> USE DEF Clk, Record, CountsSamples
<1>1. TypeOK /\ state \in States
  BY DEF MeterInv, TypeOK
<1>2. CASE state = "reset"
  BY <1>2, Widths, SMT DEF DoReset, IncrCount, CheckCount, Abs, AddAvg, Display
<1>3. ASSUME state # "reset"
      PROVE  CountsSamples
  BY <1>3 DEF MeterInv
<1>4. CASE state = "incr_count"
  <2>1. (count + 1) % (2 * Window) = count + 1
    BY <1>1, <1>3, <1>4, Widths, Remainder, SMT DEF TypeOK
  <2>2. count' = summed + 1 /\ summed' = summed /\ state' = "check_count"
    BY <1>1, <1>3, <1>4, <2>1, Widths DEF IncrCount, CheckCount, Abs, AddAvg, Display, DoReset
  <2> QED
    BY <1>1, <1>3, <1>4, <2>1, <2>2, Widths, SMT
       DEF IncrCount, CheckCount, Abs, AddAvg, Display, DoReset, TypeOK
<1>5. CASE state = "check_count"
  BY <1>1, <1>3, <1>5, Widths, SMT DEF IncrCount, CheckCount, Abs, AddAvg, Display, DoReset, TypeOK
<1>6. CASE state = "abs"
  BY <1>1, <1>3, <1>6, Widths, SMT DEF IncrCount, CheckCount, Abs, AddAvg, Display, DoReset, TypeOK
<1>7. CASE state = "addavg"
  BY <1>1, <1>3, <1>7, Widths, SMT DEF IncrCount, CheckCount, Abs, AddAvg, Display, DoReset, TypeOK
<1>8. CASE state = "display"
  BY <1>1, <1>3, <1>8, Widths, SMT DEF IncrCount, CheckCount, Abs, AddAvg, Display, DoReset, TypeOK
<1> QED
  BY <1>1, <1>2, <1>4, <1>5, <1>6, <1>7, <1>8 DEF States

(***************************************************************************)
(* One clock edge keeps the sum exact: it is below the capacity of its     *)
(* register, so nothing is cut off.                                        *)
(***************************************************************************)
LEMMA SumEdge ==
  ASSUME MeterInv, NEW audio \in Sample, Clk(audio), ~paused'
  PROVE  sum' = total' /\ total' <= summed' * Half
<1> USE DEF Clk, Record
<1>1. /\ TypeOK /\ state \in States
      /\ summed \in Nat /\ total \in Nat /\ Half \in Nat
  BY HalfAssumption, Widths, SMT DEF MeterInv, TypeOK
<1>2. CASE state = "reset"
  BY <1>1, <1>2, SMT DEF DoReset, IncrCount, CheckCount, Abs, AddAvg, Display
<1>3. ASSUME state # "reset"
      PROVE  ~paused /\ CountsSamples /\ sum = total /\ total <= summed * Half
  BY <1>3 DEF MeterInv
<1>4. CASE state = "addavg"
  <2>1. audio_abs \in 0 .. Half /\ summed + 1 <= Window
    BY <1>1, <1>3, <1>4, Widths, SMT DEF MeterInv, TypeOK, Sample, CountsSamples
  <2>2. total + audio_abs <= (summed + 1) * Half
    BY <1>1, <1>3, <1>4, <2>1, SMT
  <2>3. (summed + 1) * Half <= Window * Half
    BY <1>1, <2>1, Widths, SMT
  <2>4. (sum + audio_abs) % (Window * Window) = sum + audio_abs
    <3>1. sum + audio_abs \in Nat /\ sum + audio_abs < Window * Window
      BY <1>1, <1>3, <1>4, <2>1, <2>2, <2>3, Widths, SMT
    <3>2. Window * Window \in Nat /\ Window * Window > 0
      BY <3>1, Widths, SMT
    <3> QED
      BY <3>1, <3>2, Remainder
  <2>5. sum' = sum + audio_abs /\ total' = total + audio_abs /\ summed' = summed + 1
    BY <1>1, <1>3, <1>4, <2>1, <2>4, Widths, SMT
       DEF IncrCount, CheckCount, Abs, AddAvg, Display, DoReset, TypeOK
  <2> QED
    BY <1>3, <1>4, <2>2, <2>5
<1>5. CASE state \notin {"reset", "addavg"}
  BY <1>1, <1>3, <1>5, SMT DEF IncrCount, CheckCount, Abs, AddAvg, Display, DoReset
<1> QED
  BY <1>2, <1>4, <1>5

(***************************************************************************)
(* The invariant of the meter: the counter follows the samples, and the    *)
(* sum is exact, whenever the machine was not held since its last reset.   *)
(***************************************************************************)
THEOREM MeterInvariant == Spec => []MeterInv
<1>1. Init => MeterInv
  <2>1. 0 \in 0 .. Cardinality(Levels) + 1
    BY LevelsAssumption, FS_CardinalityType, SMT
  <2>2. 0 \in 0 .. Window * Window - 1 /\ 0 \in 0 .. 2 * Window - 1 /\ 0 \in 0 .. Window + 1 /\ 0 \in Nat
    BY HalfAssumption, Widths, SMT
  <2>3. 0 <= 0 * Half
    BY HalfAssumption, SMT
  <2>4. Init => TypeOK
    BY <2>1, <2>2 DEF Init, TypeOK, States
  <2>5. Init => CountsSamples /\ sum = total /\ total <= summed * Half
    BY <2>3, Widths, SMT DEF Init, CountsSamples
  <2>6. Init => state = "incr_count"
    BY DEF Init
  <2> QED
    BY <2>4, <2>5, <2>6 DEF MeterInv
<1>2. MeterInv /\ [Next]_vars => MeterInv'
  <2>1. SUFFICES ASSUME MeterInv, [Next]_vars
                 PROVE  MeterInv'
    OBVIOUS
  <2>2. ASSUME NEW audio \in Sample, Clk(audio)
        PROVE  MeterInv'
    <3>1. TypeOK'
      BY <2>1, <2>2, TypeEdge DEF MeterInv
    <3>2. state' = "addavg" => audio_abs' <= Half
      <4>1. SUFFICES ASSUME state' = "addavg"
                     PROVE  audio_abs' <= Half
        OBVIOUS
      <4>2. audio_abs' = Magnitude(audio)
        BY <2>2, <4>1 DEF Clk, IncrCount, CheckCount, Abs, AddAvg, Display, DoReset
      <4> QED
        BY <4>2, MagnitudeBound, HalfAssumption, SMT
    <3> QED
      BY <2>1, <2>2, <3>1, <3>2, CountEdge, SumEdge DEF MeterInv
  <2>3. CASE UNCHANGED vars
    BY <2>1, <2>3 DEF MeterInv, TypeOK, CountsSamples, vars, regs
  <2> QED
    BY <2>1, <2>2, <2>3 DEF Next
<1> QED
  BY <1>1, <1>2, PTL DEF Spec

(***************************************************************************)
(* The meter averages exactly Window samples unless it was paused, and its *)
(* sum never overflows.                                                    *)
(***************************************************************************)
THEOREM ExactAverage == Spec => []AveragesWindow
<1>1. MeterInv => AveragesWindow
  BY DEF MeterInv, AveragesWindow, CountsSamples
<1> QED
  BY <1>1, MeterInvariant, PTL

(***************************************************************************)
(* The average of Window magnitudes does not exceed Half, so the last LED  *)
(* is never lit by a player that was not paused.                           *)
(***************************************************************************)
THEOREM DarkLED == Spec => LastLedDark
<1> DEFINE Dark == state = "display" /\ ~paused => led' <= Cardinality(Levels)
<1>1. MeterInv /\ [Next]_vars => [Dark]_vars
  <2>1. SUFFICES ASSUME MeterInv, NEW audio \in Sample, Clk(audio), state = "display", ~paused
                 PROVE  led' <= Cardinality(Levels)
    BY DEF Next
  <2>2. sum <= Window * Half /\ sum \in Nat
    BY <2>1, Widths, HalfAssumption, SMT DEF MeterInv, CountsSamples, TypeOK
  <2>3. sum \div Window \in Nat /\ sum \div Window <= Half
    BY <2>2, Widths, HalfAssumption, SMT
  <2>4. led' = Lit(sum \div Window)
    BY <2>1 DEF Clk, IncrCount, CheckCount, Abs, AddAvg, Display, DoReset
  <2> QED
    BY <2>3, <2>4, LitBound
<1> QED
  BY <1>1, MeterInvariant, PTL DEF Spec, LastLedDark
=============================================================================
