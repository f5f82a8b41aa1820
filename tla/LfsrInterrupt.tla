--------------------------- MODULE LfsrInterrupt ---------------------------
(***************************************************************************)
(* The frequency shift keying of Lab5: a shift register makes a random bit *)
(* at every tick of a slow clock, the tick interrupts the processor, and   *)
(* the handler in student_code.c tells the synthesizer the frequency for   *)
(* the bit.  The tick reaches the edge register of the port some cycles    *)
(* after the register has shifted.                                         *)
(***************************************************************************)
EXTENDS Integers, Sequences, SequenceTheorems, TLAPS

CONSTANT TicksPerRun   \* how often the slow clock may tick while interrupts are
                       \* handled, until nothing is left to do

\* The slow clock ticks once a second, the handler lasts some microseconds.
ASSUME TicksAssumption == TicksPerRun \in {0, 1}

VARIABLES
  lfsr_out,      \* the bits of the register, the lowest one first
  d1_data_in,    \* the port has seen the clock rise, but not yet the edge
  edge_capture,
  irq_mask,
  pc,            \* the line that the program is at
  lfsr_val,      \* what the handler has read
  dds_increment,
  ticks          \* the ticks since there was nothing left to do but the last tick

hardware == <<lfsr_out, d1_data_in>>
vars == <<hardware, edge_capture, irq_mask, pc, lfsr_val, dds_increment, ticks>>

Shift(bits) == Append(Tail(bits), (bits[1] + bits[3]) % 2)

\* Nothing is left to do for the handler.
Quiet == pc = "wait" /\ ~edge_capture /\ ~d1_data_in

Tick ==
  /\ pc \in {"mask", "reset"} \/ Quiet \/ ticks < TicksPerRun
  /\ lfsr_out' = Shift(lfsr_out)
  /\ d1_data_in' = TRUE
  /\ ticks' = IF Quiet \/ pc \in {"mask", "reset"} THEN 0 ELSE ticks + 1
  /\ UNCHANGED <<edge_capture, irq_mask, pc, lfsr_val, dds_increment>>

Detect ==
  /\ d1_data_in
  /\ d1_data_in' = FALSE
  /\ edge_capture' = TRUE
  /\ UNCHANGED <<lfsr_out, irq_mask, pc, lfsr_val, dds_increment, ticks>>

-----------------------------------------------------------------------------
(* init_lfsr_interrupt *)

\* Mutant: the edge register is written in the way that sets a bit.
Kept == edge_capture

\* Any value that is written to the edge register clears it.
Cleared == FALSE

Mask ==
  /\ pc = "mask"
  /\ irq_mask' = TRUE
  /\ pc' = "reset"
  /\ UNCHANGED <<hardware, edge_capture, lfsr_val, dds_increment, ticks>>

Reset ==
  /\ pc = "reset"
  /\ edge_capture' = Cleared
  /\ pc' = "register"
  /\ UNCHANGED <<hardware, irq_mask, lfsr_val, dds_increment, ticks>>

Register ==
  /\ pc = "register"
  /\ pc' = "wait"
  /\ UNCHANGED <<hardware, edge_capture, irq_mask, lfsr_val, dds_increment, ticks>>

-----------------------------------------------------------------------------
(* handle_lfsr_interrupts *)

\* Mutant: the handler reads the other bit that the hardware modulates with.
IncrementNext(bits) == IF bits[2] = 1 THEN 430 ELSE 86

Increment(bits) == IF bits[1] = 1 THEN 430 ELSE 86

Read ==
  /\ pc = "wait" /\ edge_capture /\ irq_mask
  /\ lfsr_val' = lfsr_out
  /\ pc' = "write"
  /\ UNCHANGED <<hardware, edge_capture, irq_mask, dds_increment, ticks>>

Write ==
  /\ pc = "write"
  /\ dds_increment' = Increment(lfsr_val)
  /\ pc' = "clear"
  /\ UNCHANGED <<hardware, edge_capture, irq_mask, lfsr_val, ticks>>

Clear ==
  /\ pc = "clear"
  /\ edge_capture' = Cleared
  /\ pc' = "wait"
  /\ UNCHANGED <<hardware, irq_mask, lfsr_val, dds_increment, ticks>>

\* The clock of the register runs before the program is loaded.
Init ==
  /\ lfsr_out = <<1, 0, 0, 0, 0>>
  /\ d1_data_in = FALSE /\ edge_capture = FALSE /\ irq_mask = FALSE
  /\ pc = "mask" /\ lfsr_val = <<0, 0, 0, 0, 0>> /\ dds_increment = 0 /\ ticks = 0

Program == Mask \/ Reset \/ Register \/ Read \/ Write \/ Clear

Next == Tick \/ Detect \/ Program

\* The processor and the port are clocked, the slow clock ticks for ever.
Spec == Init /\ [][Next]_vars /\ WF_vars(Program) /\ WF_vars(Detect) /\ WF_vars(Tick)

-----------------------------------------------------------------------------
(* What the keying must keep *)

Bits == [1 .. 5 -> {0, 1}]

\* The synthesizer makes the high frequency for a one and the low one for a zero.
Hops(bits) == (dds_increment = 430) <=> (bits[1] = 1)

\* When the handler has nothing to do, the synthesizer makes the frequency of
\* the bit that the register holds, although the handler reads the bit before
\* it clears the edge.  With a tick in the middle of the handler its edge can be
\* lost; the synthesizer is then one bit behind, and never more.
FollowsLfsr ==
  (Quiet /\ dds_increment # 0) =>
    Hops(lfsr_out) \/ (ticks > 0 /\ \E before \in Bits : Shift(before) = lfsr_out /\ Hops(before))

\* The synthesizer hops between the two frequencies for ever: every interrupt
\* is acknowledged, and the next tick is heard again.
KeepsHopping == \A frequency \in {86, 430} : []<>(dds_increment = frequency)

-----------------------------------------------------------------------------
(* The proof that the synthesizer follows the register *)

\* The bits are those of the register now, or before the tick that has come
\* while the handler ran.
Near(bits) == bits = lfsr_out \/ (ticks = 1 /\ Shift(bits) = lfsr_out)

TypeOK ==
  /\ lfsr_out \in Bits /\ lfsr_val \in Bits
  /\ d1_data_in \in BOOLEAN /\ edge_capture \in BOOLEAN
  /\ pc \in {"mask", "reset", "register", "wait", "write", "clear"}
  /\ ticks \in {0, 1}

\* The inductive invariant follows the bits from the register to the
\* synthesizer: what the handler has read is at most one tick old, and nothing
\* is left to do only when the last tick was heard, or came before the edge
\* register was cleared.
LfsrInv ==
  /\ TypeOK
  /\ pc \in {"mask", "reset", "register"} => dds_increment = 0
  /\ pc \in {"write", "clear"} => Near(lfsr_val)
  /\ pc = "clear" => dds_increment = Increment(lfsr_val)
  /\ Quiet /\ dds_increment # 0 => \E bits \in Bits : Near(bits) /\ dds_increment = Increment(bits)

LEMMA ShiftType == ASSUME NEW bits \in Bits PROVE Shift(bits) \in Bits
  <1> DEFINE bit == (bits[1] + bits[3]) % 2
  <1>1. bits[1] \in {0, 1} /\ bits[3] \in {0, 1}
    BY DEF Bits
  <1>2. bit \in {0, 1}
    BY <1>1
  <1>3. bits \in Seq({0, 1}) /\ DOMAIN bits = 1 .. 5
    <2>1. bits \in [1 .. 5 -> {0, 1}]
      BY DEF Bits
    <2>2. QED
      BY <2>1, SeqDef
  <1>4. Len(bits) = 5 /\ bits # <<>>
    <2>1. Len(bits) \in Nat /\ DOMAIN bits = 1 .. Len(bits)
      BY <1>3, LenProperties
    <2>2. Len(bits) = 5
      BY <1>3, <2>1
    <2>3. QED
      BY <1>3, <2>2, EmptySeq
  <1>5. Tail(bits) \in Seq({0, 1}) /\ Len(Tail(bits)) = 4
    BY <1>3, <1>4, HeadTailProperties
  <1>6. Append(Tail(bits), bit) \in Seq({0, 1}) /\ Len(Append(Tail(bits), bit)) = 5
    BY <1>2, <1>5, AppendProperties
  <1>7. Append(Tail(bits), bit) \in [1 .. 5 -> {0, 1}]
    BY <1>6, LenProperties
  <1>8. QED
    BY <1>7 DEF Shift, Bits

LEMMA InvInit == Init => LfsrInv
  <1> SUFFICES ASSUME Init PROVE LfsrInv
    OBVIOUS
  <1>1. lfsr_out \in Bits /\ lfsr_val \in Bits
    BY DEF Init, Bits
  <1>2. TypeOK
    BY <1>1 DEF Init, TypeOK
  <1>3. QED
    BY <1>2 DEF Init, LfsrInv, Quiet

LEMMA InvStep == LfsrInv /\ [Next]_vars => LfsrInv'
  <1> SUFFICES ASSUME LfsrInv, [Next]_vars PROVE LfsrInv'
    OBVIOUS
  <1> USE DEF hardware, Quiet
  <1>1. TypeOK
    BY DEF LfsrInv
  <1>2. CASE Tick
    <2>1. lfsr_out' \in Bits
      BY <1>1, <1>2, ShiftType DEF Tick, TypeOK
    <2>2. TypeOK'
      BY <1>1, <1>2, <2>1, TicksAssumption DEF Tick, TypeOK
    <2>3. pc \in {"write", "clear"} => Near(lfsr_val)'
      BY <1>1, <1>2, TicksAssumption DEF Tick, TypeOK, LfsrInv, Near
    <2>4. QED
      BY <1>2, <2>2, <2>3 DEF Tick, LfsrInv
  <1>3. CASE Detect
    BY <1>1, <1>3 DEF Detect, LfsrInv, TypeOK, Near
  <1>4. CASE Mask \/ Reset \/ Register
    BY <1>1, <1>4 DEF Mask, Reset, Register, Cleared, LfsrInv, TypeOK, Near
  <1>5. CASE Read
    BY <1>1, <1>5 DEF Read, LfsrInv, TypeOK, Near
  <1>6. CASE Write
    BY <1>1, <1>6 DEF Write, LfsrInv, TypeOK, Near
  <1>7. CASE Clear
    BY <1>1, <1>7 DEF Clear, Cleared, LfsrInv, TypeOK, Near
  <1>8. CASE UNCHANGED vars
    BY <1>1, <1>8 DEF vars, LfsrInv, TypeOK, Near
  <1>9. QED
    BY <1>2, <1>3, <1>4, <1>5, <1>6, <1>7, <1>8 DEF Next, Program

\* The handler may lose the edge of a tick that comes while it runs, but the
\* synthesizer is then one bit behind, and only until the next tick.
THEOREM SynthesizerFollows == Spec => []FollowsLfsr
  <1>1. LfsrInv => FollowsLfsr
    BY DEF LfsrInv, FollowsLfsr, Near, Hops, Increment
  <1>2. QED
    BY <1>1, InvInit, InvStep, PTL DEF Spec
=============================================================================
