------------------------------- MODULE Flash --------------------------------
(***************************************************************************)
(* The flash memory controller behind flash_inst: an Avalon slave that the *)
(* repository holds only as a compiled partition (flash.qxp), modelled     *)
(* from what the design uses of it.  A read is accepted in every clock     *)
(* with read high and waitrequest low, at most MaxReads reads wait, they   *)
(* are answered in order with a pulse of readdatavalid each, and readdata  *)
(* keeps the last word.  A word is named by its address.                   *)
(***************************************************************************)
EXTENDS Integers, Sequences

CONSTANTS Word, MaxReads

VARIABLES
  reads,          \* the accepted reads that are not yet answered
  readdata, readdatavalid

flashVars == <<reads, readdata, readdatavalid>>

TypeOK ==
  /\ reads \in UNION {[1 .. n -> Word] : n \in 0 .. MaxReads}
  /\ readdata \in Word
  /\ readdatavalid \in BOOLEAN

Init == reads = <<>> /\ readdata = 0 /\ readdatavalid = FALSE

\* waitrequest may be low only if there is room for a read.
MayAccept == Len(reads) < MaxReads

\* A word takes more than one clock on the serial bus of the flash, so two
\* answers never follow each other without a gap.
MayAnswer == reads # <<>> /\ ~readdatavalid

Clock(read, address, waitrequest, answer) ==
  LET rest == IF answer THEN Tail(reads) ELSE reads
  IN  /\ ~waitrequest => MayAccept
      /\ answer => MayAnswer
      /\ reads' = IF read /\ ~waitrequest THEN Append(rest, address) ELSE rest
      /\ readdata' = IF answer THEN Head(reads) ELSE readdata
      /\ readdatavalid' = answer
=============================================================================
