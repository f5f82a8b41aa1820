------------------------------ MODULE SyncRam ------------------------------
(***************************************************************************)
(* One port of an on-chip memory block as the three memories of Lab4       *)
(* configure it: the address is registered on the clock edge, the output   *)
(* is not registered again, and a read of the word being written returns   *)
(* the new data (read_during_write_mode NEW_DATA).  The output therefore   *)
(* answers the address of the PREVIOUS cycle.                              *)
(***************************************************************************)
VARIABLES
  mem,  \* the words
  q     \* the output bus

Clock(address, data, wren) ==
  /\ mem' = IF wren THEN [mem EXCEPT ![address] = data] ELSE mem
  /\ q' = IF wren THEN data ELSE mem[address]

\* A block configured as a ROM: no write port.
ClockRom(address) ==
  /\ UNCHANGED mem
  /\ q' = mem[address]
=============================================================================
