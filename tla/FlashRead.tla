----------------------------- MODULE FlashRead -----------------------------
(***************************************************************************)
(* Avalaon_Read_Flash.sv of the speech synthesizer (the file is the same   *)
(* in Lab2): the state machine that takes one read of the flash memory     *)
(* through the Avalon handshake.  One action per state.                    *)
(***************************************************************************)

VARIABLE state

States == {"idle", "check_read", "slave_init", "wait_read", "finished"}

TypeOK == state \in States

complete == state = "finished"

Init == state = "idle"

\* A state that is left for the next one when its condition holds.
Await(from, condition, next) ==
  /\ state = from
  /\ state' = IF condition THEN next ELSE from

\* Mutant: the read is taken for accepted while the memory asks to wait.
SlaveInitHasty(waitRequest) == Await("slave_init", TRUE, "wait_read")

SlaveInit(waitRequest) == Await("slave_init", ~waitRequest, "wait_read")

\* wait_read is left while dataValid is low, that is, usually at once and
\* before the word arrives.
Clock(start, read, waitRequest, dataValid) ==
  \/ Await("idle", start, "check_read")
  \/ Await("check_read", read, "slave_init")
  \/ SlaveInit(waitRequest)
  \/ Await("wait_read", ~dataValid, "finished")
  \/ Await("finished", TRUE, "idle")
=============================================================================
