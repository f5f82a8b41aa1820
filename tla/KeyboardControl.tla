-------------------------- MODULE KeyboardControl --------------------------
(***************************************************************************)
(* Keyboard_Control.sv of the speech synthesizer: E (or e) starts, D (or   *)
(* d) stops.  key_pressed is the code of the last key; the code keeps it   *)
(* until another key is pressed, so it is read as a level.                 *)
(***************************************************************************)

VARIABLE state

Key == {"E", "D", "other"}

TypeOK == state \in {"idle", "play"}

read_signal == state = "play"

Init == state = "idle"

Clock(key_pressed) ==
  \/ /\ state = "idle"
     /\ state' = IF key_pressed = "E" THEN "play" ELSE "idle"
  \/ /\ state = "play"
     /\ state' = IF key_pressed = "D" THEN "idle" ELSE "play"
=============================================================================
