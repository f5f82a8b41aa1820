------------------------------ MODULE MCSpeech ------------------------------
(***************************************************************************)
(* TLC instance of Speech: three phonemes, one of them silent, with one,   *)
(* two and one words; the silent one shares its word with another, as the  *)
(* pauses of narrator_ctrl.v do.                                           *)
(***************************************************************************)
EXTENDS Speech

MCScript == <<0, 1, 2>>

MCNarration ==
  [p \in {0, 1, 2} |->
     CASE p = 0 -> [silent |-> TRUE,  pointer |-> 0, end_val |-> 2]
       [] p = 1 -> [silent |-> FALSE, pointer |-> 0, end_val |-> 7]
       [] p = 2 -> [silent |-> FALSE, pointer |-> 8, end_val |-> 11]]
=============================================================================
