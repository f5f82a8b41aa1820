-------------------------------- MODULE Talk --------------------------------
(***************************************************************************)
(* What the speech synthesizer promises: the phonemes of the script are    *)
(* heard in order, each from its first word to its last, each word from    *)
(* byte 0 to byte 3, none left out and none twice.                         *)
(***************************************************************************)
EXTENDS Integers, Sequences

CONSTANTS
  Script,     \* the phonemes in the order of the program
  Narration   \* the table of narrator_ctrl.v

VARIABLE sample  \* the last sample that was heard, and its place in the script

FirstWord(p) == Narration[Script[p]].pointer \div 4
LastWord(p)  == Narration[Script[p]].end_val \div 4

Sample(p, w, n) == [pos |-> p, silent |-> Narration[Script[p]].silent, word |-> w, lane |-> n]

Following(p) == IF p = Len(Script) THEN 1 ELSE p + 1

Successor ==
  IF sample.pos # 0 /\ sample.lane < 3 THEN Sample(sample.pos, sample.word, sample.lane + 1)
  ELSE IF sample.pos # 0 /\ sample.word < LastWord(sample.pos)
       THEN Sample(sample.pos, sample.word + 1, 0)
       ELSE Sample(Following(sample.pos), FirstWord(Following(sample.pos)), 0)

\* Nothing has been heard yet.
Init == sample = [pos |-> 0, silent |-> TRUE, word |-> 0, lane |-> 0]

Next == sample' = Successor

Spec == Init /\ [][Next]_sample
=============================================================================
