----------------------------- MODULE KeySearch -----------------------------
(***************************************************************************)
(* What the RC4 cracker of Lab4 promises: the keys are examined in order   *)
(* from 0, each is given up only when it does not decipher the message to  *)
(* plain text, and the search ends with the first key that does, together  *)
(* with the message, or with a failure once every key has been examined.   *)
(***************************************************************************)
EXTENDS RC4

CONSTANT Plain  \* the bytes of a readable message

VARIABLES
  cipher,   \* the ciphertext, never written
  key,      \* the key under examination
  outcome,  \* "searching", "success" or "failure"
  message   \* the deciphered message, NoMessage before a success

vars == <<cipher, key, outcome, message>>

NoMessage == <<>>

Readable == \A k \in Index : Plaintext(key, cipher)[k] \in Plain

Init ==
  /\ cipher \in [Index -> Byte]
  /\ key = 0
  /\ outcome = "searching"
  /\ message = NoMessage

GiveUp ==
  /\ outcome = "searching" /\ ~Readable
  /\ key + 1 \in Key
  /\ key' = key + 1
  /\ UNCHANGED <<cipher, outcome, message>>

Fail ==
  /\ outcome = "searching" /\ ~Readable
  /\ key + 1 \notin Key
  /\ outcome' = "failure"
  /\ UNCHANGED <<cipher, key, message>>

Find ==
  /\ outcome = "searching" /\ Readable
  /\ outcome' = "success"
  /\ message' = Plaintext(key, cipher)
  /\ UNCHANGED <<cipher, key>>

Next == GiveUp \/ Fail \/ Find

Spec == Init /\ [][Next]_vars /\ WF_vars(Next)
=============================================================================
