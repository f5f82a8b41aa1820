----------------------------- MODULE BruteForce -----------------------------
(***************************************************************************)
(* Lab4 brute_force.sv: tries the keys in order.  It starts one decryption *)
(* per key, looks at each byte in the cycle after it is written, gives the *)
(* key up at the first byte that is not plain text, and stops for good in  *)
(* success or failure.                                                     *)
(***************************************************************************)
EXTENDS Integers

CONSTANTS
  N,     \* values of a byte; a key has three bytes
  Plain  \* the bytes of a readable message: lower case letters and space

VARIABLES
  state,
  key

States == {"idle", "begin_decrypt", "wait_compute", "verify_val", "decrypt_reset",
           "check_key", "incr_key", "failure", "success"}

TypeOK == state \in States /\ key \in 0 .. N * N * N - 1

\* Mutant: the engine is not reset when a key is given up.
never_reset == FALSE

start_decrypt == state = "begin_decrypt"
reset_decrypt == state = "decrypt_reset"
LED_sel       == state = "success"

Init == state = "idle" /\ key = 0

Goto(next) == state' = next /\ UNCHANGED key

Idle(start) == state = "idle" /\ Goto(IF start THEN "begin_decrypt" ELSE "idle")

BeginDecrypt == state = "begin_decrypt" /\ Goto("wait_compute")

WaitCompute(wren_start, compute_complete) ==
  /\ state = "wait_compute"
  /\ \/ compute_complete /\ Goto("success")
     \/ ~compute_complete /\ wren_start /\ Goto("verify_val")
     \/ ~compute_complete /\ ~wren_start /\ Goto("wait_compute")

VerifyVal(decrypt_msg_data, compute_complete) ==
  /\ state = "verify_val"
  /\ \/ decrypt_msg_data \notin Plain /\ Goto("decrypt_reset")
     \/ decrypt_msg_data \in Plain
        /\ Goto(IF compute_complete THEN "success" ELSE "wait_compute")

DecryptReset == state = "decrypt_reset" /\ Goto("check_key")

\* Mutants: the last key is not tried; the end of the key space is not seen.
CheckKeyEarly ==
  /\ state = "check_key"
  /\ Goto(IF key = N * N * N - 2 THEN "failure" ELSE "incr_key")

CheckKeyNever == state = "check_key" /\ Goto("incr_key")

CheckKey ==
  /\ state = "check_key"
  /\ Goto(IF key = N * N * N - 1 THEN "failure" ELSE "incr_key")

IncrKey ==
  /\ state = "incr_key"
  /\ state' = "begin_decrypt"
  /\ key' = (key + 1) % (N * N * N)

Stop == state \in {"failure", "success"} /\ Goto(state)

Clock(start, decrypt_msg_data, wren_start, compute_complete) ==
  \/ Idle(start)
  \/ BeginDecrypt
  \/ WaitCompute(wren_start, compute_complete)
  \/ VerifyVal(decrypt_msg_data, compute_complete)
  \/ DecryptReset
  \/ CheckKey
  \/ IncrKey
  \/ Stop
=============================================================================
