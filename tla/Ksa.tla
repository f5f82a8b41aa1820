-------------------------------- MODULE Ksa --------------------------------
(***************************************************************************)
(* Lab4 ksa.sv: the RC4 cracker as it runs on the board, brute_force.sv    *)
(* driving the decryption engine.  One step is one rising edge of          *)
(* CLOCK_50 in every module; there is no other input.                      *)
(***************************************************************************)
EXTENDS DecryptCore

CONSTANT Plain  \* the bytes of a readable message: 97..122 and 32 in the code

ASSUME PlainAssumption == Plain \subseteq Byte

VARIABLES
  bf_state, key,            \* brute_force.sv
  regd_actual_7seg_output   \* the register in front of the HEX displays

bfVars == <<bf_state, key>>
vars == <<coreVars, bfVars, regd_actual_7seg_output>>

BF == INSTANCE BruteForce WITH state <- bf_state

Init ==
  /\ CoreInit
  /\ BF!Init
  /\ regd_actual_7seg_output = 0

Clk ==
  /\ CoreClock(BF!start_decrypt, BF!reset_decrypt, key)
  /\ BF!Clock(TRUE, data_decrypt_out, wren_decrypt_out, compute_complete)
  /\ regd_actual_7seg_output' = key

\* CLOCK_50 is an oscillator of the board: it never stops.
Spec == Init /\ [][Clk]_vars /\ WF_vars(Clk)

-----------------------------------------------------------------------------
TypeOK == CoreTypeOK /\ BF!TypeOK /\ regd_actual_7seg_output \in Key

(***************************************************************************)
(* The one-cycle start pulse of begin_decrypt is never missed: decrypt.sv  *)
(* is idle and all three workers are at rest with cleared indices when it  *)
(* comes, also after the previous key was aborted by a reset.              *)
(***************************************************************************)
StartIsTaken ==
  BF!start_decrypt => dec_state = "idle" /\ IniAtRest /\ ShfAtRest /\ CmpAtRest

(***************************************************************************)
(* brute_force.sv waits in wait_compute whenever compute.sv writes a       *)
(* message byte, so the one-cycle write enable is never missed and every   *)
(* byte is verified.                                                       *)
(***************************************************************************)
EveryByteVerified == wren_decrypt_out => bf_state = "wait_compute"

(***************************************************************************)
(* The engine computes RC4: the byte written to the message memory at k is *)
(* byte k of the message that the current key deciphers, and the same byte *)
(* is still on the bus in the next cycle, when brute_force.sv tests it.    *)
(***************************************************************************)
DecryptsRC4 ==
  wren_decrypt_out \/ bf_state = "verify_val" =>
    data_decrypt_out = Plaintext(key, rom)[cmp_k]

(***************************************************************************)
(* The cracker implements the search it is built for (module KeySearch):   *)
(* no key is skipped or given up wrongly, success shows the first key that *)
(* works with its whole message in d_memory, failure only after all keys.  *)
(***************************************************************************)
Outcome == IF bf_state \in {"success", "failure"} THEN bf_state ELSE "searching"

Search == INSTANCE KeySearch
          WITH cipher <- rom, key <- key, outcome <- Outcome,
               message <- IF bf_state = "success" THEN d_mem ELSE <<>>

ImplementsKeySearch == Search!Spec

(***************************************************************************)
(* The search ends, and the HEX displays then show the key it ended with   *)
(* for good.                                                               *)
(***************************************************************************)
EndsOnDisplay ==
  <>[](bf_state \in {"success", "failure"} /\ regd_actual_7seg_output = key)

-----------------------------------------------------------------------------
(***************************************************************************)
(* The inductive invariant behind the properties above.  Handshake relates *)
(* brute_force.sv to the engine: a reset is only sent while compute.sv is  *)
(* past check_k, and the engine is back at rest when the next key starts.  *)
(***************************************************************************)
Handshake ==
  /\ bf_state \in {"idle", "begin_decrypt", "incr_key", "failure"} =>
       dec_state = "idle" /\ IniAtRest /\ ShfAtRest /\ CmpAtRest
  /\ bf_state = "wait_compute" => dec_state \notin {"idle", "finish"} /\ cmp_state # "check_k"
  /\ bf_state = "verify_val" => dec_state = "compute_end" /\ cmp_state = "check_k"
  /\ bf_state = "decrypt_reset" => dec_state = "compute_end" /\ cmp_state \in {"incr_k", "finish"}
  /\ bf_state = "check_key" =>
       dec_state = "idle" /\ IniAtRest /\ ShfAtRest /\ cmp_state = "finish"
  /\ bf_state = "success" => dec_state = "finish"
  /\ bf_state = "incr_key" => key + 1 \in Key

\* shuffle.sv follows the key schedule, one exchange behind between its writes.
FollowsSchedule ==
  LET A == KeySchedule(key)
      i == shf_i
  IN  /\ dec_state = "shuffle_begin" => s_mem = Identity
      /\ shf_state \in {"addr_i", "read_i", "calc_j"} => s_mem = A[i].s /\ shf_j = A[i].j
      /\ shf_state \in {"addr_j", "read_j", "swap_i"} => s_mem = A[i].s /\ shf_j = A[i + 1].j
      /\ shf_state \in {"swap_j", "check_i", "incr_i"} =>
           Settled = A[i + 1].s /\ shf_j = A[i + 1].j
      /\ shf_state = "incr_i" => i + 1 \in Byte
      /\ dec_state = "shuffle_end" /\ shf_state = "finish" => s_mem = A[N].s
      /\ dec_state = "compute_begin" => s_mem = A[N].s

\* The states of compute.sv after both writes of an exchange.
Exchanged == {"addr_sum", "read_sum", "write_decrypt", "check_k", "incr_k"}

\* compute.sv follows the generator; k counts the bytes of the key stream.
FollowsGenerator ==
  LET G == Generator(key)
      k == cmp_k
  IN  /\ cmp_state = "incr_i" => s_mem = G[k].s /\ cmp_i = G[k].i /\ cmp_j = G[k].j
      /\ cmp_state \in {"addr_si", "read_si", "calc_j"} =>
           s_mem = G[k].s /\ cmp_i = G[k + 1].i /\ cmp_j = G[k].j
      /\ cmp_state \in {"addr_sj", "read_sj", "swap_si"} =>
           s_mem = G[k].s /\ cmp_i = G[k + 1].i /\ cmp_j = G[k + 1].j
      /\ cmp_state \in {"swap_sj"} \cup Exchanged =>
           Settled = G[k + 1].s /\ cmp_i = G[k + 1].i /\ cmp_j = G[k + 1].j
      /\ cmp_state \in {"swap_sj", "addr_sum", "read_sum"} =>
           cmp_q_sj = Settled[cmp_i] /\ cmp_q_si = Settled[cmp_j]
      /\ cmp_state \in {"write_decrypt", "check_k"} => cmp_f = KeyStream(key, k)
      /\ cmp_state = "incr_k" => k + 1 \in Index

\* The first n bytes of the message are deciphered and readable.
Verified(n) ==
  \A x \in Index : x < n => d_mem[x] = Plaintext(key, rom)[x] /\ d_mem[x] \in Plain

Readable == \A x \in Index : Plaintext(key, rom)[x] \in Plain

\* The bytes below k are verified, and a key is given up only for a reason.
FollowsSearch ==
  /\ cmp_state \notin {"idle", "incr_k", "finish"} => Verified(cmp_k)
  /\ cmp_state = "check_k" => d_mem[cmp_k] = Plaintext(key, rom)[cmp_k]
  /\ cmp_state = "incr_k" /\ bf_state = "wait_compute" => Verified(cmp_k + 1)
  /\ cmp_state = "finish" /\ bf_state = "wait_compute" => Verified(L)
  /\ bf_state = "success" => Verified(L)
  /\ bf_state \in {"decrypt_reset", "check_key", "incr_key", "failure"} => ~Readable

KsaInv ==
  /\ TypeOK /\ CoreInv /\ Handshake
  /\ FollowsSchedule /\ FollowsGenerator /\ FollowsSearch
=============================================================================
