---------------------------- MODULE DecryptCore ----------------------------
(***************************************************************************)
(* The decryption engine of Lab4: decrypt.sv, its three workers init.sv,   *)
(* shuffle.sv and compute.sv, and the memories they share, wired as ksa.sv *)
(* wires them.  All of them run on CLOCK_50, so one step is one rising     *)
(* edge and the conjunction of the clock edges of all the modules; every   *)
(* output used as an input is the value before the edge.                   *)
(*                                                                         *)
(* CoreSpec leaves the inputs open: decrypt_start, reset and the key are   *)
(* arbitrary in every cycle.                                               *)
(***************************************************************************)
EXTENDS RC4

VARIABLES
  dec_state,
  ini_state, ini_i,
  shf_state, shf_i, shf_j, shf_q_si, shf_q_sj,
  cmp_state, cmp_i, cmp_j, cmp_k, cmp_q_si, cmp_q_sj, cmp_f,
  s_mem, s_q,      \* s_memory: the S box and its output bus q_out
  rom, rom_q,      \* r_memory: the ciphertext and q_rom_out
  d_mem, d_q       \* d_memory: the message and q_decrypt_out

iniVars == <<ini_state, ini_i>>
shfVars == <<shf_state, shf_i, shf_j, shf_q_si, shf_q_sj>>
cmpVars == <<cmp_state, cmp_i, cmp_j, cmp_k, cmp_q_si, cmp_q_sj, cmp_f>>
memVars == <<s_mem, s_q, rom, rom_q, d_mem, d_q>>
coreVars == <<dec_state, iniVars, shfVars, cmpVars, memVars>>

Dec == INSTANCE Decrypt WITH state <- dec_state

Ini == INSTANCE InitSBox WITH state <- ini_state, i <- ini_i

Shf == INSTANCE Shuffle
       WITH state <- shf_state, i <- shf_i, j <- shf_j, q_si <- shf_q_si, q_sj <- shf_q_sj

Cmp == INSTANCE Compute
       WITH state <- cmp_state, i <- cmp_i, j <- cmp_j, k <- cmp_k,
            q_si <- cmp_q_si, q_sj <- cmp_q_sj, f <- cmp_f

S == INSTANCE SyncRam WITH mem <- s_mem, q <- s_q
R == INSTANCE SyncRam WITH mem <- rom, q <- rom_q
D == INSTANCE SyncRam WITH mem <- d_mem, q <- d_q

-----------------------------------------------------------------------------
\* The wires between the modules.
address_out == Dec!Select(Ini!address, Shf!address, Cmp!address, 0)
data_out    == Dec!Select(Ini!data, Shf!data, Cmp!data, 0)
wren_out    == Dec!Select(Ini!wren, Shf!wren, Cmp!wren, FALSE)

data_decrypt_out == Cmp!data_decrypt(rom_q)
wren_decrypt_out == Cmp!wren_decrypt
compute_complete == Cmp!complete

\* Power-up: every register and memory word is 0; the ROM holds some message.
CoreInit ==
  /\ Dec!Init /\ Ini!Init /\ Shf!Init /\ Cmp!Init
  /\ s_mem = [x \in Byte |-> 0] /\ s_q = 0
  /\ rom \in [Index -> Byte] /\ rom_q = 0
  /\ d_mem = [x \in Index |-> 0] /\ d_q = 0

CoreClock(decrypt_start, reset, key) ==
  /\ Dec!Clock(decrypt_start, reset, Ini!complete, Shf!complete, Cmp!complete)
  /\ Ini!Clock(Dec!init_start, Dec!init_reset(reset))
  /\ Shf!Clock(key, Dec!shuffle_start, Dec!shuffle_reset(reset), s_q)
  /\ Cmp!Clock(Dec!compute_start, Dec!compute_reset(reset), s_q)
  /\ S!Clock(address_out, data_out, wren_out)
  /\ R!ClockRom(Cmp!rom_addr)
  /\ D!Clock(Cmp!address_decrypt, data_decrypt_out, wren_decrypt_out)

CoreNext == \E decrypt_start, reset \in BOOLEAN, key \in Key : CoreClock(decrypt_start, reset, key)

CoreSpec == CoreInit /\ [][CoreNext]_coreVars

-----------------------------------------------------------------------------
CoreTypeOK ==
  /\ Dec!TypeOK /\ Ini!TypeOK /\ Shf!TypeOK /\ Cmp!TypeOK
  /\ s_mem \in [Byte -> Byte] /\ s_q \in Byte
  /\ rom \in [Index -> Byte] /\ rom_q \in Byte
  /\ d_mem \in [Index -> Byte] /\ d_q \in Byte

\* A worker is at rest: its state machine is idle and its indices are 0.
IniAtRest == ini_state = "idle" /\ ini_i = 0
ShfAtRest == shf_state = "idle" /\ shf_i = 0 /\ shf_j = 0
CmpAtRest == cmp_state = "idle" /\ cmp_i = 0 /\ cmp_j = 0 /\ cmp_k = 0

(***************************************************************************)
(* The level start lines and one-cycle complete pulses keep decrypt.sv and *)
(* its workers in step whenever a reset comes: at most the worker of the   *)
(* phase has left its rest, it has left it by the phase's *_end state, and *)
(* after a reset a worker is at most one cycle away from rest.             *)
(***************************************************************************)
InStep ==
  /\ dec_state # "init_end" => IniAtRest \/ (dec_state = "idle" /\ ini_state = "finish")
  /\ dec_state # "shuffle_end" => ShfAtRest \/ (dec_state = "idle" /\ shf_state = "finish")
  /\ dec_state # "compute_end" => CmpAtRest \/ (dec_state = "idle" /\ cmp_state = "finish")
  /\ dec_state = "init_end" => ini_state # "idle"
  /\ dec_state = "shuffle_end" => shf_state # "idle"
  /\ dec_state = "compute_end" => cmp_state # "idle"

(***************************************************************************)
(* The multiplexer of decrypt.sv never drops or mixes a write: whenever a  *)
(* worker raises its write enable, its own address and data are on the S   *)
(* memory port.                                                            *)
(***************************************************************************)
WritesLand ==
  /\ Ini!wren => wren_out /\ address_out = Ini!address /\ data_out = Ini!data
  /\ Shf!wren => wren_out /\ address_out = Shf!address /\ data_out = Shf!data
  /\ Cmp!wren => wren_out /\ address_out = Cmp!address /\ data_out = Cmp!data

(***************************************************************************)
(* Every word is sampled in the one cycle in which the late output bus of  *)
(* the memory shows it: S[i] in read_i and read_si, S[j] in read_j and     *)
(* read_sj, the sum in read_sum, and the ciphertext word k in              *)
(* write_decrypt and in check_k, where brute_force.sv looks at the byte.   *)
(***************************************************************************)
ReadsAreFresh ==
  /\ shf_state = "read_i"  => s_q = s_mem[shf_i]
  /\ shf_state = "read_j"  => s_q = s_mem[shf_j]
  /\ cmp_state = "read_si" => s_q = s_mem[cmp_i]
  /\ cmp_state = "read_sj" => s_q = s_mem[cmp_j]
  /\ cmp_state = "read_sum" => s_q = s_mem[(cmp_q_sj + cmp_q_si) % N]
  /\ cmp_state \in {"write_decrypt", "check_k"} => rom_q = rom[cmp_k]

\* The S box as it will be once the exchange that is half written is over.
Settled ==
  IF shf_state = "swap_j" THEN [s_mem EXCEPT ![shf_j] = shf_q_si]
  ELSE IF cmp_state = "swap_sj" THEN [s_mem EXCEPT ![cmp_i] = cmp_q_sj]
  ELSE s_mem

(***************************************************************************)
(* From the end of init to the next start the S box is a permutation,      *)
(* except between the two writes of one exchange, where the second write   *)
(* restores it.  (A reset between the two leaves it torn; the phase is     *)
(* then idle, and init rebuilds it.)                                       *)
(***************************************************************************)
SBoxIsPermutation ==
  dec_state \notin {"idle", "init_begin", "init_end"} => Settled \in Permutations

(***************************************************************************)
(* The inductive invariant behind the properties above: the words that the *)
(* workers hold in q_si, q_sj and rom_q are still the memory's words when  *)
(* they are used, and init has filled the S box below its index.           *)
(***************************************************************************)
HeldWords ==
  /\ shf_state \in {"calc_j", "addr_j", "read_j", "swap_i"} => shf_q_si = s_mem[shf_i]
  /\ shf_state = "swap_i" => shf_q_sj = s_mem[shf_j]
  /\ cmp_state \in {"calc_j", "addr_sj", "read_sj", "swap_si"} => cmp_q_si = s_mem[cmp_i]
  /\ cmp_state = "swap_si" => cmp_q_sj = s_mem[cmp_j]
  /\ cmp_state \notin {"idle", "incr_i", "finish"} => rom_q = rom[cmp_k]

Filled ==
  /\ ini_state = "initialize" => \A x \in Byte : x < ini_i => s_mem[x] = x
  /\ dec_state = "init_end" /\ ini_state = "finish" => s_mem = Identity

CoreInv ==
  /\ CoreTypeOK /\ InStep /\ ReadsAreFresh /\ HeldWords /\ Filled /\ SBoxIsPermutation

(***************************************************************************)
(* A worker is started once per phase: although the start line stays high  *)
(* over the whole phase, a worker leaves idle only in the *_begin state.   *)
(***************************************************************************)
StartsOnce ==
  [][ /\ ini_state = "idle" /\ ini_state' = "initialize" => dec_state = "init_begin"
      /\ shf_state = "idle" /\ shf_state' = "addr_i" => dec_state = "shuffle_begin"
      /\ cmp_state = "idle" /\ cmp_state' = "incr_i" => dec_state = "compute_begin"
    ]_coreVars
=============================================================================
