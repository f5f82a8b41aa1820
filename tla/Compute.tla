------------------------------ MODULE Compute ------------------------------
(***************************************************************************)
(* Lab4 compute.sv: for each message byte k, one exchange in the S memory  *)
(* and one key-stream byte, xored with the ciphertext word of the ROM and  *)
(* written to the message memory.  One action per state of the state       *)
(* machine, each the whole clock edge of the module in that state.         *)
(***************************************************************************)
EXTENDS Integers

CONSTANTS
  N,   \* words of the S memory, values of a byte
  L,   \* words of the message
  Xor  \* exclusive or of two bytes

VARIABLES
  state,
  i, j,        \* the two indices of the generator
  k,           \* index of the message byte
  q_si, q_sj,  \* the words read at i and at j
  f            \* the key-stream byte

Byte == 0 .. N - 1

States == {"idle", "incr_i", "addr_si", "read_si", "calc_j", "addr_sj", "read_sj",
           "swap_si", "swap_sj", "addr_sum", "read_sum", "write_decrypt",
           "check_k", "incr_k", "finish"}

TypeOK ==
  /\ state \in States
  /\ i \in Byte /\ j \in Byte /\ k \in 0 .. L - 1
  /\ q_si \in Byte /\ q_sj \in Byte /\ f \in Byte

\* Mutant: the write enable lasts two cycles.
wren_long == state \in {"write_decrypt", "check_k"}

\* The output assignments; address is 0 in write_decrypt (address_select 10).
wren         == state \in {"swap_si", "swap_sj"}
wren_decrypt == state = "write_decrypt"
complete     == state = "finish"
data         == IF state \in {"swap_sj", "write_decrypt"} THEN q_sj ELSE q_si
address      == IF state \in {"addr_sj", "swap_si"} THEN j
                ELSE IF state = "addr_sum" THEN (q_sj + q_si) % N
                ELSE IF state = "write_decrypt" THEN 0
                ELSE i
rom_addr        == k
address_decrypt == k
data_decrypt(rom_data) == Xor[f, rom_data]

Init ==
  /\ state = "idle"
  /\ i = 0 /\ j = 0 /\ k = 0
  /\ q_si = 0 /\ q_sj = 0 /\ f = 0

\* The synchronous reset wins over every transition but not over the registers.
Goto(next, reset) == state' = IF reset THEN "finish" ELSE next

\* A state that only moves on.
Pass(from, next, reset) ==
  /\ state = from
  /\ Goto(next, reset)
  /\ UNCHANGED <<i, j, k, q_si, q_sj, f>>

IncrI(reset) ==
  /\ state = "incr_i"
  /\ Goto("addr_si", reset)
  /\ i' = (i + 1) % N
  /\ UNCHANGED <<j, k, q_si, q_sj, f>>

ReadSi(q, reset) ==
  /\ state = "read_si"
  /\ Goto("calc_j", reset)
  /\ q_si' = q
  /\ UNCHANGED <<i, j, k, q_sj, f>>

CalcJ(reset) ==
  /\ state = "calc_j"
  /\ Goto("addr_sj", reset)
  /\ j' = (j + q_si) % N
  /\ UNCHANGED <<i, k, q_si, q_sj, f>>

ReadSj(q, reset) ==
  /\ state = "read_sj"
  /\ Goto("swap_si", reset)
  /\ q_sj' = q
  /\ UNCHANGED <<i, j, k, q_si, f>>

ReadSum(q, reset) ==
  /\ state = "read_sum"
  /\ Goto("write_decrypt", reset)
  /\ f' = q
  /\ UNCHANGED <<i, j, k, q_si, q_sj>>

IncrK(reset) ==
  /\ state = "incr_k"
  /\ Goto("incr_i", reset)
  /\ k' = (k + 1) % L
  /\ UNCHANGED <<i, j, q_si, q_sj, f>>

Finish(reset) ==
  /\ state = "finish"
  /\ Goto("idle", reset)
  /\ i' = 0
  /\ j' = 0
  /\ k' = 0
  /\ UNCHANGED <<q_si, q_sj, f>>

Clock(start, reset, q) ==
  \/ Pass("idle", IF start THEN "incr_i" ELSE "idle", reset)
  \/ IncrI(reset)
  \/ Pass("addr_si", "read_si", reset)
  \/ ReadSi(q, reset)
  \/ CalcJ(reset)
  \/ Pass("addr_sj", "read_sj", reset)
  \/ ReadSj(q, reset)
  \/ Pass("swap_si", "swap_sj", reset)
  \/ Pass("swap_sj", "addr_sum", reset)
  \/ Pass("addr_sum", "read_sum", reset)
  \/ ReadSum(q, reset)
  \/ Pass("write_decrypt", "check_k", reset)
  \/ Pass("check_k", IF k = L - 1 THEN "finish" ELSE "incr_k", reset)
  \/ IncrK(reset)
  \/ Finish(reset)
=============================================================================
