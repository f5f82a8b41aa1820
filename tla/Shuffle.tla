------------------------------ MODULE Shuffle ------------------------------
(***************************************************************************)
(* Lab4 shuffle.sv: the key-scheduling exchanges S[i] <-> S[j] for every i *)
(* of the S memory, over a memory port that answers one cycle late.  One   *)
(* action per state of the state machine, each the whole clock edge of the *)
(* module in that state.                                                   *)
(***************************************************************************)
EXTENDS Integers

CONSTANT N  \* words of the S memory, values of a byte

VARIABLES
  state,
  i, j,       \* the two indices
  q_si, q_sj  \* the words read at i and at j

Byte == 0 .. N - 1

States == {"idle", "addr_i", "read_i", "calc_j", "addr_j", "read_j",
           "swap_i", "swap_j", "check_i", "incr_i", "finish"}

TypeOK == state \in States /\ i \in Byte /\ j \in Byte /\ q_si \in Byte /\ q_sj \in Byte

\* Mutants: the words of an exchange go back where they came from; S[i] is
\* never addressed for reading.
uncrossed == IF state = "swap_j" THEN q_sj ELSE q_si
only_j == IF state = "swap_i" THEN i ELSE j

\* The output assignments.
wren     == state \in {"swap_i", "swap_j"}
data     == IF state = "swap_j" THEN q_si ELSE q_sj
address  == IF state \in {"addr_i", "swap_i"} THEN i ELSE j
complete == state = "finish"

\* Mutant: the key bytes are taken from the wrong end.
key_backwards(key) ==
  CASE i % 3 = 0 -> key % N
    [] i % 3 = 1 -> (key \div N) % N
    [] OTHER     -> (key \div (N * N)) % N

\* The byte of the 24-bit key that index i adds: [23:16], [15:8] or [7:0].
key_val(key) ==
  CASE i % 3 = 0 -> (key \div (N * N)) % N
    [] i % 3 = 1 -> (key \div N) % N
    [] OTHER     -> key % N

Init == state = "idle" /\ i = 0 /\ j = 0 /\ q_si = 0 /\ q_sj = 0

\* The synchronous reset wins over every transition but not over the registers.
Goto(next, reset) == state' = IF reset THEN "finish" ELSE next

\* A state that only moves on.
Pass(from, next, reset) ==
  /\ state = from
  /\ Goto(next, reset)
  /\ UNCHANGED <<i, j, q_si, q_sj>>

ReadI(q, reset) ==
  /\ state = "read_i"
  /\ Goto("calc_j", reset)
  /\ q_si' = q
  /\ UNCHANGED <<i, j, q_sj>>

CalcJ(key, reset) ==
  /\ state = "calc_j"
  /\ Goto("addr_j", reset)
  /\ j' = (j + q_si + key_val(key)) % N
  /\ UNCHANGED <<i, q_si, q_sj>>

ReadJ(q, reset) ==
  /\ state = "read_j"
  /\ Goto("swap_i", reset)
  /\ q_sj' = q
  /\ UNCHANGED <<i, j, q_si>>

IncrI(reset) ==
  /\ state = "incr_i"
  /\ Goto("addr_i", reset)
  /\ i' = (i + 1) % N
  /\ UNCHANGED <<j, q_si, q_sj>>

Finish(reset) ==
  /\ state = "finish"
  /\ Goto("idle", reset)
  /\ i' = 0
  /\ j' = 0
  /\ UNCHANGED <<q_si, q_sj>>

Clock(key, start, reset, q) ==
  \/ Pass("idle", IF start THEN "addr_i" ELSE "idle", reset)
  \/ Pass("addr_i", "read_i", reset)
  \/ ReadI(q, reset)
  \/ CalcJ(key, reset)
  \/ Pass("addr_j", "read_j", reset)
  \/ ReadJ(q, reset)
  \/ Pass("swap_i", "swap_j", reset)
  \/ Pass("swap_j", "check_i", reset)
  \/ Pass("check_i", IF i = N - 1 THEN "finish" ELSE "incr_i", reset)
  \/ IncrI(reset)
  \/ Finish(reset)
=============================================================================
