----------------------------- MODULE KsaProofs -----------------------------
(***************************************************************************)
(* Theorems about the RC4 cracker for every number of byte values, every   *)
(* message length and every exclusive-or, from the bottom up: induction    *)
(* over the natural numbers, the reference cipher, the engine of           *)
(* DecryptCore whatever its start and reset inputs do, and the cracker:    *)
(* the handshakes never miss, the engine computes RC4, and the search      *)
(* gives up no key wrongly.                                                *)
(***************************************************************************)
EXTENDS Ksa, WellFoundedInduction, TLAPS

(***************************************************************************)
(* 1. Induction and recursion over the natural numbers in the form the     *)
(* proofs need: induction on a set of numbers, and the existence of the    *)
(* sequence of iterates of a function, which justifies a recursive         *)
(* function of the form                                                    *)
(*     f[n \in 0 .. M] == IF n = 0 THEN v ELSE F[f[n - 1]]                 *)
(***************************************************************************)

\* A nonempty set of natural numbers has a least element.
LEMMA LeastNatural ==
  ASSUME NEW T \in SUBSET Nat, T # {}
  PROVE  \E m \in T : \A t \in T : m <= t
  <1>1. PICK x \in T : \A y \in T : <<y, x>> \notin OpToRel(<, Nat)
    BY NatLessThanWellFounded, WFMin
  <1>2. \A y \in T : ~(y < x)
    BY <1>1 DEF OpToRel
  <1>3. QED
    BY <1>2

\* A set that holds 0 and the successor of each of its numbers holds them all.
LEMMA SetInduction ==
  ASSUME NEW T, 0 \in T, \A n \in Nat : n \in T => n + 1 \in T
  PROVE  Nat \subseteq T
  <1> SUFFICES ASSUME NEW x \in Nat, x \notin T PROVE FALSE
    OBVIOUS
  <1>1. PICK m \in Nat \ T : \A t \in Nat \ T : m <= t
    BY LeastNatural
  <1>2. m # 0 /\ m - 1 \in Nat
    BY <1>1
  <1>3. m - 1 \in T
    BY <1>1, <1>2
  <1>4. QED
    BY <1>1, <1>2, <1>3

\* f is the sequence v, F[v], F[F[v]], ... up to index M.
Iterates(f, M, v, F) == f = [n \in 0 .. M |-> IF n = 0 THEN v ELSE F[f[n - 1]]]

\* The iterates of a function from a set to itself exist and stay in the set.
LEMMA IterationExists ==
  ASSUME NEW V, NEW F \in [V -> V], NEW v \in V, NEW M \in Nat
  PROVE  \E f \in [0 .. M -> V] : Iterates(f, M, v, F)
  <1> DEFINE Upto(m) == \E f \in [0 .. m -> V] : f[0] = v /\ \A n \in 1 .. m : f[n] = F[f[n - 1]]
             T == {m \in Nat : Upto(m)}
  <1>1. Upto(0)
    <2> DEFINE z == [n \in 0 .. 0 |-> v]
    <2>1. z \in [0 .. 0 -> V] /\ z[0] = v
      OBVIOUS
    <2>2. \A n \in 1 .. 0 : z[n] = F[z[n - 1]]
      OBVIOUS
    <2> HIDE DEF z
    <2>3. QED
      BY <2>1, <2>2
  <1>2. ASSUME NEW m \in Nat, Upto(m) PROVE Upto(m + 1)
    <2>1. PICK f \in [0 .. m -> V] : f[0] = v /\ \A n \in 1 .. m : f[n] = F[f[n - 1]]
      BY <1>2
    <2> DEFINE g == [n \in 0 .. m + 1 |-> IF n = m + 1 THEN F[f[m]] ELSE f[n]]
    <2>2. g \in [0 .. m + 1 -> V]
      BY <2>1
    <2>3. g[0] = v
      BY <2>1
    <2>4. \A n \in 1 .. m + 1 : g[n] = F[g[n - 1]]
      BY <2>1
    <2>5. QED
      BY <2>2, <2>3, <2>4
  <1>3. M \in T
    <2> HIDE DEF Upto
    <2>1. 0 \in T /\ \A n \in Nat : n \in T => n + 1 \in T
      BY <1>1, <1>2
    <2>2. QED
      BY <2>1, SetInduction
  <1>4. PICK f \in [0 .. M -> V] : f[0] = v /\ \A n \in 1 .. M : f[n] = F[f[n - 1]]
    BY <1>3
  <1>5. f = [n \in 0 .. M |-> IF n = 0 THEN v ELSE F[f[n - 1]]]
    BY <1>4
  <1>6. QED
    BY <1>5 DEF Iterates

\* What is known of the iterates of a function from a set to itself.
LEMMA IteratesFacts ==
  ASSUME NEW V, NEW F \in [V -> V], NEW v \in V, NEW M \in Nat,
         NEW f, Iterates(f, M, v, F)
  PROVE  /\ f \in [0 .. M -> V]
         /\ f[0] = v
         /\ \A n \in 0 .. M - 1 : f[n + 1] = F[f[n]]
  <1>1. f = [n \in 0 .. M |-> IF n = 0 THEN v ELSE F[f[n - 1]]]
    BY DEF Iterates
  <1>2. f[0] = v /\ \A n \in 0 .. M - 1 : f[n + 1] = F[f[n]]
    BY <1>1
  <1> DEFINE T == {n \in Nat : n <= M => f[n] \in V}
  <1>3. 0 \in T
    BY <1>2
  <1>4. ASSUME NEW n \in Nat, n \in T PROVE n + 1 \in T
    BY <1>2, <1>4
  <1>5. Nat \subseteq T
    <2> HIDE DEF T
    <2>1. QED
      BY <1>3, <1>4, SetInduction
  <1>6. \A n \in 0 .. M : f[n] \in V
    BY <1>5
  <1>7. QED
    BY <1>1, <1>2, <1>6

-----------------------------------------------------------------------------
(***************************************************************************)
(* 2. The reference cipher: types, the recurrences that its recursive      *)
(* functions satisfy, and that exchanges keep permutations.                *)
(***************************************************************************)

\* Bytes and indices.

LEMMA ByteInt == Byte \subseteq Int /\ 0 \in Byte
  BY NAssumption DEF Byte

\* A number reduced modulo N fits in a byte.
LEMMA ModByte == ASSUME NEW x \in Int PROVE x % N \in Byte
  BY NAssumption DEF Byte

\* A number reduced modulo L is a message index.
LEMMA ModIndex == ASSUME NEW x \in Int PROVE x % L \in Index
  BY LAssumption DEF Index

LEMMA SumByte == ASSUME NEW a \in Byte, NEW b \in Byte PROVE (a + b) % N \in Byte
  <1>1. a \in Int /\ b \in Int
    BY ByteInt
  <1>2. a + b \in Int
    BY <1>1
  <1>3. QED
    BY <1>2, ModByte

LEMMA NextByte == ASSUME NEW a \in Byte PROVE (a + 1) % N \in Byte
  <1>1. a \in Int
    BY ByteInt
  <1>2. a + 1 \in Int
    BY <1>1
  <1>3. QED
    BY <1>2, ModByte

LEMMA Sum3Byte ==
  ASSUME NEW a \in Byte, NEW b \in Byte, NEW c \in Byte
  PROVE  (a + b + c) % N \in Byte
  <1>1. a \in Int /\ b \in Int /\ c \in Int
    BY ByteInt
  <1>2. a + b + c \in Int
    BY <1>1
  <1>3. QED
    BY <1>2, ModByte

\* The three bytes that a key is cut into.
LEMMA KeyBytes ==
  ASSUME NEW k \in Key
  PROVE  /\ (k \div (N * N)) % N \in Byte
         /\ (k \div N) % N \in Byte
         /\ k % N \in Byte
  <1>1. k \div (N * N) \in Int /\ k \div N \in Int /\ k \in Int
    BY NAssumption DEF Key
  <1>2. QED
    BY <1>1, ModByte

LEMMA KeyByteType == ASSUME NEW k \in Key, NEW i \in Byte PROVE KeyByte(k, i) \in Byte
  <1>1. i \in Int
    BY ByteInt
  <1>2. (i % 3) + 1 \in 1 .. 3
    BY <1>1
  <1>3. QED
    BY <1>2, KeyBytes DEF KeyByte

-----------------------------------------------------------------------------
\* Permutations.

LEMMA IdentityPermutation == Identity \in Permutations
  BY DEF Identity, Permutations

\* An exchange keeps a permutation a permutation.
LEMMA ExchangePermutation ==
  ASSUME NEW s \in Permutations, NEW a \in Byte, NEW b \in Byte
  PROVE  Exchange(s, a, b) \in Permutations
  BY DEF Permutations, Exchange

\* Two writes, in either order, make an exchange.
LEMMA TwoWrites ==
  ASSUME NEW s \in [Byte -> Byte], NEW a \in Byte, NEW b \in Byte
  PROVE  /\ [[s EXCEPT ![a] = s[b]] EXCEPT ![b] = s[a]] = Exchange(s, a, b)
         /\ [[s EXCEPT ![b] = s[a]] EXCEPT ![a] = s[b]] = Exchange(s, a, b)
  BY DEF Exchange

-----------------------------------------------------------------------------
\* The key schedule.

LEMMA BoxFields == ASSUME NEW b \in Box PROVE b.s \in [Byte -> Byte] /\ b.i \in Byte /\ b.j \in Byte
  BY DEF Box

\* The box before the first exchange.
FirstBox == [s |-> Identity, i |-> 0, j |-> 0]

LEMMA FirstBoxType == FirstBox \in Box
  BY NAssumption DEF FirstBox, Box, Identity, Byte

LEMMA ScheduleStepType == ASSUME NEW k \in Key PROVE ScheduleStep(k) \in [Box -> Box]
  <1>1. ASSUME NEW b \in Box
        PROVE  /\ (b.j + b.s[b.i] + KeyByte(k, b.i)) % N \in Byte
               /\ (b.i + 1) % N \in Byte
    <2>1. b.j \in Byte /\ b.i \in Byte /\ b.s[b.i] \in Byte /\ KeyByte(k, b.i) \in Byte
      BY KeyByteType, BoxFields
    <2>2. QED
      BY <2>1, Sum3Byte, NextByte
  <1>2. QED
    BY <1>1 DEF ScheduleStep, Exchange, Box

\* The fields of a box after one step of the key schedule.
LEMMA ScheduleStepFields ==
  ASSUME NEW k, NEW b \in Box
  PROVE  /\ ScheduleStep(k)[b].i = (b.i + 1) % N
         /\ ScheduleStep(k)[b].j = (b.j + b.s[b.i] + KeyByte(k, b.i)) % N
         /\ ScheduleStep(k)[b].s = Exchange(b.s, b.i, ScheduleStep(k)[b].j)
  BY DEF ScheduleStep

\* The recursive definition of the key schedule has the value it describes.
LEMMA ScheduleUnfold ==
  ASSUME NEW k \in Key
  PROVE  /\ KeySchedule(k) \in [0 .. N -> Box]
         /\ KeySchedule(k)[0] = FirstBox
         /\ \A n \in 0 .. N - 1 : KeySchedule(k)[n + 1] = ScheduleStep(k)[KeySchedule(k)[n]]
  <1> DEFINE F == ScheduleStep(k)
  <1>1. F \in [Box -> Box] /\ N \in Nat
    BY ScheduleStepType, NAssumption
  <1> HIDE DEF F
  <1>2. PICK f \in [0 .. N -> Box] : Iterates(f, N, FirstBox, F)
    BY <1>1, FirstBoxType, IterationExists
  <1>3. Iterates(KeySchedule(k), N, FirstBox, F)
    BY <1>2 DEF KeySchedule, FirstBox, F, Iterates
  <1>4. QED
    BY <1>1, <1>3, FirstBoxType, IteratesFacts DEF F

(***************************************************************************)
(* The recurrence of the key schedule: after n exchanges the next index is *)
(* n, and exchange n is of the words at n and at the new j.                *)
(***************************************************************************)
LEMMA ScheduleRecurrence ==
  ASSUME NEW k \in Key, NEW n \in 0 .. N - 1
  PROVE  LET a == KeySchedule(k)[n]
             b == KeySchedule(k)[n + 1]
         IN  /\ a \in Box /\ b \in Box
             /\ b.j = (a.j + a.s[n] + KeyByte(k, n)) % N
             /\ b.s = Exchange(a.s, n, b.j)
  <1> DEFINE A == KeySchedule(k)
             T == {m \in Nat : m < N => A[m].i = m}
  <1>1. A \in [0 .. N -> Box] /\ A[0] = FirstBox
    BY ScheduleUnfold
  <1>2. \A m \in 0 .. N - 1 : A[m + 1] = ScheduleStep(k)[A[m]]
    BY ScheduleUnfold
  <1> HIDE DEF A
  <1>3. \A m \in 0 .. N - 1 : m \in 0 .. N /\ m + 1 \in 0 .. N
    BY NAssumption
  <1>4. 0 \in T
    BY <1>1 DEF FirstBox
  <1>5. ASSUME NEW m \in Nat, m \in T PROVE m + 1 \in T
    <2> SUFFICES ASSUME m + 1 < N PROVE A[m + 1].i = m + 1
      OBVIOUS
    <2>1. m \in 0 .. N - 1 /\ (m + 1) % N = m + 1
      BY NAssumption
    <2>2. A[m].i = m /\ A[m] \in Box
      BY <1>1, <1>3, <1>5, <2>1, NAssumption
    <2>3. A[m + 1].i = (m + 1) % N
      BY <1>2, <2>1, <2>2, ScheduleStepFields
    <2>4. QED
      BY <2>1, <2>3
  <1>6. Nat \subseteq T
    <2> HIDE DEF T
    <2>1. QED
      BY <1>4, <1>5, SetInduction
  <1>7. A[n].i = n /\ A[n] \in Box /\ A[n + 1] \in Box
    BY <1>1, <1>3, <1>6, NAssumption
  <1>8. A[n + 1] = ScheduleStep(k)[A[n]]
    BY <1>2
  <1>9. QED
    BY <1>7, <1>8, ScheduleStepFields DEF A

-----------------------------------------------------------------------------
\* The generator.

LEMMA GenerateStepType == GenerateStep \in [Box -> Box]
  <1>1. ASSUME NEW b \in Box
        PROVE  /\ (b.i + 1) % N \in Byte
               /\ (b.j + b.s[(b.i + 1) % N]) % N \in Byte
    <2>1. b.j \in Byte /\ (b.i + 1) % N \in Byte /\ b.s \in [Byte -> Byte]
      BY NextByte, BoxFields
    <2>2. QED
      BY <2>1, SumByte
  <1>2. QED
    BY <1>1 DEF GenerateStep, Exchange, Box

\* The fields of a box after one step of the generator.
LEMMA GenerateStepFields ==
  ASSUME NEW b \in Box
  PROVE  /\ GenerateStep[b].i = (b.i + 1) % N
         /\ GenerateStep[b].j = (b.j + b.s[(b.i + 1) % N]) % N
         /\ GenerateStep[b].s = Exchange(b.s, GenerateStep[b].i, GenerateStep[b].j)
  BY DEF GenerateStep

\* The box that the generator starts from.
GeneratorStart(k) == [KeySchedule(k)[N] EXCEPT !.i = 0, !.j = 0]

LEMMA GeneratorStartType ==
  ASSUME NEW k \in Key
  PROVE  /\ GeneratorStart(k) \in Box
         /\ GeneratorStart(k).s = KeySchedule(k)[N].s
         /\ GeneratorStart(k).i = 0
         /\ GeneratorStart(k).j = 0
  <1>1. KeySchedule(k)[N] \in Box
    BY ScheduleUnfold, NAssumption
  <1>2. 0 \in Byte
    BY ByteInt
  <1>3. ASSUME NEW b \in Box
        PROVE  LET c == [b EXCEPT !.i = 0, !.j = 0]
               IN  c \in Box /\ c.s = b.s /\ c.i = 0 /\ c.j = 0
    BY <1>2 DEF Box
  <1>4. QED
    BY <1>1, <1>3 DEF GeneratorStart

\* The recursive definition of the generator has the value it describes.
LEMMA GeneratorUnfold ==
  ASSUME NEW k \in Key
  PROVE  /\ Generator(k) \in [0 .. L -> Box]
         /\ Generator(k)[0] = GeneratorStart(k)
         /\ \A n \in 0 .. L - 1 : Generator(k)[n + 1] = GenerateStep[Generator(k)[n]]
  <1> DEFINE F == GenerateStep
             v == GeneratorStart(k)
  <1>1. F \in [Box -> Box] /\ L \in Nat /\ v \in Box
    BY GenerateStepType, GeneratorStartType, LAssumption
  <1> HIDE DEF F, v
  <1>2. PICK f \in [0 .. L -> Box] : Iterates(f, L, v, F)
    BY <1>1, IterationExists
  <1>3. Iterates(Generator(k), L, v, F)
    BY <1>2 DEF Generator, GeneratorStart, v, F, Iterates
  <1>4. QED
    BY <1>1, <1>3, IteratesFacts DEF F, v

(***************************************************************************)
(* The recurrence of the generator: it starts from the scheduled S box     *)
(* with both indices 0, and each byte costs one exchange of the words at   *)
(* the next i and at the new j.                                            *)
(***************************************************************************)
LEMMA GeneratorRecurrence ==
  ASSUME NEW k \in Key, NEW n \in 0 .. L - 1
  PROVE  LET a == Generator(k)[n]
             b == Generator(k)[n + 1]
         IN  /\ a \in Box /\ b \in Box
             /\ b.i = (a.i + 1) % N
             /\ b.j = (a.j + a.s[b.i]) % N
             /\ b.s = Exchange(a.s, b.i, b.j)
  <1> DEFINE G == Generator(k)
  <1>1. G \in [0 .. L -> Box] /\ G[n + 1] = GenerateStep[G[n]]
    BY GeneratorUnfold
  <1> HIDE DEF G
  <1>2. n \in 0 .. L /\ n + 1 \in 0 .. L
    BY LAssumption
  <1>3. G[n] \in Box /\ G[n + 1] \in Box
    BY <1>1, <1>2
  <1>4. QED
    BY <1>1, <1>3, GenerateStepFields DEF G

-----------------------------------------------------------------------------
(***************************************************************************)
(* 3. The decryption engine, whatever the start and reset inputs do.       *)
(***************************************************************************)

\* The key byte that shuffle.sv selects is a byte.
LEMMA KeyValByte == ASSUME NEW STATE k, k \in Key, shf_i \in Byte PROVE Shf!key_val(k) \in Byte
  BY KeyBytes, Zenon DEF Shf!key_val

-----------------------------------------------------------------------------
\* Type correctness, one module at a time.

LEMMA IniType ==
  ASSUME Ini!TypeOK, NEW STATE start, start \in BOOLEAN, NEW STATE reset, reset \in BOOLEAN, Ini!Clock(start, reset)
  PROVE  Ini!TypeOK'
  BY NAssumption, ModByte
  DEF Ini!TypeOK, Ini!Clock, Ini!Idle, Ini!Initialize, Ini!Finish, Ini!Goto, Ini!States, Byte

LEMMA ShfType ==
  ASSUME Shf!TypeOK, NEW STATE k, k \in Key, NEW STATE start, start \in BOOLEAN, NEW STATE reset, reset \in BOOLEAN, NEW STATE q, q \in Byte,
         Shf!Clock(k, start, reset, q)
  PROVE  Shf!TypeOK'
  <1> USE DEF Shf!TypeOK, Shf!States, Shf!Goto, Shf!Byte, Byte
  <1>1. ASSUME NEW from, NEW next \in Shf!States, Shf!Pass(from, next, reset) PROVE Shf!TypeOK'
    BY <1>1 DEF Shf!Pass
  <1>2. CASE Shf!ReadI(q, reset)
    BY <1>2 DEF Shf!ReadI
  <1>3. CASE Shf!CalcJ(k, reset)
    <2>1. Shf!key_val(k) \in Byte
      BY KeyValByte
    <2>2. (shf_j + shf_q_si + Shf!key_val(k)) % N \in Byte
      BY <2>1, ModByte, NAssumption
    <2>3. QED
      BY <1>3, <2>2 DEF Shf!CalcJ
  <1>4. CASE Shf!ReadJ(q, reset)
    BY <1>4 DEF Shf!ReadJ
  <1>5. CASE Shf!IncrI(reset)
    BY <1>5, ModByte DEF Shf!IncrI
  <1>6. CASE Shf!Finish(reset)
    BY <1>6, NAssumption DEF Shf!Finish
  <1>7. QED
    BY <1>1, <1>2, <1>3, <1>4, <1>5, <1>6 DEF Shf!Clock

LEMMA CmpType ==
  ASSUME Cmp!TypeOK, NEW STATE start, start \in BOOLEAN, NEW STATE reset, reset \in BOOLEAN, NEW STATE q, q \in Byte, Cmp!Clock(start, reset, q)
  PROVE  Cmp!TypeOK'
  <1> USE DEF Cmp!TypeOK, Cmp!States, Cmp!Goto, Cmp!Byte, Byte, Index
  <1>1. ASSUME NEW from, NEW next \in Cmp!States, Cmp!Pass(from, next, reset) PROVE Cmp!TypeOK'
    BY <1>1 DEF Cmp!Pass
  <1>2. CASE Cmp!IncrI(reset)
    BY <1>2, ModByte DEF Cmp!IncrI
  <1>3. CASE Cmp!ReadSi(q, reset)
    BY <1>3 DEF Cmp!ReadSi
  <1>4. CASE Cmp!CalcJ(reset)
    BY <1>4, ModByte, NAssumption DEF Cmp!CalcJ
  <1>5. CASE Cmp!ReadSj(q, reset)
    BY <1>5 DEF Cmp!ReadSj
  <1>6. CASE Cmp!ReadSum(q, reset)
    BY <1>6 DEF Cmp!ReadSum
  <1>7. CASE Cmp!IncrK(reset)
    BY <1>7, ModIndex DEF Cmp!IncrK
  <1>8. CASE Cmp!Finish(reset)
    BY <1>8, NAssumption, LAssumption DEF Cmp!Finish
  <1>9. QED
    BY <1>1, <1>2, <1>3, <1>4, <1>5, <1>6, <1>7, <1>8 DEF Cmp!Clock

\* Whichever worker has the port, the address and the data on it are bytes.
LEMMA PortByte == ASSUME CoreTypeOK PROVE address_out \in Byte /\ data_out \in Byte
  <1>1. 0 \in Byte
    BY NAssumption DEF Byte
  <1>2. (cmp_q_sj + cmp_q_si) % N \in Byte
    <2>1. cmp_q_sj + cmp_q_si \in Int
      BY NAssumption DEF CoreTypeOK, Cmp!TypeOK, Cmp!Byte
    <2>2. QED
      BY <2>1, ModByte
  <1>3. Ini!address \in Byte /\ Ini!data \in Byte
    BY DEF CoreTypeOK, Ini!TypeOK, Ini!address, Ini!data, Byte
  <1>4. Shf!address \in Byte /\ Shf!data \in Byte
    BY DEF CoreTypeOK, Shf!TypeOK, Shf!address, Shf!data, Shf!Byte, Byte
  <1>5. Cmp!address \in Byte /\ Cmp!data \in Byte
    BY <1>1, <1>2 DEF CoreTypeOK, Cmp!TypeOK, Cmp!address, Cmp!data, Cmp!Byte, Byte
  <1>6. QED
    BY <1>1, <1>3, <1>4, <1>5 DEF address_out, data_out, Dec!Select

\* The byte written to the message memory is a byte.
LEMMA MessageByte == ASSUME CoreTypeOK PROVE data_decrypt_out \in Byte
  BY XorAssumption DEF CoreTypeOK, Cmp!TypeOK, Cmp!Byte, Byte, data_decrypt_out, Cmp!data_decrypt

LEMMA CoreTypeInit == CoreInit => CoreTypeOK
  BY NAssumption, LAssumption
  DEF CoreInit, CoreTypeOK, Dec!Init, Ini!Init, Shf!Init, Cmp!Init,
      Dec!TypeOK, Ini!TypeOK, Shf!TypeOK, Cmp!TypeOK,
      Dec!States, Ini!States, Shf!States, Cmp!States, Shf!Byte, Cmp!Byte, Byte, Index

LEMMA CoreTypeStep ==
  ASSUME CoreTypeOK, NEW STATE decrypt_start, decrypt_start \in BOOLEAN, NEW STATE reset, reset \in BOOLEAN,
         NEW STATE k, k \in Key, CoreClock(decrypt_start, reset, k)
  PROVE  CoreTypeOK'
  <1>1. Dec!TypeOK'
    BY DEF CoreTypeOK, CoreClock, Dec!Clock, Dec!Pass, Dec!Goto, Dec!TypeOK, Dec!States
  <1>2. Ini!TypeOK'
    <2>1. Dec!init_start \in BOOLEAN /\ Dec!init_reset(reset) \in BOOLEAN
      BY DEF Dec!init_start, Dec!init_reset
    <2>2. QED
      BY <2>1, IniType DEF CoreTypeOK, CoreClock
  <1>3. Shf!TypeOK'
    <2>1. Dec!shuffle_start \in BOOLEAN /\ Dec!shuffle_reset(reset) \in BOOLEAN
      BY DEF Dec!shuffle_start, Dec!shuffle_reset
    <2>2. QED
      BY <2>1, ShfType DEF CoreTypeOK, CoreClock
  <1>4. Cmp!TypeOK'
    <2>1. Dec!compute_start \in BOOLEAN /\ Dec!compute_reset(reset) \in BOOLEAN
      BY DEF Dec!compute_start, Dec!compute_reset
    <2>2. QED
      BY <2>1, CmpType DEF CoreTypeOK, CoreClock
  <1>5. s_mem' \in [Byte -> Byte] /\ s_q' \in Byte
    BY PortByte DEF CoreTypeOK, CoreClock, S!Clock
  <1>6. rom' \in [Index -> Byte] /\ rom_q' \in Byte
    BY DEF CoreTypeOK, CoreClock, R!ClockRom, Cmp!rom_addr, Cmp!TypeOK, Index
  <1>7. d_mem' \in [Index -> Byte] /\ d_q' \in Byte
    BY MessageByte DEF CoreTypeOK, CoreClock, D!Clock, Cmp!address_decrypt, Cmp!TypeOK, Index
  <1>8. QED
    BY <1>1, <1>2, <1>3, <1>4, <1>5, <1>6, <1>7 DEF CoreTypeOK

LEMMA CoreTypeStutter == CoreTypeOK /\ UNCHANGED coreVars => CoreTypeOK'
  BY DEF CoreTypeOK, Dec!TypeOK, Ini!TypeOK, Shf!TypeOK, Cmp!TypeOK,
         coreVars, iniVars, shfVars, cmpVars, memVars

(***************************************************************************)
(* Every register of the engine stays within its width.                    *)
(***************************************************************************)
THEOREM CoreTypeCorrect == CoreSpec => []CoreTypeOK
  <1>1. CoreTypeOK /\ [CoreNext]_coreVars => CoreTypeOK'
    BY CoreTypeStep, CoreTypeStutter DEF CoreNext
  <1>2. QED
    BY CoreTypeInit, <1>1, PTL DEF CoreSpec

-----------------------------------------------------------------------------
\* decrypt.sv and its workers in step.

\* decrypt.sv and init.sv stay in step.
LEMMA IniInStep ==
  ASSUME InStep, NEW STATE decrypt_start, decrypt_start \in BOOLEAN, NEW STATE reset, reset \in BOOLEAN,
         NEW STATE k, CoreClock(decrypt_start, reset, k)
  PROVE  /\ dec_state' # "init_end" =>
              IniAtRest' \/ (dec_state' = "idle" /\ ini_state' = "finish")
         /\ dec_state' = "init_end" => ini_state' # "idle"
  <1>1. Dec!Clock(decrypt_start, reset, Ini!complete, Shf!complete, Cmp!complete)
    BY DEF CoreClock
  <1>2. Ini!Clock(Dec!init_start, Dec!init_reset(reset))
    BY DEF CoreClock
  <1>3. QED
    BY <1>1, <1>2
    DEF InStep, IniAtRest, Dec!Clock, Dec!Pass, Dec!Goto, Dec!init_start, Dec!shuffle_start,
        Dec!compute_start, Dec!init_reset, Ini!complete, Ini!Clock, Ini!Goto,
        Ini!Idle, Ini!Initialize, Ini!Finish

\* decrypt.sv and shuffle.sv stay in step.
LEMMA ShfInStep ==
  ASSUME InStep, NEW STATE decrypt_start, decrypt_start \in BOOLEAN, NEW STATE reset, reset \in BOOLEAN,
         NEW STATE k, CoreClock(decrypt_start, reset, k)
  PROVE  /\ dec_state' # "shuffle_end" =>
              ShfAtRest' \/ (dec_state' = "idle" /\ shf_state' = "finish")
         /\ dec_state' = "shuffle_end" => shf_state' # "idle"
  <1>1. Dec!Clock(decrypt_start, reset, Ini!complete, Shf!complete, Cmp!complete)
    BY DEF CoreClock
  <1>2. Shf!Clock(k, Dec!shuffle_start, Dec!shuffle_reset(reset), s_q)
    BY DEF CoreClock
  <1>3. QED
    BY <1>1, <1>2
    DEF InStep, ShfAtRest, Dec!Clock, Dec!Pass, Dec!Goto, Dec!init_start, Dec!shuffle_start,
        Dec!compute_start, Dec!shuffle_reset, Shf!complete, Shf!Clock, Shf!Goto,
        Shf!Pass, Shf!ReadI, Shf!CalcJ, Shf!ReadJ, Shf!IncrI, Shf!Finish

\* decrypt.sv and compute.sv stay in step.
LEMMA CmpInStep ==
  ASSUME InStep, NEW STATE decrypt_start, decrypt_start \in BOOLEAN, NEW STATE reset, reset \in BOOLEAN,
         NEW STATE k, CoreClock(decrypt_start, reset, k)
  PROVE  /\ dec_state' # "compute_end" =>
              CmpAtRest' \/ (dec_state' = "idle" /\ cmp_state' = "finish")
         /\ dec_state' = "compute_end" => cmp_state' # "idle"
  <1>1. Dec!Clock(decrypt_start, reset, Ini!complete, Shf!complete, Cmp!complete)
    BY DEF CoreClock
  <1>2. Cmp!Clock(Dec!compute_start, Dec!compute_reset(reset), s_q)
    BY DEF CoreClock
  <1>3. QED
    BY <1>1, <1>2
    DEF InStep, CmpAtRest, Dec!Clock, Dec!Pass, Dec!Goto, Dec!init_start, Dec!shuffle_start,
        Dec!compute_start, Dec!compute_reset, Cmp!complete, Cmp!Clock, Cmp!Goto,
        Cmp!Pass, Cmp!IncrI, Cmp!ReadSi, Cmp!CalcJ, Cmp!ReadSj, Cmp!ReadSum,
        Cmp!IncrK, Cmp!Finish

LEMMA InStepInit == CoreInit => InStep
  BY DEF CoreInit, InStep, Dec!Init, Ini!Init, Shf!Init, Cmp!Init,
         IniAtRest, ShfAtRest, CmpAtRest

LEMMA InStepStep == InStep /\ [CoreNext]_coreVars => InStep'
  <1>1. ASSUME InStep, NEW STATE decrypt_start, decrypt_start \in BOOLEAN, NEW STATE reset, reset \in BOOLEAN,
               NEW STATE k, CoreClock(decrypt_start, reset, k)
        PROVE  InStep'
    BY <1>1, IniInStep, ShfInStep, CmpInStep DEF InStep
  <1>2. InStep /\ UNCHANGED coreVars => InStep'
    BY DEF InStep, IniAtRest, ShfAtRest, CmpAtRest, coreVars, iniVars, shfVars, cmpVars
  <1>3. QED
    BY <1>1, <1>2 DEF CoreNext

(***************************************************************************)
(* decrypt.sv and its workers stay in step whenever the engine is started  *)
(* or reset.                                                               *)
(***************************************************************************)
THEOREM StaysInStep == CoreSpec => []InStep
  BY InStepInit, InStepStep, PTL DEF CoreSpec

\* A worker that writes has the S memory port.
LEMMA InStepWritesLand == InStep => WritesLand
  BY DEF InStep, WritesLand, IniAtRest, ShfAtRest, CmpAtRest,
         wren_out, address_out, data_out, Dec!Select, Dec!init_start, Dec!shuffle_start,
         Dec!compute_start, Ini!wren, Shf!wren, Cmp!wren

(***************************************************************************)
(* The multiplexer never drops or mixes a write of a worker.               *)
(***************************************************************************)
THEOREM NoLostWrite == CoreSpec => []WritesLand
  BY StaysInStep, InStepWritesLand, PTL

(***************************************************************************)
(* A worker is started exactly once per phase.                             *)
(***************************************************************************)
THEOREM NoRestart == CoreSpec => StartsOnce
  <1>1. InStep /\ [CoreNext]_coreVars =>
          [ /\ ini_state = "idle" /\ ini_state' = "initialize" => dec_state = "init_begin"
            /\ shf_state = "idle" /\ shf_state' = "addr_i" => dec_state = "shuffle_begin"
            /\ cmp_state = "idle" /\ cmp_state' = "incr_i" => dec_state = "compute_begin"
          ]_coreVars
    <2> SUFFICES ASSUME InStep, NEW STATE decrypt_start, decrypt_start \in BOOLEAN, NEW STATE reset, reset \in BOOLEAN,
                        NEW STATE k, CoreClock(decrypt_start, reset, k)
                 PROVE  /\ ini_state = "idle" /\ ini_state' = "initialize" => dec_state = "init_begin"
                        /\ shf_state = "idle" /\ shf_state' = "addr_i" => dec_state = "shuffle_begin"
                        /\ cmp_state = "idle" /\ cmp_state' = "incr_i" => dec_state = "compute_begin"
      BY DEF CoreNext
    <2>1. ini_state = "idle" /\ ini_state' = "initialize" => Dec!init_start
      BY DEF CoreClock, Ini!Clock, Ini!Idle, Ini!Initialize, Ini!Finish, Ini!Goto
    <2>2. shf_state = "idle" /\ shf_state' = "addr_i" => Dec!shuffle_start
      BY DEF CoreClock, Shf!Clock, Shf!Pass, Shf!ReadI, Shf!CalcJ, Shf!ReadJ, Shf!IncrI,
             Shf!Finish, Shf!Goto
    <2>3. cmp_state = "idle" /\ cmp_state' = "incr_i" => Dec!compute_start
      BY DEF CoreClock, Cmp!Clock, Cmp!Pass, Cmp!IncrI, Cmp!ReadSi, Cmp!CalcJ, Cmp!ReadSj,
             Cmp!ReadSum, Cmp!IncrK, Cmp!Finish, Cmp!Goto
    <2>4. QED
      BY <2>1, <2>2, <2>3 DEF InStep, Dec!init_start, Dec!shuffle_start, Dec!compute_start
  <1>2. QED
    BY <1>1, StaysInStep, PTL DEF CoreSpec, StartsOnce

-----------------------------------------------------------------------------
\* The S memory port.

\* Only the worker whose phase runs writes the S memory, at its own address.
LEMMA SMemStep ==
  ASSUME InStep, NEW STATE decrypt_start, NEW STATE reset, NEW STATE k,
         CoreClock(decrypt_start, reset, k)
  PROVE  /\ Ini!wren => s_mem' = [s_mem EXCEPT ![ini_i] = ini_i]
         /\ Shf!wren => s_mem' = [s_mem EXCEPT ![Shf!address] = Shf!data]
         /\ Cmp!wren => s_mem' = [s_mem EXCEPT ![Cmp!address] = Cmp!data]
         /\ ~Ini!wren /\ ~Shf!wren /\ ~Cmp!wren => s_mem' = s_mem
  <1>1. S!Clock(address_out, data_out, wren_out)
    BY DEF CoreClock
  <1>2. WritesLand
    BY InStepWritesLand
  <1>3. wren_out => Ini!wren \/ Shf!wren \/ Cmp!wren
    BY DEF wren_out, Dec!Select
  <1>4. QED
    BY <1>1, <1>2, <1>3 DEF S!Clock, WritesLand, Ini!address, Ini!data

\* In a cycle without a write the output bus next shows the addressed word.
LEMMA SReadStep ==
  ASSUME InStep, NEW STATE decrypt_start, NEW STATE reset, NEW STATE k,
         CoreClock(decrypt_start, reset, k)
  PROVE  /\ shf_state \notin {"idle", "finish"} /\ ~Shf!wren => s_q' = s_mem[Shf!address]
         /\ cmp_state \notin {"idle", "finish"} /\ ~Cmp!wren => s_q' = s_mem[Cmp!address]
  <1>1. S!Clock(address_out, data_out, wren_out)
    BY DEF CoreClock
  <1>2. shf_state \notin {"idle", "finish"} => dec_state = "shuffle_end"
    BY DEF InStep, ShfAtRest
  <1>3. cmp_state \notin {"idle", "finish"} => dec_state = "compute_end"
    BY DEF InStep, CmpAtRest
  <1>4. QED
    BY <1>1, <1>2, <1>3
    DEF S!Clock, wren_out, address_out, Dec!Select, Dec!init_start, Dec!shuffle_start,
        Dec!compute_start

\* The words that shuffle.sv samples and holds are current.
LEMMA ShfWords ==
  ASSUME CoreTypeOK, InStep, ReadsAreFresh, HeldWords,
         NEW STATE decrypt_start, NEW STATE reset, NEW STATE k,
         CoreClock(decrypt_start, reset, k)
  PROVE  /\ shf_state' = "read_i" => s_q' = s_mem'[shf_i']
         /\ shf_state' = "read_j" => s_q' = s_mem'[shf_j']
         /\ shf_state' \in {"calc_j", "addr_j", "read_j", "swap_i"} => shf_q_si' = s_mem'[shf_i']
         /\ shf_state' = "swap_i" => shf_q_sj' = s_mem'[shf_j']
  <1>1. Shf!Clock(k, Dec!shuffle_start, Dec!shuffle_reset(reset), s_q)
    BY DEF CoreClock
  <1>2. shf_state \in {"addr_i", "read_i", "calc_j", "addr_j", "read_j"} =>
          s_mem' = s_mem /\ s_q' = s_mem[Shf!address]
    BY SMemStep, SReadStep DEF InStep, IniAtRest, CmpAtRest, ShfAtRest, Ini!wren, Shf!wren, Cmp!wren
  <1>3. QED
    BY <1>1, <1>2
    DEF ReadsAreFresh, HeldWords, Shf!address, Shf!Clock, Shf!Pass, Shf!ReadI, Shf!CalcJ,
        Shf!ReadJ, Shf!IncrI, Shf!Finish, Shf!Goto

\* The words that compute.sv samples and holds are current.
LEMMA CmpWords ==
  ASSUME CoreTypeOK, InStep, ReadsAreFresh, HeldWords,
         NEW STATE decrypt_start, NEW STATE reset, NEW STATE k,
         CoreClock(decrypt_start, reset, k)
  PROVE  /\ cmp_state' = "read_si" => s_q' = s_mem'[cmp_i']
         /\ cmp_state' = "read_sj" => s_q' = s_mem'[cmp_j']
         /\ cmp_state' = "read_sum" => s_q' = s_mem'[(cmp_q_sj' + cmp_q_si') % N]
         /\ cmp_state' \in {"calc_j", "addr_sj", "read_sj", "swap_si"} => cmp_q_si' = s_mem'[cmp_i']
         /\ cmp_state' = "swap_si" => cmp_q_sj' = s_mem'[cmp_j']
         /\ cmp_state' \notin {"idle", "incr_i", "finish"} => rom_q' = rom'[cmp_k']
  <1>1. Cmp!Clock(Dec!compute_start, Dec!compute_reset(reset), s_q)
    BY DEF CoreClock
  <1>2. rom' = rom /\ rom_q' = rom[cmp_k]
    BY DEF CoreClock, R!ClockRom, Cmp!rom_addr
  <1>3. cmp_state \in {"addr_si", "read_si", "calc_j", "addr_sj", "read_sj", "addr_sum"} =>
          s_mem' = s_mem /\ s_q' = s_mem[Cmp!address]
    BY SMemStep, SReadStep DEF InStep, IniAtRest, CmpAtRest, ShfAtRest, Ini!wren, Shf!wren, Cmp!wren
  <1>4. QED
    BY <1>1, <1>2, <1>3
    DEF ReadsAreFresh, HeldWords, Cmp!address, Cmp!Clock, Cmp!Pass, Cmp!IncrI, Cmp!ReadSi,
        Cmp!CalcJ, Cmp!ReadSj, Cmp!ReadSum, Cmp!IncrK, Cmp!Finish, Cmp!Goto

-----------------------------------------------------------------------------
\* The S box.

\* init.sv fills the S box in order.
LEMMA IniFills ==
  ASSUME CoreTypeOK, InStep, Filled,
         NEW STATE decrypt_start, decrypt_start \in BOOLEAN, NEW STATE reset, reset \in BOOLEAN, NEW STATE k,
         CoreClock(decrypt_start, reset, k), CoreTypeOK'
  PROVE  Filled'
  <1>1. Ini!Clock(Dec!init_start, Dec!init_reset(reset))
    BY DEF CoreClock
  <1>2. Dec!Clock(decrypt_start, reset, Ini!complete, Shf!complete, Cmp!complete)
    BY DEF CoreClock
  <1>3. ini_i \in 0 .. N - 1 /\ N \in Nat \ {0}
    BY NAssumption DEF CoreTypeOK, Ini!TypeOK
  <1>4. CASE ini_state = "initialize"
    <2>1. s_mem' = [s_mem EXCEPT ![ini_i] = ini_i]
      BY <1>4, SMemStep DEF Ini!wren
    <2>2. \A x \in Byte : x < ini_i + 1 => s_mem'[x] = x
      <3>1. ini_i \in Byte /\ s_mem \in [Byte -> Byte]
        BY <1>3 DEF Byte, CoreTypeOK
      <3>2. \A x \in Byte : x < ini_i + 1 => x = ini_i \/ x < ini_i
        BY <1>3 DEF Byte
      <3>3. QED
        BY <2>1, <3>1, <3>2, <1>4 DEF Filled
    <2>3. ini_state' = "initialize" => ini_i' = ini_i + 1
      BY <1>1, <1>3, <1>4 DEF Ini!Clock, Ini!Idle, Ini!Initialize, Ini!Finish, Ini!Goto
    <2>4. dec_state' = "init_end" /\ ini_state' = "finish" => ini_i = N - 1
      BY <1>1, <1>2, <1>3, <1>4
      DEF Ini!Clock, Ini!Idle, Ini!Initialize, Ini!Finish, Ini!Goto, Dec!Clock, Dec!Pass,
          Dec!Goto, Dec!init_start, Dec!init_reset
    <2>5. ini_i = N - 1 => s_mem' = Identity
      BY <2>2, <1>3 DEF Identity, Byte, CoreTypeOK
    <2>6. QED
      BY <2>2, <2>3, <2>4, <2>5, <1>3 DEF Filled
  <1>5. CASE ini_state # "initialize"
    <2>1. ini_state' = "initialize" => ini_i' = 0
      BY <1>1, <1>5 DEF InStep, IniAtRest, Ini!Clock, Ini!Idle, Ini!Initialize, Ini!Finish, Ini!Goto,
         Dec!init_start
    <2>2. ~(dec_state' = "init_end" /\ ini_state' = "finish")
      BY <1>1, <1>2, <1>5
      DEF InStep, IniAtRest, Ini!Clock, Ini!Idle, Ini!Initialize, Ini!Finish, Ini!Goto, Dec!Clock, Dec!Pass,
          Dec!Goto, Dec!init_start, Dec!init_reset
    <2>3. \A x \in Byte : ~(x < 0)
      BY NAssumption DEF Byte
    <2>4. QED
      BY <2>1, <2>2, <2>3 DEF Filled
  <1>6. QED
    BY <1>4, <1>5

\* The S box stays a permutation, up to the exchange under way.
LEMMA PermutationStep ==
  ASSUME CoreTypeOK, InStep, ReadsAreFresh, HeldWords, Filled, SBoxIsPermutation,
         NEW STATE decrypt_start, decrypt_start \in BOOLEAN, NEW STATE reset, reset \in BOOLEAN, NEW STATE k,
         CoreClock(decrypt_start, reset, k)
  PROVE  SBoxIsPermutation'
  <1> SUFFICES ASSUME dec_state' \notin {"idle", "init_begin", "init_end"}
               PROVE  Settled' \in Permutations
    BY DEF SBoxIsPermutation
  <1>1. Dec!Clock(decrypt_start, reset, Ini!complete, Shf!complete, Cmp!complete)
    BY DEF CoreClock
  <1>2. Shf!Clock(k, Dec!shuffle_start, Dec!shuffle_reset(reset), s_q)
    BY DEF CoreClock
  <1>3. Cmp!Clock(Dec!compute_start, Dec!compute_reset(reset), s_q)
    BY DEF CoreClock
  <1>4. /\ shf_state' = "swap_j" <=> shf_state = "swap_i" /\ ~Dec!shuffle_reset(reset)
        /\ shf_state = "swap_i" => shf_i' = shf_i /\ shf_j' = shf_j /\ shf_q_si' = shf_q_si
    BY <1>2 DEF Shf!Clock, Shf!Pass, Shf!ReadI, Shf!CalcJ, Shf!ReadJ, Shf!IncrI, Shf!Finish, Shf!Goto
  <1>5. /\ cmp_state' = "swap_sj" <=> cmp_state = "swap_si" /\ ~Dec!compute_reset(reset)
        /\ cmp_state = "swap_si" => cmp_i' = cmp_i /\ cmp_j' = cmp_j /\ cmp_q_sj' = cmp_q_sj
    BY <1>3 DEF Cmp!Clock, Cmp!Pass, Cmp!IncrI, Cmp!ReadSi, Cmp!CalcJ, Cmp!ReadSj, Cmp!ReadSum,
                Cmp!IncrK, Cmp!Finish, Cmp!Goto
  <1>6. ~reset
    BY <1>1 DEF Dec!Clock, Dec!Pass, Dec!Goto
  <1>7. CASE dec_state = "init_end"
    <2>1. ini_state = "finish"
      BY <1>1, <1>7 DEF Dec!Clock, Dec!Pass, Dec!Goto, Ini!complete
    <2>2. s_mem = Identity
      BY <2>1, <1>7 DEF Filled
    <2>3. shf_state = "idle" /\ cmp_state = "idle"
      BY <1>7 DEF InStep, ShfAtRest, CmpAtRest
    <2>4. s_mem' = s_mem
      BY <2>1, <2>3, SMemStep DEF Ini!wren, Shf!wren, Cmp!wren
    <2>5. QED
      BY <2>2, <2>3, <2>4, <1>4, <1>5, IdentityPermutation DEF Settled
  <1>8. CASE dec_state \notin {"idle", "init_begin", "init_end"}
    <2>1. Settled \in Permutations
      BY <1>8 DEF SBoxIsPermutation
    <2>3. ~Ini!wren
      BY <1>8 DEF InStep, IniAtRest, Ini!wren
    <2>4. (shf_state = "idle" \/ dec_state = "shuffle_end") /\ (cmp_state = "idle" \/ dec_state = "compute_end")
      BY <1>8 DEF InStep, ShfAtRest, CmpAtRest
    <2>5. shf_i \in Byte /\ shf_j \in Byte /\ cmp_i \in Byte /\ cmp_j \in Byte /\ s_mem \in [Byte -> Byte]
      BY DEF CoreTypeOK, Shf!TypeOK, Cmp!TypeOK, Shf!Byte, Cmp!Byte, Byte
    <2>6. CASE shf_state = "swap_i"
      <3>1. s_mem' = [s_mem EXCEPT ![shf_i] = shf_q_sj]
        BY <2>6, SMemStep DEF Shf!wren, Shf!address, Shf!data
      <3>2. Settled' = Exchange(s_mem, shf_i, shf_j)
        BY <3>1, <2>6, <1>4, <1>6, <2>5, TwoWrites DEF Settled, HeldWords, Dec!shuffle_reset
      <3>3. Settled = s_mem
        BY <2>4, <2>6 DEF Settled
      <3>4. QED
        BY <3>2, <3>3, <2>1, <2>5, ExchangePermutation
    <2>7. CASE shf_state = "swap_j"
      <3>1. s_mem' = Settled
        BY <2>7, SMemStep DEF Shf!wren, Shf!address, Shf!data, Settled
      <3>2. Settled' = s_mem'
        BY <2>4, <2>7, <1>4, <1>5 DEF Settled
      <3>3. QED
        BY <3>1, <3>2, <2>1
    <2>8. CASE cmp_state = "swap_si"
      <3>1. s_mem' = [s_mem EXCEPT ![cmp_j] = cmp_q_si]
        BY <2>8, SMemStep DEF Cmp!wren, Cmp!address, Cmp!data
      <3>2. shf_state # "swap_i" /\ shf_state # "swap_j"
        BY <2>4, <2>8
      <3>3. Settled' = Exchange(s_mem, cmp_i, cmp_j)
        BY <3>1, <3>2, <2>8, <1>4, <1>5, <1>6, <2>5, TwoWrites DEF Settled, HeldWords, Dec!compute_reset
      <3>4. Settled = s_mem
        BY <3>2, <2>8 DEF Settled
      <3>5. QED
        BY <3>3, <3>4, <2>1, <2>5, ExchangePermutation
    <2>9. CASE cmp_state = "swap_sj"
      <3>1. shf_state # "swap_i" /\ shf_state # "swap_j"
        BY <2>4, <2>9
      <3>2. s_mem' = Settled
        BY <3>1, <2>9, SMemStep DEF Cmp!wren, Cmp!address, Cmp!data, Settled
      <3>3. Settled' = s_mem'
        BY <3>1, <2>9, <1>4, <1>5 DEF Settled
      <3>4. QED
        BY <3>2, <3>3, <2>1
    <2>10. CASE ~Shf!wren /\ ~Cmp!wren
      <3>1. s_mem' = s_mem
        BY <2>3, <2>10, SMemStep
      <3>2. Settled = s_mem /\ Settled' = s_mem'
        BY <2>10, <1>4, <1>5 DEF Settled, Shf!wren, Cmp!wren
      <3>3. QED
        BY <3>1, <3>2, <2>1
    <2>11. QED
      BY <2>6, <2>7, <2>8, <2>9, <2>10 DEF Shf!wren, Cmp!wren
  <1>9. QED
    BY <1>1, <1>7, <1>8 DEF Dec!Clock, Dec!Pass, Dec!Goto

LEMMA CoreInvInit == CoreInit => CoreInv
  BY CoreTypeInit, InStepInit
  DEF CoreInit, CoreInv, Dec!Init, Ini!Init, Shf!Init, Cmp!Init,
      ReadsAreFresh, HeldWords, Filled, SBoxIsPermutation

LEMMA CoreInvClock ==
  ASSUME CoreInv, NEW STATE decrypt_start, decrypt_start \in BOOLEAN, NEW STATE reset, reset \in BOOLEAN,
         NEW STATE k, k \in Key, CoreClock(decrypt_start, reset, k)
  PROVE  CoreInv'
  <1>1. CoreTypeOK'
    BY CoreTypeStep DEF CoreInv
  <1>2. InStep'
    BY IniInStep, ShfInStep, CmpInStep DEF CoreInv, InStep
  <1>3. ReadsAreFresh' /\ HeldWords'
    BY ShfWords, CmpWords DEF CoreInv, ReadsAreFresh, HeldWords
  <1>4. Filled'
    BY <1>1, IniFills DEF CoreInv
  <1>5. SBoxIsPermutation'
    BY PermutationStep DEF CoreInv
  <1>6. QED
    BY <1>1, <1>2, <1>3, <1>4, <1>5 DEF CoreInv

LEMMA CoreInvStutter == CoreInv /\ UNCHANGED coreVars => CoreInv'
  <1> SUFFICES ASSUME CoreInv, UNCHANGED coreVars PROVE CoreInv'
    OBVIOUS
  <1> USE DEF CoreInv, coreVars, iniVars, shfVars, cmpVars, memVars
  <1>1. CoreTypeOK'
    BY CoreTypeStutter
  <1>2. InStep'
    BY InStepStep
  <1>3. ReadsAreFresh' /\ HeldWords' /\ Filled'
    BY DEF ReadsAreFresh, HeldWords, Filled
  <1>4. SBoxIsPermutation'
    BY DEF SBoxIsPermutation, Settled
  <1>5. QED
    BY <1>1, <1>2, <1>3, <1>4

(***************************************************************************)
(* The inductive invariant of the engine holds whatever its inputs do.     *)
(***************************************************************************)
THEOREM CoreInvariant == CoreSpec => []CoreInv
  <1>1. CoreInv /\ [CoreNext]_coreVars => CoreInv'
    BY CoreInvClock, CoreInvStutter DEF CoreNext
  <1>2. QED
    BY CoreInvInit, <1>1, PTL DEF CoreSpec

(***************************************************************************)
(* Every word is sampled when the late output bus of a memory shows it.    *)
(***************************************************************************)
THEOREM FreshReads == CoreSpec => []ReadsAreFresh
  <1>1. CoreInv => ReadsAreFresh
    BY DEF CoreInv
  <1>2. QED
    BY <1>1, CoreInvariant, PTL

(***************************************************************************)
(* The S box is a permutation from the end of init on, except between the  *)
(* two writes of one exchange.                                             *)
(***************************************************************************)
THEOREM SBoxPermutation == CoreSpec => []SBoxIsPermutation
  <1>1. CoreInv => SBoxIsPermutation
    BY DEF CoreInv
  <1>2. QED
    BY <1>1, CoreInvariant, PTL

-----------------------------------------------------------------------------
(***************************************************************************)
(* 4. The cracker.                                                         *)
(***************************************************************************)

\* Handshakes.

\* The inputs that brute_force.sv gives the engine are ones CoreNext allows.
LEMMA EngineInputs ==
  ASSUME TypeOK, Clk
  PROVE  /\ BF!start_decrypt \in BOOLEAN /\ BF!reset_decrypt \in BOOLEAN /\ key \in Key
         /\ CoreClock(BF!start_decrypt, BF!reset_decrypt, key)
  BY DEF Clk, TypeOK, BF!TypeOK, Key, BF!start_decrypt, BF!reset_decrypt

LEMMA CoreInvKept == ASSUME TypeOK, CoreInv, Clk PROVE CoreInv'
  BY EngineInputs, CoreInvClock

LEMMA TypeInit == Init => TypeOK
  BY CoreTypeInit, NAssumption DEF Init, TypeOK, BF!Init, BF!TypeOK, BF!States, Key

LEMMA TypeStep == ASSUME TypeOK, Clk PROVE TypeOK'
  <1>1. CoreTypeOK'
    BY EngineInputs, CoreTypeStep DEF TypeOK
  <1>2. BF!TypeOK'
    <2>1. BF!Clock(TRUE, data_decrypt_out, wren_decrypt_out, compute_complete)
      BY DEF Clk
    <2>2. (key + 1) % (N * N * N) \in 0 .. N * N * N - 1
      <3>1. N * N * N \in Nat \ {0} /\ key + 1 \in Int
        BY NAssumption DEF TypeOK, BF!TypeOK
      <3>2. QED
        BY <3>1
    <2>3. QED
      BY <2>1, <2>2
      DEF TypeOK, BF!TypeOK, BF!States, BF!Clock, BF!Goto, BF!Idle, BF!BeginDecrypt,
          BF!WaitCompute, BF!VerifyVal, BF!DecryptReset, BF!CheckKey, BF!IncrKey, BF!Stop
  <1>3. regd_actual_7seg_output' \in Key
    BY DEF Clk, TypeOK, BF!TypeOK, Key
  <1>4. QED
    BY <1>1, <1>2, <1>3 DEF TypeOK

LEMMA HandshakeInit == Init => Handshake
  BY DEF Init, CoreInit, Handshake, BF!Init, Dec!Init, Ini!Init, Shf!Init, Cmp!Init,
         IniAtRest, ShfAtRest, CmpAtRest

\* What decrypt.sv does next, in each state of brute_force.sv.
LEMMA DecEdge ==
  ASSUME Clk
  PROVE  /\ dec_state = "idle" /\ bf_state # "begin_decrypt" => dec_state' = "idle"
         /\ bf_state = "decrypt_reset" => dec_state' = "idle"
         /\ dec_state = "idle" /\ bf_state = "begin_decrypt" => dec_state' = "init_begin"
         /\ dec_state \notin {"idle", "finish"} /\ bf_state # "decrypt_reset" =>
              dec_state' # "idle"
         /\ dec_state' = "finish" /\ bf_state \notin {"decrypt_reset"} =>
              dec_state = "finish" \/ (dec_state = "compute_end" /\ cmp_state = "finish")
         /\ dec_state = "compute_end" /\ bf_state # "decrypt_reset" =>
              dec_state' = IF cmp_state = "finish" THEN "finish" ELSE "compute_end"
         /\ dec_state = "finish" /\ bf_state # "decrypt_reset" => dec_state' = "finish"
  BY DEF Clk, CoreClock, Dec!Clock, Dec!Pass, Dec!Goto, Cmp!complete,
         BF!start_decrypt, BF!reset_decrypt

\* What compute.sv does next, as far as brute_force.sv is concerned.
LEMMA CmpEdge ==
  ASSUME Clk, dec_state = "compute_end"
  PROVE  /\ cmp_state' = "check_k" <=> cmp_state = "write_decrypt" /\ bf_state # "decrypt_reset"
         /\ cmp_state = "check_k" => cmp_state' \in {"incr_k", "finish"}
         /\ bf_state = "decrypt_reset" => cmp_state' = "finish"
  BY DEF Clk, CoreClock, Cmp!Clock, Cmp!Pass, Cmp!Goto, Cmp!IncrI, Cmp!ReadSi, Cmp!CalcJ, Cmp!ReadSj,
         Cmp!ReadSum, Cmp!IncrK, Cmp!Finish, Dec!compute_reset, Dec!compute_start, BF!reset_decrypt

\* A worker at rest without a start line, or done, is at rest next.
LEMMA RestEdge ==
  ASSUME Clk
  PROVE  /\ dec_state \notin {"init_begin", "init_end"} =>
              (IniAtRest \/ ini_state = "finish" => IniAtRest')
         /\ dec_state \notin {"shuffle_begin", "shuffle_end"} =>
              (ShfAtRest \/ shf_state = "finish" => ShfAtRest')
         /\ dec_state \notin {"compute_begin", "compute_end"} =>
              (CmpAtRest \/ cmp_state = "finish" => CmpAtRest')
  <1>1. dec_state \notin {"init_begin", "init_end"} =>
              (IniAtRest \/ ini_state = "finish" => IniAtRest')
    BY DEF Clk, CoreClock, IniAtRest, Ini!Clock, Ini!Idle, Ini!Initialize, Ini!Finish, Ini!Goto,
           Dec!init_start, Dec!init_reset
  <1>2. dec_state \notin {"shuffle_begin", "shuffle_end"} =>
              (ShfAtRest \/ shf_state = "finish" => ShfAtRest')
    BY DEF Clk, CoreClock, ShfAtRest, Shf!Clock, Shf!Pass, Shf!ReadI, Shf!CalcJ, Shf!ReadJ, Shf!IncrI,
           Shf!Finish, Shf!Goto, Dec!shuffle_start, Dec!shuffle_reset
  <1>3. dec_state \notin {"compute_begin", "compute_end"} =>
              (CmpAtRest \/ cmp_state = "finish" => CmpAtRest')
    BY DEF Clk, CoreClock, CmpAtRest, Cmp!Clock, Cmp!Pass, Cmp!Goto, Cmp!IncrI, Cmp!ReadSi, Cmp!CalcJ,
           Cmp!ReadSj, Cmp!ReadSum, Cmp!IncrK, Cmp!Finish, Dec!compute_start, Dec!compute_reset
  <1>4. QED
    BY <1>1, <1>2, <1>3

\* What brute_force.sv does next, and what it does to the key.
LEMMA BfEdge ==
  ASSUME Clk
  PROVE  /\ bf_state = "idle" => bf_state' = "begin_decrypt"
         /\ bf_state = "begin_decrypt" => bf_state' = "wait_compute"
         /\ bf_state = "wait_compute" =>
              bf_state' = IF cmp_state = "finish" THEN "success"
                          ELSE IF cmp_state = "write_decrypt" THEN "verify_val"
                          ELSE "wait_compute"
         /\ bf_state = "verify_val" =>
              bf_state' = IF data_decrypt_out \notin Plain THEN "decrypt_reset"
                          ELSE IF cmp_state = "finish" THEN "success"
                          ELSE "wait_compute"
         /\ bf_state = "decrypt_reset" => bf_state' = "check_key"
         /\ bf_state = "check_key" =>
              bf_state' = IF key = N * N * N - 1 THEN "failure" ELSE "incr_key"
         /\ bf_state = "incr_key" =>
              bf_state' = "begin_decrypt" /\ key' = (key + 1) % (N * N * N)
         /\ bf_state \in {"failure", "success"} => bf_state' = bf_state
         /\ bf_state # "incr_key" => key' = key
  BY DEF Clk, BF!Clock, BF!Goto, BF!Idle, BF!BeginDecrypt, BF!WaitCompute, BF!VerifyVal,
         BF!DecryptReset, BF!CheckKey, BF!IncrKey, BF!Stop, wren_decrypt_out, compute_complete,
         Cmp!wren_decrypt, Cmp!complete

LEMMA HandshakeStep ==
  ASSUME TypeOK, InStep, Handshake, Clk
  PROVE  Handshake'
  <1>1. CASE bf_state \in {"idle", "incr_key", "failure"}
    BY <1>1, DecEdge, RestEdge, BfEdge DEF Handshake
  <1>2. CASE bf_state = "begin_decrypt"
    BY <1>2, DecEdge, RestEdge, BfEdge DEF Handshake, CmpAtRest
  <1>3. CASE bf_state = "wait_compute"
    <2>1. cmp_state \notin {"idle", "finish"} => dec_state = "compute_end"
      BY DEF InStep, CmpAtRest
    <2>2. dec_state' \notin {"idle", "finish"} \/ cmp_state = "finish"
      BY <1>3, DecEdge DEF Handshake
    <2>3. cmp_state = "finish" => dec_state = "compute_end"
      BY <1>3 DEF InStep, CmpAtRest, Handshake
    <2>4. cmp_state' = "check_k" => cmp_state = "write_decrypt"
      BY <1>3 DEF Clk, CoreClock, Cmp!Clock, Cmp!Pass, Cmp!Goto, Cmp!IncrI, Cmp!ReadSi, Cmp!CalcJ,
         Cmp!ReadSj, Cmp!ReadSum, Cmp!IncrK, Cmp!Finish
    <2>5. cmp_state = "write_decrypt" => dec_state' = "compute_end" /\ cmp_state' = "check_k"
      BY <1>3, <2>1, DecEdge, CmpEdge
    <2>6. cmp_state = "finish" => dec_state' = "finish"
      BY <1>3, <2>3, DecEdge
    <2>7. QED
      BY <1>3, <2>2, <2>4, <2>5, <2>6, BfEdge DEF Handshake
  <1>4. CASE bf_state = "verify_val"
    <2>1. dec_state' = "compute_end" /\ cmp_state' \in {"incr_k", "finish"}
      BY <1>4, DecEdge, CmpEdge DEF Handshake
    <2>2. bf_state' \in {"decrypt_reset", "wait_compute"}
      BY <1>4, BfEdge DEF Handshake
    <2>3. QED
      BY <2>1, <2>2 DEF Handshake
  <1>5. CASE bf_state = "decrypt_reset"
    <2>1. dec_state = "compute_end"
      BY <1>5 DEF Handshake
    <2>2. IniAtRest /\ ShfAtRest
      BY <2>1 DEF InStep
    <2>3. QED
      BY <1>5, <2>1, <2>2, DecEdge, CmpEdge, RestEdge, BfEdge DEF Handshake
  <1>6. CASE bf_state = "check_key"
    <2>1. key # N * N * N - 1 => key + 1 \in Key
      <3>1. N * N * N \in Int
        BY NAssumption
      <3>2. QED
        BY <3>1 DEF TypeOK, BF!TypeOK, Key
    <2>2. QED
      BY <1>6, <2>1, DecEdge, RestEdge, BfEdge DEF Handshake
  <1>7. CASE bf_state = "success"
    BY <1>7, DecEdge, BfEdge DEF Handshake
  <1>8. QED
    BY <1>1, <1>2, <1>3, <1>4, <1>5, <1>6, <1>7 DEF TypeOK, BF!TypeOK, BF!States

(***************************************************************************)
(* The part of the inductive invariant that does not mention the cipher.   *)
(***************************************************************************)
ControlInv == TypeOK /\ CoreInv /\ Handshake

LEMMA ControlInit == Init => ControlInv
  BY TypeInit, CoreInvInit, HandshakeInit DEF ControlInv, Init

LEMMA ControlStep == ControlInv /\ [Clk]_vars => ControlInv'
  <1>1. ControlInv /\ Clk => ControlInv'
    BY TypeStep, CoreInvKept, HandshakeStep DEF ControlInv, CoreInv
  <1>2. ControlInv /\ UNCHANGED vars => ControlInv'
    <2> SUFFICES ASSUME ControlInv, UNCHANGED vars PROVE ControlInv'
      OBVIOUS
    <2>1. CoreInv'
      BY CoreInvStutter DEF ControlInv, vars
    <2>2. TypeOK'
      BY <2>1 DEF ControlInv, vars, bfVars, TypeOK, BF!TypeOK, CoreInv
    <2>3. Handshake'
      BY DEF ControlInv, Handshake, vars, bfVars, coreVars, iniVars, shfVars, cmpVars,
             IniAtRest, ShfAtRest, CmpAtRest
    <2>4. QED
      BY <2>1, <2>2, <2>3 DEF ControlInv
  <1>3. QED
    BY <1>1, <1>2

THEOREM ControlCorrect == Spec => []ControlInv
  BY ControlInit, ControlStep, PTL DEF Spec

(***************************************************************************)
(* Every register of the cracker stays within its width.                   *)
(***************************************************************************)
THEOREM TypeCorrect == Spec => []TypeOK
  <1>1. ControlInv => TypeOK
    BY DEF ControlInv
  <1>2. QED
    BY <1>1, ControlCorrect, PTL

(***************************************************************************)
(* The start pulse of brute_force.sv is never missed by the engine.        *)
(***************************************************************************)
THEOREM StartNeverMissed == Spec => []StartIsTaken
  <1>1. ControlInv => StartIsTaken
    BY DEF ControlInv, Handshake, StartIsTaken, BF!start_decrypt
  <1>2. QED
    BY <1>1, ControlCorrect, PTL

(***************************************************************************)
(* The write enable of compute.sv is never missed by brute_force.sv.       *)
(***************************************************************************)
THEOREM WriteNeverMissed == Spec => []EveryByteVerified
  <1>1. ControlInv => EveryByteVerified
    BY DEF ControlInv, CoreInv, InStep, Handshake, EveryByteVerified, CmpAtRest,
           wren_decrypt_out, Cmp!wren_decrypt, TypeOK, BF!TypeOK, BF!States
  <1>2. QED
    BY <1>1, ControlCorrect, PTL

-----------------------------------------------------------------------------
\* shuffle.sv follows the key schedule.

\* While a worker is busy brute_force.sv waits and the key stands still.
LEMMA BusyWaits ==
  ASSUME ControlInv
  PROVE  /\ dec_state \in {"init_begin", "init_end", "shuffle_begin", "shuffle_end", "compute_begin"} =>
              bf_state = "wait_compute"
         /\ shf_state \notin {"idle", "finish"} => dec_state = "shuffle_end"
         /\ cmp_state \notin {"idle", "finish"} => dec_state = "compute_end"
         /\ dec_state \in {"shuffle_begin", "compute_begin"} => ShfAtRest /\ CmpAtRest
         /\ dec_state = "shuffle_end" => CmpAtRest
         /\ dec_state = "compute_end" => ShfAtRest
  BY DEF ControlInv, TypeOK, BF!TypeOK, BF!States, CoreInv, InStep, Handshake, ShfAtRest, CmpAtRest

\* What the engine does while shuffle.sv runs.
LEMMA ShfEdge ==
  ASSUME ControlInv, Clk, dec_state \in {"shuffle_begin", "shuffle_end"}
  PROVE  /\ Shf!Clock(key, TRUE, FALSE, s_q)
         /\ key' = key
         /\ dec_state' = IF dec_state = "shuffle_end" /\ shf_state = "finish"
                         THEN "compute_begin" ELSE "shuffle_end"
  <1>1. bf_state = "wait_compute"
    BY BusyWaits
  <1>2. key' = key
    BY <1>1, BfEdge
  <1>3. Dec!shuffle_start = TRUE /\ Dec!shuffle_reset(BF!reset_decrypt) = FALSE
    BY <1>1 DEF Dec!shuffle_start, Dec!shuffle_reset, BF!reset_decrypt
  <1>4. Shf!Clock(key, TRUE, FALSE, s_q)
    BY <1>3 DEF Clk, CoreClock
  <1>5. dec_state' = IF dec_state = "shuffle_end" /\ shf_state = "finish"
                     THEN "compute_begin" ELSE "shuffle_end"
    BY <1>1 DEF Clk, CoreClock, Dec!Clock, Dec!Pass, Dec!Goto, Shf!complete, BF!reset_decrypt
  <1>6. QED
    BY <1>2, <1>4, <1>5

\* The S memory and the next state of shuffle.sv in each of its states.
LEMMA ShfNext ==
  ASSUME ControlInv, Clk, dec_state = "shuffle_end"
  PROVE  /\ shf_state \in {"addr_i", "read_i", "calc_j", "addr_j", "read_j", "check_i", "incr_i", "finish"} =>
              s_mem' = s_mem
         /\ shf_state = "swap_i" => s_mem' = [s_mem EXCEPT ![shf_i] = shf_q_sj]
         /\ shf_state = "swap_j" => s_mem' = Settled
         /\ shf_state = "addr_i" => shf_state' = "read_i"
         /\ shf_state = "read_i" => shf_state' = "calc_j"
         /\ shf_state = "calc_j" => shf_state' = "addr_j"
         /\ shf_state = "addr_j" => shf_state' = "read_j"
         /\ shf_state = "read_j" => shf_state' = "swap_i"
         /\ shf_state = "swap_i" => shf_state' = "swap_j"
         /\ shf_state = "swap_j" => shf_state' = "check_i"
         /\ shf_state = "check_i" => shf_state' = IF shf_i = N - 1 THEN "finish" ELSE "incr_i"
         /\ shf_state = "incr_i" => shf_state' = "addr_i"
         /\ shf_state = "finish" => shf_state' = "idle"
         /\ shf_state \notin {"incr_i", "finish"} => shf_i' = shf_i
         /\ shf_state \notin {"calc_j", "finish"} => shf_j' = shf_j
         /\ shf_state = "swap_i" => shf_q_si' = shf_q_si
         /\ shf_state = "incr_i" => shf_i' = (shf_i + 1) % N
         /\ shf_state = "calc_j" => shf_j' = (shf_j + shf_q_si + Shf!key_val(key)) % N
  <1>1. Shf!Clock(key, TRUE, FALSE, s_q)
    BY ShfEdge
  <1>2. ~Ini!wren /\ ~Cmp!wren
    BY DEF ControlInv, CoreInv, InStep, IniAtRest, CmpAtRest, Ini!wren, Cmp!wren
  <1>3. /\ Shf!wren => s_mem' = [s_mem EXCEPT ![Shf!address] = Shf!data]
        /\ ~Shf!wren => s_mem' = s_mem
    BY <1>2, SMemStep, EngineInputs DEF ControlInv, CoreInv
  <1>4. /\ shf_state \in {"addr_i", "read_i", "calc_j", "addr_j", "read_j", "check_i", "incr_i", "finish"} =>
              s_mem' = s_mem
        /\ shf_state = "swap_i" => s_mem' = [s_mem EXCEPT ![shf_i] = shf_q_sj]
        /\ shf_state = "swap_j" => s_mem' = Settled
    BY <1>3 DEF Shf!wren, Shf!address, Shf!data, Settled
  <1>5. QED
    BY <1>1, <1>4 DEF Shf!Clock, Shf!Pass, Shf!Goto, Shf!ReadI, Shf!CalcJ, Shf!ReadJ, Shf!IncrI, Shf!Finish

\* The key byte that shuffle.sv selects is the one that RC4 uses.
LEMMA KeyValIsKeyByte == ASSUME key \in Key, shf_i \in Byte PROVE Shf!key_val(key) = KeyByte(key, shf_i)
  <1>1. shf_i \in Int
    BY ByteInt
  <1>2. shf_i % 3 = 0 \/ shf_i % 3 = 1 \/ shf_i % 3 = 2
    BY <1>1
  <1>3. CASE shf_i % 3 = 0
    <2>1. KeyByte(key, shf_i) = (key \div (N * N)) % N
      BY <1>3 DEF KeyByte
    <2>2. shf_i % 3 # 1
      BY <1>3
    <2>3. QED
      BY <1>3, <2>1, <2>2, Zenon DEF Shf!key_val
  <1>4. CASE shf_i % 3 = 1
    <2>1. KeyByte(key, shf_i) = (key \div N) % N
      BY <1>4 DEF KeyByte
    <2>2. shf_i % 3 # 0
      BY <1>4
    <2>3. QED
      BY <1>4, <2>1, <2>2, Zenon DEF Shf!key_val
  <1>5. CASE shf_i % 3 = 2
    <2>1. KeyByte(key, shf_i) = key % N
      BY <1>5 DEF KeyByte
    <2>2. shf_i % 3 # 0 /\ shf_i % 3 # 1
      BY <1>5
    <2>3. QED
      BY <2>1, <2>2, Zenon DEF Shf!key_val
  <1>6. QED
    BY <1>2, <1>3, <1>4, <1>5

\* Without an exchange under way the S box is the memory.
LEMMA SettledMemory ==
  ASSUME shf_state # "swap_j", cmp_state # "swap_sj" PROVE Settled = s_mem
  BY DEF Settled

\* What shuffle.sv holds in terms of the schedule A of the current key.
LEMMA ScheduleStepKept ==
  ASSUME ControlInv, FollowsSchedule, Clk
  PROVE  FollowsSchedule'
  <1> DEFINE A == KeySchedule(key)
  <1>1. /\ shf_i \in Byte /\ shf_j \in Byte /\ key \in Key /\ s_mem \in [Byte -> Byte]
        /\ shf_q_si \in Byte /\ shf_i \in Int
    BY ByteInt
    DEF ControlInv, CoreInv, CoreTypeOK, Shf!TypeOK, Shf!Byte, Byte, TypeOK, BF!TypeOK, Key
  <1>2. A[0].s = Identity /\ A[0].j = 0
    BY <1>1, ScheduleUnfold DEF FirstBox
  <1>3. CASE dec_state \notin {"init_end", "shuffle_begin", "shuffle_end"}
    <2>1. dec_state' \notin {"shuffle_begin", "shuffle_end", "compute_begin"}
      BY <1>3 DEF Clk, CoreClock, Dec!Clock, Dec!Pass, Dec!Goto
    <2>2. shf_state' = "idle"
      BY <1>3, RestEdge DEF ControlInv, CoreInv, InStep, ShfAtRest
    <2>3. QED
      BY <2>1, <2>2 DEF FollowsSchedule
  <1>4. CASE dec_state = "init_end"
    <2>1. shf_state' = "idle"
      BY <1>4, RestEdge DEF ControlInv, CoreInv, InStep, ShfAtRest
    <2>2. dec_state' \notin {"shuffle_end", "compute_begin"}
      BY <1>4 DEF Clk, CoreClock, Dec!Clock, Dec!Pass, Dec!Goto
    <2>3. ASSUME dec_state' = "shuffle_begin" PROVE s_mem' = Identity
      <3>1. ini_state = "finish"
        BY <2>3, <1>4 DEF Clk, CoreClock, Dec!Clock, Dec!Pass, Dec!Goto, Ini!complete
      <3>2. s_mem = Identity
        BY <3>1, <1>4 DEF ControlInv, CoreInv, Filled
      <3>3. ~Ini!wren /\ ~Shf!wren /\ ~Cmp!wren
        BY <3>1, <1>4
        DEF ControlInv, CoreInv, InStep, ShfAtRest, CmpAtRest, Ini!wren, Shf!wren, Cmp!wren
      <3>4. QED
        BY <3>2, <3>3, SMemStep, EngineInputs DEF ControlInv, CoreInv
    <2>4. QED
      BY <2>1, <2>2, <2>3 DEF FollowsSchedule
  <1>5. CASE dec_state = "shuffle_begin"
    <2>1. dec_state' = "shuffle_end" /\ key' = key
      BY <1>5, ShfEdge
    <2>2. ShfAtRest /\ CmpAtRest
      BY <1>5, BusyWaits
    <2>3. shf_state' = "addr_i" /\ shf_i' = 0 /\ shf_j' = 0
      BY <1>5, <2>2, ShfEdge
      DEF ShfAtRest, Shf!Clock, Shf!Pass, Shf!Goto, Shf!ReadI, Shf!CalcJ, Shf!ReadJ, Shf!IncrI, Shf!Finish
    <2>4. s_mem' = Identity
      <3>1. ~Ini!wren /\ ~Shf!wren /\ ~Cmp!wren
        BY <2>2, <1>5 DEF ControlInv, CoreInv, InStep, IniAtRest, ShfAtRest, CmpAtRest,
           Ini!wren, Shf!wren, Cmp!wren
      <3>2. s_mem' = s_mem
        BY <3>1, SMemStep, EngineInputs DEF ControlInv, CoreInv
      <3>3. QED
        BY <3>2, <1>5 DEF FollowsSchedule
    <2>5. QED
      BY <2>1, <2>3, <2>4, <1>2 DEF FollowsSchedule
  <1>6. CASE dec_state = "shuffle_end"
    <2>1. key' = key /\ dec_state' = IF shf_state = "finish" THEN "compute_begin" ELSE "shuffle_end"
      BY <1>6, ShfEdge
    <2>2. shf_i \in 0 .. N - 1
      BY <1>1 DEF Byte
    <2>3. /\ A[shf_i] \in Box /\ A[shf_i + 1] \in Box
          /\ A[shf_i + 1].j = (A[shf_i].j + A[shf_i].s[shf_i] + KeyByte(key, shf_i)) % N
          /\ A[shf_i + 1].s = Exchange(A[shf_i].s, shf_i, A[shf_i + 1].j)
      BY <1>1, <2>2, ScheduleRecurrence
    <2> HIDE DEF A
    <2>4. cmp_state # "swap_sj" /\ cmp_state' # "swap_sj"
      <3>1. CmpAtRest
        BY <1>6, BusyWaits
      <3>2. QED
        BY <3>1, <1>6, RestEdge DEF CmpAtRest
    <2>5. CASE shf_state \in {"addr_i", "read_i"}
      <3>1. s_mem = A[shf_i].s /\ shf_j = A[shf_i].j
        BY <2>5 DEF FollowsSchedule, A
      <3>2. /\ shf_state' \in {"read_i", "calc_j"} /\ s_mem' = s_mem
            /\ shf_i' = shf_i /\ shf_j' = shf_j
        BY <1>6, <2>5, ShfNext
      <3>3. QED
        BY <2>1, <2>5, <3>1, <3>2 DEF FollowsSchedule, A
    <2>6. CASE shf_state = "calc_j"
      <3>1. s_mem = A[shf_i].s /\ shf_j = A[shf_i].j
        BY <2>6 DEF FollowsSchedule, A
      <3>2. shf_q_si = s_mem[shf_i]
        BY <2>6 DEF ControlInv, CoreInv, HeldWords
      <3>3. Shf!key_val(key) = KeyByte(key, shf_i)
        BY <1>1, KeyValIsKeyByte
      <3>4. /\ shf_state' = "addr_j" /\ s_mem' = s_mem /\ shf_i' = shf_i
            /\ shf_j' = (shf_j + shf_q_si + Shf!key_val(key)) % N
        BY <1>6, <2>6, ShfNext
      <3>5. shf_j' = A[shf_i + 1].j
        BY <2>3, <3>1, <3>2, <3>3, <3>4
      <3>6. QED
        BY <2>1, <2>6, <3>1, <3>4, <3>5 DEF FollowsSchedule, A
    <2>7. CASE shf_state \in {"addr_j", "read_j"}
      <3>1. s_mem = A[shf_i].s /\ shf_j = A[shf_i + 1].j
        BY <2>7 DEF FollowsSchedule, A
      <3>2. /\ shf_state' \in {"read_j", "swap_i"} /\ s_mem' = s_mem
            /\ shf_i' = shf_i /\ shf_j' = shf_j
        BY <1>6, <2>7, ShfNext
      <3>3. QED
        BY <2>1, <2>7, <3>1, <3>2 DEF FollowsSchedule, A
    <2>8. CASE shf_state = "swap_i"
      <3>1. s_mem = A[shf_i].s /\ shf_j = A[shf_i + 1].j
        BY <2>8 DEF FollowsSchedule, A
      <3>2. shf_q_si = s_mem[shf_i] /\ shf_q_sj = s_mem[shf_j]
        BY <2>8 DEF ControlInv, CoreInv, HeldWords
      <3>3. /\ shf_state' = "swap_j" /\ s_mem' = [s_mem EXCEPT ![shf_i] = shf_q_sj]
            /\ shf_i' = shf_i /\ shf_j' = shf_j /\ shf_q_si' = shf_q_si
        BY <1>6, <2>8, ShfNext
      <3>4. Settled' = Exchange(s_mem, shf_i, shf_j)
        BY <3>2, <3>3, <1>1, TwoWrites DEF Settled
      <3>5. QED
        BY <2>1, <2>3, <2>8, <3>1, <3>3, <3>4 DEF FollowsSchedule, A
    <2>9. CASE shf_state = "swap_j"
      <3>1. Settled = A[shf_i + 1].s /\ shf_j = A[shf_i + 1].j
        BY <2>9 DEF FollowsSchedule, A
      <3>2. /\ shf_state' = "check_i" /\ s_mem' = Settled /\ shf_i' = shf_i /\ shf_j' = shf_j
        BY <1>6, <2>9, ShfNext
      <3>3. Settled' = s_mem'
        BY <3>2, <2>4 DEF Settled
      <3>4. QED
        BY <2>1, <2>9, <3>1, <3>2, <3>3 DEF FollowsSchedule, A
    <2>10. CASE shf_state = "check_i"
      <3>1. Settled = A[shf_i + 1].s /\ shf_j = A[shf_i + 1].j /\ Settled = s_mem
        BY <2>10, <2>4, SettledMemory DEF FollowsSchedule, A
      <3>2. /\ shf_state' = IF shf_i = N - 1 THEN "finish" ELSE "incr_i"
            /\ s_mem' = s_mem /\ shf_i' = shf_i /\ shf_j' = shf_j
        BY <1>6, <2>10, ShfNext
      <3>3. Settled' = s_mem'
        BY <3>2, <2>4 DEF Settled
      <3>4. shf_i = N - 1 => s_mem = A[N].s
        <4>1. shf_i = N - 1 => shf_i + 1 = N
          BY NAssumption
        <4>2. QED
          BY <3>1, <4>1
      <3>5. shf_i # N - 1 => shf_i + 1 \in Byte
        BY <2>2, NAssumption DEF Byte
      <3>6. QED
        BY <2>1, <2>10, <3>1, <3>2, <3>3, <3>4, <3>5 DEF FollowsSchedule, A
    <2>11. CASE shf_state = "incr_i"
      <3>1. Settled = A[shf_i + 1].s /\ shf_j = A[shf_i + 1].j /\ Settled = s_mem
        BY <2>11, <2>4, SettledMemory DEF FollowsSchedule, A
      <3>2. shf_state' = "addr_i" /\ s_mem' = s_mem /\ shf_i' = (shf_i + 1) % N /\ shf_j' = shf_j
        BY <1>6, <2>11, ShfNext
      <3>3. shf_i + 1 \in Byte
        BY <2>11 DEF FollowsSchedule
      <3>4. shf_i' = shf_i + 1
        BY <3>2, <3>3, NAssumption DEF Byte
      <3>5. QED
        BY <2>1, <2>11, <3>1, <3>2, <3>4 DEF FollowsSchedule, A
    <2>12. CASE shf_state = "finish"
      <3>1. s_mem = A[N].s
        BY <1>6, <2>12 DEF FollowsSchedule, A
      <3>2. shf_state' = "idle" /\ s_mem' = s_mem
        BY <1>6, <2>12, ShfNext
      <3>3. QED
        BY <2>1, <2>12, <3>1, <3>2 DEF FollowsSchedule, A
    <2>13. shf_state # "idle"
      BY <1>6 DEF ControlInv, CoreInv, InStep
    <2>14. QED
      BY <2>5, <2>6, <2>7, <2>8, <2>9, <2>10, <2>11, <2>12, <2>13
      DEF ControlInv, CoreInv, CoreTypeOK, Shf!TypeOK, Shf!States
  <1>7. QED
    BY <1>3, <1>4, <1>5, <1>6

-----------------------------------------------------------------------------
\* compute.sv follows the generator.

\* What the engine does while compute.sv runs without a reset.
LEMMA CmpClock ==
  ASSUME ControlInv, Clk, dec_state \in {"compute_begin", "compute_end"}, bf_state # "decrypt_reset"
  PROVE  Cmp!Clock(TRUE, FALSE, s_q) /\ key' = key
  <1>1. bf_state \in {"wait_compute", "verify_val"}
    BY DEF ControlInv, TypeOK, BF!TypeOK, BF!States, Handshake
  <1>2. key' = key
    BY <1>1, BfEdge
  <1>3. Dec!compute_start = TRUE /\ Dec!compute_reset(BF!reset_decrypt) = FALSE
    BY <1>1 DEF Dec!compute_start, Dec!compute_reset, BF!reset_decrypt
  <1>4. Cmp!Clock(TRUE, FALSE, s_q)
    BY <1>3 DEF Clk, CoreClock
  <1>5. QED
    BY <1>2, <1>4

\* The S memory and the next state of compute.sv in each of its states.
LEMMA CmpNext ==
  ASSUME ControlInv, Clk, dec_state \in {"compute_begin", "compute_end"}, bf_state # "decrypt_reset"
  PROVE  /\ cmp_state \notin {"swap_si", "swap_sj"} => s_mem' = s_mem
         /\ cmp_state = "swap_si" => s_mem' = [s_mem EXCEPT ![cmp_j] = cmp_q_si]
         /\ cmp_state = "swap_sj" => s_mem' = Settled
         /\ cmp_state = "idle" => cmp_state' = "incr_i"
         /\ cmp_state = "incr_i" => cmp_state' = "addr_si"
         /\ cmp_state = "addr_si" => cmp_state' = "read_si"
         /\ cmp_state = "read_si" => cmp_state' = "calc_j"
         /\ cmp_state = "calc_j" => cmp_state' = "addr_sj"
         /\ cmp_state = "addr_sj" => cmp_state' = "read_sj"
         /\ cmp_state = "read_sj" => cmp_state' = "swap_si"
         /\ cmp_state = "swap_si" => cmp_state' = "swap_sj"
         /\ cmp_state = "swap_sj" => cmp_state' = "addr_sum"
         /\ cmp_state = "addr_sum" => cmp_state' = "read_sum"
         /\ cmp_state = "read_sum" => cmp_state' = "write_decrypt"
         /\ cmp_state = "write_decrypt" => cmp_state' = "check_k"
         /\ cmp_state = "check_k" => cmp_state' = IF cmp_k = L - 1 THEN "finish" ELSE "incr_k"
         /\ cmp_state = "incr_k" => cmp_state' = "incr_i"
         /\ cmp_state = "finish" => cmp_state' = "idle"
         /\ cmp_state \notin {"incr_i", "finish"} => cmp_i' = cmp_i
         /\ cmp_state \notin {"calc_j", "finish"} => cmp_j' = cmp_j
         /\ cmp_state \notin {"incr_k", "finish"} => cmp_k' = cmp_k
         /\ cmp_state # "read_si" => cmp_q_si' = cmp_q_si
         /\ cmp_state # "read_sj" => cmp_q_sj' = cmp_q_sj
         /\ cmp_state # "read_sum" => cmp_f' = cmp_f
         /\ cmp_state = "incr_i" => cmp_i' = (cmp_i + 1) % N
         /\ cmp_state = "calc_j" => cmp_j' = (cmp_j + cmp_q_si) % N
         /\ cmp_state = "read_sum" => cmp_f' = s_q
         /\ cmp_state = "incr_k" => cmp_k' = (cmp_k + 1) % L
  <1>1. Cmp!Clock(TRUE, FALSE, s_q)
    BY CmpClock
  <1>2. ~Ini!wren /\ ~Shf!wren
    BY DEF ControlInv, CoreInv, InStep, IniAtRest, ShfAtRest, Ini!wren, Shf!wren
  <1>3. /\ Cmp!wren => s_mem' = [s_mem EXCEPT ![Cmp!address] = Cmp!data]
        /\ ~Cmp!wren => s_mem' = s_mem
    BY <1>2, SMemStep, EngineInputs DEF ControlInv, CoreInv
  <1>4. shf_state # "swap_j"
    BY <1>2 DEF Shf!wren
  <1>5. /\ cmp_state \notin {"swap_si", "swap_sj"} => s_mem' = s_mem
        /\ cmp_state = "swap_si" => s_mem' = [s_mem EXCEPT ![cmp_j] = cmp_q_si]
        /\ cmp_state = "swap_sj" => s_mem' = Settled
    BY <1>3, <1>4 DEF Cmp!wren, Cmp!address, Cmp!data, Settled
  <1>6. QED
    BY <1>1, <1>5
    DEF Cmp!Clock, Cmp!Pass, Cmp!Goto, Cmp!IncrI, Cmp!ReadSi, Cmp!CalcJ, Cmp!ReadSj, Cmp!ReadSum,
        Cmp!IncrK, Cmp!Finish

LEMMA GeneratorStepKept ==
  ASSUME ControlInv, FollowsSchedule, FollowsGenerator, Clk
  PROVE  FollowsGenerator'
  <1> DEFINE G == Generator(key)
  <1>1. /\ cmp_i \in Byte /\ cmp_j \in Byte /\ cmp_k \in Index /\ key \in Key
        /\ s_mem \in [Byte -> Byte] /\ cmp_q_si \in Byte /\ cmp_q_sj \in Byte
    BY DEF ControlInv, CoreInv, CoreTypeOK, Cmp!TypeOK, Cmp!Byte, Byte, Index, TypeOK, BF!TypeOK, Key
  <1>2. CASE dec_state \notin {"compute_begin", "compute_end"}
    <2>1. cmp_state' = "idle"
      BY <1>2, RestEdge DEF ControlInv, CoreInv, InStep, CmpAtRest
    <2>2. QED
      BY <2>1 DEF FollowsGenerator, Exchanged
  <1>3. CASE dec_state = "compute_begin"
    <2>1. CmpAtRest /\ bf_state = "wait_compute"
      BY <1>3, BusyWaits
    <2>2. /\ cmp_state' = "incr_i" /\ cmp_i' = 0 /\ cmp_j' = 0 /\ cmp_k' = 0
          /\ s_mem' = s_mem /\ key' = key
      BY <1>3, <2>1, CmpNext, CmpClock DEF CmpAtRest
    <2>3. s_mem = G[0].s /\ G[0].i = 0 /\ G[0].j = 0
      BY <1>1, <1>3, GeneratorUnfold, GeneratorStartType DEF FollowsSchedule
    <2>4. QED
      BY <2>2, <2>3 DEF FollowsGenerator, Exchanged
  <1>4. CASE dec_state = "compute_end" /\ bf_state = "decrypt_reset"
    <2>1. cmp_state' = "finish"
      BY <1>4, CmpEdge
    <2>2. QED
      BY <2>1 DEF FollowsGenerator, Exchanged
  <1>5. CASE dec_state = "compute_end" /\ bf_state # "decrypt_reset"
    <2>1. key' = key
      BY <1>5, CmpClock
    <2>2. cmp_k \in 0 .. L - 1 /\ cmp_k \in Int /\ L \in Nat \ {0}
      BY <1>1, LAssumption DEF Index
    <2>3. /\ G[cmp_k] \in Box /\ G[cmp_k + 1] \in Box
          /\ G[cmp_k + 1].i = (G[cmp_k].i + 1) % N
          /\ G[cmp_k + 1].j = (G[cmp_k].j + G[cmp_k].s[G[cmp_k + 1].i]) % N
          /\ G[cmp_k + 1].s = Exchange(G[cmp_k].s, G[cmp_k + 1].i, G[cmp_k + 1].j)
      BY <1>1, <2>2, GeneratorRecurrence
    <2>4. shf_state # "swap_j" /\ shf_state' # "swap_j"
      <3>1. ShfAtRest
        BY <1>5, BusyWaits
      <3>2. QED
        BY <3>1, <1>5, RestEdge DEF ShfAtRest
    <2> HIDE DEF G
    <2>5. CASE cmp_state = "incr_i"
      <3>1. s_mem = G[cmp_k].s /\ cmp_i = G[cmp_k].i /\ cmp_j = G[cmp_k].j
        BY <2>5 DEF FollowsGenerator, G
      <3>2. /\ cmp_state' = "addr_si" /\ s_mem' = s_mem /\ cmp_i' = (cmp_i + 1) % N
            /\ cmp_j' = cmp_j /\ cmp_k' = cmp_k
        BY <1>5, <2>5, CmpNext
      <3>3. QED
        BY <2>1, <2>3, <3>1, <3>2 DEF FollowsGenerator, Exchanged, G
    <2>6. CASE cmp_state \in {"addr_si", "read_si"}
      <3>1. s_mem = G[cmp_k].s /\ cmp_i = G[cmp_k + 1].i /\ cmp_j = G[cmp_k].j
        BY <2>6 DEF FollowsGenerator, G
      <3>2. /\ cmp_state' \in {"read_si", "calc_j"} /\ s_mem' = s_mem
            /\ cmp_i' = cmp_i /\ cmp_j' = cmp_j /\ cmp_k' = cmp_k
        BY <1>5, <2>6, CmpNext
      <3>3. QED
        BY <2>1, <3>1, <3>2 DEF FollowsGenerator, Exchanged, G
    <2>7. CASE cmp_state = "calc_j"
      <3>1. s_mem = G[cmp_k].s /\ cmp_i = G[cmp_k + 1].i /\ cmp_j = G[cmp_k].j
        BY <2>7 DEF FollowsGenerator, G
      <3>2. cmp_q_si = s_mem[cmp_i]
        BY <2>7 DEF ControlInv, CoreInv, HeldWords
      <3>3. /\ cmp_state' = "addr_sj" /\ s_mem' = s_mem /\ cmp_i' = cmp_i
            /\ cmp_j' = (cmp_j + cmp_q_si) % N /\ cmp_k' = cmp_k
        BY <1>5, <2>7, CmpNext
      <3>4. QED
        BY <2>1, <2>3, <3>1, <3>2, <3>3 DEF FollowsGenerator, Exchanged, G
    <2>8. CASE cmp_state \in {"addr_sj", "read_sj"}
      <3>1. s_mem = G[cmp_k].s /\ cmp_i = G[cmp_k + 1].i /\ cmp_j = G[cmp_k + 1].j
        BY <2>8 DEF FollowsGenerator, G
      <3>2. /\ cmp_state' \in {"read_sj", "swap_si"} /\ s_mem' = s_mem
            /\ cmp_i' = cmp_i /\ cmp_j' = cmp_j /\ cmp_k' = cmp_k
        BY <1>5, <2>8, CmpNext
      <3>3. QED
        BY <2>1, <3>1, <3>2 DEF FollowsGenerator, Exchanged, G
    <2>9. CASE cmp_state = "swap_si"
      <3>1. s_mem = G[cmp_k].s /\ cmp_i = G[cmp_k + 1].i /\ cmp_j = G[cmp_k + 1].j
        BY <2>9 DEF FollowsGenerator, G
      <3>2. cmp_q_si = s_mem[cmp_i] /\ cmp_q_sj = s_mem[cmp_j]
        BY <2>9 DEF ControlInv, CoreInv, HeldWords
      <3>3. /\ cmp_state' = "swap_sj" /\ s_mem' = [s_mem EXCEPT ![cmp_j] = cmp_q_si]
            /\ cmp_i' = cmp_i /\ cmp_j' = cmp_j /\ cmp_k' = cmp_k
            /\ cmp_q_si' = cmp_q_si /\ cmp_q_sj' = cmp_q_sj
        BY <1>5, <2>9, CmpNext
      <3>4. Settled' = Exchange(s_mem, cmp_i, cmp_j)
        BY <2>4, <3>2, <3>3, <1>1, TwoWrites DEF Settled
      <3>5. Settled'[cmp_i] = cmp_q_sj /\ Settled'[cmp_j] = cmp_q_si
        BY <1>1, <3>2, <3>4 DEF Exchange
      <3>6. QED
        BY <2>1, <2>3, <3>1, <3>3, <3>4, <3>5 DEF FollowsGenerator, Exchanged, G
    <2>10. CASE cmp_state \in {"swap_sj", "addr_sum"}
      <3>1. /\ Settled = G[cmp_k + 1].s /\ cmp_i = G[cmp_k + 1].i /\ cmp_j = G[cmp_k + 1].j
            /\ cmp_q_sj = Settled[cmp_i] /\ cmp_q_si = Settled[cmp_j]
        BY <2>10 DEF FollowsGenerator, Exchanged, G
      <3>2. /\ cmp_state' \in {"addr_sum", "read_sum"} /\ s_mem' = Settled
            /\ cmp_i' = cmp_i /\ cmp_j' = cmp_j /\ cmp_k' = cmp_k
            /\ cmp_q_si' = cmp_q_si /\ cmp_q_sj' = cmp_q_sj
        BY <1>5, <2>4, <2>10, CmpNext, SettledMemory
      <3>3. Settled' = s_mem'
        BY <3>2, <2>4 DEF Settled
      <3>4. QED
        BY <2>1, <3>1, <3>2, <3>3 DEF FollowsGenerator, Exchanged, G
    <2>11. CASE cmp_state = "read_sum"
      <3>1. /\ Settled = G[cmp_k + 1].s /\ cmp_i = G[cmp_k + 1].i /\ cmp_j = G[cmp_k + 1].j
            /\ cmp_q_sj = Settled[cmp_i] /\ cmp_q_si = Settled[cmp_j] /\ Settled = s_mem
        BY <2>4, <2>11, SettledMemory DEF FollowsGenerator, Exchanged, G
      <3>2. s_q = s_mem[(cmp_q_sj + cmp_q_si) % N]
        BY <2>11 DEF ControlInv, CoreInv, ReadsAreFresh
      <3>3. s_q = OutputByte[G[cmp_k + 1]]
        BY <2>3, <3>1, <3>2 DEF OutputByte
      <3>4. /\ cmp_state' = "write_decrypt" /\ s_mem' = s_mem /\ cmp_f' = s_q
            /\ cmp_i' = cmp_i /\ cmp_j' = cmp_j /\ cmp_k' = cmp_k
        BY <1>5, <2>11, CmpNext
      <3>5. Settled' = s_mem'
        BY <3>4, <2>4 DEF Settled
      <3>6. QED
        BY <2>1, <3>1, <3>3, <3>4, <3>5 DEF FollowsGenerator, Exchanged, KeyStream, G
    <2>12. CASE cmp_state \in {"write_decrypt", "check_k"}
      <3>1. /\ Settled = G[cmp_k + 1].s /\ cmp_i = G[cmp_k + 1].i /\ cmp_j = G[cmp_k + 1].j
            /\ cmp_f = KeyStream(key, cmp_k) /\ Settled = s_mem
        BY <2>4, <2>12, SettledMemory DEF FollowsGenerator, Exchanged, G
      <3>2. /\ cmp_state = "write_decrypt" => cmp_state' = "check_k"
            /\ cmp_state = "check_k" => cmp_state' \in {"incr_k", "finish"}
            /\ cmp_state' = "incr_k" => cmp_k # L - 1
            /\ s_mem' = s_mem /\ cmp_f' = cmp_f
            /\ cmp_i' = cmp_i /\ cmp_j' = cmp_j /\ cmp_k' = cmp_k
        BY <1>5, <2>12, CmpNext
      <3>3. Settled' = s_mem'
        BY <3>2, <2>4, <2>12 DEF Settled
      <3>4. cmp_k # L - 1 => cmp_k + 1 \in Index
        BY <2>2 DEF Index
      <3>5. QED
        BY <2>1, <2>12, <3>1, <3>2, <3>3, <3>4 DEF FollowsGenerator, Exchanged, G
    <2>13. CASE cmp_state = "incr_k"
      <3>1. /\ Settled = G[cmp_k + 1].s /\ cmp_i = G[cmp_k + 1].i /\ cmp_j = G[cmp_k + 1].j
            /\ Settled = s_mem /\ cmp_k + 1 \in Index
        BY <2>4, <2>13, SettledMemory DEF FollowsGenerator, Exchanged, G
      <3>2. /\ cmp_state' = "incr_i" /\ s_mem' = s_mem /\ cmp_k' = (cmp_k + 1) % L
            /\ cmp_i' = cmp_i /\ cmp_j' = cmp_j
        BY <1>5, <2>13, CmpNext
      <3>3. cmp_k' = cmp_k + 1
        BY <3>1, <3>2, <2>2 DEF Index
      <3>4. QED
        BY <2>1, <3>1, <3>2, <3>3 DEF FollowsGenerator, Exchanged, G
    <2>14. CASE cmp_state = "finish"
      <3>1. cmp_state' = "idle"
        BY <1>5, <2>14, CmpNext
      <3>2. QED
        BY <3>1 DEF FollowsGenerator, Exchanged
    <2>15. cmp_state # "idle"
      BY <1>5 DEF ControlInv, CoreInv, InStep
    <2>16. QED
      BY <2>5, <2>6, <2>7, <2>8, <2>9, <2>10, <2>11, <2>12, <2>13, <2>14, <2>15
      DEF ControlInv, CoreInv, CoreTypeOK, Cmp!TypeOK, Cmp!States
  <1>6. QED
    BY <1>2, <1>3, <1>4, <1>5

-----------------------------------------------------------------------------
\* brute_force.sv verifies every byte.

\* The ciphertext is never written; the message only by compute.sv.
LEMMA MessageEdge ==
  ASSUME Clk
  PROVE  /\ rom' = rom
         /\ cmp_state # "write_decrypt" => d_mem' = d_mem
         /\ cmp_state = "write_decrypt" => d_mem' = [d_mem EXCEPT ![cmp_k] = data_decrypt_out]
  BY DEF Clk, CoreClock, R!ClockRom, D!Clock, wren_decrypt_out, Cmp!wren_decrypt, Cmp!address_decrypt

\* The byte on the bus while compute.sv is in write_decrypt and in check_k.
LEMMA BusByte ==
  ASSUME ControlInv, FollowsGenerator, cmp_state \in {"write_decrypt", "check_k"}
  PROVE  data_decrypt_out = Plaintext(key, rom)[cmp_k] /\ cmp_k \in Index
  <1>1. cmp_k \in Index
    BY DEF ControlInv, CoreInv, CoreTypeOK, Cmp!TypeOK, Index
  <1>2. cmp_f = KeyStream(key, cmp_k) /\ rom_q = rom[cmp_k]
    BY DEF FollowsGenerator, ControlInv, CoreInv, HeldWords
  <1>3. QED
    BY <1>1, <1>2 DEF data_decrypt_out, Cmp!data_decrypt, Plaintext

LEMMA SearchStepKept ==
  ASSUME ControlInv, FollowsGenerator, FollowsSearch, Clk
  PROVE  FollowsSearch'
  <1>1. rom' = rom /\ cmp_k \in Index /\ d_mem \in [Index -> Byte]
    BY MessageEdge DEF ControlInv, CoreInv, CoreTypeOK, Cmp!TypeOK, Index
  <1>2. CASE dec_state \notin {"compute_begin", "compute_end"}
    <2>1. cmp_state' = "idle" /\ cmp_state # "write_decrypt"
      BY <1>2, RestEdge DEF ControlInv, CoreInv, InStep, CmpAtRest
    <2>2. d_mem' = d_mem
      BY <2>1, MessageEdge
    <2>3. CASE bf_state = "incr_key"
      BY <2>1, <2>3, BfEdge DEF FollowsSearch
    <2>4. CASE bf_state \in {"idle", "begin_decrypt", "wait_compute"}
      <3>1. bf_state' \in {"begin_decrypt", "wait_compute"}
        BY <1>2, <2>1, <2>4, BfEdge DEF ControlInv, CoreInv, InStep, CmpAtRest, Handshake
      <3>2. QED
        BY <2>1, <3>1 DEF FollowsSearch
    <2>5. CASE bf_state \in {"check_key", "failure"}
      <3>1. bf_state' \in {"failure", "incr_key"} /\ key' = key
        BY <2>5, BfEdge
      <3>2. QED
        BY <1>1, <2>1, <2>5, <3>1 DEF FollowsSearch, Readable
    <2>6. CASE bf_state = "success"
      <3>1. bf_state' = "success" /\ key' = key
        BY <2>6, BfEdge
      <3>2. QED
        BY <1>1, <2>1, <2>2, <2>6, <3>1 DEF FollowsSearch, Verified
    <2>7. QED
      BY <1>2, <2>3, <2>4, <2>5, <2>6
      DEF ControlInv, Handshake, TypeOK, BF!TypeOK, BF!States
  <1>3. CASE dec_state = "compute_begin"
    <2>1. CmpAtRest /\ bf_state = "wait_compute"
      BY <1>3, BusyWaits
    <2>2. cmp_state' = "incr_i" /\ cmp_k' = 0 /\ bf_state' = "wait_compute"
      BY <1>3, <2>1, CmpNext, BfEdge DEF CmpAtRest
    <2>3. \A x \in Index : ~(x < 0)
      BY DEF Index
    <2>4. QED
      BY <2>2, <2>3 DEF FollowsSearch, Verified
  <1>4. CASE dec_state = "compute_end" /\ bf_state = "decrypt_reset"
    <2>1. cmp_state' = "finish" /\ bf_state' = "check_key" /\ key' = key
      BY <1>4, CmpEdge, BfEdge
    <2>2. QED
      BY <1>1, <1>4, <2>1 DEF FollowsSearch, Readable
  <1>5. CASE dec_state = "compute_end" /\ bf_state = "wait_compute"
    <2>1. key' = key
      BY <1>5, BfEdge
    <2>2. CASE cmp_state = "write_decrypt"
      <3>1. cmp_state' = "check_k" /\ bf_state' = "verify_val" /\ cmp_k' = cmp_k
        BY <1>5, <2>2, CmpNext, BfEdge
      <3>2. d_mem' = [d_mem EXCEPT ![cmp_k] = Plaintext(key, rom)[cmp_k]]
        BY <2>2, MessageEdge, BusByte
      <3>3. Verified(cmp_k)
        BY <2>2 DEF FollowsSearch
      <3>4. \A x \in Index : x < cmp_k => x # cmp_k
        BY <1>1 DEF Index
      <3>5. Verified(cmp_k)'
        BY <1>1, <2>1, <3>1, <3>2, <3>3, <3>4 DEF Verified
      <3>6. d_mem'[cmp_k'] = Plaintext(key', rom')[cmp_k']
        BY <1>1, <2>1, <3>1, <3>2
      <3>7. QED
        BY <3>1, <3>5, <3>6 DEF FollowsSearch
    <2>3. CASE cmp_state = "finish"
      <3>1. cmp_state' = "idle" /\ bf_state' = "success" /\ d_mem' = d_mem
        BY <1>5, <2>3, CmpNext, BfEdge, MessageEdge
      <3>2. Verified(L)
        BY <1>5, <2>3 DEF FollowsSearch
      <3>3. QED
        BY <1>1, <2>1, <3>1, <3>2 DEF FollowsSearch, Verified
    <2>4. CASE cmp_state = "incr_k"
      <3>1. /\ cmp_state' = "incr_i" /\ bf_state' = "wait_compute" /\ d_mem' = d_mem
            /\ cmp_k' = (cmp_k + 1) % L
        BY <1>5, <2>4, CmpNext, BfEdge, MessageEdge
      <3>2. cmp_k' = cmp_k + 1
        <4>1. cmp_k + 1 \in Index
          BY <2>4 DEF FollowsGenerator
        <4>2. QED
          BY <3>1, <4>1, LAssumption DEF Index
      <3>3. Verified(cmp_k + 1)
        BY <1>5, <2>4 DEF FollowsSearch
      <3>4. QED
        BY <1>1, <2>1, <3>1, <3>2, <3>3 DEF FollowsSearch, Verified
    <2>5. CASE cmp_state \notin {"write_decrypt", "finish", "incr_k"}
      <3>1. cmp_state \notin {"idle", "check_k"}
        BY <1>5 DEF ControlInv, CoreInv, InStep, Handshake
      <3>2. /\ cmp_state' \notin {"idle", "check_k", "incr_k", "finish"}
            /\ bf_state' = "wait_compute" /\ d_mem' = d_mem /\ cmp_k' = cmp_k
        BY <1>5, <2>5, <3>1, CmpNext, BfEdge, MessageEdge
        DEF ControlInv, CoreInv, CoreTypeOK, Cmp!TypeOK, Cmp!States
      <3>3. Verified(cmp_k)
        BY <2>5, <3>1 DEF FollowsSearch
      <3>4. QED
        BY <1>1, <2>1, <3>2, <3>3 DEF FollowsSearch, Verified
    <2>6. QED
      BY <2>2, <2>3, <2>4, <2>5
  <1>6. CASE dec_state = "compute_end" /\ bf_state = "verify_val"
    <2>1. cmp_state = "check_k"
      BY <1>6 DEF ControlInv, Handshake
    <2>2. /\ cmp_state' = IF cmp_k = L - 1 THEN "finish" ELSE "incr_k"
          /\ bf_state' = IF data_decrypt_out \in Plain THEN "wait_compute" ELSE "decrypt_reset"
          /\ cmp_k' = cmp_k /\ key' = key /\ d_mem' = d_mem
      BY <1>6, <2>1, CmpNext, BfEdge, MessageEdge
    <2>3. data_decrypt_out = Plaintext(key, rom)[cmp_k]
      BY <2>1, BusByte
    <2>4. CASE data_decrypt_out \notin Plain
      <3>1. ~Readable
        BY <1>1, <2>3, <2>4 DEF Readable
      <3>2. QED
        BY <1>1, <2>2, <2>4, <3>1 DEF FollowsSearch, Readable
    <2>5. CASE data_decrypt_out \in Plain
      <3>1. Verified(cmp_k) /\ d_mem[cmp_k] = Plaintext(key, rom)[cmp_k]
        BY <2>1 DEF FollowsSearch
      <3>2. \A x \in Index : x < cmp_k + 1 => x = cmp_k \/ x < cmp_k
        BY <1>1 DEF Index
      <3>3. Verified(cmp_k + 1)
        BY <2>3, <2>5, <3>1, <3>2 DEF Verified
      <3>4. cmp_k = L - 1 => Verified(L)
        <4>1. cmp_k = L - 1 => cmp_k + 1 = L
          BY LAssumption
        <4>2. QED
          BY <3>3, <4>1
      <3>5. QED
        BY <1>1, <2>2, <2>5, <3>3, <3>4 DEF FollowsSearch, Verified
    <2>6. QED
      BY <2>4, <2>5
  <1>7. dec_state = "compute_end" => bf_state \in {"wait_compute", "verify_val", "decrypt_reset"}
    BY DEF ControlInv, Handshake, TypeOK, BF!TypeOK, BF!States
  <1>8. QED
    BY <1>2, <1>3, <1>4, <1>5, <1>6, <1>7

LEMMA KsaInvInit == Init => KsaInv
  <1> SUFFICES ASSUME Init PROVE KsaInv
    OBVIOUS
  <1>1. ControlInv
    BY ControlInit
  <1>2. FollowsSchedule /\ FollowsGenerator /\ FollowsSearch
    BY DEF Init, CoreInit, Dec!Init, Ini!Init, Shf!Init, Cmp!Init, BF!Init,
           FollowsSchedule, FollowsGenerator, FollowsSearch, Exchanged
  <1>3. QED
    BY <1>1, <1>2 DEF KsaInv, ControlInv

LEMMA KsaInvStep == KsaInv /\ [Clk]_vars => KsaInv'
  <1>1. KsaInv /\ Clk => KsaInv'
    BY ControlStep, ScheduleStepKept, GeneratorStepKept, SearchStepKept DEF KsaInv, ControlInv
  <1>2. KsaInv /\ UNCHANGED vars => KsaInv'
    <2> SUFFICES ASSUME KsaInv, UNCHANGED vars PROVE KsaInv'
      OBVIOUS
    <2>1. ControlInv'
      BY ControlStep DEF KsaInv, ControlInv
    <2> USE DEF KsaInv, vars, bfVars, coreVars, iniVars, shfVars, cmpVars, memVars
    <2>2. FollowsSchedule'
      BY DEF FollowsSchedule, Settled
    <2>3. FollowsGenerator'
      BY DEF FollowsGenerator, Settled
    <2>4. FollowsSearch'
      BY DEF FollowsSearch, Verified, Readable
    <2>5. QED
      BY <2>1, <2>2, <2>3, <2>4 DEF ControlInv
  <1>3. QED
    BY <1>1, <1>2

(***************************************************************************)
(* The inductive invariant of the cracker: its handshakes, and the         *)
(* correspondence of the S memory and the indices with RC4 in every cycle. *)
(***************************************************************************)
THEOREM KsaInvariant == Spec => []KsaInv
  BY KsaInvInit, KsaInvStep, PTL DEF Spec

(***************************************************************************)
(* The engine computes RC4: the byte on the bus while it is written and    *)
(* while it is tested is the deciphered byte of the current key.           *)
(***************************************************************************)
THEOREM EngineDecryptsRC4 == Spec => []DecryptsRC4
  <1>1. KsaInv => DecryptsRC4
    <2> SUFFICES ASSUME KsaInv, wren_decrypt_out \/ bf_state = "verify_val"
                 PROVE  data_decrypt_out = Plaintext(key, rom)[cmp_k]
      BY DEF DecryptsRC4
    <2>1. cmp_state \in {"write_decrypt", "check_k"}
      BY DEF KsaInv, Handshake, wren_decrypt_out, Cmp!wren_decrypt
    <2>2. QED
      BY <2>1, BusByte DEF KsaInv, ControlInv
  <1>2. QED
    BY <1>1, KsaInvariant, PTL

-----------------------------------------------------------------------------
\* The search.

\* The instance of KeySearch reads the same reference cipher.
LEMMA SameCipher ==
  /\ Search!Plaintext(key, rom) = Plaintext(key, rom)
  /\ Search!Index = Index /\ Search!Key = Key /\ Search!Byte = Byte
  BY DEF Search!Plaintext, Search!KeyStream, Search!Generator, Search!KeySchedule, Search!Index,
         Search!Key, Search!Byte, Search!Box, Search!OutputByte, Search!GenerateStep,
         Search!ScheduleStep, Search!Exchange, Search!KeyByte, Search!Identity,
         Plaintext, KeyStream, Generator, KeySchedule, Index, Key, Byte, Box, OutputByte,
         GenerateStep, ScheduleStep, Exchange, KeyByte, Identity

LEMMA SearchInit == Init => Search!Init
  BY SameCipher, NAssumption
  DEF Init, CoreInit, BF!Init, Outcome, Search!Init, Search!NoMessage

\* Every clock edge is a step of the search or leaves the search as it is.
LEMMA SearchStep == ASSUME KsaInv, Clk PROVE Search!Next \/ UNCHANGED Search!vars
  <1>1. rom' = rom
    BY MessageEdge
  <1>2. Search!Readable <=> Readable
    BY SameCipher DEF Search!Readable, Readable
  <1>3. CASE bf_state = "incr_key"
    <2>1. bf_state' = "begin_decrypt" /\ key' = (key + 1) % (N * N * N)
      BY <1>3, BfEdge
    <2>2. key + 1 \in Key /\ ~Readable
      BY <1>3 DEF KsaInv, Handshake, FollowsSearch
    <2>3. key' = key + 1
      <3>1. N * N * N \in Nat \ {0}
        BY NAssumption
      <3>2. QED
        BY <2>1, <2>2, <3>1 DEF Key
    <2>4. Search!GiveUp
      BY <1>1, <1>2, <1>3, <2>1, <2>2, <2>3, SameCipher DEF Search!GiveUp, Outcome
    <2>5. QED
      BY <2>4 DEF Search!Next
  <1>4. CASE bf_state = "check_key" /\ bf_state' = "failure"
    <2>1. key = N * N * N - 1 /\ key' = key
      BY <1>4, BfEdge
    <2>2. key + 1 \notin Key
      <3>1. N * N * N \in Int
        BY NAssumption
      <3>2. QED
        BY <2>1, <3>1 DEF Key
    <2>3. ~Readable
      BY <1>4 DEF KsaInv, FollowsSearch
    <2>4. Search!Fail
      BY <1>1, <1>2, <1>4, <2>1, <2>2, <2>3, SameCipher DEF Search!Fail, Outcome
    <2>5. QED
      BY <2>4 DEF Search!Next
  <1>5. CASE bf_state = "wait_compute" /\ bf_state' = "success"
    <2>1. cmp_state = "finish" /\ key' = key /\ d_mem' = d_mem
      BY <1>5, BfEdge, MessageEdge
    <2>2. Verified(L)
      BY <1>5, <2>1 DEF KsaInv, FollowsSearch
    <2>3. \A x \in Index : x < L
      BY LAssumption DEF Index
    <2>4. Readable
      BY <2>2, <2>3 DEF Verified, Readable
    <2>5. d_mem = Plaintext(key, rom)
      BY <2>2, <2>3 DEF Verified, Plaintext, KsaInv, CoreInv, CoreTypeOK
    <2>6. Search!Find
      BY <1>1, <1>2, <1>5, <2>1, <2>4, <2>5, SameCipher DEF Search!Find, Outcome
    <2>7. QED
      BY <2>6 DEF Search!Next
  <1>6. CASE bf_state = "success"
    <2>1. cmp_state # "write_decrypt"
      BY <1>6 DEF KsaInv, Handshake, CoreInv, InStep, CmpAtRest
    <2>2. d_mem' = d_mem /\ bf_state' = "success" /\ key' = key
      BY <1>6, <2>1, MessageEdge, BfEdge
    <2>3. QED
      BY <1>1, <1>6, <2>2 DEF Search!vars, Outcome
  <1>7. CASE /\ bf_state \notin {"incr_key", "success"}
             /\ ~(bf_state = "check_key" /\ bf_state' = "failure")
             /\ ~(bf_state = "wait_compute" /\ bf_state' = "success")
    <2>1. key' = key
      BY <1>7, BfEdge
    <2>2. bf_state = "verify_val" => cmp_state = "check_k"
      BY DEF KsaInv, Handshake
    <2>3. bf_state = "failure" <=> bf_state' = "failure"
      BY <1>7, <2>2, BfEdge DEF KsaInv, TypeOK, BF!TypeOK, BF!States
    <2>4. bf_state' # "success"
      BY <1>7, <2>2, BfEdge DEF KsaInv, TypeOK, BF!TypeOK, BF!States
    <2>5. QED
      BY <1>1, <1>7, <2>1, <2>3, <2>4 DEF Search!vars, Outcome
  <1>8. QED
    BY <1>3, <1>4, <1>5, <1>6, <1>7

(***************************************************************************)
(* The cracker implements the safety part of KeySearch: no key is skipped  *)
(* or given up wrongly, success shows the first key that works with its    *)
(* whole message, failure comes only after the last key.                   *)
(***************************************************************************)
THEOREM SearchSafety == Spec => Search!Init /\ [][Search!Next]_(Search!vars)
  <1>1. KsaInv /\ [Clk]_vars => [Search!Next]_(Search!vars)
    <2>1. KsaInv /\ Clk => [Search!Next]_(Search!vars)
      BY SearchStep
    <2>2. UNCHANGED vars => UNCHANGED Search!vars
      BY DEF vars, bfVars, coreVars, memVars, Search!vars, Outcome
    <2>3. QED
      BY <2>1, <2>2
  <1>2. QED
    BY <1>1, SearchInit, KsaInvariant, PTL DEF Spec
=============================================================================
