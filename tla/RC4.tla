-------------------------------- MODULE RC4 --------------------------------
(***************************************************************************)
(* The RC4 stream cipher as a function of the key, independent of any      *)
(* clock, memory or handshake.  It is the reference that the hardware of   *)
(* Lab4 (shuffle.sv and compute.sv) is compared with.  A byte has N values *)
(* (256 in the code), a message has L bytes (32), a key has three bytes.   *)
(***************************************************************************)
EXTENDS Integers

CONSTANTS
  N,    \* number of byte values, and of words in the S memory
  L,    \* number of bytes of the message
  Xor   \* bitwise exclusive or of two bytes, as a function

Byte  == 0 .. N - 1
Index == 0 .. L - 1
Key   == 0 .. N * N * N - 1

ASSUME NAssumption == N \in Nat \ {0}
ASSUME LAssumption == L \in Nat \ {0}
ASSUME XorAssumption == Xor \in [Byte \X Byte -> Byte]

-----------------------------------------------------------------------------
\* The three bytes of the key, most significant first, used cyclically.
KeyByte(key, i) ==
  <<(key \div (N * N)) % N, (key \div N) % N, key % N>>[(i % 3) + 1]

Identity == [x \in Byte |-> x]

Exchange(s, a, b) == [s EXCEPT ![a] = s[b], ![b] = s[a]]

\* A memory image that holds every byte value exactly once.
Permutations == {s \in [Byte -> Byte] : \A a, b \in Byte : s[a] = s[b] => a = b}

-----------------------------------------------------------------------------
\* The cipher's state: the S box and its two indices.
Box == [s : [Byte -> Byte], i : Byte, j : Byte]

\* One exchange of the key schedule at index i, which then moves on.
ScheduleStep(key) == [b \in Box |->
  LET j == (b.j + b.s[b.i] + KeyByte(key, b.i)) % N
  IN  [s |-> Exchange(b.s, b.i, j), i |-> (b.i + 1) % N, j |-> j]]

\* The box after n exchanges of the key schedule.
KeySchedule(key) ==
  LET after[n \in 0 .. N] ==
        IF n = 0 THEN [s |-> Identity, i |-> 0, j |-> 0]
                 ELSE ScheduleStep(key)[after[n - 1]]
  IN  after

\* One exchange of the generator: i moves on first, j follows it.
GenerateStep == [b \in Box |->
  LET i == (b.i + 1) % N
      j == (b.j + b.s[i]) % N
  IN  [s |-> Exchange(b.s, i, j), i |-> i, j |-> j]]

\* The box after n bytes of the key stream.
Generator(key) ==
  LET after[n \in 0 .. L] ==
        IF n = 0 THEN [KeySchedule(key)[N] EXCEPT !.i = 0, !.j = 0]
                 ELSE GenerateStep[after[n - 1]]
  IN  after

\* The byte of the key stream that a box delivers.
OutputByte == [b \in Box |-> b.s[(b.s[b.i] + b.s[b.j]) % N]]

KeyStream(key, k) == OutputByte[Generator(key)[k + 1]]

\* The message that `key' deciphers from the ciphertext `rom'.
Plaintext(key, rom) == [k \in Index |-> Xor[KeyStream(key, k), rom[k]]]
=============================================================================
