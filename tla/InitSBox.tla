------------------------------ MODULE InitSBox ------------------------------
(***************************************************************************)
(* Lab4 init.sv: writes S[x] = x for every x.  One action per state of the *)
(* state machine, each the whole clock edge of the module in that state.   *)
(***************************************************************************)
EXTENDS Integers

CONSTANT N  \* words of the S memory

VARIABLES
  state,
  i

States == {"idle", "initialize", "finish"}

TypeOK == state \in States /\ i \in 0 .. N - 1

\* The output assignments.
wren     == state = "initialize"
complete == state = "finish"
data     == i
address  == i

Init == state = "idle" /\ i = 0

\* The synchronous reset wins over every transition but not over the counter.
Goto(next, reset) == state' = IF reset THEN "finish" ELSE next

Idle(start, reset) ==
  /\ state = "idle"
  /\ Goto(IF start THEN "initialize" ELSE "idle", reset)
  /\ UNCHANGED i

Initialize(reset) ==
  /\ state = "initialize"
  /\ Goto(IF i > N - 2 THEN "finish" ELSE "initialize", reset)
  /\ i' = (i + 1) % N

Finish(reset) ==
  /\ state = "finish"
  /\ Goto("idle", reset)
  /\ i' = 0

Clock(start, reset) ==
  \/ Idle(start, reset)
  \/ Initialize(reset)
  \/ Finish(reset)
=============================================================================
