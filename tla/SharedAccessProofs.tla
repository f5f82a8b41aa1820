------------------------ MODULE SharedAccessProofs ------------------------
(***************************************************************************)
(* The shared state machine serves its two clients correctly whatever the  *)
(* arguments are: the invariant of SharedAccess is inductive, and it        *)
(* implies what a client and the target rely on.                           *)
(***************************************************************************)
EXTENDS SharedAccess, TLAPS

(***************************************************************************)
(* The registers and the signals keep their types over one clock edge.     *)
(***************************************************************************)
LEMMA ClkType ==
  ASSUME TypeOK, NEW begin, NEW argument, argument \in Argument, NEW advance,
         Clk(begin, argument, advance)
  PROVE  TypeOK'
<1>1. phase' \in Phases /\ owner' \in Client
  BY SMT DEF TypeOK, Clk, Arbitrate, CheckStart, Move, WaitForFinish, GiveFinish, Phases, Client, Other
<1>2. received_data' \in [Client -> Argument]
  BY DEF TypeOK, Clk, Arbitrate, Register
<1>3. client' \in [Client -> {"idle", "requesting", "waiting"}]
  BY DEF TypeOK, Clk, Clients
<1>4. input_arguments' \in [Client -> Argument]
  BY DEF TypeOK, Clk, Clients
<1>5. /\ target' \in {"idle", "busy", "done"}
      /\ target_arguments' \in Argument /\ in_received_data' \in Argument
  BY DEF TypeOK, Clk, Target, output_arguments
<1>6. bypassed' \in [Client -> Nat]
  BY SMT DEF TypeOK, Clk, Count
<1> QED
  BY <1>1, <1>2, <1>3, <1>4, <1>5, <1>6 DEF TypeOK

(***************************************************************************)
(* What one clock edge does to the state register, phase by phase.         *)
(***************************************************************************)
LEMMA PhaseEdge ==
  ASSUME TypeOK, NEW begin, NEW argument, NEW advance, Clk(begin, argument, advance)
  PROVE  /\ phase = "check_start" => IF client[owner] = "requesting"
                                     THEN phase' = "give_start" /\ owner' = owner
                                     ELSE phase' = "check_start" /\ owner' = Other(owner)
         /\ phase = "give_start" => phase' = "wait_for_finish" /\ owner' = owner
         /\ phase = "wait_for_finish" =>
              /\ owner' = owner
              /\ phase' = IF target = "done" THEN "register_data" ELSE "wait_for_finish"
         /\ phase = "register_data" => phase' = "give_finish" /\ owner' = owner
         /\ phase = "give_finish" => phase' = "check_start" /\ owner' = Other(owner)
BY SMT DEF TypeOK, Clk, Arbitrate, CheckStart, Move, WaitForFinish, GiveFinish, start_request,
           target_state_machine_finished

(***************************************************************************)
(* What one clock edge does to a client and to the count of the starts     *)
(* that passed it over.                                                    *)
(***************************************************************************)
LEMMA ClientEdge ==
  ASSUME TypeOK, NEW begin, NEW argument, NEW advance, Clk(begin, argument, advance),
         NEW c, c \in Client
  PROVE  /\ client[c] = "idle" => client'[c] \in {"idle", "requesting"}
         /\ client[c] = "requesting" =>
              IF phase = "give_start" /\ owner = c THEN client'[c] = "waiting"
              ELSE client'[c] = "requesting"
         /\ client[c] = "waiting" =>
              IF phase = "give_finish" /\ owner = c THEN client'[c] \in {"idle", "requesting"}
              ELSE client'[c] = "waiting"
         /\ input_arguments'[c] # input_arguments[c] =>
              client[c] = "idle" \/ (phase = "give_finish" /\ owner = c)
         /\ bypassed'[c] = IF client[c] # "requesting" \/ (phase = "give_start" /\ owner = c) THEN 0
                           ELSE IF phase = "give_start" THEN bypassed[c] + 1 ELSE bypassed[c]
         /\ received_data'[c] = IF phase = "register_data" /\ owner = c THEN in_received_data
                                ELSE received_data[c]
<1>1. /\ client'[c] = IF Begins(c, begin) THEN "requesting"
                      ELSE IF start_request(c) /\ reset_start_request(c) THEN "waiting"
                      ELSE IF client[c] = "waiting" /\ finish(c) THEN "idle"
                      ELSE client[c]
      /\ input_arguments'[c] = IF Begins(c, begin) THEN argument ELSE input_arguments[c]
  BY DEF Clk, Clients
<1>2. bypassed'[c] = IF ~start_request(c) \/ reset_start_request(c) THEN 0
                     ELSE IF start_target_state_machine THEN bypassed[c] + 1 ELSE bypassed[c]
  BY DEF Clk, Count
<1>3. received_data'[c] = IF register_data_enable(c) THEN in_received_data ELSE received_data[c]
  BY DEF Clk, Arbitrate, Register
<1>4. client[c] \in {"idle", "requesting", "waiting"}
  BY DEF TypeOK
<1> QED
  BY <1>1, <1>2, <1>3, <1>4, SMT
     DEF Begins, start_request, reset_start_request, start_target_state_machine, finish, register_data_enable

(***************************************************************************)
(* A call goes through its phases together with the client and the target. *)
(***************************************************************************)
LEMMA TogetherEdge ==
  ASSUME TypeOK, Together, NEW begin, NEW argument, NEW advance, Clk(begin, argument, advance)
  PROVE  Together'
<1> USE DEF Client, Serving
<1>1. owner \in Client /\ phase \in Phases
  BY DEF TypeOK
<1>2. phase' = "give_start" => client'[owner'] = "requesting"
  BY <1>1, PhaseEdge, ClientEdge DEF TypeOK, Phases, Other
<1>3. ASSUME NEW c, c \in Client
      PROVE  (client[c] = "waiting" <=> Serving /\ owner = c)'
  BY <1>1, <1>3, PhaseEdge, ClientEdge DEF TypeOK, Phases, Other, Together
<1>4. target' = "busy" => phase' = "wait_for_finish"
  BY <1>1, PhaseEdge DEF Clk, Target, Together, start_target_state_machine
<1>5. phase' = "wait_for_finish" =>
        /\ target' \in {"busy", "done"}
        /\ target_arguments' = input_arguments'[owner']
        /\ target' = "done" => in_received_data' = input_arguments'[owner']
  <2>1. SUFFICES ASSUME phase' = "wait_for_finish"
                 PROVE  /\ target' \in {"busy", "done"}
                        /\ target_arguments' = input_arguments'[owner]
                        /\ target' = "done" => in_received_data' = input_arguments'[owner]
    BY <1>1, PhaseEdge DEF Phases
  <2>2. phase = "give_start" \/ (phase = "wait_for_finish" /\ target # "done")
    BY <1>1, <2>1, PhaseEdge DEF Phases
  <2>3. input_arguments'[owner] = input_arguments[owner]
    BY <1>1, <2>2, ClientEdge DEF Together
  <2>4. CASE phase = "give_start"
    BY <2>3, <2>4 DEF Clk, Target, start_target_state_machine, output_arguments
  <2>5. CASE phase = "wait_for_finish" /\ target # "done"
    BY <2>3, <2>5 DEF Clk, Target, start_target_state_machine, Together
  <2> QED
    BY <2>2, <2>4, <2>5
<1>6. phase' \in {"register_data", "give_finish"} => in_received_data' = input_arguments'[owner']
  <2>1. SUFFICES ASSUME phase' \in {"register_data", "give_finish"}
                 PROVE  in_received_data' = input_arguments'[owner]
    BY <1>1, PhaseEdge DEF Phases
  <2>2. (phase = "wait_for_finish" /\ target = "done") \/ phase = "register_data"
    BY <1>1, <2>1, PhaseEdge DEF Phases
  <2>3. input_arguments'[owner] = input_arguments[owner]
    BY <1>1, <2>2, ClientEdge DEF Together
  <2> QED
    BY <2>2, <2>3 DEF Clk, Target, start_target_state_machine, Together
<1> QED
  BY <1>2, <1>3, <1>4, <1>5, <1>6 DEF Together

(***************************************************************************)
(* A client that is passed over is asked next.                             *)
(***************************************************************************)
LEMMA TurnsEdge ==
  ASSUME TypeOK, Together, Turns, NEW begin, NEW argument, NEW advance,
         Clk(begin, argument, advance)
  PROVE  Turns'
<1> USE DEF Client, Serving, start_request
<1>1. owner \in Client /\ phase \in Phases
  BY DEF TypeOK
<1>2. SUFFICES ASSUME NEW c, c \in Client
               PROVE  /\ client'[c] # "requesting" => bypassed'[c] = 0
                      /\ bypassed'[c] <= 1
                      /\ bypassed'[c] = 1 =>
                           \/ owner' # c /\ phase' \in {"wait_for_finish", "register_data", "give_finish"}
                           \/ owner' = c /\ phase' \in {"check_start", "give_start"}
  BY DEF Turns
<1>3. /\ client[c] # "requesting" => bypassed[c] = 0
      /\ bypassed[c] <= 1 /\ bypassed[c] \in Nat
      /\ bypassed[c] = 1 => \/ owner # c /\ phase \in {"wait_for_finish", "register_data", "give_finish"}
                            \/ owner = c /\ phase \in {"check_start", "give_start"}
  BY <1>2 DEF Turns, TypeOK
<1>4. client[c] \in {"idle", "requesting", "waiting"}
  BY <1>2 DEF TypeOK
<1>5. client'[c] # "requesting" => bypassed'[c] = 0
  BY <1>2, <1>4, ClientEdge
<1>6. bypassed'[c] <= 1
  BY <1>2, <1>3, ClientEdge, SMT
<1>7. bypassed'[c] = 1 =>
        \/ owner' # c /\ phase' \in {"wait_for_finish", "register_data", "give_finish"}
        \/ owner' = c /\ phase' \in {"check_start", "give_start"}
  <2>1. SUFFICES ASSUME bypassed'[c] = 1
                 PROVE  \/ owner' # c /\ phase' \in {"wait_for_finish", "register_data", "give_finish"}
                        \/ owner' = c /\ phase' \in {"check_start", "give_start"}
    OBVIOUS
  <2>2. client[c] = "requesting" /\ ~(phase = "give_start" /\ owner = c)
    BY <1>2, <2>1, ClientEdge
  <2>3. CASE phase = "give_start"
    BY <1>1, <1>2, <2>2, <2>3, PhaseEdge
  <2>4. CASE phase # "give_start"
    <3>1. bypassed[c] = 1
      BY <1>2, <2>1, <2>2, <2>4, ClientEdge
    <3> QED
      BY <1>1, <1>2, <1>3, <2>2, <2>4, <3>1, PhaseEdge DEF Other, Phases
  <2> QED
    BY <2>3, <2>4
<1> QED
  BY <1>5, <1>6, <1>7

(***************************************************************************)
(* The result in the register of the client that is told to finish is the  *)
(* one of its own arguments.                                               *)
(***************************************************************************)
LEMMA ResultEdge ==
  ASSUME TypeOK, Together, NEW begin, NEW argument, NEW advance, Clk(begin, argument, advance)
  PROVE  OwnResult'
<1>1. SUFFICES ASSUME NEW c, c \in Client, phase' = "give_finish", owner' = c
               PROVE  received_data'[c] = input_arguments'[c]
  BY DEF OwnResult, finish
<1>2. owner \in Client /\ phase \in Phases
  BY DEF TypeOK
<1>3. phase = "register_data" /\ owner = c
  BY <1>1, <1>2, PhaseEdge DEF Phases
<1>4. client[c] = "waiting"
  BY <1>1, <1>3 DEF Together, Serving
<1>5. input_arguments'[c] = input_arguments[c] /\ received_data'[c] = in_received_data
  BY <1>1, <1>3, <1>4, ClientEdge
<1> QED
  BY <1>1, <1>3, <1>5 DEF Together

LEMMA ResetStep ==
  ASSUME TypeOK, Reset
  PROVE  SharedInv'
<1>1. TypeOK'
  BY ArgumentAssumption DEF TypeOK, Reset, Phases, Client
<1>2. Together' /\ OwnResult'
  BY DEF Together, OwnResult, Reset, Serving, finish, Client
<1>3. Turns'
  BY DEF Turns, Reset, start_request, Client, Serving
<1> QED
  BY <1>1, <1>2, <1>3 DEF SharedInv

-----------------------------------------------------------------------------
(***************************************************************************)
(* The arbiter, its clients and its target keep SharedInv: the phase, the  *)
(* client it serves and the target go through every call together.         *)
(***************************************************************************)
THEOREM SharedInvariant == Spec => []SharedInv
<1>1. Init => SharedInv
  BY ArgumentAssumption
     DEF Init, SharedInv, TypeOK, Together, Turns, OwnResult, Serving, Phases, Client, start_request, finish
<1>2. SharedInv /\ [Next]_vars => SharedInv'
  <2>1. SUFFICES ASSUME SharedInv, [Next]_vars
                 PROVE  SharedInv'
    OBVIOUS
  <2>2. CASE Reset
    BY <2>1, <2>2, ResetStep DEF SharedInv
  <2>3. ASSUME NEW begin \in SUBSET Client, NEW argument \in Argument, NEW advance \in BOOLEAN,
               Clk(begin, argument, advance)
        PROVE  SharedInv'
    BY <2>1, <2>3, ClkType, TogetherEdge, TurnsEdge, ResultEdge DEF SharedInv
  <2>4. CASE UNCHANGED vars
    BY <2>1, <2>4 DEF SharedInv, TypeOK, Together, Turns, OwnResult, Serving, start_request, finish,
                      vars, arbVars, clientVars, targetVars
  <2> QED
    BY <2>1, <2>2, <2>3, <2>4 DEF Next
<1> QED
  BY <1>1, <1>2, PTL DEF Spec

(***************************************************************************)
(* What each client finds at its finish pulse is its own result.           *)
(***************************************************************************)
THEOREM EachItsOwnResult == Spec => []OwnResult
BY SharedInvariant, PTL DEF SharedInv

(***************************************************************************)
(* The target is neither restarted nor shown other arguments in a call.    *)
(***************************************************************************)
THEOREM TargetIsUndisturbed == Spec => []TargetUndisturbed
<1>1. SharedInv => TargetUndisturbed
  BY DEF SharedInv, Together, TargetUndisturbed, start_target_state_machine, output_arguments
<1> QED
  BY <1>1, SharedInvariant, PTL

(***************************************************************************)
(* A request is passed over by at most one call of the other client.       *)
(***************************************************************************)
THEOREM BypassedOnce == Spec => []BoundedBypass
<1>1. SharedInv => BoundedBypass
  BY DEF SharedInv, Turns, BoundedBypass
<1> QED
  BY <1>1, SharedInvariant, PTL

(***************************************************************************)
(* A client that is not in a call keeps its last result until a reset.     *)
(***************************************************************************)
THEOREM ResultsAreKept == Spec => ResultKept
<1> DEFINE Kept == \A c \in Client :
                     client[c] # "waiting" => received_data'[c] = received_data[c] \/ Reset
<1>1. SharedInv /\ [Next]_vars => [Kept]_vars
  <2>1. SUFFICES ASSUME TypeOK, Together, Next, ~Reset
                 PROVE  Kept
    BY DEF SharedInv
  <2>2. PICK begin \in SUBSET Client, argument \in Argument, advance \in BOOLEAN :
               Clk(begin, argument, advance)
    BY <2>1 DEF Next
  <2> QED
    BY <2>1, <2>2, ClientEdge DEF Together, Serving
<1> QED
  BY <1>1, SharedInvariant, PTL DEF Spec, ResultKept
=============================================================================
