---------------------------- MODULE SharedAccess ----------------------------
(***************************************************************************)
(* Assignment 3, shared_access_to_one_state_machine.sv: two clients share  *)
(* one target state machine.  The ten states of the code are a phase and   *)
(* its owner: check_start_a is phase = "check_start" with owner = "a".     *)
(*                                                                         *)
(* The repository holds neither the clients nor the target; they are       *)
(* modelled from the ports: a request is held until its reset pulse and    *)
(* the arguments until the finish pulse, and the target answers a start    *)
(* pulse after any time, with a finished signal that may stay up until the *)
(* next start.  The result of a call is named by the arguments of the      *)
(* call.  One step is a rising edge of sm_clk or the asynchronous reset.   *)
(***************************************************************************)
EXTENDS Integers

CONSTANT Argument

NoArgument == 0

ASSUME ArgumentAssumption == NoArgument \in Argument

VARIABLES
  phase, owner,     \* the state register
  received_data,    \* received_data_a and received_data_b
  client,           \* what each client does
  input_arguments,  \* input_arguments_a and input_arguments_b
  target,           \* the target state machine,
  target_arguments, \* the arguments it was started with,
  in_received_data, \* and the result it shows
  bypassed          \* history: calls of the other client since the request

arbVars == <<phase, owner, received_data>>
clientVars == <<client, input_arguments>>
targetVars == <<target, target_arguments, in_received_data>>
vars == <<arbVars, clientVars, targetVars, bypassed>>

Client == {"a", "b"}
Other(c) == IF c = "a" THEN "b" ELSE "a"

Phases == {"check_start", "give_start", "wait_for_finish", "register_data", "give_finish"}

\* The output assignments; start_request, finish and reset_start_request
\* stand for the two lines of each name.
start_target_state_machine    == phase = "give_start"
reset_start_request(c)        == phase = "give_start" /\ owner = c
register_data_enable(c)       == phase = "register_data" /\ owner = c
finish(c)                     == phase = "give_finish" /\ owner = c
output_arguments              == input_arguments[owner]
target_state_machine_finished == target = "done"
start_request(c)              == client[c] = "requesting"

Init ==
  /\ phase = "check_start" /\ owner = "a"
  /\ received_data = [c \in Client |-> NoArgument]
  /\ client = [c \in Client |-> "idle"]
  /\ input_arguments = [c \in Client |-> NoArgument]
  /\ target = "idle" /\ target_arguments = NoArgument /\ in_received_data = NoArgument
  /\ bypassed = [c \in Client |-> 0]

-----------------------------------------------------------------------------
\* The state machine.
\* Mutant: a client without a request is asked again.
CheckStartStubborn ==
  /\ phase = "check_start"
  /\ phase' = IF start_request(owner) THEN "give_start" ELSE phase
  /\ UNCHANGED owner

CheckStart ==
  /\ phase = "check_start"
  /\ IF start_request(owner)
     THEN phase' = "give_start" /\ UNCHANGED owner
     ELSE owner' = Other(owner) /\ UNCHANGED phase

\* Mutant: the finish of the target is not waited for.
WaitForFinishHasty ==
  /\ phase = "wait_for_finish"
  /\ phase' = "register_data"
  /\ UNCHANGED owner

WaitForFinish ==
  /\ phase = "wait_for_finish"
  /\ phase' = IF target_state_machine_finished THEN "register_data" ELSE phase
  /\ UNCHANGED owner

\* Mutant: the client that was served is asked again before the other one.
GiveFinishUnfair ==
  /\ phase = "give_finish"
  /\ phase' = "check_start"
  /\ UNCHANGED owner

GiveFinish ==
  /\ phase = "give_finish"
  /\ phase' = "check_start"
  /\ owner' = Other(owner)

Move(from, next) == phase = from /\ phase' = next /\ UNCHANGED owner

\* Mutant: the answer is given to both clients.
RegisterBoth ==
  received_data' = IF phase = "register_data" THEN [c \in Client |-> in_received_data]
                   ELSE received_data

Register ==
  received_data' =
    [c \in Client |-> IF register_data_enable(c) THEN in_received_data ELSE received_data[c]]

Arbitrate ==
  /\ \/ CheckStart
     \/ Move("give_start", "wait_for_finish")
     \/ WaitForFinish
     \/ Move("register_data", "give_finish")
     \/ GiveFinish
  /\ Register

-----------------------------------------------------------------------------
\* External: a client that is idle, or is told to finish, may begin a request
\* with some argument; the others go on with theirs.
Begins(c, begin) == c \in begin /\ (client[c] = "idle" \/ finish(c))

Clients(begin, argument) ==
  /\ client' = [c \in Client |->
                  IF Begins(c, begin) THEN "requesting"
                  ELSE IF start_request(c) /\ reset_start_request(c) THEN "waiting"
                  ELSE IF client[c] = "waiting" /\ finish(c) THEN "idle"
                  ELSE client[c]]
  /\ input_arguments' =
       [c \in Client |-> IF Begins(c, begin) THEN argument ELSE input_arguments[c]]

\* External: the target runs from a start pulse until it is done.
Target(advance) ==
  \/ /\ start_target_state_machine
     /\ target' = "busy"
     /\ target_arguments' = output_arguments
     /\ UNCHANGED in_received_data
  \/ /\ ~start_target_state_machine
     /\ target = "busy" /\ advance
     /\ target' = "done"
     /\ in_received_data' = target_arguments
     /\ UNCHANGED target_arguments
  \/ /\ ~start_target_state_machine
     /\ target # "busy" \/ ~advance
     /\ target' = IF target = "done" /\ advance THEN "idle" ELSE target
     /\ UNCHANGED <<target_arguments, in_received_data>>

\* A start counts against the other client if it is waiting to be started.
Count ==
  bypassed' =
    [c \in Client |->
       IF ~start_request(c) \/ reset_start_request(c) THEN 0
       ELSE IF start_target_state_machine THEN bypassed[c] + 1 ELSE bypassed[c]]

Clk(begin, argument, advance) ==
  Arbitrate /\ Clients(begin, argument) /\ Target(advance) /\ Count

\* The asynchronous reset, which resets the clients and the target as well.
Reset ==
  /\ phase' = "check_start" /\ owner' = "a"
  /\ received_data' = [c \in Client |-> NoArgument]
  /\ client' = [c \in Client |-> "idle"]
  /\ target' = "idle"
  /\ bypassed' = [c \in Client |-> 0]
  /\ UNCHANGED <<input_arguments, target_arguments, in_received_data>>

Next ==
  \/ Reset
  \/ \E begin \in SUBSET Client, argument \in Argument, advance \in BOOLEAN :
       Clk(begin, argument, advance)

\* The clock runs even if no client ever begins a request, and the target
\* answers.
Fairness ==
  /\ WF_vars(\E argument \in Argument, advance \in BOOLEAN : Clk({}, argument, advance))
  /\ WF_vars(target = "busy" /\ \E begin \in SUBSET Client, argument \in Argument :
               Clk(begin, argument, TRUE))

Spec == Init /\ [][Next]_vars /\ Fairness

-----------------------------------------------------------------------------
TypeOK ==
  /\ phase \in Phases /\ owner \in Client
  /\ received_data \in [Client -> Argument]
  /\ client \in [Client -> {"idle", "requesting", "waiting"}]
  /\ input_arguments \in [Client -> Argument]
  /\ target \in {"idle", "busy", "done"}
  /\ target_arguments \in Argument /\ in_received_data \in Argument
  /\ bypassed \in [Client -> Nat]

(***************************************************************************)
(* A client that is told to finish finds the result of its own arguments   *)
(* in its register, whoever else called in the meantime, and has it until  *)
(* its own next call is registered.                                        *)
(***************************************************************************)
OwnResult == \A c \in Client : finish(c) => received_data[c] = input_arguments[c]

(***************************************************************************)
(* The target is never started while it runs, and while it runs the        *)
(* multiplexer keeps showing it the arguments it was started with.         *)
(***************************************************************************)
TargetUndisturbed ==
  target = "busy" => ~start_target_state_machine /\ output_arguments = target_arguments

(***************************************************************************)
(* A client that is not in a call keeps its last result, however often the *)
(* other client calls, until a reset.                                      *)
(***************************************************************************)
ResultKept ==
  [][\A c \in Client :
       client[c] # "waiting" => received_data'[c] = received_data[c] \/ Reset]_vars

(***************************************************************************)
(* Round robin: between its request and its start a client is passed over  *)
(* at most once.                                                           *)
(***************************************************************************)
BoundedBypass == \A c \in Client : bypassed[c] <= 1

(***************************************************************************)
(* Every request is answered, unless a reset withdraws it: the two waiting *)
(* loops of the state machine never starve a client.                       *)
(***************************************************************************)
EveryRequestAnswered ==
  \A c \in Client : start_request(c) ~> (finish(c) \/ client[c] = "idle")

-----------------------------------------------------------------------------
(***************************************************************************)
(* The inductive invariant: the phase, the client it serves and the target *)
(* go through a call together.                                             *)
(***************************************************************************)
Serving == phase \in {"wait_for_finish", "register_data", "give_finish"}

Together ==
  /\ phase = "give_start" => client[owner] = "requesting"
  /\ \A c \in Client : client[c] = "waiting" <=> Serving /\ owner = c
  /\ target = "busy" => phase = "wait_for_finish"
  /\ phase = "wait_for_finish" =>
       /\ target \in {"busy", "done"}
       /\ target_arguments = input_arguments[owner]
       /\ target = "done" => in_received_data = input_arguments[owner]
  /\ phase \in {"register_data", "give_finish"} => in_received_data = input_arguments[owner]

\* A client that has been passed over is the next to be asked.
Turns ==
  \A c \in Client :
    /\ ~start_request(c) => bypassed[c] = 0
    /\ bypassed[c] <= 1
    /\ bypassed[c] = 1 => \/ owner # c /\ Serving
                          \/ owner = c /\ phase \in {"check_start", "give_start"}

SharedInv == TypeOK /\ Together /\ Turns /\ OwnResult
=============================================================================
