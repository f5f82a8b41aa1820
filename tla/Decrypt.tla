------------------------------ MODULE Decrypt ------------------------------
(***************************************************************************)
(* Lab4 decrypt.sv: runs init, shuffle and compute one after another with  *)
(* level start signals and one-cycle complete pulses, and gives the phase  *)
(* that runs the S memory port and the reset line.                         *)
(***************************************************************************)
VARIABLE state

States == {"idle", "init_begin", "init_end", "shuffle_begin", "shuffle_end",
           "compute_begin", "compute_end", "finish"}

TypeOK == state \in States

\* Mutants: a pulse instead of a level, and a level that outlasts its phase.
init_pulse == state = "init_begin"
compute_late == state \in {"compute_begin", "compute_end", "finish"}

init_start       == state \in {"init_begin", "init_end"}
shuffle_start    == state \in {"shuffle_begin", "shuffle_end"}
compute_start    == state \in {"compute_begin", "compute_end"}
decrypt_complete == state = "finish"

\* The multiplexer: a bus value of the phase that runs, 0 when none does.
Select(init, shuffle, compute, none) ==
  IF init_start THEN init
  ELSE IF shuffle_start THEN shuffle
  ELSE IF compute_start THEN compute
  ELSE none

\* Mutant: the reset of the compute phase is tied low.
no_reset(reset) == FALSE

\* The reset reaches only the worker of the phase that runs.
init_reset(reset)    == init_start /\ reset
shuffle_reset(reset) == shuffle_start /\ reset
compute_reset(reset) == compute_start /\ reset

Init == state = "idle"

Goto(next, reset) == state' = IF reset THEN "idle" ELSE next

Pass(from, next, reset) == state = from /\ Goto(next, reset)

Clock(decrypt_start, reset, init_complete, shuffle_complete, compute_complete) ==
  \/ Pass("idle", IF decrypt_start THEN "init_begin" ELSE "idle", reset)
  \/ Pass("init_begin", "init_end", reset)
  \/ Pass("init_end", IF init_complete THEN "shuffle_begin" ELSE "init_end", reset)
  \/ Pass("shuffle_begin", "shuffle_end", reset)
  \/ Pass("shuffle_end", IF shuffle_complete THEN "compute_begin" ELSE "shuffle_end", reset)
  \/ Pass("compute_begin", "compute_end", reset)
  \/ Pass("compute_end", IF compute_complete THEN "finish" ELSE "compute_end", reset)
  \/ Pass("finish", "finish", reset)
=============================================================================
