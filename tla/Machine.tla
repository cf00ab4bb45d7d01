------------------------------ MODULE Machine -------------------------------
(* What all modules about executors share. *)
CONSTANT Executors      \* the CPUs

=============================================================================
