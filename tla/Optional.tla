------------------------------ MODULE Optional ------------------------------
(* What an optional field or variable of the code holds when it is null: no  *)
(* task, no executor, no object, no deadline.                                *)
CONSTANT None

=============================================================================
