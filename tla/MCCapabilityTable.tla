------------------------- MODULE MCCapabilityTable -------------------------
(* Three processes with one thread each. *)
EXTENDS CapabilityTable, TLC

CONSTANTS ta, tb, tc

ThreeProcesses == (ta :> 1) @@ (tb :> 2) @@ (tc :> 3)

=============================================================================
