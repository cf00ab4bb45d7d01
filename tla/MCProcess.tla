----------------------------- MODULE MCProcess -----------------------------
(* Process with the exit statuses 0 and 1, as the bits they set, and the    *)
(* status of process_kill.                                                  *)
EXTENDS Process
MCStatuses == {{}, {"one"}}
MCKill == {"sigint"}
============================================================================
