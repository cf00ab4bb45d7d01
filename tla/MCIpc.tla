------------------------------- MODULE MCIpc -------------------------------
(* An endpoint with its reply capabilities, or a notification, side by side. *)
EXTENDS Endpoint, Notify

VARIABLE kind

IpcInit == Init /\ NotifyInit /\ kind \in {"endpoint", "notify"}

IpcNext ==
    /\ \/ kind = "endpoint" /\ Next /\ UNCHANGED notifyVars
       \/ kind = "notify" /\ NotifyNext /\ UNCHANGED vars
    /\ UNCHANGED kind

IpcSpec == IpcInit /\ [][IpcNext]_<<vars, notifyVars, kind>> /\ Fairness

=============================================================================
