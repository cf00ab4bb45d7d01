------------------------------ MODULE MCSleep ------------------------------
(* A parker, or futexes and the sleep queue, side by side: the one that does *)
(* not run keeps its initial state.                                          *)
EXTENDS Parker, Futex

VARIABLE kind

FutexDone == \A t \in Tasks : task[t].at = "done"

SleepInit == Init /\ FutexInit /\ kind \in {"parker", "futex"}

SleepNext ==
    /\ \/ kind = "parker" /\ Next /\ UNCHANGED futexVars
       \/ kind = "futex" /\ FutexNext /\ UNCHANGED vars
       \/ kind = "futex" /\ FutexDone /\ UNCHANGED <<vars, futexVars>>
    /\ UNCHANGED kind

\* Each component is scheduled fairly when it is the one that runs.
SleepSpec ==
    /\ SleepInit /\ [][SleepNext]_<<vars, futexVars, kind>>
    /\ SF_vars(kind = "parker" /\ Park) /\ WF_vars(kind = "parker" /\ Dispatch)
    /\ \A u \in Unparkers : SF_vars(kind = "parker" /\ Unpark(u))
    /\ \A t \in Tasks : WF_futexVars(kind = "futex" /\ Run(t))
    /\ WF_futexVars(kind = "futex" /\ futex_tick)
    /\ WF_futexVars(kind = "futex" /\ nanosleep_tick)
    /\ WF_futexVars(kind = "futex" /\ Advance)

\* Joins, waits and sleeps all return.
WaitsReturn == kind = "futex" => FutexReturns

=============================================================================
