------------------------------- MODULE MCSync -------------------------------
(* Locks and the scheduler, explored side by side: Init fixes the kind.  The *)
(* variables of the components that do not run keep their initial values.    *)
(*   "rw"      the reader-writer lock; every task may make every call, so    *)
(*             the tasks are interchangeable                                 *)
(*   "ticket", "single"   a spinlock shared by tasks and interrupt handlers  *)
(*   "sched"   the scheduler                                                 *)
EXTENDS RwLock, TicketSpinLock, SingleSpinLock, Scheduler, TLC

VARIABLE kind

SyncInit ==
    /\ kind \in {"rw", "ticket", "single", "sched"}
    /\ Init /\ TicketInit /\ SingleInit /\ SchedInit
    /\ kind # "sched" => known_executor[Boot] = CHOOSE e \in Executors : TRUE

\* Nobody gets a poisoned ticket lock.  On the reader-writer lock all tasks may
\* end up asleep, after the lost wake-up that RwLockLostWake.cfg exhibits.
Stop == kind = "rw" \/ (kind = "ticket" /\ poisoned)

SyncNext ==
    /\ \/ kind = "rw" /\ Next /\ UNCHANGED <<ivars, tvars, lvars, schedVars>>
       \/ kind = "ticket" /\ TicketNext /\ UNCHANGED <<vars, lvars, schedVars>>
       \/ kind = "single" /\ SingleNext /\ UNCHANGED <<vars, tvars, schedVars>>
       \/ kind = "sched" /\ SchedNext /\ UNCHANGED <<vars, ivars, tvars, lvars>>
       \/ Stop /\ UNCHANGED <<vars, ivars, tvars, lvars, schedVars>>
    /\ UNCHANGED kind

SyncSpec == SyncInit /\ [][SyncNext]_<<vars, ivars, tvars, lvars, schedVars, kind>>

Symmetry == Permutations(Tasks)

=============================================================================
