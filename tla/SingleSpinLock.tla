--------------------------- MODULE SingleSpinLock ---------------------------
(***************************************************************************)
(* The unfair spinlock (sync/SingleSpinLock.zig) that protects each        *)
(* executor's scheduler.  It is owned by an executor, and interrupts are   *)
(* disabled before the first attempt to take it.                           *)
(***************************************************************************)
EXTENDS Interrupts, Optional

\* The holder says which executor, or that there is none.
ASSUME HolderAssumption == None \notin Executors

VARIABLES
    single_holder,
    single_pc

lvars == <<single_holder, single_pc>>
singleVars == <<lvars, ivars>>

SingleInit ==
    /\ InterruptsInit
    /\ single_holder = None
    /\ single_pc = [c \in Contexts |-> "idle"]

SingleGoto(c, from, to) ==
    /\ Runs(c)
    /\ single_pc[c] = from
    /\ single_pc' = [single_pc EXCEPT ![c] = to]

\* lock() and tryLock() begin by disabling interrupts.
Disable(c) ==
    /\ SingleGoto(c, "idle", "cas") \/ SingleGoto(c, "idle", "try")
    /\ incrementInterruptDisable(ExecutorOf(c))
    /\ UNCHANGED single_holder

\* The first exchange of lock(); a failure by the executor itself would panic
\* (NotRecursive), any other starts the polling loop.
FirstCas(c) ==
    /\ \/ /\ SingleGoto(c, "cas", "held")
          /\ single_holder = None
          /\ single_holder' = ExecutorOf(c)
       \/ /\ SingleGoto(c, "cas", "spin")
          /\ single_holder \notin {None, ExecutorOf(c)}
          /\ UNCHANGED single_holder
    /\ UNCHANGED ivars

\* Mutant: after the poll saw the lock free, it is taken by a plain store.
PollCasStores(c) ==
    /\ SingleGoto(c, "spin", "held")
    /\ single_holder' = ExecutorOf(c)
    /\ UNCHANGED ivars

\* The polling loop ends with an exchange that finds the lock free.  Polls
\* and (weak) exchanges that fail leave everything as it is.
PollCas(c) ==
    /\ SingleGoto(c, "spin", "held")
    /\ single_holder = None
    /\ single_holder' = ExecutorOf(c)
    /\ UNCHANGED ivars

TryCas(c) ==
    /\ \/ /\ SingleGoto(c, "try", "held")
          /\ single_holder = None
          /\ single_holder' = ExecutorOf(c)
       \/ /\ SingleGoto(c, "try", "failed")
          /\ single_holder \notin {None, ExecutorOf(c)}
          /\ UNCHANGED single_holder
    /\ UNCHANGED ivars

\* unlock(): release, then enable interrupts.
SingleUnlock(c) ==
    /\ SingleGoto(c, "held", "released")
    /\ single_holder' = None
    /\ UNCHANGED ivars

Enable(c) ==
    /\ SingleGoto(c, "released", "idle") \/ SingleGoto(c, "failed", "idle")
    /\ decrementInterruptDisable(ExecutorOf(c))
    /\ UNCHANGED single_holder

SingleEntry(e) == onInterruptEntry(e) /\ UNCHANGED lvars

SingleExit(e) ==
    /\ single_pc[<<e, "interrupt">>] = "idle"
    /\ onInterruptExit(e)
    /\ UNCHANGED lvars

SingleStep(c) == FirstCas(c) \/ PollCas(c) \/ TryCas(c) \/ SingleUnlock(c) \/ Enable(c)

SingleNext ==
    \/ \E c \in Contexts : Disable(c) \/ SingleStep(c)
    \/ \E e \in Executors : SingleEntry(e) \/ SingleExit(e)

SingleSpec == SingleInit /\ [][SingleNext]_singleVars

----------------------------------------------------------------------------
(* Properties *)

\* The lock is exclusive between contexts, not only between executors: a
\* handler never shares it with the task it interrupted.
SingleExclusion ==
    \A c, d \in Contexts : single_pc[c] = "held" /\ single_pc[d] = "held" => c = d

\* The "recursive lock!" panics cannot fire: a context that tries to take the
\* lock never finds it held by its own executor, because no handler runs
\* while the task below it holds the lock.
NotRecursive ==
    \A c \in Contexts :
        Runs(c) /\ single_pc[c] \in {"cas", "spin", "try"} => single_holder # ExecutorOf(c)

\* Exclusive and never recursive, whichever contexts share an executor.
SingleLockSound == SingleExclusion /\ NotRecursive

=============================================================================
