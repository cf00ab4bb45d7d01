----------------------------- MODULE Interrupts -----------------------------
(***************************************************************************)
(* Execution contexts of the kernel as the spinlocks see them.  Every      *)
(* executor runs a task, and an interrupt handler may run on top of it     *)
(* whenever the task's interrupts are enabled (task/Current.zig).  While   *)
(* the handler runs the task below it does not.                            *)
(***************************************************************************)
EXTENDS Machine, Naturals

CONSTANT HandlerLocks   \* the executors whose interrupt handlers take the lock

VARIABLES
    interrupt_disable_count,    \* of the task that is current on each executor
    in_interrupt                \* is the handler running on the executor?

ivars == <<interrupt_disable_count, in_interrupt>>

\* A context is the task or the interrupt handler of an executor.
Contexts == Executors \X {"task", "interrupt"}

ExecutorOf(c) == c[1]

InterruptsInit ==
    /\ interrupt_disable_count = [e \in Executors |-> 0]
    /\ in_interrupt = [e \in Executors |-> FALSE]

InterruptsTypeOK ==
    /\ interrupt_disable_count \in [Executors -> 0..2]
    /\ in_interrupt \in [Executors -> BOOLEAN]

\* The context that executes on its executor right now.
Runs(c) == in_interrupt[c[1]] <=> c[2] = "interrupt"

incrementInterruptDisable(e) ==
    /\ interrupt_disable_count' = [interrupt_disable_count EXCEPT ![e] = @ + 1]
    /\ UNCHANGED in_interrupt

decrementInterruptDisable(e) ==
    /\ interrupt_disable_count' = [interrupt_disable_count EXCEPT ![e] = @ - 1]
    /\ UNCHANGED in_interrupt

\* An interrupt arrives: only while interrupts are enabled.
onInterruptEntry(e) ==
    /\ e \in HandlerLocks
    /\ ~in_interrupt[e]
    /\ interrupt_disable_count[e] = 0
    /\ in_interrupt' = [in_interrupt EXCEPT ![e] = TRUE]
    /\ interrupt_disable_count' = [interrupt_disable_count EXCEPT ![e] = @ + 1]

\* The handler returns; the count it saved on entry was zero.
onInterruptExit(e) ==
    /\ in_interrupt[e]
    /\ in_interrupt' = [in_interrupt EXCEPT ![e] = FALSE]
    /\ interrupt_disable_count' = [interrupt_disable_count EXCEPT ![e] = 0]

=============================================================================
