---------------------------- MODULE FlushRequest ----------------------------
(***************************************************************************)
(* TLB shootdown (memory/core/FlushRequest.zig and its callers unmap and   *)
(* changeProtection in memory/root.zig).  A task that has changed a page   *)
(* table queues a request on every other executor, flushes its own TLB and *)
(* waits until every executor has counted the request down; only then are  *)
(* the pages reused.                                                       *)
(*                                                                         *)
(* A task takes one mapping away, which is named after the task.  While it *)
(* does, an executor may still hold the mapping in its TLB, tasks are      *)
(* switched, and the flush IPI (one pending bit per executor) is delivered *)
(* only where interrupts are enabled.                                      *)
(***************************************************************************)
EXTENDS Optional, Naturals, Sequences, FiniteSets

CONSTANTS
    LastExecutor,   \* the executors are 1 .. LastExecutor
    Requesters,     \* the tasks that take a mapping away
    ContextOf,      \* of a task: its process, or Kernel
    TargetOf,       \* of a task: the process whose mapping it removes, or Kernel
    Disabled,       \* the tasks that do so with interrupts disabled
    Kernel, IdleTask

ASSUME FlushAssumption ==
    /\ LastExecutor \in Nat \ {0}
    /\ IdleTask \notin Requesters /\ None \notin Requesters

VARIABLES
    flush_requests, \* of an executor: the requests it has to action, newest first
    flush_ipi,      \* of an executor: the flush interrupt is pending
    servicing,      \* of an executor: where processFlushRequests was called from
    flushing,       \* of an executor: the request it popped, and how far flush is
    count,          \* of a request
    step, next,     \* of a task; the executor it asks next
    running,        \* of an executor: its current task
    home,           \* of a task: the executor it submits from
    mapped,         \* the mappings still in the page tables
    tlb             \* of an executor: the mappings its TLB holds

qvars == <<flush_requests, flush_ipi, servicing, flushing>>
tvars == <<step, next, home>>
fvars == <<qvars, count, tvars, running, mapped, tlb>>

----------------------------------------------------------------------------

Executors == 1 .. LastExecutor

Context(t) == IF t = IdleTask THEN Kernel ELSE ContextOf[t]

NoFlush == [request |-> None, at |-> "leave"]

\* Steps in which the task may not be moved to another executor.
Submitting == {"submit", "ipi", "leave"}

InterruptsEnabled(e) ==
    /\ servicing[e] = "none"
    /\ running[e] \in Disabled => step[running[e]] \in {"run", "done"}

\* Between two steps of a handler the interrupted task does not go on.
Runs(t, e) == running[e] = t /\ servicing[e] = "none"

FlushInit ==
    /\ flush_requests = [e \in Executors |-> <<>>]
    /\ flush_ipi = [e \in Executors |-> FALSE]
    /\ servicing = [e \in Executors |-> "none"]
    /\ flushing = [e \in Executors |-> NoFlush]
    /\ count = [t \in Requesters |-> 0]
    /\ step = [t \in Requesters |-> "run"]
    /\ next = [t \in Requesters |-> 1]
    /\ home = [t \in Requesters |-> None]
    /\ running = [e \in Executors |-> IdleTask]
    /\ mapped = Requesters
    /\ tlb = [e \in Executors |-> {}]

----------------------------------------------------------------------------
\* What the hardware and the scheduler do meanwhile.

\* A walk of the loaded page tables puts a mapping into the TLB.
Fill(e) ==
    /\ \E m \in mapped \ tlb[e] :
        /\ TargetOf[m] \in {Kernel, Context(running[e])}
        /\ tlb' = [tlb EXCEPT ![e] = @ \cup {m}]
    /\ UNCHANGED <<qvars, count, tvars, running, mapped>>

\* Mutant: a kernel task goes on with the page tables of the task before it.
beforeSwitchTask_lazy(e, new) ==
    IF Context(new) \in {Context(running[e]), Kernel} THEN UNCHANGED tlb
    ELSE tlb' = [tlb EXCEPT ![e] = {m \in @ : TargetOf[m] = Kernel}]

\* Loading other page tables drops what is not the kernel's.
beforeSwitchTask(e, new) ==
    IF Context(running[e]) = Context(new) THEN UNCHANGED tlb
    ELSE tlb' = [tlb EXCEPT ![e] = {m \in @ : TargetOf[m] = Kernel}]

SwitchTask(e) ==
    \E new \in (Requesters \cup {IdleTask}) \ {running[e]} :
        /\ InterruptsEnabled(e)
        /\ new # IdleTask =>
            /\ \A other \in Executors : running[other] # new
            /\ step[new] \in Submitting => home[new] = e
        /\ beforeSwitchTask(e, new)
        /\ running' = [running EXCEPT ![e] = new]
        /\ UNCHANGED <<qvars, count, tvars, mapped>>

----------------------------------------------------------------------------
\* The requester.

\* The page table entry is cleared; the task may be preempted and moved
\* before it submits the request.
unmap(t, e) ==
    /\ Runs(t, e) /\ step[t] = "run"
    /\ mapped' = mapped \ {t}
    /\ step' = [step EXCEPT ![t] = "unmapped"]
    /\ UNCHANGED <<qvars, count, next, home, running, tlb>>

submitAndWait(t, e) ==
    /\ Runs(t, e) /\ step[t] = "unmapped"
    /\ count' = [count EXCEPT ![t] = 1]
    /\ home' = [home EXCEPT ![t] = e]
    /\ next' = [next EXCEPT ![t] = 1]
    /\ step' = [step EXCEPT ![t] = "submit"]
    /\ UNCHANGED <<qvars, running, mapped, tlb>>

\* The loop over the executors.  Nobody but the requester looks at the count,
\* so that it is raised in one step with the prepend that follows.
requestExecutor(t, e) ==
    /\ Runs(t, e) /\ step[t] = "submit" /\ next[t] \in Executors
    /\ IF next[t] = e
       THEN /\ next' = [next EXCEPT ![t] = @ + 1]
            /\ UNCHANGED <<count, flush_requests, step>>
       ELSE /\ count' = [count EXCEPT ![t] = @ + 1]
            /\ flush_requests' = [flush_requests EXCEPT ![next[t]] = <<t>> \o @]
            /\ step' = [step EXCEPT ![t] = "ipi"]
            /\ UNCHANGED next
    /\ UNCHANGED <<flush_ipi, servicing, flushing, home, running, mapped, tlb>>

sendFlushIPI(t, e) ==
    /\ Runs(t, e) /\ step[t] = "ipi"
    /\ flush_ipi' = [flush_ipi EXCEPT ![next[t]] = TRUE]
    /\ next' = [next EXCEPT ![t] = @ + 1]
    /\ step' = [step EXCEPT ![t] = "submit"]
    /\ UNCHANGED <<flush_requests, servicing, flushing, count, home, running, mapped, tlb>>

\* First the body, which leaves the TLB alone when the target's page tables
\* are not the ones loaded, then the deferred decrement.
flush(e, r, at) ==
    \/ /\ at = "enter" /\ UNCHANGED count
       /\ tlb' = IF TargetOf[r] \in {Kernel, Context(running[e])}
                 THEN [tlb EXCEPT ![e] = @ \ {r}] ELSE tlb
    \/ /\ at = "leave" /\ UNCHANGED tlb
       /\ count' = [count EXCEPT ![r] = @ - 1]

FlushOwn(t, e) ==
    /\ Runs(t, e)
    /\ \/ /\ step[t] = "submit" /\ next[t] \notin Executors
          /\ flush(e, t, "enter") /\ step' = [step EXCEPT ![t] = "leave"]
       \/ /\ step[t] = "leave"
          /\ flush(e, t, "leave") /\ step' = [step EXCEPT ![t] = "wait"]
    /\ UNCHANGED <<qvars, next, home, running, mapped>>

\* The wait: with interrupts disabled the task serves its executor itself.
Wait(t, e) ==
    /\ Runs(t, e) /\ step[t] = "wait"
    /\ IF count[t] = 0
       THEN step' = [step EXCEPT ![t] = "done"] /\ UNCHANGED servicing
       ELSE /\ t \in Disabled /\ UNCHANGED step
            /\ servicing' = [servicing EXCEPT ![e] = "poll"]
    /\ UNCHANGED <<flush_requests, flush_ipi, flushing, count, next, home, running, mapped, tlb>>

----------------------------------------------------------------------------
\* An executor that serves requests.

Interrupt(e) ==
    /\ flush_ipi[e] /\ InterruptsEnabled(e)
    /\ flush_ipi' = [flush_ipi EXCEPT ![e] = FALSE]
    /\ servicing' = [servicing EXCEPT ![e] = "interrupt"]
    /\ UNCHANGED <<flush_requests, flushing, count, tvars, running, mapped, tlb>>

popFirst(e) ==
    /\ servicing[e] # "none" /\ flushing[e] = NoFlush /\ flush_requests[e] # <<>>
    /\ flushing' = [flushing EXCEPT ![e] = [request |-> Head(flush_requests[e]), at |-> "enter"]]
    /\ flush_requests' = [flush_requests EXCEPT ![e] = Tail(@)]
    /\ UNCHANGED <<flush_ipi, servicing, count, tvars, running, mapped, tlb>>

FlushPopped(e) ==
    /\ flushing[e] # NoFlush
    /\ flush(e, flushing[e].request, flushing[e].at)
    /\ flushing' = [flushing EXCEPT ![e] =
                        IF @.at = "enter" THEN [@ EXCEPT !.at = "leave"] ELSE NoFlush]
    /\ UNCHANGED <<flush_requests, flush_ipi, servicing, tvars, running, mapped>>

\* Mutant: one request is served per interrupt.
Return_single(e) ==
    /\ servicing[e] # "none" /\ flushing[e] = NoFlush
    /\ servicing' = [servicing EXCEPT ![e] = "none"]
    /\ UNCHANGED <<flush_requests, flush_ipi, flushing, count, tvars, running, mapped, tlb>>

\* processFlushRequests returns when the list is empty.
Return(e) ==
    /\ servicing[e] # "none" /\ flushing[e] = NoFlush /\ flush_requests[e] = <<>>
    /\ servicing' = [servicing EXCEPT ![e] = "none"]
    /\ UNCHANGED <<flush_requests, flush_ipi, flushing, count, tvars, running, mapped, tlb>>

Run(t, e) ==
    \/ unmap(t, e) \/ submitAndWait(t, e)
    \/ requestExecutor(t, e) \/ sendFlushIPI(t, e)
    \/ FlushOwn(t, e) \/ Wait(t, e)

processFlushRequests(e) ==
    \/ Interrupt(e) \/ popFirst(e) \/ FlushPopped(e) \/ Return(e)

FlushNext ==
    \E e \in Executors :
        \/ Fill(e) \/ SwitchTask(e) \/ processFlushRequests(e)
        \/ \E t \in Requesters : Run(t, e)

FlushSpec == FlushInit /\ [][FlushNext]_fvars

----------------------------------------------------------------------------

\* When submitAndWait has returned and the pages behind a mapping may be given
\* to somebody else, no executor's TLB holds the mapping: wherever the tasks of
\* the target were switched to, and although an executor that runs another
\* process counts the request down without flushing anything.
NoStaleTranslation ==
    \A t \in Requesters : step[t] = "done" => \A e \in Executors : t \notin tlb[e]

\* A request is counted once for every executor that has yet to serve it, and
\* lives (on its requester's stack) until the last of them has.  An executor
\* with requests in its list has the interrupt pending, is serving them, or is
\* about to be sent the interrupt, although IPIs that find one pending merge.
RequestsServed ==
    /\ \A t \in Requesters :
        LET queuedAt == {e \in Executors : \E i \in DOMAIN flush_requests[e] :
                                                flush_requests[e][i] = t}
            servedAt == {e \in Executors : flushing[e].request = t}
            own == IF step[t] \in Submitting THEN 1 ELSE 0
        IN  /\ count[t] = own + Cardinality(queuedAt) + Cardinality(servedAt)
            /\ step[t] = "done" => count[t] = 0
    /\ \A e \in Executors :
        flush_requests[e] # <<>> =>
            \/ flush_ipi[e] \/ servicing[e] # "none"
            \/ \E t \in Requesters : step[t] = "ipi" /\ next[t] = e

=============================================================================
