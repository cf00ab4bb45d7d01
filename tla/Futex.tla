------------------------------- MODULE Futex -------------------------------
(***************************************************************************)
(* The kernel's futexes (sync/futex.zig) and sleep queue                   *)
(* (sync/nanosleep.zig), used as the userspace library uses them: a thread *)
(* that completes and its owner, who joins or detaches it                  *)
(* (library/innigkeit/thread.zig), and tasks that wait for a word to       *)
(* change, with or without a timeout, or sleep (library/innigkeit/         *)
(* stdio.zig).  The two words hash to the same bucket.                     *)
(*                                                                         *)
(* A section under the lock of the bucket, or of the sleep queue, is one   *)
(* step: WaitQueue.wait() releases the lock when the task is blocked.      *)
(***************************************************************************)
EXTENDS Optional, Naturals, Sequences, FiniteSets, Functions

CONSTANTS
    Worker,         \* the thread that completes
    Owners,         \* those who hold its handle; the library asks for one
    Sleepers,       \* tasks that wait for the word, or sleep
    Setter,         \* the task that changes the word
    Deadlines,      \* deadlines that sleepers use
    MaxWake,        \* how many tasks one call of the setter's wakes at most
    MaxTime         \* bound on the clock

ASSUME FutexAssumption ==
    /\ Worker # Setter /\ Owners \cap Sleepers = {}
    /\ {Worker, Setter} \cap (Owners \cup Sleepers) = {}
    /\ IsFiniteSet(Owners \cup Sleepers) /\ MaxWake \in Nat

VARIABLES
    task,           \* where each task is, and its futex and sleep fields
    word,           \* the words: the state of the completion, and the other
    allocated,      \* the completion is allocated, and mapped
    queue,          \* the wait queue of the bucket
    sleep_queue,    \* the tasks in nanosleep
    now,            \* uptime_ms
    due             \* the deadline each sleeper was given

futexVars == <<task, word, allocated, queue, sleep_queue, now, due>>

Tasks == {Worker, Setter} \cup Owners \cup Sleepers

\* State of a thread's completion; any two values will do for the other word.
running == "running"
completed == "completed"
detached == "detached"

Task(at) == [at |-> at, futex_addr |-> None, futex_timeout_ms |-> 0, sleep_deadline_ms |-> 0]

\* Owners join, or the only one detaches.
FutexInit ==
    /\ \E start \in [Sleepers -> {"load", "sleep"}], owner \in {"load", "detach"} :
          /\ owner = "detach" => Cardinality(Owners) = 1
          /\ due \in [Sleepers -> Deadlines \cup {None}]
          /\ \A s \in Sleepers : start[s] = "sleep" => due[s] # None
          /\ task = [t \in Tasks |-> Task(CASE t = Worker -> "swap"
                                            [] t = Setter -> "store"
                                            [] t \in Owners -> owner
                                            [] t \in Sleepers -> start[t])]
    /\ word = [completion |-> running, other |-> "old"]
    /\ allocated = TRUE
    /\ queue = <<>> /\ sleep_queue = <<>>
    /\ now = 1

----------------------------------------------------------------------------
(* The kernel *)

FutexGoto(t, from, to) ==
    /\ task[t].at = from
    /\ task' = [task EXCEPT ![t].at = to]

\* What of the completion is not mapped cannot be read.
Holds(addr, expected) ==
    word[addr] = expected /\ (addr = "completion" => allocated)

\* wait() and waitTimeout(); the latter leaves a deadline in the task.
Enqueue(t, addr, deadline_ms) ==
    /\ task' = [task EXCEPT ![t].at = "blocked", ![t].futex_addr = addr,
                            ![t].futex_timeout_ms = deadline_ms]
    /\ queue' = Append(queue, t)

\* Mutant: the word is not looked at again under the lock of the bucket.
waitUnchecked(t, addr, expected, deadline_ms) ==
    /\ task[t].at = "wait"
    /\ Enqueue(t, addr, deadline_ms)

wait(t, addr, expected, deadline_ms) ==
    /\ task[t].at = "wait"
    /\ IF Holds(addr, expected)
       THEN Enqueue(t, addr, deadline_ms)
       ELSE FutexGoto(t, "wait", "load") /\ UNCHANGED queue

\* wait() returns.
Woken(t) ==
    /\ task[t].at = "woken"
    /\ task' = [task EXCEPT ![t] = Task("load")]
    /\ UNCHANGED <<word, allocated, queue, sleep_queue, now, due>>

\* A queue without the tasks in W; the others stay in their order.
Without(q, W) ==
    LET kept[n \in 0 .. Len(q)] ==
            IF n = 0 THEN <<>>
            ELSE IF q[n] \in W THEN kept[n - 1] ELSE Append(kept[n - 1], q[n])
    IN  kept[Len(q)]

\* The tasks that wake() takes from the bucket, in their order.
ToWake(addr, max_wake) ==
    LET waiting == Without(queue, {t \in Tasks : task[t].futex_addr # addr})
    IN  SubSeq(waiting, 1, IF Len(waiting) < max_wake THEN Len(waiting) ELSE max_wake)

\* wakeFromBlocked() of tasks that were taken from the bucket.
WakeFromQueue(woken) ==
    queue' = Without(queue, woken)

\* wake(), after which the caller is at `to'.
wake(t, addr, max_wake, to) ==
    LET woken == Range(ToWake(addr, max_wake)) IN
    /\ WakeFromQueue(woken)
    /\ task' = [u \in Tasks |->
                  IF u \in woken THEN [task[u] EXCEPT !.at = "woken", !.futex_addr = None]
                  ELSE IF u = t THEN [task[u] EXCEPT !.at = to] ELSE task[u]]

\* tick() of futex.zig.
Expired(t) == task[t].futex_timeout_ms # 0 /\ task[t].futex_timeout_ms <= now

futex_tick ==
    LET woken == {t \in Range(queue) : Expired(t)} IN
    /\ woken # {}
    /\ WakeFromQueue(woken)
    /\ task' = [t \in Tasks |->
                  IF t \in woken
                  THEN [task[t] EXCEPT !.at = "woken", !.futex_addr = None, !.futex_timeout_ms = 0]
                  ELSE task[t]]
    /\ UNCHANGED <<word, allocated, sleep_queue, now, due>>

\* tick() of nanosleep.zig.
nanosleep_tick ==
    LET woken == {t \in Range(sleep_queue) : task[t].sleep_deadline_ms <= now} IN
    /\ woken # {}
    /\ sleep_queue' = Without(sleep_queue, woken)
    /\ task' = [t \in Tasks |-> IF t \in woken THEN Task("done") ELSE task[t]]
    /\ UNCHANGED <<word, allocated, queue, now, due>>

Advance ==
    /\ now < MaxTime
    /\ now' = now + 1
    /\ UNCHANGED <<task, word, allocated, queue, sleep_queue, due>>

----------------------------------------------------------------------------
(* A thread and its owner *)

\* entryFn(): the state is swapped; the owner is woken, or was not there.
WorkerSwap ==
    /\ FutexGoto(Worker, "swap", IF word.completion = detached THEN "destroy" ELSE "wake")
    /\ word' = [word EXCEPT !.completion = completed]
    /\ UNCHANGED <<allocated, queue, sleep_queue, now, due>>

WorkerWake ==
    /\ task[Worker].at = "wake"
    /\ wake(Worker, "completion", Cardinality(Tasks), "done")
    /\ UNCHANGED <<word, allocated, sleep_queue, now, due>>

\* Mutant: detach() does not look at the state that it replaces.
DetachStores(t) ==
    /\ FutexGoto(t, "detach", "done")
    /\ word' = [word EXCEPT !.completion = detached]
    /\ UNCHANGED <<allocated, queue, sleep_queue, now, due>>

\* detach()
Detach(t) ==
    /\ FutexGoto(t, "detach", IF word.completion = completed THEN "destroy" ELSE "done")
    /\ word' = [word EXCEPT !.completion = detached]
    /\ UNCHANGED <<allocated, queue, sleep_queue, now, due>>

\* join(): futexWaitUncancelable() loads the word, waits and loads it again.
JoinLoad(t) ==
    /\ FutexGoto(t, "load", IF word.completion = running THEN "wait" ELSE "claim")
    /\ UNCHANGED <<word, allocated, queue, sleep_queue, now, due>>

JoinWait(t) ==
    /\ wait(t, "completion", running, 0)
    /\ UNCHANGED <<word, allocated, sleep_queue, now, due>>

JoinClaim(t) ==
    /\ IF word.completion = completed
       THEN FutexGoto(t, "claim", "destroy") /\ word' = [word EXCEPT !.completion = detached]
       ELSE FutexGoto(t, "claim", "done") /\ UNCHANGED word
    /\ UNCHANGED <<allocated, queue, sleep_queue, now, due>>

Destroy(t) ==
    /\ FutexGoto(t, "destroy", "done")
    /\ allocated' = FALSE
    /\ UNCHANGED <<word, queue, sleep_queue, now, due>>

----------------------------------------------------------------------------
(* Tasks that wait for the other word, and the task that changes it *)

\* futexWait() loads the word and, with a timeout, looks at the clock.
SleeperLoad(t) ==
    /\ FutexGoto(t, "load", CASE word.other # "old" -> "done"
                         [] word.other = "old" /\ due[t] # None -> "clock"
                         [] OTHER -> "wait")
    /\ UNCHANGED <<word, allocated, queue, sleep_queue, now, due>>

SleeperClock(t) ==
    /\ FutexGoto(t, "clock", IF now >= due[t] THEN "done" ELSE "wait")
    /\ UNCHANGED <<word, allocated, queue, sleep_queue, now, due>>

SleeperWait(t) ==
    /\ wait(t, "other", "old", IF due[t] = None THEN 0 ELSE due[t])
    /\ UNCHANGED <<word, allocated, sleep_queue, now, due>>

\* wait() of nanosleep.zig.
SleeperSleep(t) ==
    /\ task[t].at = "sleep"
    /\ IF now >= due[t]
       THEN FutexGoto(t, "sleep", "done") /\ UNCHANGED sleep_queue
       ELSE /\ task' = [task EXCEPT ![t].at = "sleeping", ![t].sleep_deadline_ms = due[t]]
            /\ sleep_queue' = Append(sleep_queue, t)
    /\ UNCHANGED <<word, allocated, queue, now, due>>

\* A program changes the word, and wakes until nobody is left to wake.
SetterStore ==
    /\ FutexGoto(Setter, "store", "wake")
    /\ word' = [word EXCEPT !.other = "new"]
    /\ UNCHANGED <<allocated, queue, sleep_queue, now, due>>

SetterWake ==
    /\ task[Setter].at = "wake"
    /\ wake(Setter, "other", MaxWake, IF Len(ToWake("other", MaxWake)) = MaxWake THEN "wake" ELSE "done")
    /\ UNCHANGED <<word, allocated, sleep_queue, now, due>>

----------------------------------------------------------------------------

Run(t) ==
    \/ t \in Owners \cup Sleepers /\ Woken(t)
    \/ t \in Owners /\ (Detach(t) \/ JoinLoad(t) \/ JoinWait(t) \/ JoinClaim(t) \/ Destroy(t))
    \/ t \in Sleepers /\ (SleeperLoad(t) \/ SleeperClock(t) \/ SleeperWait(t) \/ SleeperSleep(t))
    \/ t = Worker /\ (WorkerSwap \/ WorkerWake \/ Destroy(Worker))
    \/ t = Setter /\ (SetterStore \/ SetterWake)

FutexNext ==
    \/ \E t \in Tasks : Run(t)
    \/ futex_tick \/ nanosleep_tick \/ Advance

FutexSpec == FutexInit /\ [][FutexNext]_futexVars

\* Tasks that can run do, the clock goes on, and each executor ticks.
Fairness ==
    /\ \A t \in Tasks : WF_futexVars(Run(t))
    /\ WF_futexVars(futex_tick) /\ WF_futexVars(nanosleep_tick) /\ WF_futexVars(Advance)

FutexFairSpec == FutexSpec /\ Fairness

----------------------------------------------------------------------------
(* Properties *)

\* The record of a thread's completion is not used when it was freed, it is
\* freed once, and it is freed when thread and owner are done; the address
\* that the thread gives to futex_wake is not read.
InstanceFreedOnce ==
    /\ \A t \in Owners \cup {Worker} :
          task[t].at \in {"swap", "detach", "load", "claim", "destroy"} => allocated
    /\ Cardinality({t \in Owners \cup {Worker} : task[t].at = "destroy"}) <= 1
    /\ (\A t \in Owners \cup {Worker} : task[t].at = "done") => ~allocated

\* Joins return, waits end when the word changes or the time has come, and
\* so do sleeps.
FutexReturns == \A t \in Tasks : <>(task[t].at = "done")

============================================================================
