------------------------------- MODULE RwLock -------------------------------
(***************************************************************************)
(* The reader-writer lock (sync/RwLock.zig).  One word holds a writing     *)
(* bit, the number of pending writers and the number of readers; writers   *)
(* serialise on a Mutex and sleep on a wait queue until the readers have   *)
(* left.  The Mutex is FairLock, which MutexProofs shows it to implement.  *)
(*                                                                         *)
(* One action is one access to the word or to the mutex.  The wait queue   *)
(* is only touched under its spinlock, so queueing a writer (which also    *)
(* blocks it) and waking one are one action each.                          *)
(***************************************************************************)
EXTENDS Optional, Naturals, Sequences, FiniteSets

CONSTANTS
    Tasks,
    Writers,    \* the tasks that call writeLock()
    Unlockers,  \* the tasks that end a read lock with readUnlock()
    Upgraders,  \* the tasks that end a read lock with tryUpgradeLock()
    CountSize   \* the values of one of the two counters (2^31 on a 64-bit machine)

\* A counter has room for every task, and the owner of the mutex may be nobody.
ASSUME CountAssumption ==
    /\ IsFiniteSet(Tasks) /\ None \notin Tasks
    /\ CountSize \in Nat /\ Cardinality(Tasks) < CountSize

VARIABLES
    state,          \* the packed word
    mutex, mutex_queue,     \* owner and waiters of RwLock.mutex
    wait_queue,     \* writers that sleep until the readers have left
    seen,           \* the value of state a task read last
    pc

vars == <<state, mutex, mutex_queue, wait_queue, seen, pc>>

----------------------------------------------------------------------------
(* The packed word *)

IS_WRITING == 1
WRITER     == 2
READER     == 2 * CountSize
WordSize   == READER * CountSize

IsWriting(s) == s % 2 = 1
PendingWriters(s) == (s % READER) \div WRITER
ReaderCount(s) == s \div READER

\* No writer, writing or pending: the readers' fast path.
Open(s) == s % READER = 0

Plus(s, x) == (s + x) % WordSize
Minus(s, x) == (s + WordSize - x) % WordSize

\* The step of writeLock() and tryUpgradeLock() from pending to writing: it
\* adds IS_WRITING - WRITER in one wrapping addition.
BecomeWriting(s) == Minus(Plus(s, IS_WRITING), WRITER)

----------------------------------------------------------------------------

Mutex == INSTANCE FairLock WITH owner <- mutex, queue <- mutex_queue

Pcs ==
    {"idle", "reading", "writing", "rcas", "rlock", "rwait", "radd", "runlock", "rwake",
     "trcas", "trlock", "wlock", "wwait", "wset", "wenqueue", "asleep", "wrelease",
     "twload", "twcas", "twunlock", "utry", "usub", "uset", "uback", "udrop"}

\* The word stays within its width and no task is queued twice.
TypeOK ==
    /\ state \in 0..(WordSize - 1)
    /\ mutex \in Tasks \cup {None}
    /\ mutex_queue \in Seq(Tasks)
    /\ wait_queue \in Seq(Tasks) /\ Len(wait_queue) <= 1
    /\ seen \in [Tasks -> 0..(WordSize - 1)]
    /\ pc \in [Tasks -> Pcs]

Init ==
    /\ state = 0
    /\ mutex = None /\ mutex_queue = <<>>
    /\ wait_queue = <<>>
    /\ seen = [t \in Tasks |-> 0]
    /\ pc = [t \in Tasks |-> "idle"]

Goto(t, from, to) == pc[t] = from /\ pc' = [pc EXCEPT ![t] = to]

mvars == <<mutex, mutex_queue>>

Load(t, from, to) ==
    /\ Goto(t, from, to)
    /\ seen' = [seen EXCEPT ![t] = state]
    /\ UNCHANGED <<state, mvars, wait_queue>>

\* One atomic operation on the word, which becomes s.
Rmw(t, from, to, s) ==
    /\ Goto(t, from, to)
    /\ state' = s
    /\ UNCHANGED <<mvars, wait_queue, seen>>

\* mutex.lock(): at once, or after waiting in the mutex's queue.
LockMutex(t, from, wait, to) ==
    /\ \/ Goto(t, from, to) /\ Mutex!Acquire(t)
       \/ Goto(t, from, wait) /\ Mutex!Wait(t)
       \/ Goto(t, wait, to) /\ mutex = t /\ UNCHANGED mvars
    /\ UNCHANGED <<state, wait_queue, seen>>

TryMutex(t, from, locked, failed) ==
    /\ \/ Goto(t, from, locked) /\ Mutex!Acquire(t)
       \/ Goto(t, from, failed) /\ mutex # None /\ UNCHANGED mvars
    /\ UNCHANGED <<state, wait_queue, seen>>

UnlockMutex(t, from, to) ==
    /\ Goto(t, from, to)
    /\ Mutex!Release(t)
    /\ UNCHANGED <<state, wait_queue, seen>>

----------------------------------------------------------------------------
(* Readers *)

\* readLock() and tryReadLock() read the word, exchange it when it is open and
\* fall back to the mutex otherwise.  readLock()'s exchange is weak and is
\* retried with the value it returned.
ReadLoad(t) ==
    \/ Open(state) /\ (Load(t, "idle", "rcas") \/ Load(t, "idle", "trcas"))
    \/ ~Open(state) /\ (Load(t, "idle", "rlock") \/ Load(t, "idle", "trlock"))

ReadCas(t) ==
    \/ state = seen[t] /\ Rmw(t, "rcas", "reading", Plus(state, READER))
    \/ state = seen[t] /\ Rmw(t, "trcas", "reading", Plus(state, READER))
    \/ state # seen[t] /\ Open(state) /\ Load(t, "rcas", "rcas")
    \/ state # seen[t] /\ ~Open(state) /\ Load(t, "rcas", "rlock")
    \/ state # seen[t] /\ Load(t, "trcas", "trlock")

ReadLockMutex(t) == LockMutex(t, "rlock", "rwait", "radd")

\* Mutant: the result of mutex.tryLock() is ignored.
TryReadNoMutex(t) ==
    Goto(t, "trlock", "radd") /\ UNCHANGED <<state, mvars, wait_queue, seen>>

TryReadMutex(t) == TryMutex(t, "trlock", "radd", "idle")
ReadAdd(t) == Rmw(t, "radd", "runlock", Plus(state, READER))
ReadUnlockMutex(t) == UnlockMutex(t, "runlock", "reading")

\* readUnlock(): the last reader wakes a writer that has announced itself.
readUnlock(t) ==
    /\ t \in Unlockers
    /\ Rmw(t, "reading",
           IF ReaderCount(state) = 1 /\ IsWriting(state) THEN "rwake" ELSE "idle",
           Minus(state, READER))

\* wakeOne() under the wait queue's spinlock.
WakeWriter(t) ==
    /\ \/ /\ wait_queue = <<>>
          /\ Goto(t, "rwake", "idle")
          /\ UNCHANGED wait_queue
       \/ /\ wait_queue # <<>>
          /\ pc[t] = "rwake"
          /\ pc' = [pc EXCEPT ![t] = "idle", ![Head(wait_queue)] = "writing"]
          /\ wait_queue' = Tail(wait_queue)
    /\ UNCHANGED <<state, mvars, seen>>

----------------------------------------------------------------------------
(* Writers *)

WriteAdd(t) == t \in Writers /\ Rmw(t, "idle", "wlock", Plus(state, WRITER))
WriteLockMutex(t) == LockMutex(t, "wlock", "wwait", "wset")

\* Mutant: writeLock() does not wait for the readers.
WriteSetAtOnce(t) == Rmw(t, "wset", "writing", BecomeWriting(state))

WriteSet(t) ==
    Rmw(t, "wset", IF ReaderCount(state) # 0 THEN "wenqueue" ELSE "writing", BecomeWriting(state))

\* wait_queue.wait(): the writer sleeps, whatever the readers did meanwhile.
WriteEnqueue(t) ==
    /\ Goto(t, "wenqueue", "asleep")
    /\ wait_queue' = Append(wait_queue, t)
    /\ UNCHANGED <<state, mvars, seen>>

WriteClear(t) ==
    Rmw(t, "writing", "wrelease", IF IsWriting(state) THEN Minus(state, IS_WRITING) ELSE state)

WriteRelease(t) == UnlockMutex(t, "wrelease", "idle")

\* tryWriteLock()
TryWriteMutex(t) == TryMutex(t, "idle", "twload", "idle")

TryWriteLoad(t) ==
    \/ ReaderCount(state) = 0 /\ Load(t, "twload", "twcas")
    \/ ReaderCount(state) # 0 /\ Load(t, "twload", "twunlock")

TryWriteCas(t) ==
    \/ state = seen[t] /\ Rmw(t, "twcas", "writing", Plus(state, IS_WRITING))
    \/ state # seen[t] /\ Load(t, "twcas", "twload")

TryWriteUnlock(t) == UnlockMutex(t, "twunlock", "idle")

----------------------------------------------------------------------------
(* tryUpgradeLock() *)

UpgradeAdd(t) == t \in Upgraders /\ Rmw(t, "reading", "utry", Plus(state, WRITER))
UpgradeMutex(t) == TryMutex(t, "utry", "usub", "udrop")

UpgradeSub(t) ==
    Rmw(t, "usub", IF ReaderCount(state) = 1 THEN "uset" ELSE "uback", Minus(state, READER))

UpgradeSet(t) == Rmw(t, "uset", "writing", BecomeWriting(state))

\* Other readers are left: give up being a pending writer, then the mutex.
UpgradeBack(t) == Rmw(t, "uback", "twunlock", Minus(state, WRITER))

\* Mutant: the pending writer of a failed upgrade stays counted.
UpgradeLeak(t) == Rmw(t, "udrop", "idle", Minus(state, READER))

\* The mutex is taken: drop the read lock and the pending writer.
UpgradeDrop(t) == Rmw(t, "udrop", "idle", Minus(state, READER + WRITER))

----------------------------------------------------------------------------

Start(t) == ReadLoad(t) \/ WriteAdd(t) \/ TryWriteMutex(t)

Step(t) ==
    \/ ReadCas(t) \/ ReadLockMutex(t) \/ TryReadMutex(t) \/ ReadAdd(t) \/ ReadUnlockMutex(t)
    \/ readUnlock(t) \/ WakeWriter(t)
    \/ WriteLockMutex(t) \/ WriteSet(t) \/ WriteEnqueue(t) \/ WriteClear(t) \/ WriteRelease(t)
    \/ TryWriteLoad(t) \/ TryWriteCas(t) \/ TryWriteUnlock(t)
    \/ UpgradeAdd(t) \/ UpgradeMutex(t) \/ UpgradeSub(t) \/ UpgradeSet(t) \/ UpgradeBack(t)
    \/ UpgradeDrop(t)

Next == \E t \in Tasks : Start(t) \/ Step(t)

Spec == Init /\ [][Next]_vars

\* A task inside the lock keeps running, and gives the lock back.
FairSpec == Spec /\ \A t \in Tasks : WF_vars(Step(t))

----------------------------------------------------------------------------
(* Properties *)

\* The tasks whose read lock, and whose pending write, the word counts.
Reading == {t \in Tasks : pc[t] \in {"runlock", "reading", "utry", "usub", "udrop"}}
Pending == {t \in Tasks : pc[t] \in {"wlock", "wwait", "wset", "utry", "usub", "uset", "uback", "udrop"}}

\* A writer is alone: whichever way it got the lock, no reader and no other
\* writer has it too.
WriterIsAlone ==
    \A t \in Tasks : pc[t] = "writing" =>
        Reading = {} /\ \A u \in Tasks \ {t} : pc[u] # "writing"

\* The word says who has the lock: no path through the lock, the upgrade or a
\* failed attempt leaks or loses a reader or a pending writer, and adding
\* IS_WRITING never carries into the count next to it.
WordIsExact ==
    /\ TypeOK
    /\ ReaderCount(state) = Cardinality(Reading)
    /\ PendingWriters(state) = Cardinality(Pending)
    /\ IsWriting(state) <=>
          \E t \in Tasks : pc[t] \in {"wenqueue", "asleep", "writing"}

\* Only the task that owns the mutex sets the writing bit, so at most one
\* writer waits for the readers.
WritersSerialised ==
    \A t \in Tasks :
        pc[t] \in {"wset", "wenqueue", "asleep", "writing", "wrelease", "twload", "twcas",
                   "twunlock", "usub", "uset", "uback", "radd", "runlock"} => mutex = t

\* A writer is alone, whatever mix of upgrades, attempts and waiting led to it;
\* the packed word says exactly who reads, writes and waits; and the mutex is
\* held wherever the code relies on it.
WritersExclude == WriterIsAlone /\ WordIsExact /\ WritersSerialised

\* A writer that waits for the readers gets the lock once they have left.
WriterReturns == \A t \in Tasks : pc[t] = "wset" ~> pc[t] = "writing"

=============================================================================
