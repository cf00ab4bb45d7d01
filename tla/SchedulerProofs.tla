-------------------------- MODULE SchedulerProofs --------------------------
(***************************************************************************)
(* The scheduler, for any number of executors and tasks: a runnable task   *)
(* is in exactly one place, no assertion of the scheduler fires, and a     *)
(* halted executor with work has an interrupt coming.                      *)
(***************************************************************************)
EXTENDS Scheduler, TLAPS

----------------------------------------------------------------------------
(* The inductive invariant *)

Yielding == {"put", "pick", "resume"}
Leaving == {"block", "exit"}
Placing == {"enlock", "enspin", "enqueue"}
Targeting == {"enlock", "enspin", "enqueue", "enunlock", "kick"}
Aiming == {"trysteal", "steal", "giveup", "stolen"}
Carrying == {"stolen", "relock", "readd"}
Asleep == {"sleep", "prehalt", "halted", "awake"}

SchedTypes ==
    /\ lock \in [Executors -> Executors \cup {None}]
    /\ queue \in [Executors -> SUBSET SchedTasks]
    /\ current_task \in [Executors -> Actors]
    /\ idle \in [Executors -> BOOLEAN] /\ ipi \in [Executors -> BOOLEAN]
    /\ missed \in [Executors -> BOOLEAN]
    /\ task_state \in [SchedTasks -> {"new", "ready", "running", "blocked", "terminated"}]
    /\ stealable \in [SchedTasks -> BOOLEAN]
    /\ known_executor \in [SchedTasks -> Executors \cup {None}]
    /\ handle \in [SchedTasks -> Executors \cup {None}]
    /\ sched_pc \in [Actors -> TaskPcs \cup IdlePcs]
    /\ \A t \in SchedTasks : sched_pc[t] \in TaskPcs
    /\ \A e \in Executors : sched_pc[e] \in IdlePcs
    /\ ret \in [SchedTasks -> {"run", "enlock", "kick"}]
    /\ task \in [Actors -> SchedTasks \cup {None}]
    /\ target \in [Actors -> Executors \cup {None}]

\* Where a task's wake-up stands: a tick may have put it into yield() meanwhile.
At(t) == IF sched_pc[t] \in Yielding THEN ret[t] ELSE sched_pc[t]

\* An actor has a task or an executor in hand only where its code does, and the
\* scheduler task of an executor is at the top of its loop while another runs.
HandInv ==
    /\ \A t \in SchedTasks :
          /\ ret[t] # "run" => sched_pc[t] \in Yielding
          /\ task[t] # None <=> At(t) \in Placing
          /\ target[t] # None <=> At(t) \in Targeting
    /\ \A e \in Executors :
          /\ current_task[e] # e => sched_pc[e] = "loop" /\ current_task[e] \in SchedTasks
          /\ sched_pc[e] \in Carrying => task[e] # None
          /\ task[e] # None => sched_pc[e] \in Carrying \cup {"defer"}
          /\ target[e] # None <=> sched_pc[e] \in Aiming

\* The scheduler lock that an executor holds, read off where the actor that
\* runs on it is.
OwnLock == {"put", "pick", "resume", "rederive", "block", "exit", "next", "leave", "defer", "readd",
            "reunlock", "check", "sleep"}
TargetLock == {"enqueue", "enunlock", "steal", "giveup", "stolen"}

ClaimAt(e, p, x) == IF p \in OwnLock THEN e ELSE IF p \in TargetLock THEN x ELSE None

Claims(e) == ClaimAt(e, sched_pc[current_task[e]], target[current_task[e]])

LockInv == \A x, e \in Executors : lock[x] = e <=> Claims(e) = x

\* Where a task in each state is in its code.
StateOk(t) ==
    /\ task_state[t] \in {"new", "blocked", "terminated"} => sched_pc[t] = "rederive"
    /\ task_state[t] = "new" => known_executor[t] = None
    /\ task_state[t] = "ready" => sched_pc[t] \in {"pick", "resume", "rederive"}
    /\ task_state[t] = "running" => sched_pc[t] # "pick" /\ known_executor[t] # None
    /\ sched_pc[t] # "rederive" => known_executor[t] # None
    /\ sched_pc[t] \in Yielding => handle[t] = known_executor[t]

StateInv == \A t \in SchedTasks : StateOk(t)

\* A task that runs.
OnInv ==
    \A e \in Executors, t \in SchedTasks :
        current_task[e] = t =>
            /\ known_executor[t] = e
            /\ \/ task_state[t] = "running"
               \/ task_state[t] = "ready" /\ sched_pc[t] = "pick" /\ t \in queue[e]

\* A task in a runqueue.  One that is suspended in yield() will unlock the
\* scheduler it came from, so it may not be stolen.
QueuedOk(e, t) ==
    /\ task_state[t] = "ready"
    /\ sched_pc[t] = "pick" => current_task[e] = t /\ ~stealable[t]
    /\ sched_pc[t] = "resume" => known_executor[t] = e /\ ~stealable[t]
    /\ \A x \in Executors : t \in queue[x] => x = e
    /\ \A a \in Actors : task[a] # t
    /\ t \in Pinned /\ known_executor[t] # None => known_executor[t] = e

QueueInv == \A e \in Executors, t \in SchedTasks : t \in queue[e] => QueuedOk(e, t)

\* A task in the hands of a waker, a thief or a deferred action.
HeldOk(a, t) ==
    /\ task_state[t] = "ready" /\ sched_pc[t] # "pick"
    /\ \A b \in Actors : task[b] = t => a = b
    /\ sched_pc[t] = "resume" => sched_pc[a] = "defer" /\ known_executor[t] = a
    /\ t \in Pinned => sched_pc[a] \notin Carrying
    /\ t \in Pinned /\ known_executor[t] # None =>
          \/ a \in Executors /\ known_executor[t] = a
          \/ a \in SchedTasks /\ known_executor[t] = target[a]

ByInv == \A a \in Actors, t \in SchedTasks : task[a] = t => HeldOk(a, t)

\* No runnable task is forgotten.  A running task that runs nowhere was dropped
\* by its executor, which is about to do the deferred action.
PlacedOk(t) ==
    /\ task_state[t] = "ready" =>
          (\E e \in Executors : t \in queue[e]) \/ (\E a \in Actors : task[a] = t)
    /\ task_state[t] = "running" =>
          \/ current_task[known_executor[t]] = t
          \/ sched_pc[t] \in Leaving /\ sched_pc[known_executor[t]] = "defer"
    /\ sched_pc[t] \in Leaving => task_state[t] = "running"
    /\ sched_pc[t] = "pick" => task_state[t] = "ready" /\ current_task[known_executor[t]] = t

SomewhereInv == \A t \in SchedTasks : PlacedOk(t)

\* One task at a time leaves an executor.
DroppedInv ==
    \A t, u \in SchedTasks :
        sched_pc[t] \in Leaving /\ sched_pc[u] \in Leaving /\ known_executor[t] = known_executor[u] =>
            t = u

\* An executor that is about to halt has said so, and what is queued on it after
\* its last look comes with an interrupt.
Waking(e, t) == target[t] = e /\ (sched_pc[t] \in {"enunlock", "kick"} \/ ret[t] = "kick")

HaltOk(e) ==
    /\ sched_pc[e] \in Asleep => idle[e]
    /\ sched_pc[e] = "sleep" => queue[e] = {}
    /\ sched_pc[e] \in {"prehalt", "halted"} /\ queue[e] # {} =>
          ipi[e] \/ missed[e] \/ \E t \in SchedTasks : Waking(e, t)

IdleInv == \A e \in Executors : HaltOk(e)

SchedInv ==
    /\ SchedTypes /\ HandInv /\ LockInv /\ StateInv /\ OnInv /\ QueueInv /\ ByInv
    /\ SomewhereInv /\ DroppedInv /\ IdleInv

----------------------------------------------------------------------------
(* Facts that many steps need *)

\* Tasks and executors are told apart.
LEMMA ActorFacts ==
    /\ SchedTasks \subseteq Actors /\ Executors \subseteq Actors
    /\ \A t \in SchedTasks : t \notin Executors /\ t # None
    /\ \A e \in Executors : e \notin SchedTasks /\ e # None
  BY TaskAssumption, Zenon DEF Actors

\* The actors that run on two executors are different ones.
LEMMA Apart ==
    ASSUME SchedInv, NEW e \in Executors, NEW f \in Executors, e # f
    PROVE  /\ current_task[f] # current_task[e] /\ current_task[f] # e
           /\ \A t \in SchedTasks : current_task[f] = t => known_executor[t] = f
  BY ActorFacts DEF SchedInv, HandInv, OnInv

\* The task that runs on an executor is running, unless it is yielding.
LEMMA RunnerFacts ==
    ASSUME SchedInv, NEW e \in Executors, NEW t \in SchedTasks, RunsOn(e, t)
    PROVE  /\ known_executor[t] = e /\ sched_pc[e] = "loop" /\ task[e] = None /\ target[e] = None
           /\ sched_pc[t] # "pick" => task_state[t] = "running"
           /\ \A f \in Executors : f # e => current_task[f] # t
  BY ActorFacts, Apart DEF SchedInv, HandInv, OnInv, RunsOn, Carrying, Aiming

\* pickNext() picks from the runqueue.
LEMMA CandidatesQueued ==
    ASSUME NEW e \in Executors, NEW n \in Candidates(e)
    PROVE  n \in queue[e]
  BY Zenon DEF Candidates

\* A step that touches neither locks, nor runqueues, nor tasks.
LEMMA UntouchedInv ==
    ASSUME SchedInv, lock' = lock, queue' = queue, current_task' = current_task,
           task_state' = task_state, stealable' = stealable, known_executor' = known_executor,
           handle' = handle, sched_pc' = sched_pc, ret' = ret, task' = task, target' = target
    PROVE  /\ HandInv' /\ LockInv' /\ StateInv' /\ OnInv' /\ QueueInv' /\ ByInv'
           /\ SomewhereInv' /\ DroppedInv'
<1>1. HandInv'
  <2>1. \A t \in SchedTasks : At(t)' = At(t)
    BY Zenon DEF At
  <2> QED
    BY <2>1, Zenon DEF SchedInv, HandInv
<1>2. LockInv'
  <2>1. \A e \in Executors : Claims(e)' = Claims(e)
    BY Zenon DEF Claims
  <2> QED
    BY <2>1, Zenon DEF SchedInv, LockInv
<1>3. StateInv'
  BY Zenon DEF SchedInv, StateInv, StateOk
<1>4. OnInv'
  BY Zenon DEF SchedInv, OnInv
<1>5. QueueInv'
  BY Zenon DEF SchedInv, QueueInv, QueuedOk
<1>6. ByInv'
  BY DEF SchedInv, ByInv, HeldOk
<1>7. SomewhereInv'
  BY Zenon DEF SchedInv, SomewhereInv, PlacedOk
<1>8. DroppedInv'
  BY Zenon DEF SchedInv, DroppedInv
<1> QED
  BY <1>1, <1>2, <1>3, <1>4, <1>5, <1>6, <1>7, <1>8, Zenon

----------------------------------------------------------------------------
(* Locks: what one executor does to the claims of all *)

LEMMA OthersKeepClaims ==
    ASSUME SchedInv, NEW e \in Executors,
           \A f \in Executors \ {e} :
              /\ current_task'[f] = current_task[f]
              /\ sched_pc'[current_task[f]] = sched_pc[current_task[f]]
              /\ target'[current_task[f]] = target[current_task[f]]
    PROVE  \A f \in Executors \ {e} : Claims(f)' = Claims(f)
  BY Zenon DEF Claims

\* An executor's claim goes from c to d, and it does to the lock what that means.
LockMove(e, c, d) ==
    \/ c = d /\ lock' = lock
    \/ c = None /\ d \in Executors /\ Lock(e, d)
    \/ c \in Executors /\ d = None /\ Unlock(c)

LEMMA LockMoved ==
    ASSUME SchedInv, NEW e \in Executors, LockMove(e, Claims(e), Claims(e)'),
           \A f \in Executors \ {e} : Claims(f)' = Claims(f)
    PROVE  LockInv' /\ lock' \in [Executors -> Executors \cup {None}]
<1>1. /\ lock \in [Executors -> Executors \cup {None}]
      /\ \A x, f \in Executors : lock[x] = f <=> Claims(f) = x
  BY Zenon DEF SchedInv, SchedTypes, LockInv
<1>2. CASE Claims(e) = Claims(e)' /\ lock' = lock
  BY <1>1, <1>2, Zenon DEF LockInv
<1>3. CASE Claims(e) = None /\ Claims(e)' \in Executors /\ Lock(e, Claims(e)')
  BY <1>1, <1>3, ActorFacts DEF LockInv, Lock
<1>4. CASE Claims(e) \in Executors /\ Claims(e)' = None /\ Unlock(Claims(e))
  BY <1>1, <1>4, ActorFacts, Zenon DEF LockInv, Unlock
<1> QED
  BY <1>2, <1>3, <1>4, Zenon DEF LockMove

----------------------------------------------------------------------------
(* Steps of a scheduler task that leave tasks and queues alone *)

\* What such a step of e changes: its pc and its own target.
IdleMove(e, from, to, x) ==
    /\ Sched(e, from, to)
    /\ from \in IdlePcs \ {"defer"} /\ to \in IdlePcs \ {"defer"}
    /\ from \in Carrying <=> to \in Carrying
    /\ x # None <=> to \in Aiming
    /\ x \in Executors \cup {None} /\ target' = [target EXCEPT ![e] = x]
    /\ UNCHANGED <<queueVars, current_task, taskVars, ret, task>>

LEMMA IdleMoveKeeps ==
    ASSUME SchedInv, NEW e \in Executors, NEW from, NEW to, NEW x, IdleMove(e, from, to, x)
    PROVE  /\ HandInv' /\ StateInv' /\ OnInv' /\ QueueInv' /\ ByInv' /\ SomewhereInv'
           /\ DroppedInv'
           /\ \A f \in Executors \ {e} : Claims(f)' = Claims(f)
           /\ lock' \in [Executors -> Executors \cup {None}] /\ idle' \in [Executors -> BOOLEAN]
              /\ ipi' \in [Executors -> BOOLEAN] /\ missed' \in [Executors -> BOOLEAN] => SchedTypes'
<1>1. /\ current_task[e] = e /\ sched_pc[e] = from /\ sched_pc' = [sched_pc EXCEPT ![e] = to]
      /\ target' = [target EXCEPT ![e] = x]
      /\ queue' = queue
      /\ current_task' = current_task /\ task_state' = task_state /\ stealable' = stealable
      /\ known_executor' = known_executor /\ handle' = handle /\ ret' = ret /\ task' = task
  BY Zenon DEF IdleMove, Sched, SchedGoto, queueVars, taskVars
<1>2. /\ from \in IdlePcs \ {"defer"} /\ to \in IdlePcs \ {"defer"}
      /\ from \in Carrying <=> to \in Carrying
      /\ x # None <=> to \in Aiming
      /\ x \in Executors \cup {None}
  BY Zenon DEF IdleMove
<1>3. /\ sched_pc \in [Actors -> TaskPcs \cup IdlePcs] /\ target \in [Actors -> Executors \cup {None}]
      /\ e \in Actors /\ e \notin SchedTasks
  BY ActorFacts, Zenon DEF SchedInv, SchedTypes
<1>4. /\ \A a \in Actors \ {e} : sched_pc'[a] = sched_pc[a] /\ target'[a] = target[a]
      /\ sched_pc'[e] = to /\ target'[e] = x
  BY <1>1, <1>3, Zenon
<1>5. \A t \in SchedTasks : sched_pc'[t] = sched_pc[t] /\ target'[t] = target[t]
  BY <1>3, <1>4, ActorFacts, Zenon
<1>6. \A a \in Actors :
        /\ sched_pc'[a] = "defer" <=> sched_pc[a] = "defer"
        /\ sched_pc'[a] \in Carrying <=> sched_pc[a] \in Carrying
  BY <1>1, <1>2, <1>4, Zenon
<1>7. HandInv'
  <2>1. \A t \in SchedTasks :
          /\ ret'[t] # "run" => sched_pc'[t] \in Yielding
          /\ task'[t] # None <=> At(t)' \in Placing
          /\ target'[t] # None <=> At(t)' \in Targeting
    BY <1>1, <1>5, Zenon DEF SchedInv, HandInv, At
  <2>2. \A f \in Executors :
          /\ current_task'[f] # f => sched_pc'[f] = "loop" /\ current_task'[f] \in SchedTasks
          /\ target'[f] # None <=> sched_pc'[f] \in Aiming
    BY <1>1, <1>2, <1>4, ActorFacts, Zenon DEF SchedInv, HandInv
  <2>3. \A f \in Executors :
          /\ sched_pc'[f] \in Carrying => task'[f] # None
          /\ task'[f] # None => sched_pc'[f] \in Carrying \cup {"defer"}
    BY <1>1, <1>6, ActorFacts, Zenon DEF SchedInv, HandInv
  <2> QED
    BY <2>1, <2>2, <2>3, Zenon DEF HandInv
<1>8. StateInv' /\ OnInv' /\ QueueInv'
  BY <1>1, <1>5 DEF SchedInv, StateInv, StateOk, OnInv, QueueInv, QueuedOk
<1>9. ByInv'
  BY <1>1, <1>5, <1>6 DEF SchedInv, ByInv, HeldOk
<1>10. SomewhereInv' /\ DroppedInv'
  <2>1. \A t \in SchedTasks : sched_pc[known_executor[t]] = "defer" => sched_pc'[known_executor[t]] = "defer"
    <3> SUFFICES ASSUME NEW t \in SchedTasks, sched_pc[known_executor[t]] = "defer"
                 PROVE  sched_pc'[known_executor[t]] = "defer"
      BY Zenon
    <3>1. CASE known_executor[t] \in Executors
      BY <3>1, <1>6, ActorFacts, Zenon
    <3>2. CASE known_executor[t] = None
      BY <3>2, <1>1, <1>2, <1>3
    <3> QED
      BY <3>1, <3>2, Zenon DEF SchedInv, SchedTypes
  <2> QED
    BY <1>1, <1>5, <2>1 DEF SchedInv, SomewhereInv, PlacedOk, DroppedInv
<1>12. \A f \in Executors \ {e} : Claims(f)' = Claims(f)
  <2>1. \A f \in Executors \ {e} : current_task[f] \in Actors \ {e}
    BY Apart, Zenon DEF SchedInv, SchedTypes
  <2> QED
    BY <2>1, <1>1, <1>4, OthersKeepClaims, Zenon
<1>13. ASSUME lock' \in [Executors -> Executors \cup {None}], idle' \in [Executors -> BOOLEAN],
              ipi' \in [Executors -> BOOLEAN], missed' \in [Executors -> BOOLEAN]
       PROVE  SchedTypes'
  <2>1. sched_pc' \in [Actors -> TaskPcs \cup IdlePcs] /\ target' \in [Actors -> Executors \cup {None}]
    BY <1>1, <1>2, <1>3, Zenon
  <2>2. /\ \A t \in SchedTasks : sched_pc'[t] \in TaskPcs
        /\ \A f \in Executors : sched_pc'[f] \in IdlePcs
    BY <1>2, <1>4, <1>5, ActorFacts, Zenon DEF SchedInv, SchedTypes
  <2> QED
    BY <1>1, <1>13, <2>1, <2>2, Zenon DEF SchedInv, SchedTypes
<1> QED
  BY <1>7, <1>8, <1>9, <1>10, <1>12, <1>13, Zenon

----------------------------------------------------------------------------
(* Steps of a running task that leave the other tasks and the queues alone *)

\* What such a step of t changes: its pc, the handle it will unlock, where its
\* call stands and the executor the call is about.
RunMove(e, t, to, h, r, x) ==
    /\ RunsOn(e, t) /\ sched_pc[t] # "pick"
    /\ to \in TaskPcs \ {"pick"} /\ sched_pc' = [sched_pc EXCEPT ![t] = to]
    /\ h \in Executors \cup {None} /\ handle' = [handle EXCEPT ![t] = h]
    /\ to \in Yielding => h = e
    /\ r \in {"run", "enlock", "kick"} /\ ret' = [ret EXCEPT ![t] = r]
    /\ r # "run" => to \in Yielding
    /\ x \in Executors \cup {None} /\ target' = [target EXCEPT ![t] = x]
    /\ x # None <=> (IF to \in Yielding THEN r ELSE to) \in Targeting
    /\ task[t] # None <=> (IF to \in Yielding THEN r ELSE to) \in Placing
    /\ task[t] # None => x = target[t]
    /\ UNCHANGED <<queueVars, current_task, task_state, stealable, known_executor, task>>

LEMMA RunMoveKeeps ==
    ASSUME SchedInv, NEW e \in Executors, NEW t \in SchedTasks,
           NEW to, NEW h, NEW r, NEW x, RunMove(e, t, to, h, r, x)
    PROVE  /\ HandInv' /\ StateInv' /\ OnInv' /\ QueueInv' /\ ByInv' /\ SomewhereInv'
           /\ DroppedInv'
           /\ \A f \in Executors \ {e} : Claims(f)' = Claims(f)
           /\ sched_pc'[t] = to /\ current_task'[e] = t /\ target'[t] = x /\ ret'[t] = r
           /\ \A a \in Actors \ {t} : sched_pc'[a] = sched_pc[a] /\ target'[a] = target[a]
           /\ \A u \in SchedTasks \ {t} : ret'[u] = ret[u]
           /\ \A f \in Executors : sched_pc'[f] = sched_pc[f]
           /\ lock' \in [Executors -> Executors \cup {None}] /\ idle' \in [Executors -> BOOLEAN]
              /\ ipi' \in [Executors -> BOOLEAN] /\ missed' \in [Executors -> BOOLEAN] => SchedTypes'
<1>1. /\ current_task[e] = t /\ sched_pc[t] # "pick" /\ sched_pc' = [sched_pc EXCEPT ![t] = to]
      /\ target' = [target EXCEPT ![t] = x] /\ handle' = [handle EXCEPT ![t] = h]
      /\ ret' = [ret EXCEPT ![t] = r]
      /\ queue' = queue
      /\ current_task' = current_task /\ task_state' = task_state /\ stealable' = stealable
      /\ known_executor' = known_executor /\ task' = task
  BY Zenon DEF RunMove, RunsOn, queueVars
<1>2. /\ to \in TaskPcs \ {"pick"} /\ h \in Executors \cup {None} /\ r \in {"run", "enlock", "kick"}
      /\ x \in Executors \cup {None}
      /\ to \in Yielding => h = e
      /\ r # "run" => to \in Yielding
      /\ x # None <=> (IF to \in Yielding THEN r ELSE to) \in Targeting
      /\ task[t] # None <=> (IF to \in Yielding THEN r ELSE to) \in Placing
      /\ task[t] # None => x = target[t]
  BY Zenon DEF RunMove
<1>3. /\ sched_pc \in [Actors -> TaskPcs \cup IdlePcs] /\ target \in [Actors -> Executors \cup {None}]
      /\ handle \in [SchedTasks -> Executors \cup {None}]
      /\ ret \in [SchedTasks -> {"run", "enlock", "kick"}]
      /\ t \in Actors /\ t \notin Executors
  BY ActorFacts, Zenon DEF SchedInv, SchedTypes
<1>4. /\ \A a \in Actors \ {t} : sched_pc'[a] = sched_pc[a] /\ target'[a] = target[a]
      /\ sched_pc'[t] = to /\ target'[t] = x
  BY <1>1, <1>3, Zenon
<1>5. /\ \A u \in SchedTasks \ {t} : ret'[u] = ret[u] /\ handle'[u] = handle[u]
      /\ ret'[t] = r /\ handle'[t] = h
  BY <1>1, <1>3, Zenon
<1>6. \A f \in Executors : sched_pc'[f] = sched_pc[f] /\ target'[f] = target[f]
  BY <1>3, <1>4, ActorFacts, Zenon
<1>7. /\ task_state[t] = "running" /\ known_executor[t] = e /\ sched_pc[e] = "loop"
      /\ \A f \in Executors : f # e => current_task[f] # t
  BY <1>1, RunnerFacts DEF RunsOn
<1>8. \A u \in SchedTasks \ {t} : sched_pc'[u] = sched_pc[u] /\ target'[u] = target[u]
  BY <1>4, ActorFacts, Zenon
<1>9. HandInv'
  <2>1. \A u \in SchedTasks \ {t} : At(u)' = At(u)
    BY <1>5, <1>8, Zenon DEF At
  <2>2. At(t)' = IF to \in Yielding THEN r ELSE to
    BY <1>4, <1>5, Zenon DEF At
  <2>3. \A u \in SchedTasks :
          /\ ret'[u] # "run" => sched_pc'[u] \in Yielding
          /\ task'[u] # None <=> At(u)' \in Placing
          /\ target'[u] # None <=> At(u)' \in Targeting
    <3> SUFFICES ASSUME NEW u \in SchedTasks
                 PROVE  /\ ret'[u] # "run" => sched_pc'[u] \in Yielding
                        /\ task'[u] # None <=> At(u)' \in Placing
                        /\ target'[u] # None <=> At(u)' \in Targeting
      BY Zenon
    <3>1. CASE u = t
      BY <3>1, <1>1, <1>2, <1>4, <1>5, <2>2, Zenon
    <3>2. CASE u # t
      BY <3>2, <1>1, <1>5, <1>8, <2>1 DEF SchedInv, HandInv
    <3> QED
      BY <3>1, <3>2, Zenon
  <2> QED
    BY <1>1, <1>6, <2>3, Zenon DEF SchedInv, HandInv
<1>10. StateInv'
  <2> SUFFICES ASSUME NEW u \in SchedTasks
               PROVE  StateOk(u)'
    BY Zenon DEF StateInv
  <2>1. CASE u = t
    BY <2>1, <1>1, <1>2, <1>4, <1>5, <1>7, ActorFacts DEF StateOk
  <2>2. CASE u # t
    BY <2>2, <1>1, <1>5, <1>8, Zenon DEF SchedInv, StateInv, StateOk
  <2> QED
    BY <2>1, <2>2, Zenon
<1>11. OnInv'
  BY <1>1, <1>7, <1>8 DEF SchedInv, OnInv
<1>12. QueueInv'
  BY <1>1, <1>7, <1>8 DEF SchedInv, QueueInv, QueuedOk
<1>13. ByInv'
  <2> SUFFICES ASSUME NEW a \in Actors, NEW u \in SchedTasks, task[a] = u
               PROVE  HeldOk(a, u)'
    BY <1>1, Zenon DEF ByInv
  <2>1. u # t
    BY <1>7, Zenon DEF SchedInv, ByInv, HeldOk
  <2>2. a # t => sched_pc'[a] = sched_pc[a] /\ target'[a] = target[a]
    BY <1>4, Zenon
  <2>3. a = t => target'[a] = target[a] /\ sched_pc'[a] \notin Carrying
    BY <1>2, <1>4, ActorFacts, Zenon DEF Carrying, TaskPcs
  <2>4. a = t => sched_pc[u] # "resume"
    BY <1>3, ActorFacts DEF SchedInv, SchedTypes, ByInv, HeldOk
  <2> QED
    BY <1>1, <1>8, <2>1, <2>2, <2>3, <2>4 DEF SchedInv, ByInv, HeldOk
<1>14. SomewhereInv'
  <2>1. \A u \in SchedTasks : sched_pc[known_executor[u]] = "defer" => sched_pc'[known_executor[u]] = "defer"
    <3> SUFFICES ASSUME NEW u \in SchedTasks, sched_pc[known_executor[u]] = "defer"
                 PROVE  sched_pc'[known_executor[u]] = "defer"
      BY Zenon
    <3>1. CASE known_executor[u] \in Executors
      BY <3>1, <1>6, Zenon
    <3>2. CASE known_executor[u] = None
      BY <3>2, <1>1, <1>3, ActorFacts
    <3> QED
      BY <3>1, <3>2, Zenon DEF SchedInv, SchedTypes
  <2> QED
    BY <1>1, <1>2, <1>4, <1>7, <1>8, <2>1 DEF SchedInv, SomewhereInv, PlacedOk
<1>15. DroppedInv'
  <2>1. \A u \in SchedTasks \ {t} : sched_pc[u] \in Leaving => known_executor[u] # e
    BY <1>1, <1>7 DEF SchedInv, SomewhereInv, PlacedOk
  <2> QED
    BY <1>1, <1>7, <1>8, <2>1 DEF SchedInv, DroppedInv
<1>17. \A f \in Executors \ {e} : Claims(f)' = Claims(f)
  <2>1. \A f \in Executors \ {e} : current_task[f] \in Actors \ {t}
    BY <1>7, Zenon DEF SchedInv, SchedTypes
  <2> QED
    BY <2>1, <1>1, <1>4, OthersKeepClaims, Zenon
<1>18. ASSUME lock' \in [Executors -> Executors \cup {None}], idle' \in [Executors -> BOOLEAN],
              ipi' \in [Executors -> BOOLEAN], missed' \in [Executors -> BOOLEAN]
       PROVE  SchedTypes'
  <2>1. sched_pc' \in [Actors -> TaskPcs \cup IdlePcs] /\ target' \in [Actors -> Executors \cup {None}]
    BY <1>1, <1>2, <1>3, Zenon
  <2>2. /\ handle' \in [SchedTasks -> Executors \cup {None}]
        /\ ret' \in [SchedTasks -> {"run", "enlock", "kick"}]
    BY <1>1, <1>2, <1>3, Zenon
  <2>3. /\ \A u \in SchedTasks : sched_pc'[u] \in TaskPcs
        /\ \A f \in Executors : sched_pc'[f] \in IdlePcs
    BY <1>2, <1>4, <1>6, <1>8, Zenon DEF SchedInv, SchedTypes
  <2> QED
    BY <1>1, <1>18, <2>1, <2>2, <2>3, Zenon DEF SchedInv, SchedTypes
<1> QED
  BY <1>1, <1>4, <1>5, <1>6, <1>9, <1>10, <1>11, <1>12, <1>13, <1>14, <1>15, <1>17, <1>18, Zenon

\* What such a step does to the lock and to the handshake of its executor.
IdleSafe(e, from, to) ==
    /\ idle' \in [Executors -> BOOLEAN] /\ ipi' \in [Executors -> BOOLEAN]
    /\ missed' \in [Executors -> BOOLEAN]
    /\ \A f \in Executors \ {e} : idle'[f] = idle[f] /\ ipi'[f] = ipi[f] /\ missed'[f] = missed[f]
    /\ to \in Asleep => idle'[e]
    /\ to = "sleep" => queue[e] = {}
    /\ to \in {"prehalt", "halted"} /\ queue[e] # {} =>
          /\ from \in {"prehalt", "halted"}
          /\ ipi[e] \/ missed[e] => ipi'[e] \/ missed'[e]

LEMMA IdleMoveInv ==
    ASSUME SchedInv, NEW e \in Executors, NEW from, NEW to, NEW x, IdleMove(e, from, to, x),
           LockMove(e, ClaimAt(e, from, target[e]), ClaimAt(e, to, x)), IdleSafe(e, from, to)
    PROVE  SchedInv'
<1>1. /\ sched_pc' = [sched_pc EXCEPT ![e] = to] /\ target' = [target EXCEPT ![e] = x]
      /\ current_task[e] = e /\ sched_pc[e] = from /\ ret' = ret /\ queue' = queue
      /\ current_task' = current_task
  BY Zenon DEF IdleMove, Sched, SchedGoto, queueVars
<1>2. /\ sched_pc \in [Actors -> TaskPcs \cup IdlePcs] /\ target \in [Actors -> Executors \cup {None}]
      /\ e \in Actors
  BY ActorFacts, Zenon DEF SchedInv, SchedTypes
<1>3. /\ \A f \in Executors \ {e} : sched_pc'[f] = sched_pc[f]
      /\ \A t \in SchedTasks : sched_pc'[t] = sched_pc[t] /\ target'[t] = target[t]
      /\ sched_pc'[e] = to /\ target'[e] = x
  BY <1>1, <1>2, ActorFacts, Zenon
<1>4. Claims(e) = ClaimAt(e, from, target[e]) /\ Claims(e)' = ClaimAt(e, to, x)
  BY <1>1, <1>3, Zenon DEF Claims, ClaimAt
<1>5. \A f \in Executors \ {e} : Claims(f)' = Claims(f)
  BY IdleMoveKeeps, Zenon
<1>6. LockInv' /\ lock' \in [Executors -> Executors \cup {None}]
  BY <1>4, <1>5, LockMoved, Zenon
<1>7. IdleInv'
  <2>1. \A f \in Executors, t \in SchedTasks : Waking(f, t)' <=> Waking(f, t)
    BY <1>1, <1>3, Zenon DEF Waking
  <2> SUFFICES ASSUME NEW f \in Executors
               PROVE  HaltOk(f)'
    BY Zenon DEF IdleInv
  <2>2. CASE f # e
    BY <1>1, <1>3, <2>1, <2>2, Zenon DEF SchedInv, IdleInv, HaltOk, IdleSafe
  <2>3. CASE f = e
    BY <1>1, <1>3, <2>1, <2>3 DEF SchedInv, IdleInv, HaltOk, IdleSafe
  <2> QED
    BY <2>2, <2>3, Zenon
<1>8. SchedTypes'
  BY <1>6, IdleMoveKeeps, Zenon DEF IdleSafe
<1> QED
  BY <1>6, <1>7, <1>8, IdleMoveKeeps, Zenon DEF SchedInv

\* A step that leaves the target alone too.
LEMMA IdleKeepsTarget ==
    ASSUME SchedInv, NEW e \in Executors, NEW from \in IdlePcs \ {"defer"},
           NEW to \in IdlePcs \ {"defer"}, Sched(e, from, to),
           from \in Carrying <=> to \in Carrying, from \in Aiming <=> to \in Aiming,
           UNCHANGED <<queueVars, current_task, taskVars, ret, task, target>>
    PROVE  IdleMove(e, from, to, target[e])
<1>1. target[e] \in Executors \cup {None} /\ target = [target EXCEPT ![e] = target[e]]
  BY ActorFacts, Zenon DEF SchedInv, SchedTypes
<1>2. target[e] # None <=> from \in Aiming
  BY Zenon DEF SchedInv, HandInv, Sched, SchedGoto
<1> QED
  BY <1>1, <1>2, Zenon DEF IdleMove

\* A step that leaves the handshake alone and does not end in it.
LEMMA HandshakeKept ==
    ASSUME SchedInv, NEW e \in Executors, NEW from, NEW to, UNCHANGED idleVars,
           sched_pc[e] = from, to \in Asleep => from \in Asleep,
           to = "sleep" => queue[e] = {},
           to \in {"prehalt", "halted"} /\ queue[e] # {} => from \in {"prehalt", "halted"}
    PROVE  IdleSafe(e, from, to)
  BY Zenon DEF SchedInv, SchedTypes, IdleInv, HaltOk, IdleSafe, idleVars

\* A step that changes nothing but the pc and the lock.
LEMMA QuietStep ==
    ASSUME SchedInv, NEW e \in Executors, NEW from \in IdlePcs \ {"defer"},
           NEW to \in IdlePcs \ {"defer"}, Sched(e, from, to),
           from \in Carrying <=> to \in Carrying, from \in Aiming <=> to \in Aiming,
           to \in Asleep => from \in Asleep, to = "sleep" => queue[e] = {},
           to \in {"prehalt", "halted"} /\ queue[e] # {} => from \in {"prehalt", "halted"},
           LockMove(e, ClaimAt(e, from, target[e]), ClaimAt(e, to, target[e])),
           UNCHANGED <<queueVars, current_task, idleVars, taskVars, ret, task, target>>
    PROVE  SchedInv'
<1>1. IdleMove(e, from, to, target[e])
  BY IdleKeepsTarget, Zenon
<1>2. IdleSafe(e, from, to)
  BY HandshakeKept, Zenon DEF Sched, SchedGoto
<1> QED
  BY <1>1, <1>2, IdleMoveInv, Zenon

----------------------------------------------------------------------------
(* The idle loop *)

LEMMA LoopInv ==
    ASSUME SchedInv, NEW e \in Executors, IdleLock(e) \/ IdleNone(e) \/ IdleEntry(e)
    PROVE  SchedInv'
<1>1. CASE IdleLock(e)
  BY <1>1, QuietStep, Zenon
     DEF IdleLock, IdlePcs, Carrying, Aiming, Asleep, LockMove, ClaimAt, OwnLock, TargetLock
<1>2. CASE IdleNone(e)
  BY <1>2, QuietStep, Zenon
     DEF IdleNone, IdlePcs, Carrying, Aiming, Asleep, LockMove, ClaimAt, OwnLock, TargetLock
<1>3. CASE IdleEntry(e)
  BY <1>3, QuietStep, Zenon
     DEF IdleEntry, IdlePcs, Carrying, Aiming, Asleep, LockMove, ClaimAt, OwnLock, TargetLock
<1> QED
  BY <1>1, <1>2, <1>3, Zenon

\* The victim is chosen without a lock, so it may be locked or empty by now.
LEMMA StealScanInv == ASSUME SchedInv, NEW e \in Executors, StealScan(e) PROVE SchedInv'
<1>1. CASE Sched(e, "scan", "final") /\ UNCHANGED target
  BY <1>1, QuietStep, Zenon
     DEF StealScan, IdlePcs, Carrying, Aiming, Asleep, LockMove, ClaimAt, OwnLock, TargetLock
<1>2. ASSUME NEW x \in Busiest(e), Sched(e, "scan", "trysteal"), target' = [target EXCEPT ![e] = x]
      PROVE  SchedInv'
  <2>1. x \in Executors /\ x # None
    BY ActorFacts, Zenon DEF Busiest
  <2>2. IdleMove(e, "scan", "trysteal", x)
    BY <1>2, <2>1, Zenon DEF StealScan, IdleMove, IdlePcs, Carrying, Aiming
  <2>3. IdleSafe(e, "scan", "trysteal")
    BY <1>2, HandshakeKept, Zenon DEF StealScan, Asleep, Sched, SchedGoto
  <2>4. LockMove(e, ClaimAt(e, "scan", target[e]), ClaimAt(e, "trysteal", x))
    BY Zenon DEF StealScan, LockMove, ClaimAt, OwnLock, TargetLock
  <2> QED
    BY <2>2, <2>3, <2>4, IdleMoveInv, Zenon
<1> QED
  BY <1>1, <1>2, Zenon DEF StealScan

LEMMA StealTryLockInv == ASSUME SchedInv, NEW e \in Executors, StealTryLock(e) PROVE SchedInv'
<1>1. CASE Sched(e, "trysteal", "steal") /\ Lock(e, target[e]) /\ UNCHANGED target
  <2>1. target[e] \in Executors
    BY <1>1, ActorFacts, Zenon DEF SchedInv, SchedTypes, HandInv, Sched, SchedGoto, Aiming
  <2> QED
    BY <1>1, <2>1, QuietStep, Zenon
       DEF StealTryLock, IdlePcs, Carrying, Aiming, Asleep, LockMove, ClaimAt, OwnLock, TargetLock
<1>2. CASE Sched(e, "trysteal", "final") /\ UNCHANGED lock /\ target' = [target EXCEPT ![e] = None]
  <2>1. IdleMove(e, "trysteal", "final", None)
    BY <1>2, Zenon DEF StealTryLock, IdleMove, IdlePcs, Carrying, Aiming
  <2>2. IdleSafe(e, "trysteal", "final")
    BY <1>2, HandshakeKept, Zenon DEF StealTryLock, Asleep, Sched, SchedGoto
  <2>3. LockMove(e, ClaimAt(e, "trysteal", target[e]), ClaimAt(e, "final", None))
    BY <1>2, Zenon DEF LockMove, ClaimAt, OwnLock, TargetLock
  <2> QED
    BY <2>1, <2>2, <2>3, IdleMoveInv, Zenon
<1> QED
  BY <1>1, <1>2, Zenon DEF StealTryLock

LEMMA StealUnlockInv == ASSUME SchedInv, NEW e \in Executors, StealUnlock(e) PROVE SchedInv'
<1> SUFFICES ASSUME NEW from \in {"giveup", "stolen"}, NEW to \in {"final", "relock"},
                    from = "giveup" <=> to = "final", Sched(e, from, to)
             PROVE  SchedInv'
  BY Zenon DEF StealUnlock
<1>1. target[e] \in Executors
  BY ActorFacts, Zenon DEF SchedInv, SchedTypes, HandInv, Sched, SchedGoto, Aiming
<1>2. IdleMove(e, from, to, None)
  BY Zenon DEF StealUnlock, IdleMove, IdlePcs, Carrying, Aiming
<1>3. IdleSafe(e, from, to)
  BY HandshakeKept, Zenon DEF StealUnlock, Asleep, Sched, SchedGoto
<1>4. LockMove(e, ClaimAt(e, from, target[e]), ClaimAt(e, to, None))
  BY <1>1, Zenon DEF StealUnlock, LockMove, ClaimAt, OwnLock, TargetLock
<1> QED
  BY <1>2, <1>3, <1>4, IdleMoveInv, Zenon

LEMMA StealLockInv ==
    ASSUME SchedInv, NEW e \in Executors, StealRelock(e) \/ StealDone(e)
    PROVE  SchedInv'
<1>1. CASE StealRelock(e)
  BY <1>1, QuietStep, Zenon
     DEF StealRelock, IdlePcs, Carrying, Aiming, Asleep, LockMove, ClaimAt, OwnLock, TargetLock
<1>2. CASE StealDone(e)
  BY <1>2, QuietStep, Zenon
     DEF StealDone, IdlePcs, Carrying, Aiming, Asleep, LockMove, ClaimAt, OwnLock, TargetLock
<1> QED
  BY <1>1, <1>2, Zenon

----------------------------------------------------------------------------
(* The handshake before the halt *)

LEMMA FinalInv ==
    ASSUME SchedInv, NEW e \in Executors, FinalLock(e) \/ FinalRetry(e) \/ FinalUnlock(e)
    PROVE  SchedInv'
<1>1. CASE FinalLock(e)
  BY <1>1, QuietStep, Zenon
     DEF FinalLock, IdlePcs, Carrying, Aiming, Asleep, LockMove, ClaimAt, OwnLock, TargetLock
<1>2. CASE FinalRetry(e)
  BY <1>2, QuietStep, Zenon
     DEF FinalRetry, IdlePcs, Carrying, Aiming, Asleep, LockMove, ClaimAt, OwnLock, TargetLock
<1>3. CASE FinalUnlock(e)
  <2>1. queue[e] = {}
    BY <1>3, Zenon DEF FinalUnlock, SchedInv, IdleInv, HaltOk, Sched, SchedGoto
  <2> QED
    BY <1>3, <2>1, QuietStep, Zenon
       DEF FinalUnlock, IdlePcs, Carrying, Aiming, Asleep, LockMove, ClaimAt, OwnLock, TargetLock
<1> QED
  BY <1>1, <1>2, <1>3, Zenon

LEMMA DeclareIdleInv == ASSUME SchedInv, NEW e \in Executors, DeclareIdle(e) PROVE SchedInv'
<1>1. IdleMove(e, "check", "sleep", target[e])
  BY IdleKeepsTarget, Zenon DEF DeclareIdle, IdlePcs, Carrying, Aiming
<1>2. IdleSafe(e, "check", "sleep")
  BY Zenon DEF DeclareIdle, IdleSafe, SchedInv, SchedTypes
<1>3. LockMove(e, ClaimAt(e, "check", target[e]), ClaimAt(e, "sleep", target[e]))
  BY Zenon DEF DeclareIdle, LockMove, ClaimAt, OwnLock, TargetLock
<1> QED
  BY <1>1, <1>2, <1>3, IdleMoveInv, Zenon

LEMMA HaltInv ==
    ASSUME SchedInv, NEW e \in Executors, Halt(e) \/ Tick(e)
    PROVE  SchedInv'
<1>1. CASE Halt(e)
  BY <1>1, QuietStep, Zenon
     DEF Halt, IdlePcs, Carrying, Aiming, Asleep, LockMove, ClaimAt, OwnLock, TargetLock
<1>2. CASE Tick(e)
  BY <1>2, QuietStep, Zenon
     DEF Tick, IdlePcs, Carrying, Aiming, Asleep, LockMove, ClaimAt, OwnLock, TargetLock
<1> QED
  BY <1>1, <1>2, Zenon

LEMMA AwakeInv == ASSUME SchedInv, NEW e \in Executors, Awake(e) PROVE SchedInv'
<1>1. IdleMove(e, "awake", "loop", target[e])
  BY IdleKeepsTarget, Zenon DEF Awake, IdlePcs, Carrying, Aiming
<1>2. IdleSafe(e, "awake", "loop")
  BY Zenon DEF Awake, IdleSafe, SchedInv, SchedTypes, Asleep
<1>3. LockMove(e, ClaimAt(e, "awake", target[e]), ClaimAt(e, "loop", target[e]))
  BY Zenon DEF Awake, LockMove, ClaimAt, OwnLock, TargetLock
<1> QED
  BY <1>1, <1>2, <1>3, IdleMoveInv, Zenon

\* An IPI ends a halt, is remembered as missed before it, and means nothing else.
LEMMA TakeIpiInv == ASSUME SchedInv, NEW e \in Executors, TakeIpi(e) PROVE SchedInv'
<1>1. CASE Sched(e, "halted", "awake") /\ UNCHANGED missed
  <2>1. IdleMove(e, "halted", "awake", target[e])
    BY <1>1, IdleKeepsTarget, Zenon DEF TakeIpi, IdlePcs, Carrying, Aiming
  <2>2. IdleSafe(e, "halted", "awake")
    BY <1>1, Zenon DEF TakeIpi, IdleSafe, SchedInv, SchedTypes, IdleInv, HaltOk, Asleep, Sched, SchedGoto
  <2>3. LockMove(e, ClaimAt(e, "halted", target[e]), ClaimAt(e, "awake", target[e]))
    BY Zenon DEF TakeIpi, LockMove, ClaimAt, OwnLock, TargetLock
  <2> QED
    BY <2>1, <2>2, <2>3, IdleMoveInv, Zenon
<1>2. CASE Sched(e, "prehalt", "prehalt") /\ missed' = [missed EXCEPT ![e] = TRUE]
  <2>1. IdleMove(e, "prehalt", "prehalt", target[e])
    BY <1>2, IdleKeepsTarget, Zenon DEF TakeIpi, IdlePcs, Carrying, Aiming
  <2>2. IdleSafe(e, "prehalt", "prehalt")
    BY <1>2, Zenon DEF TakeIpi, IdleSafe, SchedInv, SchedTypes, IdleInv, HaltOk, Asleep, Sched, SchedGoto
  <2>3. LockMove(e, ClaimAt(e, "prehalt", target[e]), ClaimAt(e, "prehalt", target[e]))
    BY Zenon DEF TakeIpi, LockMove, ClaimAt, OwnLock, TargetLock
  <2> QED
    BY <2>1, <2>2, <2>3, IdleMoveInv, Zenon
<1>3. CASE /\ current_task[e] = e => sched_pc[e] \notin {"halted", "prehalt"}
           /\ UNCHANGED <<sched_pc, missed>>
  <2>1. sched_pc[e] \notin {"halted", "prehalt"}
    BY <1>3, Zenon DEF SchedInv, HandInv
  <2>2. /\ ipi' \in [Executors -> BOOLEAN]
        /\ \A f \in Executors \ {e} : ipi'[f] = ipi[f]
    BY Zenon DEF TakeIpi, SchedInv, SchedTypes
  <2>3. IdleInv'
    BY <1>3, <2>1, <2>2, Zenon DEF TakeIpi, SchedInv, IdleInv, HaltOk, Waking, queueVars
  <2>4. /\ lock' = lock /\ queue' = queue /\ current_task' = current_task /\ idle' = idle
        /\ missed' = missed /\ task_state' = task_state /\ stealable' = stealable
        /\ known_executor' = known_executor /\ handle' = handle /\ sched_pc' = sched_pc
        /\ ret' = ret /\ task' = task /\ target' = target
    BY <1>3, Zenon DEF TakeIpi, queueVars, taskVars
  <2>5. SchedTypes'
    BY <2>2, <2>4, Zenon DEF SchedInv, SchedTypes
  <2> QED
    BY <2>3, <2>4, <2>5, UntouchedInv, Zenon DEF SchedInv
<1> QED
  BY <1>1, <1>2, <1>3, Zenon DEF TakeIpi

----------------------------------------------------------------------------
(* A running task *)

\* Such a step does not take the interrupt away that a halting executor needs.
RunSafe(t, to, r, x) ==
    /\ idle' = idle /\ missed' = missed /\ ipi' \in [Executors -> BOOLEAN]
    /\ \A f \in Executors : ipi[f] => ipi'[f]
    /\ \A f \in Executors : Waking(f, t) /\ sched_pc[f] \in {"prehalt", "halted"} =>
          ipi'[f] \/ (x = f /\ (to \in {"enunlock", "kick"} \/ r = "kick"))

LEMMA RunMoveInv ==
    ASSUME SchedInv, NEW e \in Executors, NEW t \in SchedTasks,
           NEW to, NEW h, NEW r, NEW x, RunMove(e, t, to, h, r, x),
           LockMove(e, ClaimAt(e, sched_pc[t], target[t]), ClaimAt(e, to, x)), RunSafe(t, to, r, x)
    PROVE  SchedInv'
<1>1. /\ sched_pc'[t] = to /\ current_task'[e] = t /\ target'[t] = x /\ ret'[t] = r
      /\ \A a \in Actors \ {t} : sched_pc'[a] = sched_pc[a] /\ target'[a] = target[a]
      /\ \A u \in SchedTasks \ {t} : ret'[u] = ret[u]
      /\ \A f \in Executors : sched_pc'[f] = sched_pc[f]
      /\ \A f \in Executors \ {e} : Claims(f)' = Claims(f)
  BY RunMoveKeeps
<1>2. Claims(e) = ClaimAt(e, sched_pc[t], target[t]) /\ Claims(e)' = ClaimAt(e, to, x)
  <2>1. current_task[e] = t
    BY Zenon DEF RunMove, RunsOn
  <2> QED
    BY <1>1, <2>1, Zenon DEF Claims, ClaimAt
<1>3. LockInv' /\ lock' \in [Executors -> Executors \cup {None}]
  BY <1>1, <1>2, LockMoved, Zenon
<1>4. IdleInv'
  <2> SUFFICES ASSUME NEW f \in Executors
               PROVE  HaltOk(f)'
    BY Zenon DEF IdleInv
  <2>1. queue' = queue /\ idle' = idle /\ missed' = missed /\ sched_pc'[f] = sched_pc[f]
    BY <1>1, Zenon DEF RunMove, RunSafe, queueVars
  <2>2. ASSUME sched_pc[f] \in {"prehalt", "halted"}, NEW u \in SchedTasks, Waking(f, u)
        PROVE  ipi'[f] \/ Waking(f, u)'
    <3>1. CASE u = t
      BY <1>1, <2>2, <3>1, Zenon DEF RunSafe, Waking
    <3>2. CASE u # t
      BY <1>1, <2>2, <3>2, ActorFacts, Zenon DEF Waking
    <3> QED
      BY <3>1, <3>2, Zenon
  <2>3. ipi[f] => ipi'[f]
    BY Zenon DEF RunSafe
  <2> QED
    BY <2>1, <2>2, <2>3, Zenon DEF SchedInv, IdleInv, HaltOk
<1>5. SchedTypes'
  <2>1. idle' \in [Executors -> BOOLEAN] /\ ipi' \in [Executors -> BOOLEAN]
        /\ missed' \in [Executors -> BOOLEAN]
    BY Zenon DEF RunSafe, SchedInv, SchedTypes
  <2> QED
    BY <1>3, <2>1, RunMoveKeeps, Zenon
<1> QED
  BY <1>3, <1>4, <1>5, RunMoveKeeps, Zenon DEF SchedInv

\* The values of a task's own variables, which an action may leave as they are.
LEMMA OwnFacts ==
    ASSUME SchedInv, NEW t \in SchedTasks
    PROVE  /\ target[t] \in Executors \cup {None} /\ target = [target EXCEPT ![t] = target[t]]
           /\ handle[t] \in Executors \cup {None} /\ handle = [handle EXCEPT ![t] = handle[t]]
           /\ ret[t] \in {"run", "enlock", "kick"} /\ ret = [ret EXCEPT ![t] = ret[t]]
           /\ sched_pc[t] \in TaskPcs
           /\ ret[t] # "run" => sched_pc[t] \in Yielding
           /\ task[t] # None <=> At(t) \in Placing
           /\ target[t] # None <=> At(t) \in Targeting
  BY ActorFacts, Zenon DEF SchedInv, SchedTypes, HandInv

LEMMA YieldLockInv ==
    ASSUME SchedInv, NEW e \in Executors, NEW t \in SchedTasks, YieldLock(e, t)
    PROVE  SchedInv'
<1>1. sched_pc[t] \in {"run", "enlock", "kick"} /\ ret[t] = "run" /\ At(t) = sched_pc[t]
  BY OwnFacts, Zenon DEF YieldLock, At, Yielding
<1>2. RunMove(e, t, "put", e, sched_pc[t], target[t])
  BY <1>1, OwnFacts, Zenon DEF YieldLock, RunMove, Yielding, TaskPcs, Placing, Targeting
<1>3. LockMove(e, ClaimAt(e, sched_pc[t], target[t]), ClaimAt(e, "put", target[t]))
  BY <1>1, Zenon DEF YieldLock, LockMove, ClaimAt, OwnLock, TargetLock
<1>4. RunSafe(t, "put", sched_pc[t], target[t])
  BY <1>1, Zenon DEF YieldLock, RunSafe, Waking, idleVars, SchedInv, SchedTypes
<1> QED
  BY <1>2, <1>3, <1>4, RunMoveInv, Zenon

LEMMA ResumeInv ==
    ASSUME SchedInv, NEW e \in Executors, NEW t \in SchedTasks, Resume(e, t)
    PROVE  SchedInv'
<1>1. sched_pc[t] \in {"resume", "rederive"} /\ current_task[e] = t
  BY Zenon DEF Resume, RunsOn
<1>2. At(t) = IF sched_pc[t] = "resume" THEN ret[t] ELSE "rederive"
  BY <1>1, Zenon DEF At, Yielding
<1>3. sched_pc[t] = "rederive" => ret[t] = "run"
  BY OwnFacts, Zenon DEF Yielding
<1>4. RunMove(e, t, ret[t], None, "run", target[t])
  BY <1>1, <1>2, <1>3, OwnFacts, Zenon DEF Resume, RunMove, Yielding, TaskPcs, Placing, Targeting
<1>5. Unlocks(e, t) = e
  BY <1>1, RunnerFacts, Zenon DEF Unlocks, RunsOn, SchedInv, StateInv, StateOk, Yielding
<1>6. LockMove(e, ClaimAt(e, sched_pc[t], target[t]), ClaimAt(e, ret[t], target[t]))
  BY <1>1, <1>5, OwnFacts, Zenon DEF Resume, LockMove, ClaimAt, OwnLock, TargetLock
<1>7. RunSafe(t, ret[t], "run", target[t])
  BY <1>1, Zenon DEF Resume, RunSafe, Waking, idleVars, SchedInv, SchedTypes
<1> QED
  BY <1>4, <1>6, <1>7, RunMoveInv, Zenon

LEMMA DropLockInv ==
    ASSUME SchedInv, NEW e \in Executors, NEW t \in SchedTasks, DropLock(e, t)
    PROVE  SchedInv'
<1> SUFFICES ASSUME NEW to \in {"block", "exit"}, SchedGoto(t, "run", to)
             PROVE  SchedInv'
  BY Zenon DEF DropLock
<1>1. sched_pc[t] = "run" /\ ret[t] = "run" /\ At(t) = "run"
  BY OwnFacts, Zenon DEF SchedGoto, At, Yielding
<1>2. RunMove(e, t, to, handle[t], ret[t], target[t])
  BY <1>1, OwnFacts, Zenon
     DEF DropLock, SchedGoto, RunMove, Yielding, TaskPcs, Placing, Targeting, taskVars
<1>3. LockMove(e, ClaimAt(e, sched_pc[t], target[t]), ClaimAt(e, to, target[t]))
  BY <1>1, Zenon DEF DropLock, LockMove, ClaimAt, OwnLock, TargetLock
<1>4. RunSafe(t, to, ret[t], target[t])
  BY <1>1, Zenon DEF DropLock, RunSafe, Waking, idleVars, SchedInv, SchedTypes
<1> QED
  BY <1>2, <1>3, <1>4, RunMoveInv, Zenon

LEMMA EnqueueSpinInv ==
    ASSUME SchedInv, NEW e \in Executors, NEW t \in SchedTasks, EnqueueSpin(e, t)
    PROVE  SchedInv'
<1>1. sched_pc[t] = "enlock" /\ ret[t] = "run" /\ At(t) = "enlock"
  BY OwnFacts, Zenon DEF EnqueueSpin, SchedGoto, At, Yielding
<1>2. RunMove(e, t, "enspin", handle[t], ret[t], target[t])
  BY <1>1, OwnFacts, Zenon
     DEF EnqueueSpin, SchedGoto, RunMove, Yielding, TaskPcs, Placing, Targeting, taskVars
<1>3. LockMove(e, ClaimAt(e, sched_pc[t], target[t]), ClaimAt(e, "enspin", target[t]))
  BY <1>1, Zenon DEF EnqueueSpin, LockMove, ClaimAt, OwnLock, TargetLock
<1>4. RunSafe(t, "enspin", ret[t], target[t])
  BY <1>1, Zenon DEF EnqueueSpin, RunSafe, Waking, idleVars, SchedInv, SchedTypes
<1> QED
  BY <1>2, <1>3, <1>4, RunMoveInv, Zenon

LEMMA EnqueueLockInv ==
    ASSUME SchedInv, NEW e \in Executors, NEW t \in SchedTasks, EnqueueLock(e, t)
    PROVE  SchedInv'
<1>1. sched_pc[t] = "enspin" /\ ret[t] = "run" /\ At(t) = "enspin"
  BY OwnFacts, Zenon DEF EnqueueLock, SchedGoto, At, Yielding
<1>2. target[t] \in Executors
  BY <1>1, OwnFacts, Zenon DEF Targeting
<1>3. RunMove(e, t, "enqueue", handle[t], ret[t], target[t])
  BY <1>1, OwnFacts, Zenon
     DEF EnqueueLock, SchedGoto, RunMove, Yielding, TaskPcs, Placing, Targeting, taskVars
<1>4. LockMove(e, ClaimAt(e, sched_pc[t], target[t]), ClaimAt(e, "enqueue", target[t]))
  BY <1>1, <1>2, Zenon DEF EnqueueLock, LockMove, ClaimAt, OwnLock, TargetLock
<1>5. RunSafe(t, "enqueue", ret[t], target[t])
  BY <1>1, Zenon DEF EnqueueLock, RunSafe, Waking, idleVars, SchedInv, SchedTypes
<1> QED
  BY <1>3, <1>4, <1>5, RunMoveInv, Zenon

LEMMA EnqueueUnlockInv ==
    ASSUME SchedInv, NEW e \in Executors, NEW t \in SchedTasks, EnqueueUnlock(e, t)
    PROVE  SchedInv'
<1>1. sched_pc[t] = "enunlock" /\ ret[t] = "run" /\ At(t) = "enunlock" /\ RunsOn(e, t)
  BY OwnFacts, Zenon DEF EnqueueUnlock, At, Yielding
<1>2. target[t] \in Executors
  BY <1>1, OwnFacts, Zenon DEF Targeting
<1>3. CASE SchedGoto(t, "enunlock", "kick") /\ UNCHANGED target
  <2>1. RunMove(e, t, "kick", handle[t], ret[t], target[t])
    BY <1>1, <1>3, OwnFacts, Zenon
       DEF EnqueueUnlock, SchedGoto, RunMove, Yielding, TaskPcs, Placing, Targeting, taskVars
  <2>2. LockMove(e, ClaimAt(e, sched_pc[t], target[t]), ClaimAt(e, "kick", target[t]))
    BY <1>1, <1>2, Zenon DEF EnqueueUnlock, LockMove, ClaimAt, OwnLock, TargetLock
  <2>3. RunSafe(t, "kick", ret[t], target[t])
    BY <1>1, Zenon DEF EnqueueUnlock, RunSafe, Waking, idleVars, SchedInv, SchedTypes
  <2> QED
    BY <2>1, <2>2, <2>3, RunMoveInv, Zenon
<1>4. CASE /\ target[t] = e /\ SchedGoto(t, "enunlock", "run")
           /\ target' = [target EXCEPT ![t] = None]
  <2>1. RunMove(e, t, "run", handle[t], ret[t], None)
    BY <1>1, <1>4, OwnFacts, Zenon
       DEF EnqueueUnlock, SchedGoto, RunMove, Yielding, TaskPcs, Placing, Targeting, taskVars
  <2>2. LockMove(e, ClaimAt(e, sched_pc[t], target[t]), ClaimAt(e, "run", None))
    BY <1>1, <1>2, Zenon DEF EnqueueUnlock, LockMove, ClaimAt, OwnLock, TargetLock
  <2>3. sched_pc[e] = "loop"
    BY <1>1, RunnerFacts, Zenon
  <2>4. RunSafe(t, "run", ret[t], None)
    BY <1>1, <1>4, <2>3, Zenon DEF EnqueueUnlock, RunSafe, Waking, idleVars, SchedInv, SchedTypes
  <2> QED
    BY <2>1, <2>2, <2>4, RunMoveInv, Zenon
<1> QED
  BY <1>3, <1>4, Zenon DEF EnqueueUnlock

\* The kick reaches an executor that has said it is idle: the one that halts has.
LEMMA KickInv ==
    ASSUME SchedInv, NEW e \in Executors, NEW t \in SchedTasks, Kick(e, t)
    PROVE  SchedInv'
<1>1. sched_pc[t] = "kick" /\ ret[t] = "run" /\ At(t) = "kick"
  BY OwnFacts, Zenon DEF Kick, SchedGoto, At, Yielding
<1>2. target[t] \in Executors
  BY <1>1, OwnFacts, Zenon DEF Targeting
<1>3. RunMove(e, t, "run", handle[t], ret[t], None)
  BY <1>1, OwnFacts, Zenon
     DEF Kick, SchedGoto, RunMove, Yielding, TaskPcs, Placing, Targeting, taskVars
<1>4. LockMove(e, ClaimAt(e, sched_pc[t], target[t]), ClaimAt(e, "run", None))
  BY <1>1, Zenon DEF Kick, LockMove, ClaimAt, OwnLock, TargetLock
<1>5. RunSafe(t, "run", ret[t], None)
  <2>1. /\ ipi' = [ipi EXCEPT ![target[t]] = ipi[target[t]] \/ idle[target[t]]]
        /\ idle' = idle /\ missed' = missed /\ ipi \in [Executors -> BOOLEAN]
    BY Zenon DEF Kick, SchedInv, SchedTypes
  <2>2. /\ ipi' \in [Executors -> BOOLEAN] /\ \A f \in Executors : ipi[f] => ipi'[f]
        /\ idle[target[t]] => ipi'[target[t]]
    BY <1>2, <2>1, Zenon
  <2>3. \A f \in Executors : sched_pc[f] \in {"prehalt", "halted"} => idle[f]
    BY Zenon DEF SchedInv, IdleInv, HaltOk, Asleep
  <2> QED
    BY <2>1, <2>2, <2>3, Zenon DEF RunSafe, Waking
<1> QED
  BY <1>3, <1>4, <1>5, RunMoveInv, Zenon

----------------------------------------------------------------------------
(* Steps that move tasks between places *)

\* What a task becomes that is added to a runqueue.
LEMMA AddFacts ==
    ASSUME SchedInv, NEW x \in Executors, NEW t \in SchedTasks, NEW s \in BOOLEAN, Add(x, t, s)
    PROVE  /\ queue' \in [Executors -> SUBSET SchedTasks]
           /\ stealable' \in [SchedTasks -> BOOLEAN]
           /\ queue'[x] = queue[x] \cup {t} /\ stealable'[t] = s
           /\ \A f \in Executors \ {x} : queue'[f] = queue[f]
           /\ \A u \in SchedTasks \ {t} : stealable'[u] = stealable[u]
<1>1. queue \in [Executors -> SUBSET SchedTasks] /\ stealable \in [SchedTasks -> BOOLEAN]
  BY Zenon DEF SchedInv, SchedTypes
<1>2. /\ queue' = [queue EXCEPT ![x] = queue[x] \cup {t}]
      /\ stealable' = [stealable EXCEPT ![t] = s]
  BY Zenon DEF Add
<1>3. queue[x] \cup {t} \in SUBSET SchedTasks
  BY <1>1, Zenon
<1> QED
  BY <1>1, <1>2, <1>3, Zenon

LEMMA RemoveFacts ==
    ASSUME SchedInv, NEW x \in Executors, NEW t \in queue[x], Remove(x, t)
    PROVE  /\ t \in SchedTasks
           /\ queue' \in [Executors -> SUBSET SchedTasks]
           /\ queue'[x] = queue[x] \ {t}
           /\ \A f \in Executors \ {x} : queue'[f] = queue[f]
<1>1. queue \in [Executors -> SUBSET SchedTasks]
  BY Zenon DEF SchedInv, SchedTypes
<1>2. queue' = [queue EXCEPT ![x] = queue[x] \ {t}]
  BY Zenon DEF Remove
<1> QED
  BY <1>1, <1>2, Zenon

\* The handshake of the executors, when a task is moved: no queue of a sleeping
\* executor grows but by one that will kick it.
LEMMA HandshakeMoved ==
    ASSUME SchedInv, UNCHANGED idleVars,
           \A f \in Executors : sched_pc'[f] \in Asleep =>
              /\ sched_pc'[f] = sched_pc[f]
              /\ \/ queue'[f] \subseteq queue[f]
                 \/ sched_pc[f] # "sleep" /\ \E t \in SchedTasks : Waking(f, t)',
           \A f \in Executors, t \in SchedTasks : Waking(f, t) => Waking(f, t)'
    PROVE  IdleInv'
<1> SUFFICES ASSUME NEW f \in Executors
             PROVE  HaltOk(f)'
  BY Zenon DEF IdleInv
<1>1. idle' = idle /\ ipi' = ipi /\ missed' = missed
  BY Zenon DEF idleVars
<1>2. CASE sched_pc'[f] \notin Asleep
  BY <1>2, Zenon DEF Asleep, HaltOk
<1>3. CASE sched_pc'[f] \in Asleep
  BY <1>1, <1>3, Zenon DEF SchedInv, IdleInv, HaltOk
<1> QED
  BY <1>2, <1>3, Zenon

LEMMA YieldPutInv ==
    ASSUME SchedInv, NEW e \in Executors, NEW t \in SchedTasks, YieldPut(e, t)
    PROVE  SchedInv'
<1>1. /\ current_task[e] = t /\ sched_pc[t] = "put" /\ sched_pc' = [sched_pc EXCEPT ![t] = "pick"]
      /\ task_state' = [task_state EXCEPT ![t] = "ready"] /\ Add(e, t, FALSE)
      /\ lock' = lock /\ current_task' = current_task /\ idle' = idle /\ ipi' = ipi
      /\ missed' = missed /\ known_executor' = known_executor /\ handle' = handle /\ ret' = ret
      /\ task' = task /\ target' = target
  BY Zenon DEF YieldPut, RunsOn, SchedGoto, idleVars
<1>2. /\ known_executor[t] = e /\ sched_pc[e] = "loop" /\ task_state[t] = "running"
      /\ \A f \in Executors : f # e => current_task[f] # t
  BY <1>1, RunnerFacts DEF RunsOn
<1>3. /\ \A f \in Executors : t \notin queue[f]
      /\ \A a \in Actors : task[a] # t
  BY <1>2, Zenon DEF SchedInv, QueueInv, QueuedOk, ByInv, HeldOk
<1>4. /\ sched_pc'[t] = "pick" /\ \A a \in Actors \ {t} : sched_pc'[a] = sched_pc[a]
      /\ sched_pc' \in [Actors -> TaskPcs \cup IdlePcs]
      /\ task_state'[t] = "ready" /\ \A u \in SchedTasks \ {t} : task_state'[u] = task_state[u]
      /\ task_state' \in [SchedTasks -> {"new", "ready", "running", "blocked", "terminated"}]
  <2>1. t \in Actors /\ sched_pc \in [Actors -> TaskPcs \cup IdlePcs] /\ "pick" \in TaskPcs
    BY ActorFacts, Zenon DEF SchedInv, SchedTypes, TaskPcs
  <2>2. task_state \in [SchedTasks -> {"new", "ready", "running", "blocked", "terminated"}]
    BY Zenon DEF SchedInv, SchedTypes
  <2> QED
    BY <1>1, <2>1, <2>2, Zenon
<1>5. /\ \A u \in SchedTasks \ {t} : sched_pc'[u] = sched_pc[u]
      /\ \A f \in Executors : sched_pc'[f] = sched_pc[f]
  BY <1>4, ActorFacts, Zenon
<1>6. /\ queue' \in [Executors -> SUBSET SchedTasks]
      /\ stealable' \in [SchedTasks -> BOOLEAN]
      /\ queue'[e] = queue[e] \cup {t} /\ stealable'[t] = FALSE
      /\ \A f \in Executors \ {e} : queue'[f] = queue[f]
      /\ \A u \in SchedTasks \ {t} : stealable'[u] = stealable[u]
  BY <1>1, <1>3, AddFacts, Zenon
<1>7. SchedTypes'
  <2>1. /\ \A u \in SchedTasks : sched_pc'[u] \in TaskPcs
        /\ \A f \in Executors : sched_pc'[f] \in IdlePcs
    BY <1>4, <1>5, Zenon DEF SchedInv, SchedTypes, TaskPcs
  <2> QED
    BY <1>1, <1>4, <1>6, <2>1, Zenon DEF SchedInv, SchedTypes
<1>8. HandInv'
  <2>1. \A u \in SchedTasks : At(u)' = At(u) /\ (sched_pc'[u] \in Yielding <=> sched_pc[u] \in Yielding)
    BY <1>1, <1>4, <1>5 DEF At, Yielding
  <2> QED
    BY <1>1, <1>5, <2>1 DEF SchedInv, HandInv
<1>9. LockInv'
  <2>1. \A f \in Executors \ {e} : Claims(f)' = Claims(f)
    BY <1>1, <1>2, <1>4, OthersKeepClaims DEF SchedInv, SchedTypes
  <2>2. Claims(e) = e /\ Claims(e)' = e
    BY <1>1, <1>4, Zenon DEF Claims, ClaimAt, OwnLock
  <2> QED
    BY <1>1, <2>1, <2>2, LockMoved, Zenon DEF LockMove
<1>10. StateInv'
  <2>1. handle[t] = e /\ e # None
    BY <1>1, <1>2, ActorFacts, Zenon DEF SchedInv, StateInv, StateOk, Yielding
  <2> QED
    BY <1>1, <1>2, <1>4, <1>5, <2>1 DEF SchedInv, StateInv, StateOk, Yielding
<1>11. OnInv'
  <2> SUFFICES ASSUME NEW f \in Executors, NEW u \in SchedTasks, current_task[f] = u
               PROVE  /\ known_executor[u] = f
                      /\ \/ task_state'[u] = "running"
                         \/ task_state'[u] = "ready" /\ sched_pc'[u] = "pick" /\ u \in queue'[f]
    BY <1>1, Zenon DEF OnInv
  <2>1. /\ known_executor[u] = f
        /\ \/ task_state[u] = "running"
           \/ task_state[u] = "ready" /\ sched_pc[u] = "pick" /\ u \in queue[f]
    BY Zenon DEF SchedInv, OnInv
  <2>2. CASE u = t
    BY <1>1, <1>2, <1>4, <1>6, <2>1, <2>2
  <2>3. CASE u # t
    <3>1. task_state'[u] = task_state[u] /\ sched_pc'[u] = sched_pc[u]
      BY <1>4, <1>5, <2>3, Zenon
    <3>2. queue[f] \subseteq queue'[f]
      BY <1>6, Zenon
    <3> QED
      BY <2>1, <3>1, <3>2, Zenon
  <2> QED
    BY <2>2, <2>3, Zenon
<1>12. QueueInv'
  <2> SUFFICES ASSUME NEW f \in Executors, NEW u \in SchedTasks, u \in queue'[f]
               PROVE  QueuedOk(f, u)'
    BY Zenon DEF QueueInv
  <2>1. CASE u = t
    BY <1>1, <1>2, <1>3, <1>4, <1>6, <2>1 DEF QueuedOk
  <2>2. CASE u # t
    BY <1>1, <1>4, <1>5, <1>6, <2>2 DEF SchedInv, QueueInv, QueuedOk
  <2> QED
    BY <2>1, <2>2, Zenon
<1>13. ByInv'
  <2> SUFFICES ASSUME NEW a \in Actors, NEW u \in SchedTasks, task[a] = u
               PROVE  HeldOk(a, u)'
    BY <1>1, Zenon DEF ByInv
  <2>1. u # t
    BY <1>3, Zenon
  <2>2. /\ sched_pc'[a] = "defer" <=> sched_pc[a] = "defer"
        /\ sched_pc'[a] \in Carrying <=> sched_pc[a] \in Carrying
    BY <1>1, <1>4, Zenon DEF Carrying
  <2> QED
    BY <1>1, <1>4, <1>5, <2>1, <2>2 DEF SchedInv, ByInv, HeldOk
<1>14. SomewhereInv'
  <2> SUFFICES ASSUME NEW u \in SchedTasks
               PROVE  PlacedOk(u)'
    BY Zenon DEF SomewhereInv
  <2>1. CASE u = t
    BY <1>1, <1>2, <1>4, <1>6, <2>1, Zenon DEF Leaving, PlacedOk
  <2>2. CASE u # t
    <3>1. task_state[u] = "running" => known_executor[u] \in Executors
      BY Zenon DEF SchedInv, SchedTypes, StateInv, StateOk
    <3>2. \A f \in Executors : u \in queue[f] => u \in queue'[f]
      BY <1>6, Zenon
    <3>3. PlacedOk(u)
      BY Zenon DEF SchedInv, SomewhereInv
    <3>4. /\ task_state'[u] = task_state[u] /\ sched_pc'[u] = sched_pc[u]
          /\ known_executor' = known_executor /\ current_task' = current_task /\ task' = task
      BY <1>1, <1>4, <1>5, <2>2, Zenon
    <3>5. task_state[u] = "running" => sched_pc'[known_executor[u]] = sched_pc[known_executor[u]]
      BY <1>5, <3>1, Zenon
    <3> QED
      BY <3>2, <3>3, <3>4, <3>5, Zenon DEF PlacedOk
  <2> QED
    BY <2>1, <2>2, Zenon
<1>15. DroppedInv'
  <2>1. \A u \in SchedTasks : sched_pc'[u] \in Leaving => sched_pc[u] \in Leaving
    BY <1>4, <1>5, Zenon DEF Leaving
  <2> QED
    BY <1>1, <2>1, Zenon DEF SchedInv, DroppedInv
<1>16. IdleInv'
  <2>1. \A f \in Executors, u \in SchedTasks : Waking(f, u) => Waking(f, u)'
    BY <1>1, <1>5, Zenon DEF Waking
  <2> QED
    BY <1>1, <1>2, <1>5, <1>6, <2>1, HandshakeMoved, Zenon DEF idleVars, Asleep
<1> QED
  BY <1>6, <1>7, <1>8, <1>9, <1>10, <1>11, <1>12, <1>13, <1>14, <1>15, <1>16, Zenon DEF SchedInv

\* The pick of yield(), whose task goes on suspended in the queue, and the one
\* of the idle loop.
PickBy(e, a) ==
    \/ a \in SchedTasks /\ SchedGoto(a, "pick", "resume")
    \/ a = e /\ SchedGoto(a, "next", "loop")

LEMMA PickInv ==
    ASSUME SchedInv, NEW e \in Executors, NEW a \in Actors, current_task[e] = a, PickBy(e, a),
           NEW n \in Candidates(e), Remove(e, n), SwitchTo(e, n, task_state),
           UNCHANGED <<lock, idleVars, stealable, handle, ret, task, target>>
    PROVE  SchedInv'
<1>1. n \in queue[e] /\ n \in SchedTasks /\ n \in Actors
  BY CandidatesQueued, ActorFacts, Zenon DEF SchedInv, SchedTypes
<1>2. /\ task_state[n] = "ready" /\ \A b \in Actors : task[b] # n
      /\ sched_pc[n] = "resume" => known_executor[n] = e
      /\ sched_pc[n] = "pick" => n = a
      /\ \A f \in Executors : n \in queue[f] => f = e
      /\ sched_pc[n] \in {"pick", "resume", "rederive"}
  <2>1. QueuedOk(e, n) /\ StateOk(n)
    BY <1>1, Zenon DEF SchedInv, QueueInv, StateInv
  <2> QED
    BY <1>1, <2>1, Zenon DEF QueuedOk, StateOk
<1>3. /\ current_task' = [current_task EXCEPT ![e] = n]
      /\ task_state' = [task_state EXCEPT ![n] = "running"]
      /\ known_executor' = [known_executor EXCEPT ![n] = e]
      /\ lock' = lock /\ idle' = idle /\ ipi' = ipi /\ missed' = missed /\ stealable' = stealable
      /\ handle' = handle /\ ret' = ret /\ task' = task /\ target' = target
  BY Zenon DEF SwitchTo, idleVars
<1>4. /\ queue' \in [Executors -> SUBSET SchedTasks]
      /\ queue'[e] = queue[e] \ {n}
      /\ \A f \in Executors \ {e} : queue'[f] = queue[f]
  BY <1>1, RemoveFacts, Zenon
<1>5. PICK q \in {"resume", "loop"} : /\ sched_pc' = [sched_pc EXCEPT ![a] = q]
                                      /\ sched_pc[a] = IF q = "resume" THEN "pick" ELSE "next"
                                      /\ IF q = "resume" THEN a \in SchedTasks ELSE a = e
  BY Zenon DEF PickBy, SchedGoto
<1>6. /\ sched_pc'[a] = q /\ \A b \in Actors \ {a} : sched_pc'[b] = sched_pc[b]
      /\ sched_pc' \in [Actors -> TaskPcs \cup IdlePcs]
  BY <1>5 DEF SchedInv, SchedTypes, TaskPcs, IdlePcs
<1>7. /\ current_task'[e] = n /\ \A f \in Executors \ {e} : current_task'[f] = current_task[f]
      /\ current_task' \in [Executors -> Actors]
      /\ task_state'[n] = "running" /\ \A u \in SchedTasks \ {n} : task_state'[u] = task_state[u]
      /\ task_state' \in [SchedTasks -> {"new", "ready", "running", "blocked", "terminated"}]
      /\ known_executor'[n] = e
      /\ \A u \in SchedTasks \ {n} : known_executor'[u] = known_executor[u]
      /\ known_executor' \in [SchedTasks -> Executors \cup {None}]
  BY <1>1, <1>3, Zenon DEF SchedInv, SchedTypes
<1>8. ASSUME a \in SchedTasks
      PROVE  /\ sched_pc[a] = "pick" /\ q = "resume" /\ known_executor[a] = e /\ sched_pc[e] = "loop"
             /\ task_state[a] = "ready" /\ a \in queue[e] /\ ~stealable[a]
             /\ handle[a] = e
  <2>1. sched_pc[a] = "pick" /\ q = "resume"
    BY <1>5, <1>8, ActorFacts, Zenon
  <2>2. known_executor[a] = e /\ sched_pc[e] = "loop"
    BY <1>8, RunnerFacts, Zenon DEF RunsOn
  <2>3. task_state[a] = "ready" /\ a \in queue[e]
    BY <1>8, <2>1 DEF SchedInv, OnInv, StateInv, StateOk
  <2> QED
    BY <1>8, <2>1, <2>2, <2>3, Zenon DEF SchedInv, StateInv, StateOk, QueueInv, QueuedOk, Yielding
<1>9. /\ sched_pc'[e] = "loop" /\ task[e] = None /\ target[e] = None
      /\ sched_pc[e] \in {"next", "loop"}
      /\ \A f \in Executors \ {e} : sched_pc'[f] = sched_pc[f]
  <2>1. sched_pc[e] \in {"next", "loop"} /\ sched_pc'[e] = "loop"
    BY <1>5, <1>6, <1>8, ActorFacts, Zenon
  <2>2. task[e] = None /\ target[e] = None
    BY <2>1, Zenon DEF SchedInv, HandInv, Carrying, Aiming
  <2>3. \A f \in Executors \ {e} : f # a /\ f \in Actors
    BY <1>5, ActorFacts, Zenon
  <2> QED
    BY <1>6, <2>1, <2>2, <2>3, Zenon
<1>10. /\ sched_pc'[n] \in {"resume", "rederive"}
       /\ sched_pc'[n] = "resume" => handle[n] = e
  BY <1>1, <1>2, <1>5, <1>6, <1>8, Zenon DEF SchedInv, StateInv, StateOk, Yielding
<1>11. \A f \in Executors \ {e} : current_task[f] # n /\ current_task[f] # a /\ current_task[f] # e
  BY <1>1, <1>2, Apart, Zenon DEF SchedInv, OnInv
<1>12. \A u \in SchedTasks : u # a => sched_pc'[u] = sched_pc[u]
  BY <1>6, ActorFacts, Zenon
<1>13. SchedTypes'
  <2>1. /\ \A u \in SchedTasks : sched_pc'[u] \in TaskPcs
        /\ \A f \in Executors : sched_pc'[f] \in IdlePcs
    BY <1>6, <1>8, <1>9, <1>12 DEF SchedInv, SchedTypes, TaskPcs, IdlePcs
  <2> QED
    BY <1>3, <1>4, <1>6, <1>7, <2>1, Zenon DEF SchedInv, SchedTypes
<1>14. HandInv'
  <2>1. \A u \in SchedTasks : At(u)' = At(u) /\ (sched_pc'[u] \in Yielding <=> sched_pc[u] \in Yielding)
    BY <1>3, <1>6, <1>8, <1>12, Zenon DEF At, Yielding
  <2>2. \A u \in SchedTasks :
          /\ ret'[u] # "run" => sched_pc'[u] \in Yielding
          /\ task'[u] # None <=> At(u)' \in Placing
          /\ target'[u] # None <=> At(u)' \in Targeting
    BY <1>3, <2>1, Zenon DEF SchedInv, HandInv
  <2>3. \A f \in Executors :
          /\ current_task'[f] # f => sched_pc'[f] = "loop" /\ current_task'[f] \in SchedTasks
          /\ sched_pc'[f] \in Carrying => task'[f] # None
          /\ task'[f] # None => sched_pc'[f] \in Carrying \cup {"defer"}
          /\ target'[f] # None <=> sched_pc'[f] \in Aiming
    <3> SUFFICES ASSUME NEW f \in Executors
                 PROVE  /\ current_task'[f] # f => sched_pc'[f] = "loop" /\ current_task'[f] \in SchedTasks
                        /\ sched_pc'[f] \in Carrying => task'[f] # None
                        /\ task'[f] # None => sched_pc'[f] \in Carrying \cup {"defer"}
                        /\ target'[f] # None <=> sched_pc'[f] \in Aiming
      BY Zenon
    <3>1. CASE f = e
      BY <1>1, <1>3, <1>7, <1>9, <3>1, Zenon DEF Carrying, Aiming
    <3>2. CASE f # e
      BY <1>3, <1>7, <1>9, <3>2 DEF SchedInv, HandInv
    <3> QED
      BY <3>1, <3>2, Zenon
  <2> QED
    BY <2>2, <2>3, Zenon DEF HandInv
<1>15. LockInv'
  <2>1. \A f \in Executors \ {e} : Claims(f)' = Claims(f)
    BY <1>3, <1>6, <1>7, <1>11, OthersKeepClaims, Zenon DEF SchedInv, SchedTypes
  <2>2. Claims(e) = e
    BY <1>5, Zenon DEF Claims, ClaimAt, OwnLock
  <2>3. Claims(e)' = e
    BY <1>7, <1>10, Zenon DEF Claims, ClaimAt, OwnLock
  <2> QED
    BY <1>3, <2>1, <2>2, <2>3, LockMoved, Zenon DEF LockMove
<1>16. StateInv'
  <2> SUFFICES ASSUME NEW u \in SchedTasks
               PROVE  StateOk(u)'
    BY Zenon DEF StateInv
  <2>1. CASE u = n
    BY <1>3, <1>7, <1>10, <2>1, ActorFacts, Zenon DEF StateOk, Yielding
  <2>2. CASE u # n /\ u = a
    BY <1>3, <1>6, <1>7, <1>8, <2>2, ActorFacts DEF StateOk, Yielding
  <2>3. CASE u # n /\ u # a
    BY <1>3, <1>7, <1>12, <2>3 DEF SchedInv, StateInv, StateOk
  <2> QED
    BY <2>1, <2>2, <2>3, Zenon
<1>17. OnInv'
  <2> SUFFICES ASSUME NEW f \in Executors, NEW u \in SchedTasks, current_task'[f] = u
               PROVE  /\ known_executor'[u] = f
                      /\ \/ task_state'[u] = "running"
                         \/ task_state'[u] = "ready" /\ sched_pc'[u] = "pick" /\ u \in queue'[f]
    BY Zenon DEF OnInv
  <2>1. CASE f = e
    BY <1>7, <2>1, Zenon
  <2>2. CASE f # e
    <3>1. current_task[f] = u
      BY <1>7, <2>2, Zenon
    <3>2. u # n /\ u # a
      BY <1>11, <2>2, <3>1, Zenon
    <3>3. /\ known_executor'[u] = known_executor[u] /\ task_state'[u] = task_state[u]
          /\ sched_pc'[u] = sched_pc[u] /\ queue'[f] = queue[f]
      BY <1>4, <1>7, <1>12, <2>2, <3>2, Zenon
    <3> QED
      BY <3>1, <3>3, Zenon DEF SchedInv, OnInv
  <2> QED
    BY <2>1, <2>2, Zenon
<1>18. QueueInv'
  <2> SUFFICES ASSUME NEW f \in Executors, NEW u \in SchedTasks, u \in queue'[f]
               PROVE  QueuedOk(f, u)'
    BY Zenon DEF QueueInv
  <2>1. u # n /\ u \in queue[f] /\ \A x \in Executors : u \in queue'[x] => u \in queue[x]
    BY <1>2, <1>4, Zenon
  <2>2. QueuedOk(f, u)
    BY <2>1, Zenon DEF SchedInv, QueueInv
  <2>3. CASE u = a
    BY <1>3, <1>6, <1>7, <1>8, <2>1, <2>2, <2>3 DEF QueuedOk
  <2>4. CASE u # a
    BY <1>3, <1>7, <1>12, <2>1, <2>2, <2>4, Zenon DEF QueuedOk
  <2> QED
    BY <2>3, <2>4, Zenon
<1>19. ByInv'
  <2> SUFFICES ASSUME NEW b \in Actors, NEW u \in SchedTasks, task[b] = u
               PROVE  HeldOk(b, u)'
    BY <1>3, Zenon DEF ByInv
  <2>1. HeldOk(b, u) /\ u # n /\ u # a
    BY <1>2, <1>8, Zenon DEF SchedInv, ByInv, QueueInv, QueuedOk
  <2>2. /\ sched_pc'[b] = "defer" <=> sched_pc[b] = "defer"
        /\ sched_pc'[b] \in Carrying <=> sched_pc[b] \in Carrying
    BY <1>5, <1>6, Zenon DEF Carrying
  <2> QED
    BY <1>3, <1>7, <1>12, <2>1, <2>2 DEF HeldOk
<1>20. SomewhereInv'
  <2> SUFFICES ASSUME NEW u \in SchedTasks
               PROVE  PlacedOk(u)'
    BY Zenon DEF SomewhereInv
  <2>1. CASE u = n
    BY <1>7, <1>10, <2>1, Zenon DEF PlacedOk, Leaving
  <2>2. CASE u # n /\ u = a
    BY <1>4, <1>6, <1>7, <1>8, <2>2, Zenon DEF PlacedOk, Leaving
  <2>3. CASE u # n /\ u # a
    <3>1. PlacedOk(u)
      BY Zenon DEF SchedInv, SomewhereInv
    <3>2. \A f \in Executors : u \in queue[f] => u \in queue'[f]
      BY <1>4, <2>3, Zenon
    <3>3. known_executor[u] = e => task_state[u] # "running" /\ sched_pc[u] # "pick"
      BY <1>9, <2>3, <3>1, Zenon DEF PlacedOk
    <3>4. task_state[u] = "running" \/ sched_pc[u] = "pick" => known_executor[u] \in Executors
      BY Zenon DEF SchedInv, SchedTypes, StateInv, StateOk
    <3>5. /\ task_state'[u] = task_state[u] /\ known_executor'[u] = known_executor[u]
          /\ sched_pc'[u] = sched_pc[u] /\ task' = task
      BY <1>3, <1>7, <1>12, <2>3, Zenon
    <3>6. task_state[u] = "running" \/ sched_pc[u] = "pick" =>
            /\ sched_pc'[known_executor[u]] = sched_pc[known_executor[u]]
            /\ current_task'[known_executor[u]] = current_task[known_executor[u]]
      BY <1>7, <1>9, <3>3, <3>4, Zenon
    <3> QED
      BY <3>1, <3>2, <3>5, <3>6, Zenon DEF PlacedOk
  <2> QED
    BY <2>1, <2>2, <2>3, Zenon
<1>21. DroppedInv'
  <2>1. \A u \in SchedTasks : sched_pc'[u] \in Leaving => sched_pc[u] \in Leaving /\ u # n
    BY <1>6, <1>8, <1>10, <1>12, Zenon DEF Leaving
  <2> QED
    BY <1>7, <2>1, Zenon DEF SchedInv, DroppedInv
<1>22. IdleInv'
  <2>1. \A f \in Executors, u \in SchedTasks : Waking(f, u) => Waking(f, u)'
    BY <1>3, <1>8, <1>12, Zenon DEF Waking
  <2> QED
    BY <1>3, <1>4, <1>9, <2>1, HandshakeMoved, Zenon DEF idleVars, Asleep
<1> QED
  BY <1>13, <1>14, <1>15, <1>16, <1>17, <1>18, <1>19, <1>20, <1>21, <1>22, Zenon DEF SchedInv

LEMMA YieldPickInv ==
    ASSUME SchedInv, NEW e \in Executors, NEW t \in SchedTasks, YieldPick(e, t)
    PROVE  SchedInv'
  BY PickInv, ActorFacts, Zenon DEF YieldPick, RunsOn, PickBy

LEMMA IdlePickInv == ASSUME SchedInv, NEW e \in Executors, IdlePick(e) PROVE SchedInv'
  BY PickInv, ActorFacts, Zenon DEF IdlePick, Sched, PickBy

\* The waker claims a task that is in no place.
LEMMA WakeInv ==
    ASSUME SchedInv, NEW e \in Executors, NEW t \in SchedTasks, Wake(e, t)
    PROVE  SchedInv'
<1>1. /\ current_task[e] = t /\ sched_pc[t] = "run" /\ sched_pc' = [sched_pc EXCEPT ![t] = "enlock"]
      /\ lock' = lock /\ queue' = queue
      /\ current_task' = current_task /\ idle' = idle /\ ipi' = ipi /\ missed' = missed
      /\ stealable' = stealable /\ known_executor' = known_executor /\ handle' = handle /\ ret' = ret
  BY Zenon DEF Wake, RunsOn, SchedGoto, queueVars, idleVars
<1>2. PICK u \in SchedTasks, x \in Executors :
        /\ task_state[u] \in {"new", "blocked"}
        /\ task_state[u] = "blocked" /\ u \in Pinned => x = known_executor[u]
        /\ task_state' = [task_state EXCEPT ![u] = "ready"]
        /\ task' = [task EXCEPT ![t] = u]
        /\ target' = [target EXCEPT ![t] = x]
  BY Zenon DEF Wake
<1>3. /\ known_executor[t] = e /\ sched_pc[e] = "loop" /\ task_state[t] = "running"
      /\ \A f \in Executors : f # e => current_task[f] # t
  BY <1>1, RunnerFacts DEF RunsOn
<1>4. /\ u # t /\ sched_pc[u] = "rederive" /\ ret[u] = "run"
      /\ \A f \in Executors : u \notin queue[f] /\ current_task[f] # u
      /\ \A a \in Actors : task[a] # u
      /\ u \in Pinned /\ known_executor[u] # None => known_executor[u] = x
  <2>1. u # t /\ sched_pc[u] = "rederive"
    BY <1>2, <1>3, Zenon DEF SchedInv, StateInv, StateOk
  <2>2. ret[u] = "run"
    BY <2>1, OwnFacts, Zenon DEF Yielding
  <2>3. \A f \in Executors : u \notin queue[f] /\ current_task[f] # u
    BY <1>2, Zenon DEF SchedInv, QueueInv, QueuedOk, OnInv
  <2>4. \A a \in Actors : task[a] # u
    BY <1>2, Zenon DEF SchedInv, ByInv, HeldOk
  <2>5. u \in Pinned /\ known_executor[u] # None => known_executor[u] = x
    BY <1>2, Zenon DEF SchedInv, StateInv, StateOk
  <2> QED
    BY <2>1, <2>2, <2>3, <2>4, <2>5, Zenon
<1>5. ret[t] = "run" /\ At(t) = "run" /\ task[t] = None /\ target[t] = None
  BY <1>1, OwnFacts, Zenon DEF At, Yielding, Placing, Targeting
<1>6. /\ sched_pc'[t] = "enlock" /\ \A a \in Actors \ {t} : sched_pc'[a] = sched_pc[a]
      /\ task'[t] = u /\ \A a \in Actors \ {t} : task'[a] = task[a]
      /\ target'[t] = x /\ \A a \in Actors \ {t} : target'[a] = target[a]
      /\ sched_pc' \in [Actors -> TaskPcs \cup IdlePcs]
      /\ task' \in [Actors -> SchedTasks \cup {None}] /\ target' \in [Actors -> Executors \cup {None}]
  <2>1. /\ t \in Actors /\ sched_pc \in [Actors -> TaskPcs \cup IdlePcs] /\ "enlock" \in TaskPcs
        /\ task \in [Actors -> SchedTasks \cup {None}] /\ target \in [Actors -> Executors \cup {None}]
    BY ActorFacts, Zenon DEF SchedInv, SchedTypes, TaskPcs
  <2> QED
    BY <1>1, <1>2, <2>1, Zenon
<1>7. /\ task_state'[u] = "ready" /\ \A v \in SchedTasks \ {u} : task_state'[v] = task_state[v]
      /\ task_state' \in [SchedTasks -> {"new", "ready", "running", "blocked", "terminated"}]
  BY <1>2, Zenon DEF SchedInv, SchedTypes
<1>8. /\ \A v \in SchedTasks \ {t} : sched_pc'[v] = sched_pc[v] /\ task'[v] = task[v] /\ target'[v] = target[v]
      /\ \A f \in Executors : sched_pc'[f] = sched_pc[f] /\ task'[f] = task[f] /\ target'[f] = target[f]
  BY <1>6, ActorFacts, Zenon
<1>9. SchedTypes'
  <2>1. /\ \A v \in SchedTasks : sched_pc'[v] \in TaskPcs
        /\ \A f \in Executors : sched_pc'[f] \in IdlePcs
    BY <1>6, <1>8, Zenon DEF SchedInv, SchedTypes, TaskPcs
  <2> QED
    BY <1>1, <1>6, <1>7, <2>1, Zenon DEF SchedInv, SchedTypes
<1>10. HandInv'
  <2>1. At(t)' = "enlock" /\ \A v \in SchedTasks \ {t} : At(v)' = At(v)
    BY <1>1, <1>6, <1>8 DEF At, Yielding
  <2>2. \A v \in SchedTasks :
          /\ ret'[v] # "run" => sched_pc'[v] \in Yielding
          /\ task'[v] # None <=> At(v)' \in Placing
          /\ target'[v] # None <=> At(v)' \in Targeting
    <3> SUFFICES ASSUME NEW v \in SchedTasks
                 PROVE  /\ ret'[v] # "run" => sched_pc'[v] \in Yielding
                        /\ task'[v] # None <=> At(v)' \in Placing
                        /\ target'[v] # None <=> At(v)' \in Targeting
      BY Zenon
    <3>1. CASE v = t
      BY <1>1, <1>5, <1>6, <2>1, <3>1, ActorFacts, Zenon DEF Placing, Targeting
    <3>2. CASE v # t
      BY <1>1, <1>8, <2>1, <3>2 DEF SchedInv, HandInv
    <3> QED
      BY <3>1, <3>2, Zenon
  <2> QED
    BY <1>1, <1>8, <2>2 DEF SchedInv, HandInv
<1>11. LockInv'
  <2>1. \A f \in Executors \ {e} : Claims(f)' = Claims(f)
    BY <1>1, <1>3, <1>6, OthersKeepClaims, Zenon DEF SchedInv, SchedTypes
  <2>2. Claims(e) = None /\ Claims(e)' = None
    BY <1>1, <1>6, Zenon DEF Claims, ClaimAt, OwnLock, TargetLock
  <2> QED
    BY <1>1, <2>1, <2>2, LockMoved, Zenon DEF LockMove
<1>12. StateInv'
  <2> SUFFICES ASSUME NEW v \in SchedTasks
               PROVE  StateOk(v)'
    BY Zenon DEF StateInv
  <2>1. CASE v = t
    BY <1>1, <1>3, <1>4, <1>6, <1>7, <2>1, ActorFacts DEF StateOk, Yielding
  <2>2. CASE v = u
    BY <1>4, <1>7, <1>8, <2>2, Zenon DEF StateOk, Yielding
  <2>3. CASE v # t /\ v # u
    BY <1>1, <1>7, <1>8, <2>3 DEF SchedInv, StateInv, StateOk
  <2> QED
    BY <2>1, <2>2, <2>3, Zenon
<1>13. OnInv'
  BY <1>1, <1>3, <1>4, <1>7, <1>8 DEF SchedInv, OnInv
<1>14. QueueInv'
  <2> SUFFICES ASSUME NEW f \in Executors, NEW v \in SchedTasks, v \in queue[f]
               PROVE  QueuedOk(f, v)'
    BY <1>1, Zenon DEF QueueInv
  <2>1. QueuedOk(f, v) /\ v # u /\ v # t
    <3>1. QueuedOk(f, v)
      BY Zenon DEF SchedInv, QueueInv
    <3> QED
      BY <1>3, <1>4, <3>1, ActorFacts, Zenon DEF QueuedOk
  <2> QED
    BY <1>1, <1>6, <1>7, <1>8, <2>1 DEF QueuedOk
<1>15. ByInv'
  <2> SUFFICES ASSUME NEW a \in Actors, NEW v \in SchedTasks, task'[a] = v
               PROVE  HeldOk(a, v)'
    BY Zenon DEF ByInv
  <2>1. CASE a = t
    <3>1. v = u /\ \A b \in Actors : task'[b] = u => b = t
      BY <1>4, <1>6, <2>1, Zenon
    <3> QED
      BY <1>1, <1>4, <1>6, <1>7, <1>8, <2>1, <3>1 DEF HeldOk, Carrying
  <2>2. CASE a # t
    <3>1. task[a] = v /\ HeldOk(a, v) /\ v # u /\ v # t
      BY <1>3, <1>4, <1>6, <2>2 DEF SchedInv, ByInv, HeldOk
    <3> QED
      BY <1>1, <1>6, <1>7, <1>8, <2>2, <3>1 DEF HeldOk
  <2> QED
    BY <2>1, <2>2, Zenon
<1>16. SomewhereInv'
  <2> SUFFICES ASSUME NEW v \in SchedTasks
               PROVE  PlacedOk(v)'
    BY Zenon DEF SomewhereInv
  <2>1. CASE v = t
    BY <1>1, <1>3, <1>4, <1>6, <1>7, <2>1, Zenon DEF PlacedOk, Leaving
  <2>2. CASE v = u
    BY <1>4, <1>6, <1>7, <1>8, <2>2, ActorFacts, Zenon DEF PlacedOk, Leaving
  <2>3. CASE v # t /\ v # u
    <3>1. PlacedOk(v)
      BY Zenon DEF SchedInv, SomewhereInv
    <3>2. task_state[v] = "running" => known_executor[v] \in Executors
      BY Zenon DEF SchedInv, SchedTypes, StateInv, StateOk
    <3>3. \A a \in Actors : task[a] = v => task'[a] = v
      BY <1>5, <1>6, ActorFacts, Zenon
    <3> QED
      BY <1>1, <1>7, <1>8, <2>3, <3>1, <3>2, <3>3, Zenon DEF PlacedOk
  <2> QED
    BY <2>1, <2>2, <2>3, Zenon
<1>17. DroppedInv'
  BY <1>1, <1>6, <1>8 DEF SchedInv, DroppedInv, Leaving
<1>19. IdleInv'
  <2>1. \A f \in Executors, v \in SchedTasks : Waking(f, v) => Waking(f, v)'
    BY <1>1, <1>5, <1>8, ActorFacts, Zenon DEF Waking
  <2> QED
    BY <1>1, <1>8, <2>1, HandshakeMoved, Zenon DEF idleVars
<1> QED
  BY <1>9, <1>10, <1>11, <1>12, <1>13, <1>14, <1>15, <1>16, <1>17, <1>19, Zenon DEF SchedInv

\* A waker or a thief queues the task it holds, on an executor that it has locked.
\* A halted one will be kicked: the waker has yet to unlock and kick.
PutBy(e, a, x) ==
    \/ a \in SchedTasks /\ x = target[a] /\ SchedGoto(a, "enqueue", "enunlock")
    \/ a = e /\ x = e /\ SchedGoto(a, "readd", "reunlock")

LEMMA PutInv ==
    ASSUME SchedInv, NEW e \in Executors, NEW a \in Actors, current_task[e] = a,
           NEW x \in Executors, PutBy(e, a, x), Add(x, task[a], TRUE),
           task' = [task EXCEPT ![a] = None],
           UNCHANGED <<lock, current_task, idleVars, task_state, known_executor, handle, ret, target>>
    PROVE  SchedInv'
<1>1. PICK q \in {"enunlock", "reunlock"} :
        /\ sched_pc' = [sched_pc EXCEPT ![a] = q]
        /\ sched_pc[a] = IF q = "enunlock" THEN "enqueue" ELSE "readd"
        /\ IF q = "enunlock" THEN a \in SchedTasks /\ x = target[a] ELSE a = e /\ x = e
  BY Zenon DEF PutBy, SchedGoto
<1>2. /\ lock' = lock /\ current_task' = current_task /\ idle' = idle /\ ipi' = ipi
      /\ missed' = missed /\ task_state' = task_state /\ known_executor' = known_executor
      /\ handle' = handle /\ ret' = ret /\ target' = target
  BY Zenon DEF idleVars
<1>3. task[a] \in SchedTasks
  <2>1. a \in SchedTasks => At(a) = "enqueue"
    BY <1>1, ActorFacts, Zenon DEF At, Yielding
  <2>2. task[a] # None
    BY <1>1, <2>1, OwnFacts, Zenon DEF SchedInv, HandInv, Placing, Carrying
  <2> QED
    BY <2>2, Zenon DEF SchedInv, SchedTypes
<1> DEFINE u == task[a]
<1>4. /\ task_state[u] = "ready" /\ sched_pc[u] \in {"rederive"}
      /\ \A b \in Actors : task[b] = u => b = a
      /\ \A f \in Executors : u \notin queue[f]
      /\ u \in Pinned /\ known_executor[u] # None => known_executor[u] = x
  <2>1. HeldOk(a, u)
    BY <1>3, Zenon DEF SchedInv, ByInv
  <2>2. sched_pc[u] = "rederive"
    BY <1>1, <1>3, <2>1, Zenon DEF SchedInv, StateInv, StateOk, HeldOk
  <2>3. \A f \in Executors : u \notin queue[f]
    BY <1>3, Zenon DEF SchedInv, QueueInv, QueuedOk
  <2>4. u \in Pinned /\ known_executor[u] # None => known_executor[u] = x
    BY <1>1, <2>1, ActorFacts, Zenon DEF HeldOk
  <2> QED
    BY <2>1, <2>2, <2>3, <2>4, Zenon DEF HeldOk
<1>5. /\ queue' \in [Executors -> SUBSET SchedTasks]
      /\ stealable' \in [SchedTasks -> BOOLEAN]
      /\ queue'[x] = queue[x] \cup {u} /\ stealable'[u] = TRUE
      /\ \A f \in Executors \ {x} : queue'[f] = queue[f]
      /\ \A v \in SchedTasks \ {u} : stealable'[v] = stealable[v]
  BY <1>3, <1>4, AddFacts, Zenon
<1>6. /\ sched_pc'[a] = q /\ \A b \in Actors \ {a} : sched_pc'[b] = sched_pc[b]
      /\ sched_pc' \in [Actors -> TaskPcs \cup IdlePcs]
      /\ task'[a] = None /\ \A b \in Actors \ {a} : task'[b] = task[b]
      /\ task' \in [Actors -> SchedTasks \cup {None}]
  BY <1>1 DEF SchedInv, SchedTypes, TaskPcs, IdlePcs
<1>7. ASSUME a \in SchedTasks
      PROVE  /\ sched_pc[a] = "enqueue" /\ q = "enunlock" /\ x = target[a] /\ task_state[a] = "running"
             /\ known_executor[a] = e /\ sched_pc[e] = "loop" /\ ret[a] = "run"
             /\ At(a) = "enqueue"
  <2>1. sched_pc[a] = "enqueue" /\ q = "enunlock" /\ x = target[a]
    BY <1>1, <1>7, ActorFacts, Zenon
  <2>2. task_state[a] = "running" /\ known_executor[a] = e /\ sched_pc[e] = "loop"
    BY <1>7, <2>1, RunnerFacts DEF RunsOn
  <2> QED
    BY <1>7, <2>1, <2>2, OwnFacts, Zenon DEF Yielding, At
<1>8. ASSUME a \notin SchedTasks
      PROVE  a = e /\ x = e /\ sched_pc[e] = "readd" /\ q = "reunlock"
  BY <1>1, <1>8, Zenon
<1>9. /\ \A v \in SchedTasks : v # a => sched_pc'[v] = sched_pc[v]
      /\ \A f \in Executors : f # a => sched_pc'[f] = sched_pc[f]
  BY <1>6, ActorFacts, Zenon
<1>10. u # a /\ sched_pc'[u] = "rederive"
  <2>1. u # a
    BY <1>3, <1>4, <1>7, Zenon
  <2> QED
    BY <1>3, <1>4, <1>9, <2>1, Zenon
<1>11. SchedTypes'
  <2>1. /\ \A v \in SchedTasks : sched_pc'[v] \in TaskPcs
        /\ \A f \in Executors : sched_pc'[f] \in IdlePcs
    BY <1>6, <1>7, <1>8, <1>9, ActorFacts DEF SchedInv, SchedTypes, TaskPcs, IdlePcs
  <2> QED
    BY <1>2, <1>5, <1>6, <2>1 DEF SchedInv, SchedTypes
<1>12. HandInv'
  <2>1. \A v \in SchedTasks :
          /\ ret'[v] # "run" => sched_pc'[v] \in Yielding
          /\ task'[v] # None <=> At(v)' \in Placing
          /\ target'[v] # None <=> At(v)' \in Targeting
    <3> SUFFICES ASSUME NEW v \in SchedTasks
                 PROVE  /\ ret'[v] # "run" => sched_pc'[v] \in Yielding
                        /\ task'[v] # None <=> At(v)' \in Placing
                        /\ target'[v] # None <=> At(v)' \in Targeting
      BY Zenon
    <3>1. CASE v = a
      <4>1. At(v)' = "enunlock" /\ target[v] # None
        BY <1>6, <1>7, <3>1, OwnFacts, Zenon DEF At, Yielding, Targeting
      <4> QED
        BY <1>2, <1>6, <1>7, <3>1, <4>1, Zenon DEF Placing, Targeting
    <3>2. CASE v # a
      <4>1. At(v)' = At(v)
        BY <1>2, <1>9, <3>2, Zenon DEF At
      <4> QED
        BY <1>2, <1>6, <1>9, <3>2, <4>1, ActorFacts DEF SchedInv, HandInv
    <3> QED
      BY <3>1, <3>2, Zenon
  <2>2. ASSUME NEW f \in Executors
        PROVE  /\ current_task'[f] # f => sched_pc'[f] = "loop" /\ current_task'[f] \in SchedTasks
               /\ sched_pc'[f] \in Carrying => task'[f] # None
               /\ task'[f] # None => sched_pc'[f] \in Carrying \cup {"defer"}
               /\ target'[f] # None <=> sched_pc'[f] \in Aiming
    <3>1. CASE f = a
      <4>1. f = e /\ q = "reunlock" /\ sched_pc[f] = "readd"
        BY <1>8, <3>1, ActorFacts, Zenon
      <4> QED
        BY <1>2, <1>6, <3>1, <4>1, Zenon DEF SchedInv, HandInv, Carrying, Aiming
    <3>2. CASE f # a
      BY <1>2, <1>6, <1>9, <3>2, ActorFacts, Zenon DEF SchedInv, HandInv
    <3> QED
      BY <3>1, <3>2, Zenon
  <2> QED
    BY <2>1, <2>2, Zenon DEF HandInv
<1>13. LockInv'
  <2>1. \A f \in Executors \ {e} : current_task[f] \in Actors \ {a}
    BY Apart, Zenon DEF SchedInv, SchedTypes
  <2>2. \A f \in Executors \ {e} : Claims(f)' = Claims(f)
    BY <1>2, <1>6, <2>1, OthersKeepClaims, Zenon
  <2>3. Claims(e) = x /\ Claims(e)' = x
    BY <1>1, <1>2, <1>6, Zenon DEF Claims, ClaimAt, OwnLock, TargetLock
  <2> QED
    BY <1>2, <2>2, <2>3, LockMoved, Zenon DEF LockMove
<1>14. StateInv'
  <2> SUFFICES ASSUME NEW v \in SchedTasks
               PROVE  StateOk(v)'
    BY Zenon DEF StateInv
  <2>1. CASE v = a
    BY <1>2, <1>6, <1>7, <2>1, ActorFacts DEF StateOk, Yielding
  <2>2. CASE v # a
    BY <1>2, <1>9, <2>2, Zenon DEF SchedInv, StateInv, StateOk
  <2> QED
    BY <2>1, <2>2, Zenon
<1>15. OnInv'
  <2> SUFFICES ASSUME NEW f \in Executors, NEW v \in SchedTasks, current_task[f] = v
               PROVE  /\ known_executor[v] = f
                      /\ \/ task_state[v] = "running"
                         \/ task_state[v] = "ready" /\ sched_pc'[v] = "pick" /\ v \in queue'[f]
    BY <1>2 DEF OnInv
  <2>1. /\ known_executor[v] = f
        /\ \/ task_state[v] = "running"
           \/ task_state[v] = "ready" /\ sched_pc[v] = "pick" /\ v \in queue[f]
    BY Zenon DEF SchedInv, OnInv
  <2>2. queue[f] \subseteq queue'[f]
    BY <1>5, Zenon
  <2>3. CASE v = a
    BY <1>7, <2>1, <2>3, Zenon
  <2>4. CASE v # a
    BY <1>9, <2>1, <2>2, <2>4, Zenon
  <2> QED
    BY <2>3, <2>4, Zenon
<1>16. QueueInv'
  <2> SUFFICES ASSUME NEW f \in Executors, NEW v \in SchedTasks, v \in queue'[f]
               PROVE  QueuedOk(f, v)'
    BY Zenon DEF QueueInv
  <2>1. CASE v = u
    <3>1. f = x /\ \A y \in Executors : u \in queue'[y] => y = x
      BY <1>4, <1>5, <2>1, Zenon
    <3>2. \A b \in Actors : task'[b] # u
      BY <1>3, <1>4, <1>6, ActorFacts, Zenon
    <3> QED
      BY <1>2, <1>4, <1>10, <2>1, <3>1, <3>2, Zenon DEF QueuedOk
  <2>2. CASE v # u
    <3>1. v \in queue[f] /\ \A y \in Executors : v \in queue'[y] => v \in queue[y]
      BY <1>5, <2>2
    <3>2. QueuedOk(f, v)
      BY <3>1, Zenon DEF SchedInv, QueueInv
    <3>3. v # a
      BY <1>7, <3>2, Zenon DEF QueuedOk
    <3>4. \A b \in Actors : task'[b] # v
      BY <1>6, <3>2, ActorFacts, Zenon DEF QueuedOk
    <3> QED
      BY <1>2, <1>5, <1>9, <2>2, <3>1, <3>2, <3>3, <3>4, Zenon DEF QueuedOk
  <2> QED
    BY <2>1, <2>2, Zenon
<1>17. ByInv'
  <2> SUFFICES ASSUME NEW b \in Actors, NEW v \in SchedTasks, task'[b] = v
               PROVE  HeldOk(b, v)'
    BY Zenon DEF ByInv
  <2>1. b # a /\ task[b] = v
    BY <1>6, ActorFacts, Zenon
  <2>2. HeldOk(b, v) /\ v # a
    BY <1>7, <2>1 DEF SchedInv, ByInv, HeldOk
  <2>3. \A c \in Actors : task'[c] = v => task[c] = v
    BY <1>6, ActorFacts, Zenon
  <2> QED
    BY <1>2, <1>6, <1>9, <2>1, <2>2, <2>3, Zenon DEF HeldOk
<1>18. SomewhereInv'
  <2> SUFFICES ASSUME NEW v \in SchedTasks
               PROVE  PlacedOk(v)'
    BY Zenon DEF SomewhereInv
  <2>1. PlacedOk(v)
    BY Zenon DEF SchedInv, SomewhereInv
  <2>2. (\E f \in Executors : v \in queue[f]) \/ (\E b \in Actors : task[b] = v) =>
        (\E f \in Executors : v \in queue'[f]) \/ (\E b \in Actors : task'[b] = v)
    BY <1>5, <1>6
  <2>3. sched_pc'[v] \in Leaving \cup {"pick"} => sched_pc'[v] = sched_pc[v]
    BY <1>6, <1>7, <1>9, Zenon DEF Leaving
  <2>4. task_state[v] = "running" => known_executor[v] \in Executors
    BY Zenon DEF SchedInv, SchedTypes, StateInv, StateOk
  <2>5. \A f \in Executors : sched_pc[f] = "defer" => sched_pc'[f] = "defer"
    BY <1>8, <1>9, ActorFacts, Zenon
  <2>6. sched_pc[v] \in Leaving => sched_pc'[v] \in Leaving
    BY <1>7, <1>9, Zenon DEF Leaving
  <2> QED
    BY <1>2, <2>1, <2>2, <2>3, <2>4, <2>5, <2>6, Zenon DEF PlacedOk
<1>19. DroppedInv'
  <2>1. \A v \in SchedTasks : sched_pc'[v] \in Leaving => sched_pc[v] \in Leaving
    BY <1>6, <1>7, <1>9, Zenon DEF Leaving
  <2> QED
    BY <1>2, <2>1, Zenon DEF SchedInv, DroppedInv
<1>20. IdleInv'
  <2>1. \A f \in Executors, v \in SchedTasks : Waking(f, v) => Waking(f, v)'
    BY <1>2, <1>7, <1>9, Zenon DEF Waking
  <2>2. CASE a \in SchedTasks
    <3>1. Waking(x, a)'
      BY <1>2, <1>6, <1>7, <2>2, Zenon DEF Waking
    <3>2. \A f \in Executors : sched_pc'[f] = sched_pc[f]
      BY <1>9, <2>2, ActorFacts, Zenon
    <3>3. sched_pc[x] # "sleep"
      <4>1. Claims(e) = x
        BY <1>1, <1>7, <2>2, Zenon DEF Claims, ClaimAt, OwnLock, TargetLock
      <4>2. lock[x] = e
        BY <4>1, Zenon DEF SchedInv, LockInv
      <4>3. ASSUME sched_pc[x] = "sleep" PROVE FALSE
        <5>1. current_task[x] = x /\ x # e
          BY <1>7, <2>2, <4>3, Zenon DEF SchedInv, HandInv
        <5>2. Claims(x) = x
          BY <4>3, <5>1, Zenon DEF Claims, ClaimAt, OwnLock
        <5> QED
          BY <4>2, <5>1, <5>2, Zenon DEF SchedInv, LockInv
      <4> QED
        BY <4>3, Zenon
    <3> QED
      BY <1>2, <1>5, <2>1, <2>2, <3>1, <3>2, <3>3, HandshakeMoved DEF idleVars
  <2>3. CASE a \notin SchedTasks
    <3>1. x = e /\ sched_pc'[e] \notin Asleep /\ \A f \in Executors \ {e} : sched_pc'[f] = sched_pc[f]
      BY <1>6, <1>8, <1>9, <2>3, Zenon DEF Asleep
    <3>2. \A f \in Executors : sched_pc'[f] \in Asleep =>
            sched_pc'[f] = sched_pc[f] /\ queue'[f] \subseteq queue[f]
      BY <1>5, <3>1, Zenon
    <3> QED
      BY <1>2, <2>1, <3>2, HandshakeMoved, Zenon DEF idleVars
  <2> QED
    BY <2>2, <2>3, Zenon
<1> QED
  BY <1>5, <1>11, <1>12, <1>13, <1>14, <1>15, <1>16, <1>17, <1>18, <1>19, <1>20, Zenon DEF SchedInv

LEMMA EnqueueInv ==
    ASSUME SchedInv, NEW e \in Executors, NEW t \in SchedTasks, Enqueue(e, t)
    PROVE  SchedInv'
<1>1. sched_pc[t] = "enqueue" /\ At(t) = "enqueue"
  BY Zenon DEF Enqueue, SchedGoto, At, Yielding
<1>2. target[t] \in Executors
  BY <1>1, OwnFacts, Zenon DEF Targeting
<1> QED
  BY <1>2, PutInv, ActorFacts, Zenon DEF Enqueue, RunsOn, PutBy

LEMMA StealAddInv == ASSUME SchedInv, NEW e \in Executors, StealAdd(e) PROVE SchedInv'
  BY PutInv, ActorFacts, Zenon DEF StealAdd, Sched, PutBy

\* A scheduler task takes a task in hand: the next one, when the running task is
\* dropped, or one that it steals.
TakeBy(e, x, q) ==
    \/ q = "defer" /\ x = e /\ \E t \in SchedTasks : RunsOn(e, t) /\ sched_pc[t] \in Leaving
    \/ q = "stolen" /\ current_task[e] = e /\ sched_pc[e] = "steal" /\ target[e] = x

LEMMA TakeInv ==
    ASSUME SchedInv, NEW e \in Executors, NEW x \in Executors, NEW q, TakeBy(e, x, q),
           NEW n \in SchedTasks \cup {None},
           n # None => n \in queue[x],
           q = "stolen" => n # None /\ stealable[n] /\ n \notin Pinned,
           queue' \in [Executors -> SUBSET SchedTasks], queue'[x] = queue[x] \ {n},
           \A f \in Executors \ {x} : queue'[f] = queue[f],
           stealable' \in [SchedTasks -> BOOLEAN],
           \A v \in SchedTasks : stealable'[v] => stealable[v],
           sched_pc' = [sched_pc EXCEPT ![e] = q], task' = [task EXCEPT ![e] = n],
           current_task' = [current_task EXCEPT ![e] = e],
           UNCHANGED <<lock, idleVars, task_state, known_executor, handle, ret, target>>
    PROVE  SchedInv'
<1>1. /\ lock' = lock /\ idle' = idle /\ ipi' = ipi /\ missed' = missed
      /\ task_state' = task_state /\ known_executor' = known_executor
      /\ handle' = handle /\ ret' = ret /\ target' = target
  BY Zenon DEF idleVars
<1>2. \/ /\ q = "defer" /\ x = e /\ sched_pc[e] = "loop" /\ task[e] = None /\ target[e] = None
         /\ \E t \in SchedTasks :
               current_task[e] = t /\ sched_pc[t] \in Leaving /\ known_executor[t] = e
      \/ /\ q = "stolen" /\ current_task[e] = e /\ sched_pc[e] = "steal" /\ target[e] = x
         /\ task[e] = None
  <2>1. CASE q = "defer" /\ x = e /\ \E t \in SchedTasks : RunsOn(e, t) /\ sched_pc[t] \in Leaving
    BY <2>1, RunnerFacts, Zenon DEF RunsOn
  <2>2. CASE q = "stolen" /\ current_task[e] = e /\ sched_pc[e] = "steal" /\ target[e] = x
    BY <2>2, Zenon DEF SchedInv, HandInv, Carrying
  <2> QED
    BY <2>1, <2>2, Zenon DEF TakeBy
<1>3. /\ task[e] = None /\ q \in {"defer", "stolen"} /\ sched_pc[e] \in {"loop", "steal"}
      /\ target[e] # None <=> q \in Aiming
  BY <1>2, ActorFacts, Zenon DEF Aiming
<1>4. ASSUME n # None
      PROVE  /\ n \in SchedTasks /\ QueuedOk(x, n) /\ sched_pc[n] # "pick"
             /\ sched_pc[n] = "resume" => q = "defer" /\ known_executor[n] = e
             /\ n \in Pinned => q = "defer"
             /\ n \in Pinned /\ known_executor[n] # None => known_executor[n] = e
  <2>1. n \in SchedTasks /\ QueuedOk(x, n)
    BY <1>4, Zenon DEF SchedInv, QueueInv
  <2>2. CASE q = "defer"
    <3>1. sched_pc[n] # "pick"
      BY <1>2, <2>1, <2>2, Zenon DEF QueuedOk, Leaving
    <3> QED
      BY <1>2, <2>1, <2>2, <3>1, Zenon DEF QueuedOk
  <2>3. CASE q = "stolen"
    BY <2>1, <2>3, Zenon DEF QueuedOk
  <2> QED
    BY <1>3, <2>2, <2>3, Zenon
<1>5. /\ sched_pc'[e] = q /\ \A a \in Actors \ {e} : sched_pc'[a] = sched_pc[a]
      /\ task'[e] = n /\ \A a \in Actors \ {e} : task'[a] = task[a]
      /\ current_task'[e] = e /\ \A f \in Executors \ {e} : current_task'[f] = current_task[f]
      /\ sched_pc' \in [Actors -> TaskPcs \cup IdlePcs] /\ q \in IdlePcs
      /\ task' \in [Actors -> SchedTasks \cup {None}] /\ current_task' \in [Executors -> Actors]
  <2>1. /\ e \in Actors /\ q \in IdlePcs
        /\ sched_pc \in [Actors -> TaskPcs \cup IdlePcs]
        /\ task \in [Actors -> SchedTasks \cup {None}] /\ current_task \in [Executors -> Actors]
    BY <1>3, ActorFacts, Zenon DEF SchedInv, SchedTypes, IdlePcs
  <2> QED
    BY <2>1, Zenon
<1>6. /\ \A v \in SchedTasks : sched_pc'[v] = sched_pc[v] /\ task'[v] = task[v]
      /\ \A f \in Executors \ {e} : sched_pc'[f] = sched_pc[f] /\ task'[f] = task[f]
  BY <1>5, ActorFacts
<1>7. \A f \in Executors \ {e} : current_task[f] \in Actors \ {e}
  BY Apart, Zenon DEF SchedInv, SchedTypes
<1>8. \A v \in SchedTasks : known_executor[v] = e =>
        /\ task_state[v] = "running" => sched_pc[v] \in Leaving /\ q = "defer"
        /\ sched_pc[v] # "pick"
  BY <1>2, ActorFacts DEF SchedInv, SomewhereInv, PlacedOk, Leaving
<1>9. SchedTypes'
  <2>1. /\ \A v \in SchedTasks : sched_pc'[v] \in TaskPcs
        /\ \A f \in Executors : sched_pc'[f] \in IdlePcs
    BY <1>5, <1>6, Zenon DEF SchedInv, SchedTypes
  <2> QED
    BY <1>1, <1>5, <2>1, Zenon DEF SchedInv, SchedTypes
<1>10. HandInv'
  <2>1. \A v \in SchedTasks :
          /\ ret'[v] # "run" => sched_pc'[v] \in Yielding
          /\ task'[v] # None <=> At(v)' \in Placing
          /\ target'[v] # None <=> At(v)' \in Targeting
    <3>1. \A v \in SchedTasks : At(v)' = At(v)
      BY <1>1, <1>6, Zenon DEF At
    <3> QED
      BY <1>1, <1>6, <3>1 DEF SchedInv, HandInv
  <2>2. ASSUME NEW f \in Executors
        PROVE  /\ current_task'[f] # f => sched_pc'[f] = "loop" /\ current_task'[f] \in SchedTasks
               /\ sched_pc'[f] \in Carrying => task'[f] # None
               /\ task'[f] # None => sched_pc'[f] \in Carrying \cup {"defer"}
               /\ target'[f] # None <=> sched_pc'[f] \in Aiming
    <3>1. CASE f = e
      BY <1>1, <1>3, <1>5, <3>1, Zenon DEF Carrying
    <3>2. CASE f # e
      BY <1>1, <1>5, <1>6, <3>2 DEF SchedInv, HandInv
    <3> QED
      BY <3>1, <3>2, Zenon
  <2> QED
    BY <2>1, <2>2, Zenon DEF HandInv
<1>11. LockInv'
  <2>1. \A f \in Executors \ {e} : Claims(f)' = Claims(f)
    BY <1>1, <1>5, <1>7, OthersKeepClaims, Zenon
  <2>2. Claims(e) = x /\ Claims(e)' = x
    BY <1>1, <1>2, <1>5, Zenon DEF Claims, ClaimAt, OwnLock, TargetLock, Leaving
  <2> QED
    BY <1>1, <2>1, <2>2, LockMoved, Zenon DEF LockMove
<1>12. StateInv'
  BY <1>1, <1>6, Zenon DEF SchedInv, StateInv, StateOk
<1>13. \A f \in Executors : queue'[f] \subseteq queue[f]
  BY Zenon
<1>14. OnInv'
  <2> SUFFICES ASSUME NEW f \in Executors, NEW v \in SchedTasks, current_task'[f] = v
               PROVE  /\ known_executor[v] = f
                      /\ \/ task_state[v] = "running"
                         \/ task_state[v] = "ready" /\ sched_pc[v] = "pick" /\ v \in queue'[f]
    BY <1>1, <1>6 DEF OnInv
  <2>1. f # e /\ current_task[f] = v
    BY <1>5, ActorFacts, Zenon
  <2>2. sched_pc[v] = "pick" => v # n
    BY <1>4, ActorFacts, Zenon
  <2> QED
    BY <2>1, <2>2 DEF SchedInv, OnInv
<1>15. QueueInv'
  <2> SUFFICES ASSUME NEW f \in Executors, NEW v \in SchedTasks, v \in queue'[f]
               PROVE  QueuedOk(f, v)'
    BY Zenon DEF QueueInv
  <2>1. v \in queue[f] /\ \A y \in Executors : v \in queue'[y] => v \in queue[y]
    BY <1>13, Zenon
  <2>2. QueuedOk(f, v)
    BY <2>1, Zenon DEF SchedInv, QueueInv
  <2>3. v # n
    <3>1. v = n => f = x
      BY <1>4, <2>1, ActorFacts DEF QueuedOk
    <3> QED
      BY <3>1, Zenon
  <2>4. \A a \in Actors : task'[a] # v
    BY <1>5, <2>2, <2>3, Zenon DEF QueuedOk
  <2>5. sched_pc[v] = "pick" => current_task'[f] = v
    <3>1. sched_pc[v] = "pick" => known_executor[v] = f
      BY <2>2, Zenon DEF SchedInv, OnInv, QueuedOk
    <3> QED
      BY <1>5, <1>8, <2>2, <3>1, Zenon DEF QueuedOk
  <2> QED
    BY <1>1, <1>6, <2>1, <2>2, <2>4, <2>5, Zenon DEF QueuedOk
<1>16. ByInv'
  <2> SUFFICES ASSUME NEW a \in Actors, NEW v \in SchedTasks, task'[a] = v
               PROVE  HeldOk(a, v)'
    BY Zenon DEF ByInv
  <2>1. CASE a = e
    <3>1. v = n /\ n # None
      BY <1>5, <2>1, ActorFacts, Zenon
    <3>2. \A b \in Actors : task'[b] = n => e = b
      BY <1>4, <1>5, <3>1, Zenon DEF QueuedOk
    <3>3. task_state[n] = "ready"
      BY <1>4, <3>1, Zenon DEF QueuedOk
    <3>4. sched_pc'[n] # "pick" /\ (sched_pc'[n] = "resume" => q = "defer" /\ known_executor[n] = e)
      BY <1>4, <1>6, <3>1, Zenon
    <3>5. n \in Pinned => q \notin Carrying
      BY <1>4, <3>1, Zenon DEF Carrying
    <3> QED
      BY <1>1, <1>4, <1>5, <2>1, <3>1, <3>2, <3>3, <3>4, <3>5, Zenon DEF HeldOk
  <2>2. CASE a # e
    <3>1. task[a] = v /\ HeldOk(a, v)
      BY <1>5, <2>2, Zenon DEF SchedInv, ByInv
    <3>2. v # n
      BY <1>4, <3>1, ActorFacts, Zenon DEF QueuedOk
    <3>3. \A b \in Actors : task'[b] = v => a = b
      BY <1>5, <3>1, <3>2, Zenon DEF HeldOk
    <3> QED
      BY <1>1, <1>5, <1>6, <2>2, <3>1, <3>3, Zenon DEF HeldOk
  <2> QED
    BY <2>1, <2>2, Zenon
<1>17. SomewhereInv'
  <2> SUFFICES ASSUME NEW v \in SchedTasks
               PROVE  PlacedOk(v)'
    BY Zenon DEF SomewhereInv
  <2>1. PlacedOk(v)
    BY Zenon DEF SchedInv, SomewhereInv
  <2>2. task_state[v] = "ready" =>
          (\E f \in Executors : v \in queue'[f]) \/ (\E a \in Actors : task'[a] = v)
    <3>1. CASE v = n
      BY <1>5, <3>1, ActorFacts, Zenon
    <3>2. CASE v # n
      <4>1. \A f \in Executors : v \in queue[f] => v \in queue'[f]
        BY <3>2, Zenon
      <4>2. \A a \in Actors : task[a] = v => task'[a] = v
        BY <1>3, <1>5, ActorFacts, Zenon
      <4> QED
        BY <2>1, <4>1, <4>2, Zenon DEF PlacedOk
    <3> QED
      BY <3>1, <3>2, Zenon
  <2>3. task_state[v] = "running" \/ sched_pc[v] = "pick" => known_executor[v] \in Executors
    BY Zenon DEF SchedInv, SchedTypes, StateInv, StateOk
  <2>4. CASE known_executor[v] = e
    BY <1>1, <1>5, <1>6, <1>8, <2>1, <2>2, <2>4 DEF PlacedOk
  <2>5. CASE known_executor[v] # e
    <3>1. task_state[v] = "running" \/ sched_pc[v] = "pick" =>
            /\ sched_pc'[known_executor[v]] = sched_pc[known_executor[v]]
            /\ current_task'[known_executor[v]] = current_task[known_executor[v]]
      BY <1>5, <1>6, <2>3, <2>5, Zenon
    <3> QED
      BY <1>1, <1>6, <2>1, <2>2, <3>1, Zenon DEF PlacedOk
  <2> QED
    BY <2>4, <2>5, Zenon
<1>18. DroppedInv'
  BY <1>1, <1>6, Zenon DEF SchedInv, DroppedInv
<1>19. IdleInv'
  <2>1. \A f \in Executors, v \in SchedTasks : Waking(f, v) => Waking(f, v)'
    BY <1>1, <1>6, Zenon DEF Waking
  <2>2. sched_pc'[e] \notin Asleep
    BY <1>3, <1>5, Zenon DEF Asleep
  <2> QED
    BY <1>1, <1>6, <1>13, <2>1, <2>2, HandshakeMoved, Zenon DEF idleVars
<1> QED
  BY <1>9, <1>10, <1>11, <1>12, <1>14, <1>15, <1>16, <1>17, <1>18, <1>19, Zenon DEF SchedInv

LEMMA DropInv ==
    ASSUME SchedInv, NEW e \in Executors, NEW t \in SchedTasks, Drop(e, t)
    PROVE  SchedInv'
<1>1. /\ TakeBy(e, e, "defer")
      /\ sched_pc' = [sched_pc EXCEPT ![e] = "defer"]
      /\ current_task' = [current_task EXCEPT ![e] = e]
      /\ stealable' = [stealable EXCEPT ![t] = FALSE]
      /\ UNCHANGED <<lock, idleVars, task_state, known_executor, handle, ret, target>>
  BY Zenon DEF Drop, TakeBy, Leaving
<1>2. stealable' \in [SchedTasks -> BOOLEAN] /\ \A v \in SchedTasks : stealable'[v] => stealable[v]
  BY <1>1, Zenon DEF SchedInv, SchedTypes
<1>3. queue \in [Executors -> SUBSET SchedTasks] /\ None \notin queue[e]
  BY ActorFacts, Zenon DEF SchedInv, SchedTypes
<1>4. CASE task' = [task EXCEPT ![e] = None] /\ UNCHANGED queueVars
  <2>1. /\ queue' \in [Executors -> SUBSET SchedTasks] /\ queue'[e] = queue[e] \ {None}
        /\ \A f \in Executors \ {e} : queue'[f] = queue[f]
    BY <1>3, <1>4, Zenon DEF queueVars
  <2> QED
    BY <1>1, <1>2, <1>4, <2>1, TakeInv, Zenon
<1>5. ASSUME NEW n \in Candidates(e), Remove(e, n), task' = [task EXCEPT ![e] = n]
      PROVE  SchedInv'
  <2>1. n \in queue[e]
    BY CandidatesQueued, Zenon
  <2>2. /\ n \in SchedTasks \cup {None} /\ queue' \in [Executors -> SUBSET SchedTasks]
        /\ queue'[e] = queue[e] \ {n} /\ \A f \in Executors \ {e} : queue'[f] = queue[f]
    BY <1>5, <2>1, RemoveFacts, Zenon
  <2> QED
    BY <1>1, <1>2, <1>5, <2>1, <2>2, TakeInv, Zenon
<1> QED
  BY <1>4, <1>5, Zenon DEF Drop

LEMMA StealTakeInv == ASSUME SchedInv, NEW e \in Executors, StealTake(e) PROVE SchedInv'
<1>1. /\ current_task[e] = e /\ sched_pc[e] = "steal" /\ target[e] \in Executors
      /\ UNCHANGED <<lock, current_task, idleVars, taskVars, ret, target>>
  BY Zenon DEF StealTake, SchedInv, SchedTypes, HandInv, Aiming, Actors
<1>2. CASE Sched(e, "steal", "giveup") /\ UNCHANGED <<queueVars, task>>
  BY <1>1, <1>2, QuietStep, Zenon
     DEF IdlePcs, Carrying, Aiming, Asleep, LockMove, ClaimAt, OwnLock, TargetLock
<1>3. ASSUME NEW t \in Stealable(target[e]), Sched(e, "steal", "stolen"), Remove(target[e], t),
             task' = [task EXCEPT ![e] = t]
      PROVE  SchedInv'
  <2>1. t \in queue[target[e]] /\ stealable[t] /\ t \notin Pinned
    BY <1>3, Zenon DEF Stealable
  <2>2. /\ t \in SchedTasks /\ queue' \in [Executors -> SUBSET SchedTasks]
        /\ queue'[target[e]] = queue[target[e]] \ {t}
        /\ \A f \in Executors \ {target[e]} : queue'[f] = queue[f]
    BY <1>1, <1>3, <2>1, RemoveFacts, Zenon
  <2>3. /\ stealable' \in [SchedTasks -> BOOLEAN]
        /\ \A v \in SchedTasks : stealable'[v] => stealable[v]
        /\ current_task' = [current_task EXCEPT ![e] = e]
    BY <1>1 DEF SchedInv, SchedTypes, taskVars
  <2>4. /\ TakeBy(e, target[e], "stolen") /\ sched_pc' = [sched_pc EXCEPT ![e] = "stolen"]
        /\ UNCHANGED <<lock, idleVars, task_state, known_executor, handle, ret, target>>
    BY <1>1, <1>3, Zenon DEF TakeBy, Sched, SchedGoto, taskVars
  <2> QED
    BY <1>1, <1>3, <2>1, <2>2, <2>3, <2>4, TakeInv, ActorFacts, Zenon
<1> QED
  BY <1>2, <1>3, Zenon DEF StealTake

\* The deferred action: the task that was dropped is blocked or dead, the cleanup
\* task may be queued, and the next task, if there is one, goes on.
LEMMA DeferredInv == ASSUME SchedInv, NEW e \in Executors, Deferred(e) PROVE SchedInv'
<1>0. PICK t \in Dropped(e) :
        LET wake == sched_pc[t] = "exit" /\ Cleaner # None /\ task_state[Cleaner] = "blocked"
            final == IF sched_pc[t] = "exit" THEN "terminated" ELSE "blocked"
            st == [u \in SchedTasks |->
                      IF u = t THEN final
                      ELSE IF wake /\ u = Cleaner THEN "ready" ELSE task_state[u]]
        IN  /\ sched_pc' = [sched_pc EXCEPT ![t] = "rederive",
                                ![e] = IF task[e] = None THEN "leave" ELSE "loop"]
            /\ \/ wake /\ Add(e, Cleaner, TRUE)
               \/ ~wake /\ UNCHANGED <<queueVars, stealable>>
            /\ \/ task[e] # None /\ SwitchTo(e, task[e], st)
               \/ /\ task[e] = None /\ task_state' = st
                  /\ UNCHANGED <<current_task, known_executor>>
  BY Zenon DEF Deferred
<1> DEFINE w == sched_pc[t] = "exit" /\ Cleaner # None /\ task_state[Cleaner] = "blocked"
           st == [u \in SchedTasks |->
                    IF u = t THEN IF sched_pc[t] = "exit" THEN "terminated" ELSE "blocked"
                    ELSE IF w /\ u = Cleaner THEN "ready" ELSE task_state[u]]
           n == task[e]
           c == Cleaner
<1>1. /\ sched_pc' = [sched_pc EXCEPT ![t] = "rederive",
                                      ![e] = IF n = None THEN "leave" ELSE "loop"]
      /\ n # None => SwitchTo(e, n, st)
      /\ n = None => task_state' = st /\ UNCHANGED <<current_task, known_executor>>
  <2>1. sched_pc' = [sched_pc EXCEPT ![t] = "rederive",
                                     ![e] = IF n = None THEN "leave" ELSE "loop"]
    BY <1>0, Zenon
  <2>2. n # None => SwitchTo(e, n, st)
    BY <1>0, Zenon
  <2>3. n = None => task_state' = st /\ UNCHANGED <<current_task, known_executor>>
    BY <1>0, Zenon
  <2> QED
    BY <2>1, <2>2, <2>3, Zenon
<1>2. /\ current_task[e] = e /\ sched_pc[e] = "defer" /\ task' = [task EXCEPT ![e] = None]
      /\ lock' = lock /\ idle' = idle /\ ipi' = ipi /\ missed' = missed /\ handle' = handle
      /\ ret' = ret /\ target' = target
  BY Zenon DEF Deferred, idleVars
<1>3. /\ t \in SchedTasks /\ sched_pc[t] \in Leaving /\ known_executor[t] = e
      /\ task_state[t] = "running" /\ ret[t] = "run" /\ task[t] = None /\ target[t] = None
      /\ \A f \in Executors : t \notin queue[f] /\ current_task[f] # t
      /\ \A a \in Actors : task[a] # t
  <2>1. t \in SchedTasks /\ sched_pc[t] \in Leaving /\ known_executor[t] = e
    BY Zenon DEF Dropped, Leaving
  <2>2. task_state[t] = "running" /\ sched_pc[t] # "pick"
    BY <2>1, Zenon DEF SchedInv, SomewhereInv, PlacedOk, Leaving
  <2>3. ret[t] = "run" /\ task[t] = None /\ target[t] = None
    BY <2>1, OwnFacts, Zenon DEF At, Leaving, Yielding, Placing, Targeting
  <2>4. \A f \in Executors : t \notin queue[f]
    BY <2>1, <2>2, Zenon DEF SchedInv, QueueInv, QueuedOk
  <2>5. \A f \in Executors : current_task[f] # t
    BY <1>2, <2>1, ActorFacts DEF SchedInv, OnInv
  <2>6. \A a \in Actors : task[a] # t
    BY <2>1, <2>2, Zenon DEF SchedInv, ByInv, HeldOk
  <2> QED
    BY <2>1, <2>2, <2>3, <2>4, <2>5, <2>6, Zenon
<1>4. n \in SchedTasks \cup {None}
  BY ActorFacts, Zenon DEF SchedInv, SchedTypes
<1>5. ASSUME n # None
      PROVE  /\ n \in SchedTasks /\ HeldOk(e, n) /\ sched_pc[n] \in {"resume", "rederive"} /\ n # t
             /\ n \in Pinned /\ known_executor[n] # None => known_executor[n] = e
             /\ handle[n] = e \/ sched_pc[n] = "rederive"
             /\ \A f \in Executors : n \notin queue[f] /\ current_task[f] # n
  <2>1. n \in SchedTasks /\ HeldOk(e, n) /\ e \in Actors
    BY <1>4, <1>5, ActorFacts, Zenon DEF SchedInv, ByInv
  <2>2. task_state[n] = "ready" /\ sched_pc[n] \in {"resume", "rederive"}
    BY <2>1, Zenon DEF HeldOk, SchedInv, StateInv, StateOk
  <2>3. \A f \in Executors : n \notin queue[f] /\ current_task[f] # n
    BY <2>1, <2>2 DEF SchedInv, QueueInv, QueuedOk, OnInv
  <2>4. handle[n] = e \/ sched_pc[n] = "rederive"
    BY <2>1, <2>2, Zenon DEF HeldOk, SchedInv, StateInv, StateOk, Yielding
  <2>5. n \in Pinned /\ known_executor[n] # None => known_executor[n] = e
    BY <2>1, ActorFacts, Zenon DEF HeldOk
  <2> QED
    BY <1>3, <2>1, <2>2, <2>3, <2>4, <2>5, Zenon
<1>6. ASSUME w
      PROVE  /\ c \in SchedTasks /\ c \notin Pinned /\ c # t /\ c # n
             /\ task_state[c] = "blocked" /\ sched_pc[c] = "rederive"
             /\ \A f \in Executors : c \notin queue[f] /\ current_task[f] # c
             /\ \A a \in Actors : task[a] # c
  <2>1. c \in SchedTasks /\ c \notin Pinned /\ task_state[c] = "blocked"
    BY <1>6, TaskAssumption, Zenon
  <2>2. sched_pc[c] = "rederive"
    BY <2>1, Zenon DEF SchedInv, StateInv, StateOk
  <2>3. \A f \in Executors : c \notin queue[f] /\ current_task[f] # c
    BY <2>1, Zenon DEF SchedInv, QueueInv, QueuedOk, OnInv
  <2>4. \A a \in Actors : task[a] # c
    BY <2>1, Zenon DEF SchedInv, ByInv, HeldOk
  <2> QED
    BY <1>3, <2>1, <2>2, <2>3, <2>4, ActorFacts, Zenon
<1>7. /\ \A v \in SchedTasks : v # t => sched_pc'[v] = sched_pc[v]
      /\ \A f \in Executors : f # e => sched_pc'[f] = sched_pc[f]
      /\ \A a \in Actors : a # t /\ a # e => sched_pc'[a] = sched_pc[a]
      /\ sched_pc'[t] = "rederive" /\ sched_pc'[e] = IF n = None THEN "leave" ELSE "loop"
      /\ sched_pc' \in [Actors -> TaskPcs \cup IdlePcs]
  <2>1. /\ t \in Actors /\ e \in Actors /\ t # e /\ sched_pc \in [Actors -> TaskPcs \cup IdlePcs]
        /\ {"rederive", "leave", "loop"} \subseteq TaskPcs \cup IdlePcs
    BY <1>3, ActorFacts, Zenon DEF SchedInv, SchedTypes, TaskPcs, IdlePcs
  <2>2. /\ \A a \in Actors : a # t /\ a # e => sched_pc'[a] = sched_pc[a]
        /\ sched_pc'[t] = "rederive" /\ sched_pc'[e] = IF n = None THEN "leave" ELSE "loop"
        /\ sched_pc' \in [Actors -> TaskPcs \cup IdlePcs]
    BY <1>1, <2>1, Zenon
  <2> QED
    BY <1>3, <2>2, ActorFacts, Zenon
<1>8. /\ task'[e] = None /\ \A a \in Actors : a # e => task'[a] = task[a]
      /\ task' \in [Actors -> SchedTasks \cup {None}]
      /\ \A v \in SchedTasks : task'[v] = task[v]
  BY <1>2, ActorFacts DEF SchedInv, SchedTypes
<1>9. /\ queue' \in [Executors -> SUBSET SchedTasks] /\ stealable' \in [SchedTasks -> BOOLEAN]
      /\ \A f \in Executors : f # e => queue'[f] = queue[f]
      /\ queue'[e] = IF w THEN queue[e] \cup {c} ELSE queue[e]
      /\ \A v \in SchedTasks : (w => v # c) => stealable'[v] = stealable[v]
  <2>1. CASE w
    <3>1. Add(e, c, TRUE) /\ c \in SchedTasks
      BY <1>0, <1>6, <2>1, Zenon
    <3>2. /\ queue' \in [Executors -> SUBSET SchedTasks] /\ stealable' \in [SchedTasks -> BOOLEAN]
          /\ queue'[e] = queue[e] \cup {c} /\ \A f \in Executors \ {e} : queue'[f] = queue[f]
          /\ \A v \in SchedTasks \ {c} : stealable'[v] = stealable[v]
      BY <3>1, AddFacts, Zenon
    <3> QED
      BY <2>1, <3>2, Zenon
  <2>2. CASE ~w
    <3>1. queue' = queue /\ stealable' = stealable
      BY <1>0, <2>2, Zenon DEF queueVars
    <3> QED
      BY <2>2, <3>1, Zenon DEF SchedInv, SchedTypes
  <2> QED
    BY <2>1, <2>2, Zenon
<1>10. /\ st \in [SchedTasks -> {"new", "ready", "running", "blocked", "terminated"}]
       /\ st[t] \in {"blocked", "terminated"}
       /\ w => st[c] = "ready"
       /\ \A v \in SchedTasks : v # t /\ (w => v # c) => st[v] = task_state[v]
  <2>1. task_state \in [SchedTasks -> {"new", "ready", "running", "blocked", "terminated"}]
    BY Zenon DEF SchedInv, SchedTypes
  <2> QED
    BY <1>1, <1>3, <1>6, <2>1, Zenon
<1>11. /\ task_state' \in [SchedTasks -> {"new", "ready", "running", "blocked", "terminated"}]
       /\ task_state'[t] \in {"blocked", "terminated"}
       /\ w => task_state'[c] = "ready"
       /\ n # None => task_state'[n] = "running" /\ current_task'[e] = n /\ known_executor'[n] = e
       /\ n = None => current_task'[e] = e
       /\ \A v \in SchedTasks : v # t /\ v # n /\ (w => v # c) => task_state'[v] = task_state[v]
       /\ \A f \in Executors : f # e => current_task'[f] = current_task[f]
       /\ \A v \in SchedTasks : v # n => known_executor'[v] = known_executor[v]
       /\ current_task' \in [Executors -> Actors]
       /\ known_executor' \in [SchedTasks -> Executors \cup {None}]
  <2>1. current_task \in [Executors -> Actors] /\ known_executor \in [SchedTasks -> Executors \cup {None}]
    BY Zenon DEF SchedInv, SchedTypes
  <2>2. CASE n # None
    <3>1. /\ current_task' = [current_task EXCEPT ![e] = n]
          /\ task_state' = [st EXCEPT ![n] = "running"]
          /\ known_executor' = [known_executor EXCEPT ![n] = e]
      BY <1>1, <2>2, Zenon DEF SwitchTo
    <3>2. n \in SchedTasks /\ n \in Actors /\ n # t /\ (w => c # n)
      BY <1>5, <1>6, <2>2, ActorFacts, Zenon
    <3> QED
      BY <1>3, <1>6, <1>10, <2>1, <2>2, <3>1, <3>2, Zenon
  <2>3. CASE n = None
    <3>1. task_state' = st /\ current_task' = current_task /\ known_executor' = known_executor
      BY <1>1, <2>3, Zenon
    <3> QED
      BY <1>2, <1>10, <2>1, <2>3, <3>1, Zenon
  <2> QED
    BY <2>2, <2>3, Zenon
<1>12. \A f \in Executors : f # e => current_task[f] \in Actors /\ current_task[f] # e /\ current_task[f] # t
  BY <1>3, Apart, Zenon DEF SchedInv, SchedTypes
<1>13. SchedTypes'
  <2>1. /\ \A v \in SchedTasks : sched_pc'[v] \in TaskPcs
        /\ \A f \in Executors : sched_pc'[f] \in IdlePcs
    BY <1>7, Zenon DEF SchedInv, SchedTypes, TaskPcs, IdlePcs
  <2> QED
    BY <1>2, <1>7, <1>8, <1>9, <1>11, <2>1, Zenon DEF SchedInv, SchedTypes
<1>14. HandInv'
  <2>1. ASSUME NEW v \in SchedTasks
        PROVE  /\ ret'[v] # "run" => sched_pc'[v] \in Yielding
               /\ task'[v] # None <=> At(v)' \in Placing
               /\ target'[v] # None <=> At(v)' \in Targeting
    <3>1. CASE v = t
      BY <1>2, <1>3, <1>7, <1>8, <3>1, Zenon DEF At, Yielding, Placing, Targeting
    <3>2. CASE v # t
      <4>1. At(v)' = At(v)
        BY <1>2, <1>7, <3>2, Zenon DEF At
      <4> QED
        BY <1>2, <1>7, <1>8, <3>2, <4>1, Zenon DEF SchedInv, HandInv
    <3> QED
      BY <3>1, <3>2, Zenon
  <2>2. ASSUME NEW f \in Executors
        PROVE  /\ current_task'[f] # f => sched_pc'[f] = "loop" /\ current_task'[f] \in SchedTasks
               /\ sched_pc'[f] \in Carrying => task'[f] # None
               /\ task'[f] # None => sched_pc'[f] \in Carrying \cup {"defer"}
               /\ target'[f] # None <=> sched_pc'[f] \in Aiming
    <3>1. CASE f = e
      <4>1. target[e] = None
        BY <1>2, Zenon DEF SchedInv, HandInv, Aiming
      <4> QED
        BY <1>2, <1>4, <1>7, <1>8, <1>11, <3>1, <4>1, Zenon DEF Carrying, Aiming
    <3>2. CASE f # e
      <4>1. task'[f] = task[f]
        BY <1>8, <3>2, ActorFacts, Zenon
      <4> QED
        BY <1>2, <1>7, <1>11, <3>2, <4>1, Zenon DEF SchedInv, HandInv
    <3> QED
      BY <3>1, <3>2, Zenon
  <2> QED
    BY <2>1, <2>2, Zenon DEF HandInv
<1>15. LockInv'
  <2>1. \A f \in Executors \ {e} : Claims(f)' = Claims(f)
    <3>1. \A f \in Executors \ {e} :
             /\ current_task'[f] = current_task[f]
             /\ sched_pc'[current_task[f]] = sched_pc[current_task[f]]
             /\ target'[current_task[f]] = target[current_task[f]]
      BY <1>2, <1>7, <1>11, <1>12, Zenon
    <3> QED
      BY <3>1, OthersKeepClaims, Zenon
  <2>2. Claims(e) = e
    BY <1>2, Zenon DEF Claims, ClaimAt, OwnLock
  <2>3. Claims(e)' = e
    <3>1. sched_pc'[current_task'[e]] \in {"leave", "resume", "rederive"}
      BY <1>5, <1>7, <1>11, Zenon
    <3> QED
      BY <3>1, Zenon DEF Claims, ClaimAt, OwnLock
  <2> QED
    BY <1>2, <2>1, <2>2, <2>3, LockMoved, Zenon DEF LockMove
<1>16. StateInv'
  <2> SUFFICES ASSUME NEW v \in SchedTasks
               PROVE  StateOk(v)'
    BY Zenon DEF StateInv
  <2>1. CASE v = t
    BY <1>7, <1>11, <2>1, Zenon DEF StateOk, Yielding
  <2>2. CASE v = n
    <3>1. n # None
      BY <2>2, ActorFacts, Zenon
    <3>2. /\ task_state'[n] = "running" /\ known_executor'[n] = e /\ handle'[n] = handle[n]
          /\ sched_pc'[n] \in {"resume", "rederive"} /\ e # None
          /\ handle[n] = e \/ sched_pc'[n] = "rederive"
      BY <1>2, <1>5, <1>7, <1>11, <3>1, ActorFacts, Zenon
    <3> QED
      BY <2>2, <3>2, Zenon DEF StateOk, Yielding
  <2>3. CASE w /\ v = c
    BY <1>6, <1>7, <1>11, <2>3, Zenon DEF StateOk, Yielding
  <2>4. CASE v # t /\ v # n /\ (w => v # c)
    BY <1>2, <1>7, <1>11, <2>4 DEF SchedInv, StateInv, StateOk
  <2> QED
    BY <2>1, <2>2, <2>3, <2>4, Zenon
<1>17. OnInv'
  <2> SUFFICES ASSUME NEW f \in Executors, NEW v \in SchedTasks, current_task'[f] = v
               PROVE  /\ known_executor'[v] = f
                      /\ \/ task_state'[v] = "running"
                         \/ task_state'[v] = "ready" /\ sched_pc'[v] = "pick" /\ v \in queue'[f]
    BY Zenon DEF OnInv
  <2>1. CASE f = e
    BY <1>11, <2>1, ActorFacts, Zenon
  <2>2. CASE f # e
    <3>1. current_task[f] = v /\ v # t
      BY <1>11, <1>12, <2>2, Zenon
    <3>2. v # n /\ (w => v # c)
      BY <1>5, <1>6, <3>1, ActorFacts, Zenon
    <3>3. /\ known_executor'[v] = known_executor[v] /\ task_state'[v] = task_state[v]
          /\ sched_pc'[v] = sched_pc[v] /\ queue'[f] = queue[f]
      BY <1>7, <1>9, <1>11, <2>2, <3>1, <3>2, Zenon
    <3> QED
      BY <3>1, <3>3, Zenon DEF SchedInv, OnInv
  <2> QED
    BY <2>1, <2>2, Zenon
<1>18. QueueInv'
  <2> SUFFICES ASSUME NEW f \in Executors, NEW v \in SchedTasks, v \in queue'[f]
               PROVE  QueuedOk(f, v)'
    BY Zenon DEF QueueInv
  <2>1. CASE w /\ v = c
    <3>1. f = e /\ \A x \in Executors : c \in queue'[x] => x = e
      BY <1>6, <1>9, <2>1, Zenon
    <3>2. \A a \in Actors : task'[a] # c
      BY <1>6, <1>8, <2>1, ActorFacts, Zenon
    <3> QED
      BY <1>6, <1>7, <1>11, <2>1, <3>1, <3>2, Zenon DEF QueuedOk
  <2>2. CASE w => v # c
    <3>1. v \in queue[f] /\ \A x \in Executors : v \in queue'[x] => v \in queue[x]
      BY <1>9, <2>2, Zenon
    <3>2. QueuedOk(f, v)
      BY <3>1, Zenon DEF SchedInv, QueueInv
    <3>3. v # t /\ v # n
      BY <1>3, <1>5, <3>1, ActorFacts, Zenon
    <3>4. \A a \in Actors : task'[a] # v
      BY <1>8, <3>2, ActorFacts, Zenon DEF QueuedOk
    <3>5. /\ known_executor'[v] = known_executor[v] /\ task_state'[v] = task_state[v]
          /\ sched_pc'[v] = sched_pc[v] /\ stealable'[v] = stealable[v]
      BY <1>7, <1>9, <1>11, <2>2, <3>3, Zenon
    <3>6. current_task[f] = v => current_task'[f] = v
      BY <1>2, <1>11, ActorFacts, Zenon
    <3> QED
      BY <3>1, <3>2, <3>4, <3>5, <3>6, Zenon DEF QueuedOk
  <2> QED
    BY <2>1, <2>2, Zenon
<1>19. ByInv'
  <2> SUFFICES ASSUME NEW a \in Actors, NEW v \in SchedTasks, task'[a] = v
               PROVE  HeldOk(a, v)'
    BY Zenon DEF ByInv
  <2>1. a # e /\ task[a] = v /\ a # t
    BY <1>3, <1>8, ActorFacts, Zenon
  <2>2. HeldOk(a, v)
    BY <2>1, Zenon DEF SchedInv, ByInv
  <2>3. v # t /\ v # n /\ (w => v # c)
    <3>1. v # n
      BY <1>5, <2>1, ActorFacts, Zenon DEF HeldOk
    <3> QED
      BY <1>3, <1>6, <2>1, <3>1, Zenon
  <2>4. \A b \in Actors : task'[b] = v => task[b] = v
    BY <1>8, ActorFacts, Zenon
  <2>5. /\ known_executor'[v] = known_executor[v] /\ task_state'[v] = task_state[v]
        /\ sched_pc'[v] = sched_pc[v] /\ sched_pc'[a] = sched_pc[a] /\ target' = target
    BY <1>2, <1>7, <1>11, <2>1, <2>3, Zenon
  <2> QED
    BY <2>2, <2>4, <2>5, Zenon DEF HeldOk
<1>20. SomewhereInv'
  <2> SUFFICES ASSUME NEW v \in SchedTasks
               PROVE  PlacedOk(v)'
    BY Zenon DEF SomewhereInv
  <2>1. CASE v = t
    BY <1>7, <1>11, <2>1, Zenon DEF PlacedOk, Leaving
  <2>2. CASE v = n
    <3>1. n # None
      BY <2>2, ActorFacts, Zenon
    <3>2. /\ task_state'[n] = "running" /\ known_executor'[n] = e /\ current_task'[e] = n
          /\ sched_pc'[n] \in {"resume", "rederive"}
      BY <1>5, <1>7, <1>11, <3>1, Zenon
    <3> QED
      BY <2>2, <3>2, Zenon DEF PlacedOk, Leaving
  <2>3. CASE w /\ v = c
    <3>1. task_state'[c] = "ready" /\ c \in queue'[e] /\ sched_pc'[c] = "rederive"
      BY <1>6, <1>7, <1>9, <1>11, <2>3, Zenon
    <3> QED
      BY <2>3, <3>1, Zenon DEF PlacedOk, Leaving
  <2>4. CASE v # t /\ v # n /\ (w => v # c)
    <3>1. PlacedOk(v)
      BY Zenon DEF SchedInv, SomewhereInv
    <3>2. \A f \in Executors : v \in queue[f] => v \in queue'[f]
      BY <1>9, Zenon
    <3>3. \A a \in Actors : task[a] = v => task'[a] = v
      BY <1>8, <2>4, Zenon
    <3>4. task_state[v] = "running" \/ sched_pc[v] = "pick" => known_executor[v] \in Executors
      BY Zenon DEF SchedInv, SchedTypes, StateInv, StateOk
    <3>5. task_state[v] = "running" \/ sched_pc[v] = "pick" => known_executor[v] # e
      <4>1. known_executor[v] = e => current_task[known_executor[v]] # v
        BY <1>2, ActorFacts, Zenon
      <4>2. known_executor[v] = e => sched_pc[v] \notin Leaving
        BY <1>3, <2>4, Zenon DEF SchedInv, DroppedInv
      <4> QED
        BY <3>1, <4>1, <4>2, Zenon DEF PlacedOk
    <3>6. /\ known_executor'[v] = known_executor[v] /\ task_state'[v] = task_state[v]
          /\ sched_pc'[v] = sched_pc[v]
      BY <1>7, <1>11, <2>4, Zenon
    <3>7. ASSUME known_executor[v] \in Executors, known_executor[v] # e
          PROVE  /\ current_task'[known_executor[v]] = current_task[known_executor[v]]
                 /\ sched_pc'[known_executor[v]] = sched_pc[known_executor[v]]
      BY <1>7, <1>11, <3>7, Zenon
    <3> QED
      BY <3>1, <3>2, <3>3, <3>4, <3>5, <3>6, <3>7, Zenon DEF PlacedOk
  <2> QED
    BY <2>1, <2>2, <2>3, <2>4, Zenon
<1>21. DroppedInv'
  <2>1. \A v \in SchedTasks : sched_pc'[v] \in Leaving =>
          sched_pc[v] \in Leaving /\ known_executor'[v] = known_executor[v]
    BY <1>5, <1>7, <1>11, ActorFacts DEF Leaving
  <2> QED
    BY <2>1, Zenon DEF SchedInv, DroppedInv
<1>22. IdleInv'
  <2>1. \A f \in Executors, v \in SchedTasks : Waking(f, v) => Waking(f, v)'
    BY <1>2, <1>3, <1>7, ActorFacts, Zenon DEF Waking
  <2>2. sched_pc'[e] \notin Asleep
    BY <1>7, Zenon DEF Asleep
  <2> QED
    BY <1>2, <1>7, <1>9, <2>1, <2>2, HandshakeMoved, Zenon DEF idleVars
<1> QED
  BY <1>13, <1>14, <1>15, <1>16, <1>17, <1>18, <1>19, <1>20, <1>21, <1>22, Zenon DEF SchedInv

----------------------------------------------------------------------------
(* The invariant holds *)

LEMMA InitInv == SchedInit => SchedInv
<1> SUFFICES ASSUME SchedInit PROVE SchedInv
  BY Zenon
<1>1. PICK boot \in Executors :
        /\ lock = [e \in Executors |-> None] /\ queue = [e \in Executors |-> {}]
        /\ current_task = [e \in Executors |-> IF e = boot THEN Boot ELSE e]
        /\ idle = [e \in Executors |-> FALSE] /\ ipi = [e \in Executors |-> FALSE]
        /\ missed = [e \in Executors |-> FALSE]
        /\ task_state = [t \in SchedTasks |-> IF t = Boot THEN "running" ELSE "new"]
        /\ stealable = [t \in SchedTasks |-> FALSE]
        /\ known_executor = [t \in SchedTasks |-> IF t = Boot THEN boot ELSE None]
        /\ handle = [t \in SchedTasks |-> None]
        /\ sched_pc = [a \in Actors |->
                    IF a \in Executors THEN "loop" ELSE IF a = Boot THEN "run" ELSE "rederive"]
        /\ ret = [t \in SchedTasks |-> "run"]
        /\ task = [a \in Actors |-> None] /\ target = [a \in Actors |-> None]
  BY Zenon DEF SchedInit
<1>2. Boot \in SchedTasks /\ Boot \in Actors /\ Boot \notin Executors /\ Boot # None
  BY TaskAssumption, ActorFacts, Zenon
<1>3. \A a \in Actors : task[a] = None /\ target[a] = None
  BY <1>1, Zenon
<1>4. /\ \A t \in SchedTasks : sched_pc[t] = IF t = Boot THEN "run" ELSE "rederive"
      /\ \A e \in Executors : sched_pc[e] = "loop"
  <2>1. \A a \in Actors : sched_pc[a] =
          IF a \in Executors THEN "loop" ELSE IF a = Boot THEN "run" ELSE "rederive"
    BY <1>1, Zenon
  <2> QED
    BY <2>1, ActorFacts, Zenon
<1>5. /\ \A t \in SchedTasks : ret[t] = "run"
      /\ \A t \in SchedTasks : task_state[t] = IF t = Boot THEN "running" ELSE "new"
      /\ \A t \in SchedTasks : known_executor[t] = IF t = Boot THEN boot ELSE None
  BY <1>1, Zenon
<1>6. /\ \A e \in Executors : lock[e] = None /\ queue[e] = {}
      /\ \A e \in Executors : current_task[e] = IF e = boot THEN Boot ELSE e
  BY <1>1, Zenon
<1>7. SchedTypes
  <2>1. /\ lock \in [Executors -> Executors \cup {None}] /\ queue \in [Executors -> SUBSET SchedTasks]
        /\ current_task \in [Executors -> Actors]
        /\ idle \in [Executors -> BOOLEAN] /\ ipi \in [Executors -> BOOLEAN]
        /\ missed \in [Executors -> BOOLEAN]
    BY <1>1, <1>2, ActorFacts, Zenon
  <2>2. /\ task_state \in [SchedTasks -> {"new", "ready", "running", "blocked", "terminated"}]
        /\ stealable \in [SchedTasks -> BOOLEAN]
        /\ known_executor \in [SchedTasks -> Executors \cup {None}]
        /\ handle \in [SchedTasks -> Executors \cup {None}]
        /\ ret \in [SchedTasks -> {"run", "enlock", "kick"}]
    BY <1>1, Zenon
  <2>3. /\ sched_pc \in [Actors -> TaskPcs \cup IdlePcs]
        /\ task \in [Actors -> SchedTasks \cup {None}] /\ target \in [Actors -> Executors \cup {None}]
    BY <1>1, Zenon DEF TaskPcs, IdlePcs
  <2>4. (\A t \in SchedTasks : sched_pc[t] \in TaskPcs) /\ \A e \in Executors : sched_pc[e] \in IdlePcs
    BY <1>4, Zenon DEF TaskPcs, IdlePcs
  <2> QED
    BY <2>1, <2>2, <2>3, <2>4, Zenon DEF SchedTypes
<1>8. HandInv
  BY <1>2, <1>3, <1>4, <1>5, <1>6, ActorFacts, Zenon
     DEF HandInv, At, Yielding, Placing, Targeting, Carrying, Aiming
<1>9. LockInv
  <2>1. \A e \in Executors : Claims(e) = None
    <3> SUFFICES ASSUME NEW e \in Executors PROVE Claims(e) = None
      BY Zenon
    <3>1. CASE e = boot
      <4>1. sched_pc[current_task[e]] = "run"
        BY <1>2, <1>4, <1>6, <3>1, Zenon
      <4> QED
        BY <4>1, Zenon DEF Claims, ClaimAt, OwnLock, TargetLock
    <3>2. CASE e # boot
      <4>1. sched_pc[current_task[e]] = "loop"
        BY <1>4, <1>6, <3>2, Zenon
      <4> QED
        BY <4>1, Zenon DEF Claims, ClaimAt, OwnLock, TargetLock
    <3> QED
      BY <3>1, <3>2, Zenon
  <2> QED
    BY <1>6, <2>1, ActorFacts, Zenon DEF LockInv
<1>10. StateInv /\ OnInv
  BY <1>2, <1>4, <1>5, <1>6, ActorFacts DEF StateInv, StateOk, OnInv, Yielding
<1>11. QueueInv /\ ByInv
  BY <1>3, <1>6, ActorFacts, Zenon DEF QueueInv, ByInv
<1>12. SomewhereInv /\ DroppedInv
  BY <1>4, <1>5, <1>6, Zenon DEF SomewhereInv, PlacedOk, DroppedInv, Leaving
<1>13. IdleInv
  BY <1>4, <1>6, Zenon DEF IdleInv, HaltOk, Asleep
<1> QED
  BY <1>7, <1>8, <1>9, <1>10, <1>11, <1>12, <1>13, Zenon DEF SchedInv

LEMMA NextInv == SchedInv /\ [SchedNext]_schedVars => SchedInv'
<1> SUFFICES ASSUME SchedInv, [SchedNext]_schedVars PROVE SchedInv'
  BY Zenon
<1>1. ASSUME NEW e \in Executors, IdleStep(e) PROVE SchedInv'
  <2>1. CASE Deferred(e)
    BY <2>1, DeferredInv, Zenon
  <2>2. CASE IdleLock(e) \/ IdleNone(e) \/ IdleEntry(e)
    BY <2>2, LoopInv, Zenon
  <2>3. CASE IdlePick(e)
    BY <2>3, IdlePickInv, Zenon
  <2>4. CASE StealScan(e)
    BY <2>4, StealScanInv, Zenon
  <2>5. CASE StealTryLock(e)
    BY <2>5, StealTryLockInv, Zenon
  <2>6. CASE StealTake(e)
    BY <2>6, StealTakeInv, Zenon
  <2>7. CASE StealUnlock(e)
    BY <2>7, StealUnlockInv, Zenon
  <2>8. CASE StealRelock(e) \/ StealDone(e)
    BY <2>8, StealLockInv, Zenon
  <2>9. CASE StealAdd(e)
    BY <2>9, StealAddInv, Zenon
  <2>10. CASE FinalLock(e) \/ FinalRetry(e) \/ FinalUnlock(e)
    BY <2>10, FinalInv, Zenon
  <2>11. CASE DeclareIdle(e)
    BY <2>11, DeclareIdleInv, Zenon
  <2>12. CASE Halt(e) \/ Tick(e)
    BY <2>12, HaltInv, Zenon
  <2>13. CASE TakeIpi(e)
    BY <2>13, TakeIpiInv, Zenon
  <2>14. CASE Awake(e)
    BY <2>14, AwakeInv, Zenon
  <2> QED
    BY <1>1, <2>1, <2>2, <2>3, <2>4, <2>5, <2>6, <2>7, <2>8, <2>9, <2>10, <2>11, <2>12, <2>13, <2>14,
       Zenon DEF IdleStep
<1>2. ASSUME NEW e \in Executors, NEW t \in SchedTasks, TaskStep(e, t) PROVE SchedInv'
  <2>1. CASE YieldPut(e, t)
    BY <2>1, YieldPutInv, Zenon
  <2>2. CASE YieldPick(e, t)
    BY <2>2, YieldPickInv, Zenon
  <2>3. CASE Resume(e, t)
    BY <2>3, ResumeInv, Zenon
  <2>4. CASE Drop(e, t)
    BY <2>4, DropInv, Zenon
  <2>5. CASE EnqueueSpin(e, t)
    BY <2>5, EnqueueSpinInv, Zenon
  <2>6. CASE EnqueueLock(e, t)
    BY <2>6, EnqueueLockInv, Zenon
  <2>7. CASE Enqueue(e, t)
    BY <2>7, EnqueueInv, Zenon
  <2>8. CASE EnqueueUnlock(e, t)
    BY <2>8, EnqueueUnlockInv, Zenon
  <2>9. CASE Kick(e, t)
    BY <2>9, KickInv, Zenon
  <2> QED
    BY <1>2, <2>1, <2>2, <2>3, <2>4, <2>5, <2>6, <2>7, <2>8, <2>9, Zenon DEF TaskStep
<1>3. ASSUME NEW e \in Executors, NEW t \in SchedTasks, TaskCall(e, t) PROVE SchedInv'
  BY <1>3, YieldLockInv, DropLockInv, WakeInv, Zenon DEF TaskCall
<1>4. CASE UNCHANGED schedVars
  <2>1. /\ lock' = lock /\ queue' = queue /\ current_task' = current_task /\ idle' = idle
        /\ ipi' = ipi /\ missed' = missed /\ task_state' = task_state /\ stealable' = stealable
        /\ known_executor' = known_executor /\ handle' = handle /\ sched_pc' = sched_pc
        /\ ret' = ret /\ task' = task /\ target' = target
    BY <1>4, Zenon DEF schedVars, queueVars, idleVars, taskVars
  <2>2. SchedTypes'
    BY <2>1, Zenon DEF SchedInv, SchedTypes
  <2>3. IdleInv'
    BY <2>1, Zenon DEF SchedInv, IdleInv, HaltOk, Waking
  <2> QED
    BY <2>1, <2>2, <2>3, UntouchedInv, Zenon DEF SchedInv
<1> QED
  BY <1>1, <1>2, <1>3, <1>4, Zenon DEF SchedNext

\* The invariant holds in every state that the scheduler reaches.
LEMMA SchedInductive == SchedSpec => []SchedInv
  BY InitInv, NextInv, PTL DEF SchedSpec

\* No assertion or panic of the scheduler fires: locks are released by their
\* holders and never taken twice, queued tasks are ready, a task that was
\* switched to finds its executor locked.  And no executor ever holds two
\* scheduler locks.
THEOREM SchedulerIsSound == SchedSpec => []SchedulerSound
<1> SUFFICES ASSUME SchedInv PROVE SchedulerSound
  BY SchedInductive, PTL
<1>1. \A x, e \in Executors : lock[x] = e <=> Claims(e) = x
  BY Zenon DEF SchedInv, LockInv
<1>2. OneSchedulerLock
  <2> SUFFICES ASSUME NEW x \in Executors, NEW y \in Executors, x # y, lock[x] # None, lock[x] = lock[y]
               PROVE  FALSE
    BY Zenon DEF OneSchedulerLock
  <2>1. lock[x] \in Executors
    BY Zenon DEF SchedInv, SchedTypes
  <2> QED
    BY <1>1, <2>1, Zenon
<1>3. ASSUME NEW e \in Executors, NEW t \in SchedTasks
      PROVE  /\ t \in queue[e] => task_state[t] = "ready"
             /\ RunsOn(e, t) /\ sched_pc[t] \in {"resume", "rederive"} => lock[Unlocks(e, t)] = e
             /\ RunsOn(e, t) /\ sched_pc[t] \in {"put", "pick", "block", "exit"} => lock[e] = e
             /\ RunsOn(e, t) /\ sched_pc[t] \in {"enqueue", "enunlock"} => lock[target[t]] = e
             /\ RunsOn(e, t) /\ sched_pc[t] \in {"run", "enlock", "enspin", "kick"} =>
                   \A x \in Executors : lock[x] # e
             /\ RunsOn(e, t) /\ sched_pc[t] = "enqueue" => task_state[task[t]] = "ready"
  <2>1. t \in queue[e] => task_state[t] = "ready"
    BY Zenon DEF SchedInv, QueueInv, QueuedOk
  <2>2. ASSUME RunsOn(e, t), sched_pc[t] \in OwnLock PROVE lock[e] = e
    BY <1>1, <2>2, Zenon DEF RunsOn, Claims, ClaimAt
  <2>3. ASSUME RunsOn(e, t), sched_pc[t] \in {"resume", "rederive"} PROVE lock[Unlocks(e, t)] = e
    <3>1. Unlocks(e, t) = e
      <4>1. known_executor[t] = e
        BY <2>3, RunnerFacts, Zenon
      <4>2. StateOk(t)
        BY Zenon DEF SchedInv, StateInv
      <4>3. sched_pc[t] = "resume" => handle[t] = known_executor[t]
        BY <4>2, Zenon DEF StateOk, Yielding
      <4> QED
        BY <4>1, <4>3, Zenon DEF Unlocks
    <3> QED
      BY <2>2, <2>3, <3>1, Zenon DEF OwnLock
  <2>4. ASSUME RunsOn(e, t), sched_pc[t] \in {"enqueue", "enunlock"} PROVE lock[target[t]] = e
    <3>1. At(t) = sched_pc[t] /\ target[t] \in Executors
      BY <2>4, OwnFacts, Zenon DEF At, Yielding, Targeting
    <3>2. Claims(e) = target[t]
      BY <2>4, Zenon DEF RunsOn, Claims, ClaimAt, OwnLock, TargetLock
    <3> QED
      BY <1>1, <3>1, <3>2, Zenon
  <2>5. ASSUME RunsOn(e, t), sched_pc[t] \in {"run", "enlock", "enspin", "kick"}
        PROVE  \A x \in Executors : lock[x] # e
    <3>1. Claims(e) = None
      BY <2>5, Zenon DEF RunsOn, Claims, ClaimAt, OwnLock, TargetLock
    <3> QED
      BY <1>1, <3>1, ActorFacts, Zenon
  <2>6. ASSUME RunsOn(e, t), sched_pc[t] = "enqueue" PROVE task_state[task[t]] = "ready"
    <3>1. At(t) = "enqueue"
      BY <2>6, Zenon DEF At, Yielding
    <3>2. t \in Actors /\ task[t] \in SchedTasks
      BY <3>1, OwnFacts, ActorFacts, Zenon DEF Placing, SchedInv, SchedTypes
    <3> QED
      BY <3>2, Zenon DEF SchedInv, ByInv, HeldOk
  <2> QED
    BY <2>1, <2>2, <2>3, <2>4, <2>5, <2>6, Zenon DEF OwnLock
<1>4. ASSUME NEW e \in Executors, current_task[e] = e
      PROVE  /\ sched_pc[e] \in {"next", "leave", "defer", "readd", "reunlock", "check", "sleep"} =>
                   lock[e] = e
             /\ sched_pc[e] \in {"steal", "giveup", "stolen"} => lock[target[e]] = e
  <2>1. CASE sched_pc[e] \in {"next", "leave", "defer", "readd", "reunlock", "check", "sleep"}
    <3>1. Claims(e) = e
      BY <1>4, <2>1, Zenon DEF Claims, ClaimAt, OwnLock
    <3> QED
      BY <1>1, <2>1, <3>1, Zenon
  <2>2. CASE sched_pc[e] \in {"steal", "giveup", "stolen"}
    <3>1. target[e] \in Executors
      BY <2>2, ActorFacts DEF SchedInv, SchedTypes, HandInv, Aiming
    <3>2. Claims(e) = target[e]
      BY <1>4, <2>2, Zenon DEF Claims, ClaimAt, OwnLock, TargetLock
    <3> QED
      BY <1>1, <2>2, <3>1, <3>2, Zenon
  <2> QED
    BY <2>1, <2>2, Zenon
<1> QED
  BY <1>2, <1>3, <1>4, Zenon DEF SchedulerSound, NoPanic

\* A halted executor with a task in its runqueue has an interrupt coming.
THEOREM HaltedExecutorsSeeWork == SchedSpec => []HaltSeesWork
<1>1. SchedInv => HaltSeesWork
  BY Zenon DEF SchedInv, IdleInv, HaltOk, Waking, HaltSeesWork
<1> QED
  BY <1>1, SchedInductive, PTL

----------------------------------------------------------------------------
(* The counts of the runqueues, with the theorems on finite sets *)

INSTANCE FiniteSetTheorems

CountInv ==
    /\ nr_running \in [Executors -> Nat] /\ queued_hint \in [Executors -> Nat]
    /\ \A e \in Executors : nr_running[e] = Cardinality(queue[e]) /\ queued_hint[e] = nr_running[e]

\* A runqueue is finite, and no longer than there are tasks.
LEMMA QueueFinite ==
    ASSUME SchedInv, NEW e \in Executors
    PROVE  /\ IsFiniteSet(queue[e]) /\ Cardinality(queue[e]) \in Nat
           /\ Cardinality(queue[e]) <= Cardinality(SchedTasks)
           /\ Cardinality(SchedTasks) \in Nat
<1>1. queue[e] \subseteq SchedTasks
  BY DEF SchedInv, SchedTypes
<1> QED
  BY <1>1, TaskAssumption, FS_Subset, FS_CardinalityType

LEMMA AddCounts ==
    ASSUME SchedInv, CountInv, NEW x \in Executors, NEW t \in SchedTasks, t \notin queue[x], NEW s,
           Add(x, t, s)
    PROVE  CountInv'
<1>1. /\ nr_running \in [Executors -> Nat] /\ queued_hint \in [Executors -> Nat]
      /\ \A e \in Executors : nr_running[e] = Cardinality(queue[e]) /\ queued_hint[e] = nr_running[e]
  BY DEF CountInv
<1>2. /\ queue' = [queue EXCEPT ![x] = queue[x] \cup {t}]
      /\ nr_running' = [nr_running EXCEPT ![x] = nr_running[x] + 1]
      /\ queued_hint' = [queued_hint EXCEPT ![x] = nr_running[x] + 1]
      /\ queue \in [Executors -> SUBSET SchedTasks]
  BY DEF Add, SchedInv, SchedTypes
<1>3. Cardinality(queue[x] \cup {t}) = Cardinality(queue[x]) + 1
  <2>1. IsFiniteSet(queue[x])
    BY QueueFinite
  <2> QED
    BY <2>1, FS_AddElement, Zenon
<1> QED
  BY <1>1, <1>2, <1>3 DEF CountInv

LEMMA RemoveCounts ==
    ASSUME SchedInv, CountInv, NEW x \in Executors, NEW t \in queue[x], Remove(x, t)
    PROVE  CountInv'
<1>1. /\ nr_running \in [Executors -> Nat] /\ queued_hint \in [Executors -> Nat]
      /\ \A e \in Executors : nr_running[e] = Cardinality(queue[e]) /\ queued_hint[e] = nr_running[e]
  BY DEF CountInv
<1>2. /\ queue' = [queue EXCEPT ![x] = queue[x] \ {t}]
      /\ nr_running' = [nr_running EXCEPT ![x] = nr_running[x] - 1]
      /\ queued_hint' = [queued_hint EXCEPT ![x] = nr_running[x] - 1]
      /\ queue \in [Executors -> SUBSET SchedTasks]
  BY DEF Remove, SchedInv, SchedTypes
<1>3. Cardinality(queue[x] \ {t}) = Cardinality(queue[x]) - 1 /\ Cardinality(queue[x] \ {t}) \in Nat
  BY QueueFinite, FS_RemoveElement, FS_CardinalityType
<1> QED
  BY <1>1, <1>2, <1>3 DEF CountInv

LEMMA SameCounts == ASSUME CountInv, UNCHANGED queueVars PROVE CountInv'
  BY DEF CountInv, queueVars

\* Whoever queues a task has it in hand, or it was running or blocked.
LEMMA NotQueued ==
    ASSUME SchedInv, NEW x \in Executors, NEW t \in SchedTasks,
           task_state[t] # "ready" \/ \E a \in Actors : task[a] = t
    PROVE  t \notin queue[x]
  BY DEF SchedInv, QueueInv, QueuedOk

LEMMA InitCounts == SchedInit => CountInv
  BY FS_EmptySet DEF SchedInit, CountInv

LEMMA NextCounts == SchedInv /\ CountInv /\ [SchedNext]_schedVars => CountInv'
<1> SUFFICES ASSUME SchedInv, CountInv, [SchedNext]_schedVars PROVE CountInv'
  OBVIOUS
<1>1. ASSUME NEW e \in Executors, IdleStep(e) PROVE CountInv'
  <2>1. CASE Deferred(e)
    <3>1. CASE UNCHANGED queueVars
      BY <3>1, SameCounts
    <3>2. CASE Cleaner # None /\ task_state[Cleaner] = "blocked" /\ Add(e, Cleaner, TRUE)
      <4>1. Cleaner \in SchedTasks
        BY <3>2, TaskAssumption, Zenon
      <4>2. Cleaner \notin queue[e]
        BY <3>2, <4>1, NotQueued
      <4> QED
        BY <3>2, <4>1, <4>2, AddCounts, Zenon
    <3> QED
      BY <2>1, <3>1, <3>2, Zenon DEF Deferred
  <2>2. CASE IdlePick(e)
    BY <2>2, CandidatesQueued, RemoveCounts, Zenon DEF IdlePick
  <2>3. CASE StealTake(e)
    <3>1. target[e] \in Executors
      BY <2>3, ActorFacts DEF StealTake, SchedInv, SchedTypes, HandInv, Aiming
    <3>2. ASSUME NEW t \in Stealable(target[e]), Remove(target[e], t) PROVE CountInv'
      <4>1. t \in queue[target[e]]
        BY DEF Stealable
      <4> QED
        BY <3>1, <3>2, <4>1, RemoveCounts, Zenon
    <3> QED
      BY <2>3, <3>2, SameCounts, Zenon DEF StealTake
  <2>4. CASE StealAdd(e)
    <3>1. e \in Actors /\ task[e] \in SchedTasks
      BY <2>4, ActorFacts DEF StealAdd, Sched, SchedGoto, SchedInv, SchedTypes, HandInv, Carrying
    <3>2. task[e] \notin queue[e]
      BY <3>1, NotQueued, Zenon
    <3> QED
      BY <2>4, <3>1, <3>2, AddCounts, Zenon DEF StealAdd
  <2>5. CASE IdleEntry(e) \/ IdleLock(e) \/ IdleNone(e) \/ StealScan(e) \/ StealTryLock(e)
             \/ StealUnlock(e) \/ StealRelock(e) \/ StealDone(e)
    BY <2>5, SameCounts, Zenon
       DEF IdleEntry, IdleLock, IdleNone, StealScan, StealTryLock, StealUnlock, StealRelock, StealDone
  <2>6. CASE FinalLock(e) \/ FinalRetry(e) \/ DeclareIdle(e) \/ FinalUnlock(e) \/ Halt(e)
             \/ Tick(e) \/ TakeIpi(e) \/ Awake(e)
    BY <2>6, SameCounts, Zenon
       DEF FinalLock, FinalRetry, DeclareIdle, FinalUnlock, Halt, Tick, TakeIpi, Awake
  <2> QED
    BY <1>1, <2>1, <2>2, <2>3, <2>4, <2>5, <2>6, Zenon DEF IdleStep
<1>2. ASSUME NEW e \in Executors, NEW t \in SchedTasks, TaskStep(e, t) \/ TaskCall(e, t)
      PROVE  CountInv'
  <2>1. CASE YieldPut(e, t)
    <3>1. task_state[t] = "running"
      BY <2>1, RunnerFacts DEF YieldPut, SchedGoto
    <3>2. t \notin queue[e]
      BY <3>1, NotQueued
    <3> QED
      BY <2>1, <3>2, AddCounts, Zenon DEF YieldPut
  <2>2. CASE YieldPick(e, t)
    BY <2>2, CandidatesQueued, RemoveCounts, Zenon DEF YieldPick
  <2>3. CASE Drop(e, t)
    BY <2>3, CandidatesQueued, RemoveCounts, SameCounts, Zenon DEF Drop
  <2>4. CASE Enqueue(e, t)
    <3>1. At(t) = "enqueue"
      BY <2>4 DEF Enqueue, SchedGoto, At, Yielding
    <3>2. t \in Actors /\ target[t] \in Executors /\ task[t] \in SchedTasks
      BY <3>1, OwnFacts, ActorFacts DEF Targeting, Placing, SchedInv, SchedTypes
    <3>3. task[t] \notin queue[target[t]]
      BY <3>2, NotQueued, Zenon
    <3> QED
      BY <2>4, <3>2, <3>3, AddCounts, Zenon DEF Enqueue
  <2>5. CASE \/ Resume(e, t) \/ EnqueueSpin(e, t) \/ EnqueueLock(e, t) \/ EnqueueUnlock(e, t)
             \/ Kick(e, t) \/ YieldLock(e, t) \/ DropLock(e, t) \/ Wake(e, t)
    BY <2>5, SameCounts, Zenon
       DEF Resume, EnqueueSpin, EnqueueLock, EnqueueUnlock, Kick, YieldLock, DropLock, Wake
  <2> QED
    BY <1>2, <2>1, <2>2, <2>3, <2>4, <2>5, Zenon DEF TaskStep, TaskCall
<1>3. CASE UNCHANGED schedVars
  BY <1>3, SameCounts DEF schedVars
<1> QED
  BY <1>1, <1>2, <1>3, Zenon DEF SchedNext

\* The invariant holds in every state the scheduler reaches.
THEOREM CountsInductive == SchedSpec => [](SchedInv /\ CountInv)
<1>1. SchedInit => SchedInv /\ CountInv
  BY InitInv, InitCounts
<1>2. SchedInv /\ CountInv /\ [SchedNext]_schedVars => (SchedInv /\ CountInv)'
  BY NextInv, NextCounts
<1> QED
  BY <1>1, <1>2, PTL DEF SchedSpec

----------------------------------------------------------------------------
(* Where tasks are *)

\* A task that is not runnable is nowhere.
LEMMA PlacesOfOthers ==
    ASSUME SchedInv, NEW t \in SchedTasks, task_state[t] \in {"new", "blocked", "terminated"}
    PROVE  Places(t) = {}
<1>1. /\ \A e \in Executors : current_task[e] # t /\ t \notin queue[e]
      /\ \A a \in Actors : task[a] # t
  BY DEF SchedInv, OnInv, QueueInv, QueuedOk, ByInv, HeldOk
<1> QED
  BY <1>1 DEF Places

\* A running task is on the executor it knows, or has just been dropped by it.
LEMMA PlacesOfRunning ==
    ASSUME SchedInv, NEW t \in SchedTasks, task_state[t] = "running"
    PROVE  /\ known_executor[t] \in Executors
           /\ IF current_task[known_executor[t]] = t THEN Places(t) = {<<"on", known_executor[t]>>}
              ELSE Places(t) = {} /\ sched_pc[t] \in Leaving /\ sched_pc[known_executor[t]] = "defer"
<1>1. /\ \A e \in Executors : t \notin queue[e] /\ (current_task[e] = t => known_executor[t] = e)
      /\ \A a \in Actors : task[a] # t
  BY DEF SchedInv, OnInv, QueueInv, QueuedOk, ByInv, HeldOk
<1>2. known_executor[t] \in Executors
  BY DEF SchedInv, SchedTypes, StateInv, StateOk
<1>3. CASE current_task[known_executor[t]] = t
  <2>1. Places(t) = {<<"on", known_executor[t]>>}
    BY <1>1, <1>2, <1>3 DEF Places
  <2> QED
    BY <1>2, <1>3, <2>1
<1>4. CASE current_task[known_executor[t]] # t
  <2>1. Places(t) = {}
    BY <1>1, <1>4 DEF Places
  <2>2. sched_pc[t] \in Leaving /\ sched_pc[known_executor[t]] = "defer"
    BY <1>4 DEF SchedInv, SomewhereInv, PlacedOk
  <2> QED
    BY <1>2, <1>4, <2>1, <2>2
<1> QED
  BY <1>3, <1>4

\* A yielding task between putPrev and the pick is current and queued.
LEMMA PlacesOfYielding ==
    ASSUME SchedInv, NEW t \in SchedTasks, sched_pc[t] = "pick"
    PROVE  \E e \in Executors : Places(t) = {<<"on", e>>, <<"in", e>>}
<1> DEFINE e == known_executor[t]
<1>1. e \in Executors /\ current_task[e] = t /\ task_state[t] = "ready"
  BY DEF SchedInv, SchedTypes, StateInv, StateOk, SomewhereInv, PlacedOk
<1>2. /\ t \in queue[e]
      /\ \A f \in Executors : t \in queue[f] => f = e
      /\ \A f \in Executors : current_task[f] = t => f = e
  BY <1>1 DEF SchedInv, OnInv, QueueInv, QueuedOk
<1>3. \A a \in Actors : task[a] # t
  BY DEF SchedInv, ByInv, HeldOk
<1>4. Places(t) = {<<"on", e>>, <<"in", e>>}
  BY <1>1, <1>2, <1>3 DEF Places
<1> QED
  BY <1>1, <1>4

\* Any other ready task is in one runqueue, or in one pair of hands.
LEMMA PlacesOfReady ==
    ASSUME SchedInv, NEW t \in SchedTasks, task_state[t] = "ready", sched_pc[t] # "pick"
    PROVE  \E p : Places(t) = {p}
<1>1. \A e \in Executors : current_task[e] # t
  BY Zenon DEF SchedInv, OnInv
<1>2. ASSUME NEW e \in Executors, t \in queue[e] PROVE Places(t) = {<<"in", e>>}
  <2>1. (\A f \in Executors : t \in queue[f] => f = e) /\ \A a \in Actors : task[a] # t
    BY <1>2 DEF SchedInv, QueueInv, QueuedOk
  <2> QED
    BY <1>1, <1>2, <2>1 DEF Places
<1>3. ASSUME NEW a \in Actors, task[a] = t PROVE Places(t) = {<<"by", a>>}
  <2>1. (\A e \in Executors : t \notin queue[e]) /\ \A b \in Actors : task[b] = t => b = a
    BY <1>3 DEF SchedInv, QueueInv, QueuedOk, ByInv, HeldOk
  <2> QED
    BY <1>1, <1>3, <2>1 DEF Places
<1>4. (\E e \in Executors : t \in queue[e]) \/ (\E a \in Actors : task[a] = t)
  BY DEF SchedInv, SomewhereInv, PlacedOk
<1> QED
  BY <1>2, <1>3, <1>4, Zenon

LEMMA PlacesExact == SchedInv => InOnePlace
<1> SUFFICES ASSUME SchedInv, NEW t \in SchedTasks
             PROVE  IF task_state[t] \in {"new", "blocked", "terminated"} THEN Places(t) = {}
                    ELSE IF sched_pc[t] = "pick" THEN
                        \E e \in Executors : Places(t) = {<<"on", e>>, <<"in", e>>}
                    ELSE IF sched_pc[t] \in {"block", "exit"} THEN
                        Places(t) = {} <=>
                            \E e \in Executors : known_executor[t] = e /\ sched_pc[e] = "defer"
                    ELSE Cardinality(Places(t)) = 1
  BY DEF InOnePlace
<1>1. task_state[t] \in {"new", "ready", "running", "blocked", "terminated"}
  BY DEF SchedInv, SchedTypes
<1>2. CASE task_state[t] \in {"new", "blocked", "terminated"}
  BY <1>2, PlacesOfOthers
<1>3. CASE sched_pc[t] = "pick"
  <2>1. task_state[t] = "ready"
    BY <1>3 DEF SchedInv, SomewhereInv, PlacedOk
  <2> QED
    BY <1>3, <2>1, PlacesOfYielding
<1>4. CASE sched_pc[t] \in {"block", "exit"}
  <2>1. task_state[t] = "running"
    BY <1>4 DEF SchedInv, SomewhereInv, PlacedOk, Leaving
  <2>2. /\ known_executor[t] \in Executors
        /\ IF current_task[known_executor[t]] = t THEN Places(t) = {<<"on", known_executor[t]>>}
           ELSE Places(t) = {} /\ sched_pc[known_executor[t]] = "defer"
    BY <2>1, PlacesOfRunning
  <2>3. current_task[known_executor[t]] = t => sched_pc[known_executor[t]] = "loop"
    BY <2>2, ActorFacts DEF SchedInv, HandInv
  <2>4. Places(t) = {} <=> \E e \in Executors : known_executor[t] = e /\ sched_pc[e] = "defer"
    <3>1. CASE current_task[known_executor[t]] = t
      <4>1. Places(t) = {<<"on", known_executor[t]>>}
        BY <2>2, <3>1, Zenon
      <4>2. <<"on", known_executor[t]>> \in Places(t)
        BY <4>1, Zenon
      <4>3. sched_pc[known_executor[t]] = "loop"
        BY <2>3, <3>1, Zenon
      <4> QED
        BY <4>2, <4>3, Zenon
    <3>2. CASE current_task[known_executor[t]] # t
      BY <2>2, <3>2, Zenon
    <3> QED
      BY <3>1, <3>2
  <2>5. sched_pc[t] # "pick" /\ task_state[t] \notin {"new", "blocked", "terminated"}
    BY <1>4, <2>1
  <2> QED
    BY <1>4, <2>4, <2>5, Zenon
<1>5. CASE task_state[t] \in {"ready", "running"} /\ sched_pc[t] \notin {"pick", "block", "exit"}
  <2>1. PICK p : Places(t) = {p}
    <3>1. CASE task_state[t] = "ready"
      BY <1>5, <3>1, PlacesOfReady, Zenon
    <3>2. CASE task_state[t] = "running"
      <4>1. Places(t) = {<<"on", known_executor[t]>>}
        BY <1>5, <3>2, PlacesOfRunning DEF Leaving
      <4> QED
        BY <4>1, Zenon
    <3> QED
      BY <1>5, <3>1, <3>2, Zenon
  <2>2. Cardinality(Places(t)) = 1
    BY <2>1, FS_Singleton, Zenon
  <2>3. task_state[t] \notin {"new", "blocked", "terminated"}
    BY <1>5
  <2> QED
    BY <1>5, <2>2, <2>3, Zenon
<1> QED
  BY <1>1, <1>2, <1>3, <1>4, <1>5

LEMMA PinnedThere == SchedInv => PinnedStays
  BY TaskAssumption DEF SchedInv, OnInv, QueueInv, QueuedOk, PinnedStays

LEMMA CountsThere == SchedInv /\ CountInv => CountsAgree
<1> SUFFICES ASSUME SchedInv, CountInv PROVE CountsAgree
  OBVIOUS
<1>1. \A e \in Executors :
        /\ nr_running[e] = Cardinality(queue[e]) /\ queued_hint[e] = nr_running[e]
        /\ nr_running[e] \in 0..Cardinality(SchedTasks)
  <2> SUFFICES ASSUME NEW e \in Executors
               PROVE  /\ nr_running[e] = Cardinality(queue[e]) /\ queued_hint[e] = nr_running[e]
                      /\ nr_running[e] \in 0..Cardinality(SchedTasks)
    BY Zenon
  <2>1. nr_running[e] = Cardinality(queue[e]) /\ queued_hint[e] = nr_running[e]
    BY DEF CountInv
  <2>2. /\ Cardinality(queue[e]) \in Nat /\ Cardinality(SchedTasks) \in Nat
        /\ Cardinality(queue[e]) <= Cardinality(SchedTasks)
    BY QueueFinite
  <2> QED
    BY <2>1, <2>2
<1>2. /\ nr_running \in [Executors -> 0..Cardinality(SchedTasks)]
      /\ queued_hint \in [Executors -> 0..Cardinality(SchedTasks)]
  BY <1>1 DEF CountInv
<1>3. SchedTypeOK
  BY <1>2 DEF SchedInv, SchedTypes, SchedTypeOK
<1> QED
  BY <1>1, <1>3 DEF CountsAgree

\* A runnable task is in exactly one place, whatever wakers, thieves and
\* deferred actions do at the same time, so that it neither runs twice nor is
\* forgotten; a pinned one stays on its executor; and the runqueue's count and
\* the hint that thieves read agree with the queue.
THEOREM TasksInOnePlace == SchedSpec => []OnePlace
<1>1. SchedInv /\ CountInv => OnePlace
  BY PlacesExact, PinnedThere, CountsThere DEF OnePlace
<1> QED
  BY <1>1, CountsInductive, PTL

=============================================================================
