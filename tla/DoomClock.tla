----------------------------- MODULE DoomClock -----------------------------
(***************************************************************************)
(* Time in the DOOM port: the clock functions of its C library             *)
(* (apps/doom/innigkeit_libc.c) and of its platform layer                  *)
(* (doomgeneric_innigkeit.c).  All of them read the kernel's uptime in     *)
(* whole milliseconds; the model's time runs in microseconds, so that a    *)
(* reading may be almost one millisecond old.                              *)
(***************************************************************************)
EXTENDS Integers

CONSTANTS
    UsPerMs, MsPerSecond,       \* 1000 and 1000
    TickWrap,                   \* 2^32
    MaxNow, MaxSleep            \* bounds: the uptime and a sleep, in microseconds

VARIABLES
    now,                        \* microseconds since the boot
    sleep,                      \* the sleep the program is in, or the last one
    first, last                 \* two readings of all clocks, the second one later

vars == <<now, sleep, first, last>>

\* display.uptimeMs()
innigkeit_uptime_ms == now \div UsPerMs

gettimeofday ==
    [tv_sec |-> innigkeit_uptime_ms \div MsPerSecond,
     tv_usec |-> (innigkeit_uptime_ms % MsPerSecond) * UsPerMs]

time == innigkeit_uptime_ms \div MsPerSecond

clock == innigkeit_uptime_ms

DG_GetTicksMs == innigkeit_uptime_ms % TickWrap

Reading ==
    [tv |-> gettimeofday, time |-> time, clock |-> clock, ticks |-> DG_GetTicksMs,
     ms |-> innigkeit_uptime_ms]

Awake == [at |-> "awake", asked |-> 0, start |-> 0, target |-> 0, slack |-> 1, took |-> 0]

Init ==
    /\ now = 0 /\ sleep = Awake
    /\ first = Reading /\ last = Reading

Pass == now < MaxNow /\ now' = now + 1 /\ UNCHANGED <<sleep, first, last>>

Read ==
    /\ sleep.at = "awake" /\ first' = last /\ last' = Reading
    /\ UNCHANGED <<now, sleep>>

Enter(us, ms, slack) ==
    /\ sleep.at # "waiting"
    /\ sleep' = [at |-> "waiting", asked |-> us, start |-> now,
                 target |-> innigkeit_uptime_ms + ms, slack |-> slack, took |-> 0]
    /\ UNCHANGED <<now, first, last>>

\* The part of a millisecond is dropped.
usleep == \E usec \in 0 .. MaxSleep : Enter(usec, usec \div UsPerMs, 2 * UsPerMs)

DG_SleepMs == \E ms \in 0 .. MaxSleep \div UsPerMs : Enter(ms * UsPerMs, ms, UsPerMs)

\* The loop of both.  The program may look at the clock late, but not before.
Loop ==
    /\ sleep.at = "waiting" /\ innigkeit_uptime_ms >= sleep.target
    /\ sleep' = [sleep EXCEPT !.at = "awake", !.took = now - sleep.start]
    /\ UNCHANGED <<now, first, last>>

Next == Pass \/ Read \/ usleep \/ DG_SleepMs \/ Loop

Spec == Init /\ [][Next]_vars

----------------------------------------------------------------------------

\* A sleep may end early, because the reading it starts from is up to a
\* millisecond old, and usleep may end another one early, because it drops the
\* part of a millisecond: never more.
SleepsLongEnough ==
    sleep.at = "awake" => sleep.took > sleep.asked - sleep.slack

\* Two readings: the wall clock never goes back and agrees with time(), and the
\* difference of the 32-bit ticks is right as long as it fits, also across the
\* wrap.
ClocksAgree ==
    /\ \/ first.tv.tv_sec < last.tv.tv_sec
       \/ first.tv.tv_sec = last.tv.tv_sec /\ first.tv.tv_usec <= last.tv.tv_usec
    /\ last.time = last.tv.tv_sec
    /\ last.clock - first.clock =
         (last.tv.tv_sec - first.tv.tv_sec) * MsPerSecond
           + (last.tv.tv_usec - first.tv.tv_usec) \div UsPerMs
    /\ last.ms - first.ms < TickWrap =>
         (last.ticks - first.ticks) % TickWrap = last.ms - first.ms

=============================================================================
