CONSTANTS
    Unparkers = {u1, u2, u3}
    Sleeper = s
    None = None
    MaxAttempts = 3
    Worker = w
    Owners = {o1}
    Sleepers = {s1, s2}
    Setter = st
    Deadlines = {2, 3}
    MaxWake = 1
    MaxTime = 3
SPECIFICATION SleepSpec
INVARIANTS NoLostUnpark WakesBlockedTask InstanceFreedOnce
PROPERTIES UnparkWakes WaitsReturn
