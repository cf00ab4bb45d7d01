CONSTANTS
    Clients = {c1, c2}
    Servers = {s1, s2}
    Repliers = {r1, r2}
    Caps = {k1}
    Receives = {"recv"}
    MaxMessages = 2
    None = None
    Waiters = {w1, w2, w3}
    Bits = {b1, b2, b3}
    Mask = {b1, b2}
SPECIFICATION IpcSpec
INVARIANT Delivered
CHECK_DEADLOCK FALSE
