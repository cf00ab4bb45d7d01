CONSTANTS
    Clients = {c1, c2}
    Servers = {s1}
    Repliers = {r1, r2}
    Caps = {k1}
    Receives = {"recv", "reply_recv", "recv_call"}
    MaxMessages = 2
    None = None
    Waiters = {w1, w2, w3}
    Bits = {b1, b2, b3}
    Mask = {b1, b2}
SPECIFICATION IpcSpec
INVARIANTS MessagesAndWakers 
PROPERTIES AnswersMatch CallsReturn
CHECK_DEADLOCK FALSE
