CONSTANTS
    ta = ta
    tb = tb
    tc = tc
    Processes = {1, 2, 3}
    Threads = {ta, tb, tc}
    ProcessOf <- ThreeProcesses
    Objects = {o1, o2}
    Rights = {"grant", "revoke"}
    None = None
    SlotCount = 2
    MessageCaps = 1
    MaxGeneration = 1
    Calls = {"create", "transfer", "revoke"}
SPECIFICATION Spec
INVARIANT RevocationIsTotal
