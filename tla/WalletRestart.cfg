SPECIFICATION Spec
CONSTANTS
    s1 = s1
    s2 = s2
    Slots = {s1, s2}
    Addrs = {"a"}
    Ops = {"Login", "StartMining", "StopMining"}
    Systems = {"windows", "darwin"}
    MaxRequests = 3
    MaxFaults = 0
CHECK_DEADLOCK FALSE
INVARIANT StopMiningRestarts
