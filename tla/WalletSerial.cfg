SPECIFICATION FairSpec
CONSTANTS
    s1 = s1
    s2 = s2
    Slots = {s1}
    Addrs = {"a", "b"}
    Ops = {"Init", "Signup", "Login", "Logout", "DeleteAccount", "StartMining", "StopMining", "Transaction", "Balance"}
    Systems = {"windows", "darwin"}
    MaxRequests = 4
    MaxFaults = 1
CHECK_DEADLOCK FALSE
INVARIANT TypeOK
INVARIANT SerialAddress
INVARIANT SerialResult
INVARIANT RemovedWhenStopped
 
