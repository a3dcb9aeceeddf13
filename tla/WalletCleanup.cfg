SPECIFICATION Spec
CONSTANTS
    s1 = s1
    s2 = s2
    Slots = {s1, s2}
    Addrs = {"a"}
    Ops = {"Signup", "Login", "Logout"}
    Systems = {"windows", "darwin"}
    MaxRequests = 2
    MaxFaults = 0
CHECK_DEADLOCK FALSE
INVARIANT CreateWalletCleansUp
