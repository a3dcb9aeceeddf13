SPECIFICATION FairSpec
CONSTANTS
    n1 = n1
    n2 = n2
    n3 = n3
    f1 = f1
    f2 = f2
    t1 = t1
    t2 = t2
    t3 = t3
    None = None
    Nodes = {n1, n2, n3}
    Files = {f1, f2}
    Txs = {t1, t2}
    Name <- SameName
    Uploader <- TwoUploaders
    Chunks = 1
    Deleters = {}
    MaxFaults = 0
CHECK_DEADLOCK FALSE
 
INVARIANT CompleteIsStored
 
