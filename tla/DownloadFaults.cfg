SPECIFICATION Spec
CONSTANTS
    n1 = n1
    n2 = n2
    n3 = n3
    f1 = f1
    f2 = f2
    t1 = t1
    t2 = t2
    t3 = t3
    None = None
    Nodes = {n1, n2}
    Files = {f1}
    Txs = {t1, t2}
    Name <- OwnName
    Uploader <- OneUploader
    Chunks = 1
    Deleters = {n1}
    MaxFaults = 1
CHECK_DEADLOCK FALSE
SYMMETRY TxSymmetry
INVARIANT TypeOK
 
