SPECIFICATION FairSpec
CONSTANTS
    n1 = n1
    n2 = n2
    n3 = n3
    q1 = q1
    Nodes = {n1, n2, n3}
    Self = n1
    Requests = {q1}
    MaxFaults = 2
CHECK_DEADLOCK FALSE
INVARIANT TypeOK
INVARIANT Complete
 
PROPERTY RequestsAnswered
