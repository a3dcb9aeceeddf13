SPECIFICATION FairSpec
CONSTANTS
    q1 = q1
    q2 = q2
    Refreshes = {q1, q2}
    MaxVersion = 3
    MaxFaults = 2
CHECK_DEADLOCK FALSE
INVARIANT TypeOK
INVARIANT FreshIfAlone
INVARIANT BlockedBounded
PROPERTY RefreshAnswered
