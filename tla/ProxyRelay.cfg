SPECIFICATION FairSpec
CONSTANTS
    h1 = h1
    h2 = h2
    c1 = c1
    c2 = c2
    Hosts = {h1}
    Clients = {c1}
    MaxContexts = 3
    MaxCalls = 3
    MaxFaults = 1
CHECK_DEADLOCK FALSE
INVARIANT TypeOK
INVARIANT Watched
INVARIANT Independent
PROPERTY StopHostingStops
PROPERTY DisconnectStops
PROPERTY HostingServes
 
