SPECIFICATION Spec
CONSTANTS
    p1 = p1
    p2 = p2
    h1 = h1
    h2 = h2
    Peers = {p1, p2}
    Uploaders = {p1}
    Handlers = {h1, h2}
    Owner <- OwnerEach
    Replicas = {1, 2}
    MaxFaults = 2
    MaxRequests = 4
CHECK_DEADLOCK FALSE
INVARIANT TypeOK
INVARIANT RatingsConsistent
INVARIANT VotesAuthentic
INVARIANT SerialWithoutOverlap
INVARIANT ServersAreListed
