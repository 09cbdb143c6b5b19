SPECIFICATION Spec
CONSTANTS
    c1 = c1
    c2 = c2
    c3 = c3
    c4 = c4
    Clients <- MCClients
    MaxSessions = 2
    BacklogMax = 2
INVARIANT SessionCapIsHostCap
