\* Two keys, a request and a worker, two tries, two faults.
SPECIFICATION FairSpec
CONSTANTS
    Keys = {k1, k2}
    Requests = {r1}
    k1 = k1
    k2 = k2
    r1 = r1
    Workers = {w1}
    w1 = w1
    Nobody = Nobody
    DisableTries = 2
    MaxFaults = 2
INVARIANTS
    PortalAccessTypeOK
    AccessStaysClosed
    InviteMatchesLink
PROPERTIES
    DisableSettles
