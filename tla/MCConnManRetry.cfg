\* Two workers whose handler calls may overlap; one client throws on connect.
SPECIFICATION Spec
CONSTANTS
    c1 = c1
    c2 = c2
    w1 = w1
    w2 = w2
    Clients = {c1, c2}
    Workers = {w1, w2}
    connection_attempt = 1
    Wait = 1
    Faulty = {c2}
    MaxTime = 4
    MaxPosted = 1
SYMMETRY WorkerSymmetry
INVARIANTS TypeOK MutexReleased
PROPERTY FollowsPolicy
