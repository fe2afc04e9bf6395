\* A pass per period on time: room for an alarm that an overlap with the first
\* message loses, the message that ends the overlap, and the alarm after it.
SPECIFICATION TimelySpec
CONSTANTS
    d1 = d1
    w1 = w1
    w2 = w2
    Devices = {d1}
    Workers = {w1, w2}
    Timeout = 2
    Attempts = 1
    MaxTime = 14
    MaxPosted = 1
    MaxMessages = 2
SYMMETRY WorkerSymmetry
INVARIANT DetectionBound
