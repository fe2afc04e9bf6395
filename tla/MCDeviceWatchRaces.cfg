\* Two overlapping passes and the listener on one device.
SPECIFICATION Spec
CONSTANTS
    d1 = d1
    w1 = w1
    w2 = w2
    Devices = {d1}
    Workers = {w1, w2}
    Timeout = 1
    Attempts = 1
    MaxTime = 5
    MaxPosted = 1
    MaxMessages = 2
SYMMETRY WorkerSymmetry
INVARIANTS TypeOK StatusTruthful AlarmBudget
PROPERTY AlarmNotEarly
