\* Two functions, a task, two workers; the clock may go two periods at once.
SPECIFICATION FairSpec
CONSTANTS
    f1 = f1
    f2 = f2
    t1 = t1
    w1 = w1
    w2 = w2
    Idle = Idle
    Funcs = {f1, f2}
    Tasks = {t1}
    Workers = {w1, w2}
    period <- MCPeriod
    MaxTime = 3
    MaxJump = 2
INVARIANTS TypeOK OneTimerEach PostedOnTime
PROPERTIES NoPostAfterStop CatchesUp
CHECK_DEADLOCK FALSE
