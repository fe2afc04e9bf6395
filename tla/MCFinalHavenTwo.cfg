\* Both signals, to any thread.
SPECIFICATION FairSpec
CONSTANTS
    r1 = r1
    Reporters = {r1}
    Signals = {"SIGTERM", "SIGINT"}
    MaxReports = 0
    MaxSignals = 2
PROPERTY SignalsEnd
CHECK_DEADLOCK FALSE
