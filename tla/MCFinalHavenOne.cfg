\* Two reporting threads and one kind of signal, sent again while handled,
\* to any thread.
SPECIFICATION FairSpec
CONSTANTS
    r1 = r1
    r2 = r2
    Reporters = {r1, r2}
    Signals = {"SIGTERM"}
    MaxReports = 2
    MaxSignals = 2
INVARIANT TypeOK
PROPERTIES OnlyHandlersLockUp FollowsPolicy ReportsEnd SignalsReach
CHECK_DEADLOCK FALSE
