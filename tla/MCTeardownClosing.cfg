\* Two workers, and everything on the log.
SPECIFICATION FairSpec
CONSTANTS
    Pool <- TwoWorkers
    NoEvent = NoEvent
    Nobody = Nobody
    DebugLevels = {3}
    MaxEvents = 2
INVARIANTS TypeOK ListenerEndsFirst EmptyWhenWalked CallbacksHaveTheirObject QuietEnd
PROPERTIES EventsInOrder Closes
CHECK_DEADLOCK FALSE
