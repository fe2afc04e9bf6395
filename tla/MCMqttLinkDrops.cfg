\* Two topics, sessions lost or refused four times, two messages.
SPECIFICATION FairSpec
CONSTANTS
    t1 = t1
    t2 = t2
    Topics = {t1, t2}
    MaxDrops = 4
    MaxUpdates = 2
INVARIANTS TypeOK ListNotShared NoTopicMissed ListenerInformed UpdatesWhileOnline
PROPERTY LinkSettles
CHECK_DEADLOCK FALSE
