SPECIFICATION FairLocks
CONSTANTS
    Tasks = {"follower", "poller"}
    Changes <- RpcsOnly
CHECK_DEADLOCK FALSE
PROPERTIES
    UpdateEnds
