SPECIFICATION FairLocks
CONSTANTS
    Tasks = {"follower", "initializer", "poller", "handler"}
    Changes <- ChangeAll
CHECK_DEADLOCK FALSE
INVARIANTS
    OnlyNestedReads
PROPERTIES
    NoOneWaitsForEver
