SPECIFICATION FairSpec
CONSTANTS RetryCount = 3
INVARIANTS TypeOK DuplicatesNeedLostAnswer DeliveredIsSent
PROPERTIES SendEnds
CHECK_DEADLOCK FALSE
