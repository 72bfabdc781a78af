CONSTANT MaxRequests = 2
SPECIFICATION FairSpec
PROPERTIES ReadAnswered
CHECK_DEADLOCK FALSE
