\* One service, one map with three places and nine by one points.
CONSTANTS
    Uids = {u1, u2, u3}
    u1 = u1
    u2 = u2
    u3 = u3
    NumServices = 1
    MaxMap = 1
    PlayersPerMap = 3
    Orderly = TRUE
    QueueBound = 1
    MAP_NAX_X = 9
    MAP_NAX_Y = 1
    START_STEP = 4
    Unknown = Unknown
SPECIFICATION ViewSpec
SYMMETRY Symmetry
INVARIANTS CountIsStarted FrontSeated OthersAreWhereSeen NobodyElseSeen
PROPERTIES RecipientsSeated RebuildExact LeaverNamed MoveIsSeen
CHECK_DEADLOCK FALSE
