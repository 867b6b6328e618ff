\* Three clients, two services with room for one: the third finds them full.
CONSTANTS
    Uids <- MCUids
    IoMsgs <- MCIoMsgs
    GameMsgs <- MCGameMsgs
    NumServices = 2
    MaxPlayers = 1
    QueueBound = 3
SPECIFICATION Spec
INVARIANTS TypeOK OnlineMatchesRoute QueuedUnderRoute
PROPERTY ImplementsSessionTable
CHECK_DEADLOCK FALSE
