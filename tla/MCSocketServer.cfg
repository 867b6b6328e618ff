\* Three clients for two client ids; a batch holds up to three events.
CONSTANTS
    Clients = {c1, c2, c3}
    c1 = c1
    c2 = c2
    c3 = c3
    MaxSocket = 5
    MaxEvent = 3
    MaxRequests = 1
    EpollAddFails = TRUE
    MaxBroadcasts = 1
SPECIFICATION MCSpec
SYMMETRY Symmetry
INVARIANTS IdNamesOneConnection EventsCurrent BufferedIsWatched SessionProtocol AddedIsTold
CHECK_DEADLOCK FALSE
