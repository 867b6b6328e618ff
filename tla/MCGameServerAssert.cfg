\* Two clients in one map, one of which logs in or starts.
CONSTANTS
    Clients = {c1, c2}
    c1 = c1
    c2 = c2
    MaxSocket = 5
    MaxEvent = 4
    MaxRequests = 1
    NumServices = 1
    MaxMap = 1
    PlayersPerMap = 2
    Asked = {"LOG_REQ", "GAME_START_REQ"}
SPECIFICATION Spec
SYMMETRY Symmetry
INVARIANT SendAssertion
CHECK_DEADLOCK FALSE
