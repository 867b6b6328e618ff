\* Two clients, one of which can start; both leave, by an end or by a reset.
CONSTANTS
    Clients = {c1, c2}
    c1 = c1
    c2 = c2
    MaxSocket = 5
    MaxEvent = 4
    MaxRequests = 1
    NumServices = 1
    MaxMap = 1
    PlayersPerMap = 2
    Asked = {"GAME_START_REQ"}
SPECIFICATION LiveSpec
PROPERTIES EndNoticed LeaverUnseated
CHECK_DEADLOCK FALSE
