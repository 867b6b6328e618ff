\* Two clients, one place on each of two maps; any two of their requests.
CONSTANTS
    Clients = {c1, c2}
    c1 = c1
    c2 = c2
    MaxSocket = 5
    MaxEvent = 1
    MaxRequests = 2
    NumServices = 1
    MaxMap = 2
    PlayersPerMap = 1
    Asked = {"LOG_REQ", "GAME_START_REQ", "LEAVE_REQ"}
SPECIFICATION Spec
SYMMETRY Symmetry
INVARIANTS SeatedIsRouted NoGhosts 
PROPERTY TurnedAwayByLobby
CHECK_DEADLOCK FALSE
