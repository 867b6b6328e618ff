\* Two services of two maps with one place, any requests in any order.
CONSTANTS
    Uids = {u1, u2, u3}
    u1 = u1
    u2 = u2
    u3 = u3
    NumServices = 2
    MaxMap = 2
    PlayersPerMap = 1
    Orderly = FALSE
    QueueBound = 2
SPECIFICATION Spec
SYMMETRY Symmetry
INVARIANTS SeatTablesAgree PlayersCounted CountAccounted
CHECK_DEADLOCK FALSE
