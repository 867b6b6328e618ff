\* Two clients, three requests in all of up to two bytes and a length.
CONSTANTS
    Clients = {c1, c2}
    c1 = c1
    c2 = c2
    NoClient = NoClient
    Bodies <- MCBodies
    MaxSent = 3
    MaxEvent = 2
SPECIFICATION FairSpec
INVARIANTS RequestsAsSent ReadBeforeClosed
PROPERTY AllRead
CHECK_DEADLOCK FALSE
