SPECIFICATION MCSpec
CONSTANTS
    N = 3
    MAX_ERROR_SIZE = 3
    MaxDamages = 2
    MaxJunk = 3
    c1 = c1
    c2 = c2
    c3 = c3
    Clients <- MCClients
    Message <- MCMessage
    Limit = 7
    AtStart = 3
    Waiting = 2
    MaxResets = 1
    Threads = {gdb_thread, irq_thread}
    Lines = {line1, line2}
    MaxNesting = 3
    MaxHolds = 3
    ArmCreate = ArmCreate
    Nothing = Nothing
INVARIANTS TypeOK JunkFits RaisedInOrder PositionsAreKept
PROPERTIES ImplementsRequests SessionEnds 
CHECK_DEADLOCK FALSE
