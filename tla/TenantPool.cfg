\* Three requests of two tenants over two connections, one of which is lost.
CONSTANTS
    NReqs = 3
    NConns = 2
    Tenants = {A, B}
    Kinds <- Mix
    Blank = Blank
    MaxBreaks = 1
\* Requests stop arriving when all have come.
CHECK_DEADLOCK FALSE
SPECIFICATION FairSpec
INVARIANTS TypeOK OwnRowsOnly FreshIsBlank Exclusive AckedEventsRead OneRule NoWaitCycle
PROPERTIES ImplementsTenantStores EveryRequestAnswered
