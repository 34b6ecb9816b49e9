\* Every kind of line, a dying connection and a dying writer.
CONSTANTS
    c1 = c1  c2 = c2  UDP = UDP
    Conns = {c1, c2}
    QueueSize = 1
    Kinds = {"text", "rejected", "empty", "long"}
    DbMayFail = TRUE
    WriterMayDie = TRUE
    MaxLines <- OneTwo
SPECIFICATION FairSpec
CHECK_DEADLOCK FALSE
INVARIANTS TypeOK Bounded NoLostWakeup Backpressure
PROPERTIES ImplementsIngestLog EveryLineSettles
