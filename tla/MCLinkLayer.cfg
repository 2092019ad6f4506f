\* Three messages from the master, one from the slave.
CONSTANTS
    Msgs = {m1, m2}
    NULL = NULL
    NoPkt = NoPkt
    AclCap = 1
    TxqCap = 2
    SUPERVISION_TO = 1
    MaxSent <- MasterSendsMost
    Foreign = TRUE
SPECIFICATION Spec
INVARIANTS NothingLost
PROPERTIES ImplementsReliableLink
