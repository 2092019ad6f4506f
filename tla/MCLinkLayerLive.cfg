\* Liveness: one message from the slave, which speaks only when polled; no other
\* connection on the channel.
CONSTANTS
    Msgs = {m1}
    NULL = NULL
    NoPkt = NoPkt
    AclCap = 1
    TxqCap = 2
    SUPERVISION_TO = 1
    MaxSent <- SlaveOnly
    Foreign = FALSE
SPECIFICATION FairSpec
PROPERTIES Delivered BothLeave
