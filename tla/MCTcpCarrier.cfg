\* connect() may be refused: a refused _tcp_connect() keeps connect_lock
\* (network_io_tcp.c:290), and a thread that then takes it blocks for good,
\* so the system may really stop; deadlock is not checked.
CONSTANTS
    Pkts <- MCPkts
    PeerPkts <- MCPeerPkts
    ConnectResults = {"ok", "ECONNREFUSED"}
    MaxRetries = 1
    NoOwner = NoOwner
SPECIFICATION Spec
CHECK_DEADLOCK FALSE
INVARIANT TypeOK
INVARIANT NoConnectOnConnected
INVARIANT FramesIntact
PROPERTY CloseCompletesIfConnected
