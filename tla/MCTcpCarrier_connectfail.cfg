\* A refused connect() returns from _tcp_connect() with connect_lock held
\* (network_io_tcp.c:290); the threads that then block on it never end.
CONSTANTS
    Pkts <- MCPkts
    PeerPkts <- MCPeerPkts
    ConnectResults = {"ok", "ECONNREFUSED"}
    MaxRetries = 1
    NoOwner = NoOwner
SPECIFICATION Spec
CHECK_DEADLOCK FALSE
PROPERTY CloseCompletes
