\* A listener with backlog 1 and two child descriptors, three connecting
\* peers: the receive thread's ++cur_len (read lock of listen_lock only)
\* against myaccept's --cur_len (under connection_lock).
CONSTANTS
    p1 = p1
    p2 = p2
    p3 = p3
    Peers <- MCPeers
    NoPeer = NoPeer
    Backlog = 1
    MaxConnections = 3
    CloseOnlyWhenIdle = TRUE
SPECIFICATION Spec
\* A server blocked in myaccept() with no more clients to come stops.
CHECK_DEADLOCK FALSE
INVARIANT
    PendingCount
