\* A third peer connects while the one-slot backlog is full: the dropped SYN
\* leaves its accepted socket in new_socket and the next accept() finds it.
CONSTANTS
    p1 = p1
    p2 = p2
    p3 = p3
    Peers <- MCPeers
    NoPeer = NoPeer
    Backlog = 0
    MaxConnections = 3
    CloseOnlyWhenIdle = TRUE
SPECIFICATION Spec
CHECK_DEADLOCK FALSE
PROPERTY AcceptFindsNoPendingSocket
