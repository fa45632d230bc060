\* The application closes the listener while a child is in its handshake:
\* the child's completion needs listen_lock for reading, the closer holds it
\* for writing and joins the child's thread.
CONSTANTS
    p1 = p1
    p2 = p2
    p3 = p3
    Peers <- MCPeers
    NoPeer = NoPeer
    Backlog = 0
    MaxConnections = 3
    CloseOnlyWhenIdle = FALSE
SPECIFICATION Spec
CHECK_DEADLOCK FALSE
PROPERTY ListenerCloseCompletes
