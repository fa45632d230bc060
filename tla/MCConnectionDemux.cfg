\* A listener with backlog 1 (two slots) and two child descriptors, three
\* connecting peers: the backlog fills, SYNs are dropped for a full queue and
\* for want of a descriptor, handshakes complete or fail, and the listener is
\* closed while connections are pending.  The application closes the
\* listener only when no handshake is under way.
CONSTANTS
    p1 = p1
    p2 = p2
    p3 = p3
    Peers <- MCPeers
    NoPeer = NoPeer
    Backlog = 1
    MaxConnections = 3
    CloseOnlyWhenIdle = TRUE
SPECIFICATION Spec
\* A server blocked in myaccept() with no more clients to come stops.
CHECK_DEADLOCK FALSE
INVARIANTS
    TypeOK
    PendingChildren
    CompletedMatchesHandshakes
    AcceptInCompletionOrder
PROPERTIES
    AcceptReturns
    ListenerCloseCompletes
