\* Three descriptors, backlogs 0 and 1 (one or two connection_queue
\* entries), up to three mylisten calls per socket (so that a backlog can
\* grow, shrink and grow again), asserts compiled in.
CONSTANTS
    MaxConnections = 3
    Backlogs = {0, 1}
    MaxListens = 3
    NDEBUG = FALSE
    Null = Null
SPECIFICATION Spec
INVARIANTS
    TypeOK
    
