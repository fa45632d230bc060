\* Two threads create mysockets at once; spec.md 3 requires that each
\* descriptor's slot points at its context.
SPECIFICATION Spec
CONSTANTS
    app1 = app1
    app2 = app2
    recv = recv
    c1 = c1
    c2 = c2
    c3 = c3
    c4 = c4
    Threads <- MCThreads
    Ctxs <- MCCtxs
    MAX_NUM_CONNECTIONS = 2
    NDEBUG = FALSE
    NULL = NULL
SYMMETRY Symmetry
INVARIANT
    DescriptorLive
