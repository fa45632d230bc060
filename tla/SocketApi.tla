------------------------------ MODULE SocketApi ------------------------------
(***************************************************************************)
(* The socket API facade of mysock_api.c seen from one application thread *)
(* that calls mysocket, mybind, mylisten, myconnect, myaccept and myclose  *)
(* in any order on the descriptors it holds, and the listen queues through *)
(* which listeners create child contexts in the same descriptor table.     *)
(*                                                                         *)
(* Each call is one step, with every check, assert and state change of the *)
(* functions it calls.  The threads a call starts (receive thread,         *)
(* transport thread) are counted per context, not run: what they do is    *)
(* modelled in StcpConnection, ConnectionDemux and TcpCarrier.  The        *)
(* transport is the environment: a handshake ends, with or without an     *)
(* error, and after close_requested the transport thread returns, so the  *)
(* joins of myclose return.  A failed assert() aborts the process.         *)
(***************************************************************************)
EXTENDS Naturals, Sequences, FiniteSets, Functions

CONSTANTS
    MaxConnections,  \* MAX_NUM_CONNECTIONS, the size of global_ctx
    Backlogs,        \* backlog arguments the application passes to mylisten
    MaxListens,      \* bound on mylisten calls per context
    NDEBUG,          \* TRUE when the build compiles assert() out
    Null             \* an empty global_ctx entry (model value)

ASSUME
    /\ MaxConnections \in Nat \ {0}
    /\ Backlogs \subseteq Nat
    /\ MaxListens \in Nat \ {0}
    /\ NDEBUG \in BOOLEAN

Sds  == 0 .. MaxConnections - 1
NoSd == -1

\* The fields of mysock_context_t (mysock_impl.h) that decide what the API
\* calls do.  recvThreads counts the receive threads started on the context
\* and not joined; listens counts mylisten calls.
Context == [bound : BOOLEAN, listening : BOOLEAN, active : BOOLEAN,
            listenSd : Sds \cup {NoSd}, peer : BOOLEAN, transport : BOOLEAN,
            recvStarted : BOOLEAN, recvThreads : 0 .. MaxListens + 1,
            blocking : BOOLEAN, err : BOOLEAN, listens : 0 .. MaxListens]

\* _mysock_allocate_context: calloc, listen_sd = -1, blocking = TRUE.
NewContext == [bound |-> FALSE, listening |-> FALSE, active |-> FALSE,
               listenSd |-> NoSd, peer |-> FALSE, transport |-> FALSE,
               recvStarted |-> FALSE, recvThreads |-> 0, blocking |-> TRUE,
               err |-> FALSE, listens |-> 0]

\* A listen_table entry (listen_queue_t): max_len, cur_len, the sd of each
\* connection_queue entry (-1 when free), and the completed queue as the
\* indices of the entries it points at, in completion order.
MaxSlots == CHOOSE m \in {b + 1 : b \in Backlogs} : \A b \in Backlogs : b < m
Idx      == 1 .. MaxSlots
Queue    == [exists : BOOLEAN, maxLen : 0 .. MaxSlots, curLen : Nat,
             slots : [Idx -> Sds \cup {NoSd}], completed : Seq(Idx)]
NoQueue  == [exists |-> FALSE, maxLen |-> 0, curLen |-> 0,
             slots |-> [k \in Idx |-> NoSd], completed |-> <<>>]

VARIABLES
    ctx,       \* global_ctx
    queue,     \* listen_table, keyed by the listener's descriptor
    held,      \* descriptors mysocket/myaccept returned to the application
    orphans,   \* children whose failed handshake myaccept returned as -1
    leaked,    \* a context was freed with a thread nobody joined
    aborted    \* an assert() failed and the process aborted

vars == <<ctx, queue, held, orphans, leaked, aborted>>

Init ==
    /\ ctx = [sd \in Sds |-> Null]
    /\ queue = [sd \in Sds |-> NoQueue]
    /\ held = {}
    /\ orphans = {}
    /\ leaked = FALSE
    /\ aborted = FALSE

Live(sd) == ctx[sd] # Null
FreeSds  == {sd \in Sds : ~Live(sd)}
Lowest(S) == CHOOSE x \in S : \A y \in S : x <= y

\* assert(cond): with asserts compiled in, a false cond aborts the process.
Abort == /\ aborted' = TRUE
         /\ UNCHANGED <<ctx, queue, held, orphans, leaked>>

\* _network_start_recv_thread: a new receive thread; recv_thread names it.
StartRecvThread(c) == [c EXCEPT !.recvThreads = @ + 1, !.recvStarted = TRUE]

\* _mysock_transport_init: is_active, the receive thread, the transport
\* thread.  (Its assert(!listening) is checked by the callers' steps.)
TransportInit(c, isActive) ==
    [StartRecvThread(c) EXCEPT !.active = isActive, !.transport = TRUE]

\* _mysock_bind_ephemeral when the socket is not bound.
BindIfUnbound(c) == [c EXCEPT !.bound = TRUE]

\* stcp_unblock_application: blocking = FALSE and stcp_errno, which
\* _mysock_wait_for_connection returns to myconnect.
Unblock(c, e) == [c EXCEPT !.blocking = FALSE, !.err = e]

-----------------------------------------------------------------------------
(* Calls of the application thread                                         *)

\* mysocket -> _mysock_new_mysocket: the lowest free global_ctx entry takes
\* a new context; with none free, EMFILE and nothing changes.
MySocket ==
    /\ ~aborted
    /\ FreeSds # {}
    /\ LET sd == Lowest(FreeSds)
       IN /\ ctx' = [ctx EXCEPT ![sd] = NewContext]
          /\ held' = held \cup {sd}
    /\ UNCHANGED <<queue, orphans, leaked, aborted>>

\* mybind: assert(!ctx->listening), then bound = TRUE.  bind() of a bound
\* socket fails with EINVAL after bound is set, which changes nothing more.
MyBind(sd) ==
    /\ ~aborted
    /\ sd \in held
    /\ IF ctx[sd].listening /\ ~NDEBUG
       THEN Abort
       ELSE /\ ctx' = [ctx EXCEPT ![sd].bound = TRUE]
            /\ UNCHANGED <<queue, held, orphans, leaked, aborted>>

\* _mysock_set_backlog under the write lock: create the queue on the first
\* call, clear the entries from the old max_len up to the new one, and set
\* max_len = backlog + 1, also when that is below the entries in use.  (When
\* the array grows, realloc may move it under the completed queue's
\* pointers; entries are indices here, so that move is not modelled.)
SetBacklog(sd, b) ==
    LET q == queue[sd]
    IN queue' = [queue EXCEPT ![sd] =
                   [q EXCEPT !.exists = TRUE, !.maxLen = b + 1,
                      !.slots = [k \in Idx |-> IF q.maxLen < k /\ k <= b + 1
                                               THEN NoSd ELSE q.slots[k]]]]

\* mylisten: assert(ctx->bound) (EINVAL without asserts), listening = TRUE,
\* _mysock_set_backlog, listen() on the carrier socket, and a new receive
\* thread.  listen() fails on a socket whose connect() went through, which
\* after myconnect may or may not have happened; then mylisten returns -1
\* before the thread is started.
MyListen(sd, b) ==
    /\ ~aborted
    /\ sd \in held
    /\ ctx[sd].listens < MaxListens
    /\ IF ~ctx[sd].bound
       THEN IF NDEBUG THEN UNCHANGED vars ELSE Abort
       ELSE /\ SetBacklog(sd, b)
            /\ \E listenOk \in IF ctx[sd].peer THEN BOOLEAN ELSE {TRUE} :
                 LET c == [ctx[sd] EXCEPT !.listening = TRUE, !.listens = @ + 1]
                 IN ctx' = [ctx EXCEPT ![sd] =
                              IF listenOk THEN StartRecvThread(c) ELSE c]
            /\ UNCHANGED <<held, orphans, leaked, aborted>>

\* Fault-injected variant: the EISCONN check is missing.
MyConnectNoEisconn(sd) ==
    /\ ~aborted
    /\ sd \in held
    /\ IF ctx[sd].listening /\ ~NDEBUG
       THEN Abort
       ELSE /\ \E e \in BOOLEAN :
                 ctx' = [ctx EXCEPT ![sd] = Unblock(TransportInit(
                           BindIfUnbound([@ EXCEPT !.peer = TRUE]), TRUE), e)]
            /\ UNCHANGED <<queue, held, orphans, leaked, aborted>>

\* myconnect: EISCONN once a peer is set; else record the peer, bind an
\* ephemeral port if unbound, _mysock_transport_init (assert(!listening),
\* start the receive and transport threads), and block until the transport
\* unblocks the application, with or without an error.
MyConnect(sd) ==
    /\ ~aborted
    /\ sd \in held
    /\ ~ctx[sd].peer
    /\ IF ctx[sd].listening /\ ~NDEBUG
       THEN Abort
       ELSE /\ \E e \in BOOLEAN :
                 ctx' = [ctx EXCEPT ![sd] = Unblock(TransportInit(
                           BindIfUnbound([@ EXCEPT !.peer = TRUE]), TRUE), e)]
            /\ UNCHANGED <<queue, held, orphans, leaked, aborted>>

\* myaccept returns the child's descriptor, or -1 when its stcp_errno is
\* set, after which nothing holds the child.
ReturnChild(d) ==
    IF ctx[d].err
    THEN /\ orphans' = orphans \cup {d}
         /\ UNCHANGED held
    ELSE /\ held' = held \cup {d}
         /\ UNCHANGED orphans

MyAccept(sd) ==
    /\ ~aborted
    /\ sd \in held
    /\ ctx[sd].listening
    /\ queue[sd].completed # <<>>
    /\ LET k == Head(queue[sd].completed)
           d == queue[sd].slots[k]
       IN IF d = NoSd
          THEN Abort
          ELSE /\ queue' = [queue EXCEPT ![sd].completed = Tail(@),
                                         ![sd].slots[k] = NoSd,
                                         ![sd].curLen = @ - 1]
               /\ ReturnChild(d)
               /\ UNCHANGED <<ctx, leaked, aborted>>

\* _network_stop_recv_thread writes the exit byte and joins the one thread
\* recv_thread names: any other receive thread of the context is left running.
UnjoinedRecv(c) == IF c.recvStarted THEN c.recvThreads - 1 ELSE c.recvThreads

\* The children _mysock_close_passive_socket closes: the connection_queue
\* entries below max_len with sd != -1.
Kids(sd) == IF ctx[sd].listening /\ queue[sd].exists
            THEN {queue[sd].slots[k] : k \in {j \in 1 .. queue[sd].maxLen :
                                              queue[sd].slots[j] # NoSd}}
            ELSE {}

\* myclose: close_requested, the transport join (assert(!listening) when a
\* transport thread was started), _network_stop_recv_thread, and for a
\* listener _mysock_close_passive_socket, which closes every child still in
\* connection_queue (each has one receive and one transport thread, both
\* joined) and removes the listen table entry.  _mysock_free_context clears
\* the global_ctx entry.
MyClose(sd) ==
    /\ ~aborted
    /\ sd \in held
    /\ IF ctx[sd].transport /\ ctx[sd].listening /\ ~NDEBUG
       THEN Abort
       ELSE LET kids == Kids(sd)
            IN /\ leaked' = (leaked \/ UnjoinedRecv(ctx[sd]) > 0)
               /\ ctx' = [d \in Sds |-> IF d = sd \/ d \in kids THEN Null
                                        ELSE ctx[d]]
               /\ queue' = [queue EXCEPT ![sd] = NoQueue]
               /\ held' = held \ {sd}
               /\ UNCHANGED <<orphans, aborted>>

-----------------------------------------------------------------------------
(* The listener's receive thread and the children's transport threads      *)

\* A SYN from a new peer reaches a listener with a running receive thread:
\* _mysock_enqueue_connection queues it when cur_len < max_len and a
\* descriptor is free: the child takes the first free connection_queue
\* entry and the lowest free descriptor, records its
\* listener and peer, and _mysock_transport_init starts its threads.
\* Otherwise the SYN is dropped and nothing changes.
SynArrive(l) ==
    /\ ~aborted
    /\ Live(l) /\ ctx[l].listening /\ ctx[l].recvThreads > 0
    /\ queue[l].exists
    /\ queue[l].curLen < queue[l].maxLen
    /\ FreeSds # {}
    /\ LET d == Lowest(FreeSds)
           k == Lowest({j \in 1 .. queue[l].maxLen : queue[l].slots[j] = NoSd})
       IN /\ ctx' = [ctx EXCEPT ![d] = TransportInit(
                        [NewContext EXCEPT !.listenSd = l, !.peer = TRUE],
                        FALSE)]
          /\ queue' = [queue EXCEPT ![l].slots[k] = d, ![l].curLen = @ + 1]
    /\ UNCHANGED <<held, orphans, leaked, aborted>>

\* The child's transport ends its handshake: stcp_unblock_application
\* clears blocking, stores the error, and for a passive context appends it
\* to its listener's completed queue (_mysock_passive_connection_complete).
ChildUnblock(d) ==
    /\ ~aborted
    /\ Live(d) /\ ctx[d].listenSd # NoSd /\ ctx[d].blocking
    /\ \E e \in BOOLEAN :
         ctx' = [ctx EXCEPT ![d] = Unblock(@, e)]
    /\ LET l  == ctx[d].listenSd
           ks == {k \in 1 .. queue[l].maxLen : queue[l].slots[k] = d}
       IN IF ~queue[l].exists
          THEN UNCHANGED <<queue, aborted>>
          \* assert(connection_req) when the entry lies beyond max_len; a
          \* build without asserts queues a NULL request that myaccept
          \* dereferences.
          ELSE IF ks = {}
          THEN /\ aborted' = TRUE
               /\ UNCHANGED queue
          ELSE /\ queue' = [queue EXCEPT ![l].completed = Append(@, Lowest(ks))]
               /\ UNCHANGED aborted
    /\ UNCHANGED <<held, orphans, leaked>>

\* After an assert() failure the process is gone.
Halted == aborted /\ UNCHANGED vars

AppNext ==
    \/ MySocket
    \/ \E sd \in Sds : \/ MyBind(sd) \/ MyConnect(sd) \/ MyAccept(sd)
                       \/ MyClose(sd)
                       \/ \E b \in Backlogs : MyListen(sd, b)

EnvNext == \E sd \in Sds : SynArrive(sd) \/ ChildUnblock(sd)

Next == AppNext \/ EnvNext \/ Halted

Spec == Init /\ [][Next]_vars

-----------------------------------------------------------------------------
(* Properties                                                              *)

TypeOK ==
    /\ ctx \in [Sds -> Context \cup {Null}]
    /\ queue \in [Sds -> Queue]
    /\ held \subseteq Sds
    /\ orphans \subseteq Sds
    /\ leaked \in BOOLEAN
    /\ aborted \in BOOLEAN

ThreadsJoinedBeforeFree == ~leaked

\* Every live context is owned by exactly one of: the application, the
\* listen queue of a live listening context that recorded it as its child
\* (spec.md 3: a child's parent descriptor names a listening context until
\* it is accepted), or nobody after a failed myaccept.  A second mylisten
\* with a smaller backlog leaves children in entries past max_len, which
\* _mysock_close_passive_socket does not visit: the code breaks this
\* (README, section 4).
OwnershipConsistent ==
    \A d \in Sds :
       Live(d) <=>
         \/ d \in held /\ d \notin orphans
                       /\ \A l \in Sds : d \notin Range(queue[l].slots)
         \/ d \in orphans /\ d \notin held
         \/ d \notin held \cup orphans
              /\ \E l \in Sds : /\ d \in Range(queue[l].slots)
                                /\ ctx[d].listenSd = l
                                /\ Live(l) /\ ctx[l].listening

=============================================================================
