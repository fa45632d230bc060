--------------------------- MODULE ConnectionDemux ---------------------------
(***************************************************************************)
(* A listening mysocket and the connections it accepts: the listen queue  *)
(* of connection_demux.c (pending request slots, completed queue, cur_len, *)
(* the listen table entry and its reader/writer lock), the listener's      *)
(* network receive thread with the TCP carrier's accept() hand-off of      *)
(* network_io_tcp.c (new_socket), the transport thread of every child      *)
(* context (transport_thread_func and stcp_unblock_application, which     *)
(* completes a passive open), and the application thread calling          *)
(* myaccept() and myclose() on the listener (mysock_api.c).                *)
(*                                                                         *)
(* The listener is descriptor 0, already bound and listening with the     *)
(* given backlog (mylisten), its receive thread running.  Each connection *)
(* attempt is a new TCP connection from a peer whose first segment is a    *)
(* SYN.  The children's transport layer is the environment: it completes  *)
(* or gives up on the handshake and, once the socket is closed, returns.   *)
(***************************************************************************)
EXTENDS Naturals, Sequences, SequencesExt, FiniteSets

CONSTANTS
    Peers,             \* addresses (IP and ephemeral port) of connecting peers
    Backlog,           \* backlog argument of mylisten()
    MaxConnections,    \* size of the descriptor table (MAX_NUM_CONNECTIONS)
    NoPeer,            \* a zeroed sockaddr (model value)
    CloseOnlyWhenIdle  \* the application closes the listener only when no
                       \* child is between SYN and the end of its handshake

ASSUME
    /\ Backlog \in Nat
    /\ MaxConnections \in Nat \ {0, 1}
    /\ NoPeer \notin Peers
    /\ CloseOnlyWhenIdle \in BOOLEAN

MaxLen   == Backlog + 1                  \* _mysock_set_backlog: backlog + 1
Slots    == 1 .. MaxLen
ListenSd == 0
ChildSds == 1 .. MaxConnections - 1
NoSd     == -1
NoConn   == NoPeer                        \* new_socket == -1

Request == [sd : ChildSds \cup {NoSd}, peer : Peers \cup {NoPeer}]
Invalid == [sd |-> NoSd, peer |-> NoPeer]  \* INVALIDATE_CONNECT_REQUEST

Owners   == {"backlog", "app", "orphan", "nobody"}
ChildPcs == {"none", "handshake", "completing", "established",
             "exitUnblock", "exitComplete", "done"}
LPcs     == {"idle", "acceptWait", "closeJoinRecv", "closeWrlock",
             "closeChild", "closeChildJoin", "closed", "acceptStore"}

VARIABLES
    live,         \* global_ctx[sd] # NULL, for the child descriptors
    childPc,      \* where each child's transport thread is
    blocking,     \* ctx->blocking of each child
    errnoOf,      \* ctx->stcp_errno of each child: "NOERR" or the error
    childPeer,    \* network_state.peer_addr of each child
    closeReq,     \* myclose() was called on the child
    owner,        \* who holds the child: "backlog" (pending), "app"
                  \* (accepted), "orphan" (accept failed) or "nobody" (free)
    slots,        \* q->connection_queue
    curLen,       \* q->cur_len
    completed,    \* q->completed_queue, as slot indices
    qExists,      \* the listen table has an entry for the listener
    writer,       \* listen_lock is held for writing
    newSocket,    \* the TCP carrier's new_socket of the listener
    lrPc,         \* the listener's receive thread
    lrPeer,       \* peer of the connection it accepted
    lrTmp,        \* the value of cur_len its ++cur_len loaded
    lrSlot,       \* the connection_queue entry it found (0: none)
    exitPipe,     \* exit byte written for the listener's receive thread
    lPc,          \* the application thread using the listener
    closeK,       \* slot _mysock_close_passive_socket is at
    lTmp,         \* the value of cur_len myaccept's --cur_len loaded
    arrived,      \* peers whose TCP connection the listener accepted
    completions,  \* history: children in the order they were completed
    accepts       \* history: children in the order myaccept took them

vars == <<live, childPc, blocking, errnoOf, childPeer, closeReq, owner,
          slots, curLen, completed, qExists, writer, newSocket, lrPc, lrPeer,
          lrTmp, lrSlot, exitPipe, lPc, closeK, lTmp, arrived, completions,
          accepts>>

childVars == <<live, childPc, blocking, errnoOf, childPeer, closeReq, owner>>
queueVars == <<slots, curLen, completed, qExists, writer>>

\* The listen table (mysock_hash.h) is keyed by the listener's descriptor,
\* and its size is MAX_NUM_CONNECTIONS > every descriptor: the listener's
\* bucket holds its entry alone.  HASH_LOOKUP_PTR walks that one-entry chain;
\* HASH_DELETE unlinks the entry.
HashLookupPtr == qExists
HashDelete == qExists' = FALSE
recvVars  == <<newSocket, lrPc, lrPeer, lrTmp, lrSlot, exitPipe, arrived>>
histVars  == <<completions, accepts>>

Init ==
    /\ live = [d \in ChildSds |-> FALSE]
    /\ childPc = [d \in ChildSds |-> "none"]
    /\ blocking = [d \in ChildSds |-> TRUE]
    /\ errnoOf = [d \in ChildSds |-> "NOERR"]
    /\ childPeer = [d \in ChildSds |-> NoPeer]
    /\ closeReq = [d \in ChildSds |-> FALSE]
    /\ owner = [d \in ChildSds |-> "nobody"]
    /\ slots = [k \in Slots |-> Invalid]
    /\ curLen = 0
    /\ completed = <<>>
    /\ qExists = TRUE
    /\ writer = FALSE
    /\ newSocket = NoConn
    /\ lrPc = "poll"
    /\ lrPeer = NoPeer
    /\ lrTmp = 0
    /\ lrSlot = 0
    /\ exitPipe = FALSE
    /\ lPc = "idle"
    /\ closeK = 1
    /\ lTmp = 0
    /\ arrived = {}
    /\ completions = <<>>
    /\ accepts = <<>>

-----------------------------------------------------------------------------
(* Listener receive thread: network_recv_thread_func with the TCP carrier *)
(* (_network_recv_packet) and _mysock_enqueue_connection.                  *)

FreeSds == {d \in ChildSds : ~live[d]}
FreeSlots == {k \in Slots : slots[k].sd = NoSd}
MinOf(S) == CHOOSE x \in S : \A y \in S : x <= y

\* _network_update_passive_state(): the child context d takes the accepted
\* socket (here: the peer it is connected to) and new_socket becomes -1.
UpdatePassiveState(d) ==
    /\ childPeer' = [childPeer EXCEPT ![d] = lrPeer]
    /\ newSocket' = NoConn

\* poll() finds the listening socket readable (no exit byte): accept() the
\* peer's TCP connection into new_socket, then read its first segment.
LAccept(p) ==
    /\ lrPc = "poll"
    /\ ~exitPipe
    /\ p \notin arrived
    /\ newSocket' = p
    /\ lrPeer' = p
    /\ arrived' = arrived \cup {p}
    /\ lrPc' = "read"
    /\ UNCHANGED <<childVars, queueVars, lrTmp, lrSlot, exitPipe, lPc, closeK,
                   lTmp, histVars>>

\* q->cur_len < q->max_len, with cur_len an unsigned int: a cur_len that
\* wrapped below 0 compares as the largest value.
CurLenBelowMax == curLen >= 0 /\ curLen < MaxLen

\* The SYN may be queued: the listen queue exists, it is not a
\* retransmission and cur_len < max_len.
MayQueue == HashLookupPtr /\ \A k \in Slots : slots[k].peer # lrPeer
            /\ CurLenBelowMax

\* Under the read lock of listen_lock only: the scan for the first free
\* connection_queue entry, then the load of ++q->cur_len.  connection_lock,
\* which myaccept holds around --q->cur_len, is not taken.
LEnqueueLoad ==
    /\ lrPc = "read"
    /\ ~writer
    /\ MayQueue
    /\ lrSlot' = IF FreeSlots = {} THEN 0 ELSE MinOf(FreeSlots)
    /\ lrTmp' = curLen
    /\ lrPc' = "inc"
    /\ UNCHANGED <<childVars, queueVars, newSocket, lrPeer, exitPipe, arrived,
                   lPc, closeK, lTmp, histVars>>

\* The store of ++q->cur_len.  Without a free entry assert(queue_entry)
\* fails; a build without asserts goes on and drops the SYN with cur_len
\* raised.
LEnqueueStore ==
    /\ lrPc = "inc"
    /\ curLen' = lrTmp + 1
    /\ lrPc' = IF lrSlot = 0 THEN "poll" ELSE "alloc"
    /\ UNCHANGED <<childVars, slots, completed, qExists, writer, newSocket,
                   lrPeer, lrTmp, lrSlot, exitPipe, arrived, lPc, closeK, lTmp,
                   histVars>>

\* A descriptor is free: a new child context takes the entry; the carrier
\* hands it the accepted socket (_network_update_passive_state) and its
\* threads start (_mysock_transport_init, passive).
LEnqueueNew ==
    /\ lrPc = "alloc"
    /\ FreeSds # {}
    /\ LET k == lrSlot
           d == MinOf(FreeSds)
       IN /\ slots' = [slots EXCEPT ![k] = [sd |-> d, peer |-> lrPeer]]
          /\ live' = [live EXCEPT ![d] = TRUE]
          /\ childPc' = [childPc EXCEPT ![d] = "handshake"]
          /\ blocking' = [blocking EXCEPT ![d] = TRUE]
          /\ errnoOf' = [errnoOf EXCEPT ![d] = "NOERR"]
          /\ UpdatePassiveState(d)
          /\ closeReq' = [closeReq EXCEPT ![d] = FALSE]
          /\ owner' = [owner EXCEPT ![d] = "backlog"]
    /\ lrPc' = "poll"
    /\ UNCHANGED <<curLen, completed, qExists, writer, lrPeer, lrTmp, lrSlot,
                   exitPipe, arrived, lPc, closeK, lTmp, histVars>>

\* No descriptor is free (EMFILE): the entry is invalidated and
\* --q->cur_len undoes the increment, again without connection_lock.
LEnqueueEmfile ==
    /\ lrPc = "alloc"
    /\ FreeSds = {}
    /\ curLen' = curLen - 1
    /\ lrPc' = "poll"
    /\ UNCHANGED <<childVars, slots, completed, qExists, writer, newSocket,
                   lrPeer, lrTmp, lrSlot, exitPipe, arrived, lPc, closeK, lTmp,
                   histVars>>

\* Otherwise the SYN is dropped: no listen queue, a retransmission or a
\* full backlog.  The accepted socket stays in new_socket.
LEnqueueDrop ==
    /\ lrPc = "read"
    /\ ~writer
    /\ ~MayQueue
    /\ lrPc' = "poll"
    /\ UNCHANGED <<childVars, queueVars, newSocket, lrPeer, lrTmp, lrSlot,
                   exitPipe, arrived, lPc, closeK, lTmp, histVars>>

\* The peer closes or resets before its first segment is read: the read
\* returns <= 0 and the receive thread leaves its loop.
LReadFail ==
    /\ lrPc = "read"
    /\ lrPc' = "done"
    /\ UNCHANGED <<childVars, queueVars, newSocket, lrPeer, exitPipe,
                   lrTmp, lrSlot, arrived, lPc, closeK, lTmp, histVars>>

\* The exit pipe is readable: the thread ends.
LExit ==
    /\ lrPc = "poll"
    /\ exitPipe
    /\ lrPc' = "done"
    /\ UNCHANGED <<childVars, queueVars, newSocket, lrPeer, exitPipe,
                   lrTmp, lrSlot, arrived, lPc, closeK, lTmp, histVars>>

-----------------------------------------------------------------------------
(* Child transport threads                                                 *)

\* Fault-injected variant: the completed connection goes to the head.
PassiveCompleteAtHead(d) ==
    /\ ~writer
    /\ IF HashLookupPtr
       THEN LET k == CHOOSE j \in Slots : slots[j].sd = d IN
            /\ completed' = <<k>> \o completed
            /\ completions' = Append(completions, d)
       ELSE UNCHANGED <<completed, completions>>

\* _mysock_passive_connection_complete under the read lock: append the
\* child's pending slot to the completed queue.
PassiveComplete(d) ==
    /\ ~writer
    /\ IF HashLookupPtr
       THEN LET k == CHOOSE j \in Slots : slots[j].sd = d IN
            /\ completed' = Append(completed, k)
            /\ completions' = Append(completions, d)
       ELSE UNCHANGED <<completed, completions>>

\* Fault-injected variant: the passive completion is skipped.
ChildHandshakeOkNoComplete(d) ==
    /\ childPc[d] = "handshake"
    /\ blocking' = [blocking EXCEPT ![d] = FALSE]
    /\ errnoOf' = [errnoOf EXCEPT ![d] = "NOERR"]
    /\ childPc' = [childPc EXCEPT ![d] = "established"]
    /\ UNCHANGED <<live, childPeer, closeReq, owner, queueVars, recvVars,
                   lPc, closeK, lTmp, histVars>>

\* The transport completes the handshake: stcp_unblock_application clears
\* blocking with errno 0 ...
ChildHandshakeOk(d) ==
    /\ childPc[d] = "handshake"
    /\ blocking' = [blocking EXCEPT ![d] = FALSE]
    /\ errnoOf' = [errnoOf EXCEPT ![d] = "NOERR"]
    /\ childPc' = [childPc EXCEPT ![d] = "completing"]
    /\ UNCHANGED <<live, childPeer, closeReq, owner, queueVars, recvVars,
                   lPc, closeK, lTmp, histVars>>

\* ... and, the context being passive, completes the passive open.
ChildComplete(d) ==
    /\ childPc[d] = "completing"
    /\ PassiveComplete(d)
    /\ childPc' = [childPc EXCEPT ![d] = "established"]
    /\ UNCHANGED <<live, blocking, errnoOf, childPeer, closeReq, owner, slots,
                   curLen, qExists, writer, recvVars, lPc, closeK, lTmp,
                   accepts>>

\* The transport gives up on the handshake and transport_init() returns.
ChildGiveUp(d) ==
    /\ childPc[d] = "handshake"
    /\ childPc' = [childPc EXCEPT ![d] = "exitUnblock"]
    /\ UNCHANGED <<live, blocking, errnoOf, childPeer, closeReq, owner,
                   queueVars, recvVars, lPc, closeK, lTmp, histVars>>

\* After myclose() on the child, the transport closes and returns.
ChildReturn(d) ==
    /\ childPc[d] = "established"
    /\ closeReq[d]
    /\ childPc' = [childPc EXCEPT ![d] = "exitUnblock"]
    /\ UNCHANGED <<live, blocking, errnoOf, childPeer, closeReq, owner,
                   queueVars, recvVars, lPc, closeK, lTmp, histVars>>

\* Fault-injected variant: the exit unblock does not complete the open.
ChildExitUnblockNoComplete(d) ==
    /\ childPc[d] = "exitUnblock"
    /\ blocking' = [blocking EXCEPT ![d] = FALSE]
    /\ errnoOf' = [errnoOf EXCEPT ![d] =
                      IF blocking[d] THEN "ECONNABORTED" ELSE @]
    /\ childPc' = [childPc EXCEPT ![d] = "done"]
    /\ UNCHANGED <<live, childPeer, closeReq, owner, queueVars, recvVars,
                   lPc, closeK, lTmp, histVars>>

\* transport_thread_func: still blocking, so unblock with ECONNABORTED,
\* which for a passive context completes the open as well; otherwise the
\* thread just ends (its EOF buffer is not modelled here).
ChildExitUnblock(d) ==
    /\ childPc[d] = "exitUnblock"
    /\ IF blocking[d]
       THEN /\ blocking' = [blocking EXCEPT ![d] = FALSE]
            /\ errnoOf' = [errnoOf EXCEPT ![d] = "ECONNABORTED"]
            /\ childPc' = [childPc EXCEPT ![d] = "exitComplete"]
       ELSE /\ childPc' = [childPc EXCEPT ![d] = "done"]
            /\ UNCHANGED <<blocking, errnoOf>>
    /\ UNCHANGED <<live, childPeer, closeReq, owner, queueVars, recvVars,
                   lPc, closeK, lTmp, histVars>>

ChildExitComplete(d) ==
    /\ childPc[d] = "exitComplete"
    /\ PassiveComplete(d)
    /\ childPc' = [childPc EXCEPT ![d] = "done"]
    /\ UNCHANGED <<live, blocking, errnoOf, childPeer, closeReq, owner, slots,
                   curLen, qExists, writer, recvVars, lPc, closeK, lTmp,
                   accepts>>

\* The child has passed through stcp_unblock_application() and so, being
\* passive, has put its slot on the completed queue (or is about to be).
HasCompleted(d) ==
    \/ childPc[d] \in {"established", "done"}
    \/ childPc[d] = "exitUnblock" /\ ~blocking[d]

-----------------------------------------------------------------------------
(* The application thread using the listener: myaccept() and myclose().   *)

\* myaccept -> _mysock_dequeue_connection: read lock, then wait on
\* connection_cond for a completed connection.
AcceptStart ==
    /\ lPc = "idle"
    /\ HashLookupPtr
    /\ ~writer
    /\ lPc' = "acceptWait"
    /\ UNCHANGED <<childVars, queueVars, recvVars, closeK, lTmp, histVars>>

\* Fault-injected variant: the taken entry is not invalidated.
AcceptTakeKeepSlot ==
    /\ lPc = "acceptWait"
    /\ completed # <<>>
    /\ LET d == slots[Head(completed)].sd
       IN /\ owner' = [owner EXCEPT ![d] =
                          IF errnoOf[d] = "NOERR" THEN "app" ELSE "orphan"]
          /\ accepts' = Append(accepts, d)
    /\ completed' = Tail(completed)
    /\ lTmp' = curLen
    /\ lPc' = "acceptStore"
    /\ UNCHANGED <<live, childPc, blocking, errnoOf, childPeer, closeReq,
                   slots, curLen, qExists, writer, recvVars, closeK, completions>>

\* The head of the completed queue is taken and its slot invalidated;
\* myaccept returns the child, or -1 when its stcp_errno is set, in which
\* case nothing holds the child any more.
AcceptTake ==
    /\ lPc = "acceptWait"
    /\ completed # <<>>
    /\ LET k == Head(completed)
           d == slots[k].sd
       IN /\ slots' = [slots EXCEPT ![k] = Invalid]
          /\ owner' = [owner EXCEPT ![d] =
                          IF errnoOf[d] = "NOERR" THEN "app" ELSE "orphan"]
          /\ accepts' = Append(accepts, d)
    /\ completed' = Tail(completed)
    /\ lTmp' = curLen
    /\ lPc' = "acceptStore"
    /\ UNCHANGED <<live, childPc, blocking, errnoOf, childPeer, closeReq,
                   curLen, qExists, writer, recvVars, closeK, completions>>

\* --q->cur_len stores the loaded value less one (assert(q->cur_len > 0)
\* is not checked in a build without asserts), then both locks are released.
AcceptStore ==
    /\ lPc = "acceptStore"
    /\ curLen' = lTmp - 1
    /\ lPc' = "idle"
    /\ UNCHANGED <<childVars, slots, completed, qExists, writer, recvVars,
                   closeK, lTmp, histVars>>

\* The application has no connection attempt in flight and no child still
\* in its handshake when it closes the listener.
Quiet ==
    /\ lrPc = "poll"
    /\ \A d \in ChildSds : owner[d] = "backlog" => HasCompleted(d)

\* myclose(listener): close_requested (no transport thread to wake), then
\* _network_stop_recv_thread writes the exit pipe ...
CloseStart ==
    /\ lPc = "idle"
    /\ CloseOnlyWhenIdle => Quiet
    /\ exitPipe' = TRUE
    /\ lPc' = "closeJoinRecv"
    /\ UNCHANGED <<childVars, queueVars, newSocket, lrPc, lrPeer, arrived,
                   lrTmp, lrSlot, closeK, lTmp, histVars>>

\* ... and joins the receive thread.
CloseJoinRecv ==
    /\ lPc = "closeJoinRecv"
    /\ lrPc = "done"
    /\ lPc' = "closeWrlock"
    /\ UNCHANGED <<childVars, queueVars, recvVars, closeK, lTmp, histVars>>

\* Fault-injected variant: the slot scan starts one before the first slot.
CloseWrlockFromZero ==
    /\ lPc = "closeWrlock"
    /\ ~writer
    /\ writer' = TRUE
    /\ closeK' = 0
    /\ lPc' = "closeChild"
    /\ UNCHANGED <<childVars, slots, curLen, completed, qExists, recvVars,
                   lTmp, histVars>>

\* _mysock_close_passive_socket takes listen_lock for writing.
CloseWrlock ==
    /\ lPc = "closeWrlock"
    /\ ~writer
    /\ writer' = TRUE
    /\ closeK' = 1
    /\ lPc' = "closeChild"
    /\ UNCHANGED <<childVars, slots, curLen, completed, qExists, recvVars,
                   lTmp, histVars>>

\* For each slot with sd != -1, myclose(sd) on the pending child: set its
\* close_requested and join its transport thread ...
CloseChildSkip ==
    /\ lPc = "closeChild"
    /\ closeK \in Slots
    /\ slots[closeK].sd = NoSd
    /\ closeK' = closeK + 1
    /\ UNCHANGED <<childVars, queueVars, recvVars, lPc, lTmp, histVars>>

\* Fault-injected variant: the child's close_requested is not set.
CloseChildRequestNoFlag ==
    /\ lPc = "closeChild"
    /\ closeK \in Slots
    /\ slots[closeK].sd # NoSd
    /\ lPc' = "closeChildJoin"
    /\ UNCHANGED <<childVars, queueVars, recvVars, closeK, lTmp, histVars>>


CloseChildRequest ==
    /\ lPc = "closeChild"
    /\ closeK \in Slots
    /\ slots[closeK].sd # NoSd
    /\ closeReq' = [closeReq EXCEPT ![slots[closeK].sd] = TRUE]
    /\ lPc' = "closeChildJoin"
    /\ UNCHANGED <<live, childPc, blocking, errnoOf, childPeer, owner,
                   queueVars, recvVars, closeK, lTmp, histVars>>

\* ... then stop its receive thread and free its context.
CloseChildJoin ==
    /\ lPc = "closeChildJoin"
    /\ LET d == slots[closeK].sd
       IN /\ childPc[d] = "done"
          /\ live' = [live EXCEPT ![d] = FALSE]
          /\ childPc' = [childPc EXCEPT ![d] = "none"]
          /\ owner' = [owner EXCEPT ![d] = "nobody"]
    /\ closeK' = closeK + 1
    /\ lPc' = "closeChild"
    /\ UNCHANGED <<blocking, errnoOf, childPeer, closeReq, queueVars,
                   recvVars, lTmp, histVars>>

\* Past the last slot: free both queues, remove the listen table entry,
\* unlock, and free the listener's context.
CloseFree ==
    /\ lPc = "closeChild"
    /\ closeK > MaxLen
    /\ slots' = [k \in Slots |-> Invalid]
    /\ curLen' = 0
    /\ completed' = <<>>
    /\ HashDelete
    /\ writer' = FALSE
    /\ lPc' = "closed"
    /\ UNCHANGED <<childVars, recvVars, closeK, lTmp, histVars>>

-----------------------------------------------------------------------------
(* Threads serving accepted children: myclose(child).                      *)

AppCloseChild(d) ==
    /\ owner[d] = "app"
    /\ ~closeReq[d]
    /\ closeReq' = [closeReq EXCEPT ![d] = TRUE]
    /\ UNCHANGED <<live, childPc, blocking, errnoOf, childPeer, owner,
                   queueVars, recvVars, lPc, closeK, lTmp, histVars>>

\* pthread_join on its transport thread returns; the context is freed.
AppFreeChild(d) ==
    /\ owner[d] = "app"
    /\ closeReq[d]
    /\ childPc[d] = "done"
    /\ live' = [live EXCEPT ![d] = FALSE]
    /\ childPc' = [childPc EXCEPT ![d] = "none"]
    /\ owner' = [owner EXCEPT ![d] = "nobody"]
    /\ UNCHANGED <<blocking, errnoOf, childPeer, closeReq, queueVars,
                   recvVars, lPc, closeK, lTmp, histVars>>

-----------------------------------------------------------------------------

ChildNext(d) ==
    \/ ChildHandshakeOk(d) \/ ChildGiveUp(d) \/ ChildComplete(d)
    \/ ChildReturn(d) \/ ChildExitUnblock(d) \/ ChildExitComplete(d)
    \/ AppCloseChild(d) \/ AppFreeChild(d)

RecvNext ==
    \/ \E p \in Peers : LAccept(p)
    \/ LEnqueueLoad \/ LEnqueueStore \/ LEnqueueNew \/ LEnqueueEmfile
    \/ LEnqueueDrop \/ LReadFail \/ LExit

ListenerNext ==
    \/ AcceptStart \/ AcceptTake \/ AcceptStore \/ CloseStart \/ CloseJoinRecv
    \/ CloseWrlock \/ CloseChildSkip \/ CloseChildRequest \/ CloseChildJoin
    \/ CloseFree

Next == RecvNext \/ ListenerNext \/ \E d \in ChildSds : ChildNext(d)

\* Every thread that is runnable keeps running.  The peer sends its SYN
\* once connected; a child's transport resolves its handshake (or times
\* out) and returns once closed.  Nothing forces a peer to connect, the
\* application to call myaccept()/myclose(), or a read to fail.
Fairness ==
    /\ WF_vars(LEnqueueLoad \/ LEnqueueDrop)
    /\ WF_vars(LEnqueueStore)
    /\ WF_vars(LEnqueueNew \/ LEnqueueEmfile)
    /\ WF_vars(LExit)
    /\ WF_vars(AcceptTake)
    /\ WF_vars(AcceptStore)
    /\ WF_vars(CloseJoinRecv \/ CloseWrlock \/ CloseChildSkip
               \/ CloseChildRequest \/ CloseChildJoin \/ CloseFree)
    /\ \A d \in ChildSds :
          /\ WF_vars(ChildHandshakeOk(d) \/ ChildGiveUp(d))
          /\ WF_vars(ChildComplete(d))
          /\ WF_vars(ChildReturn(d))
          /\ WF_vars(ChildExitUnblock(d))
          /\ WF_vars(ChildExitComplete(d))

Spec == Init /\ [][Next]_vars /\ Fairness

-----------------------------------------------------------------------------
(* Properties                                                              *)

TypeOK ==
    /\ live \in [ChildSds -> BOOLEAN]
    /\ childPc \in [ChildSds -> ChildPcs]
    /\ blocking \in [ChildSds -> BOOLEAN]
    /\ errnoOf \in [ChildSds -> {"NOERR", "ECONNABORTED"}]
    /\ childPeer \in [ChildSds -> Peers \cup {NoPeer}]
    /\ closeReq \in [ChildSds -> BOOLEAN]
    /\ owner \in [ChildSds -> Owners]
    /\ slots \in [Slots -> Request]
    /\ curLen \in -MaxLen .. MaxLen
    /\ completed \in Seq(Slots)
    /\ qExists \in BOOLEAN
    /\ writer \in BOOLEAN
    /\ newSocket \in Peers \cup {NoConn}
    /\ lrPc \in {"poll", "read", "inc", "alloc", "done"}
    /\ lrPeer \in Peers \cup {NoPeer}
    /\ lrTmp \in -MaxLen .. MaxLen
    /\ lrSlot \in {0} \cup Slots
    /\ lTmp \in -MaxLen .. MaxLen
    /\ exitPipe \in BOOLEAN
    /\ lPc \in LPcs
    /\ closeK \in 1 .. MaxLen + 1
    /\ arrived \subseteq Peers
    /\ completions \in Seq(ChildSds)
    /\ accepts \in Seq(ChildSds)

Pending == {k \in Slots : slots[k].sd # NoSd}

\* The pending children (_mysock_enqueue_connection, _mysock_dequeue_connection,
\* _mysock_close_passive_socket): outside the close, the children the backlog
\* holds are exactly those named by a valid connection_queue entry, each by
\* one entry, each live and connected to the peer its entry records.
PendingChildren ==
    ~writer =>
      /\ \A d \in ChildSds :
            owner[d] = "backlog" <=> \E k \in Pending : slots[k].sd = d
      /\ \A k, j \in Pending : slots[k].sd = slots[j].sd => k = j
      /\ \A k \in Pending : live[slots[k].sd]
                            /\ childPeer[slots[k].sd] = slots[k].peer

\* cur_len counts the valid connection_queue entries whenever neither the
\* receive thread nor myaccept is inside its ++/-- of it (spec: myaccept
\* "decrementing the pending count"; the SYN check cur_len < max_len relies
\* on it).  The enqueue changes cur_len under the read lock of listen_lock
\* only, myaccept under connection_lock: the two updates can interleave.
PendingCount ==
    (lrPc \in {"poll", "read", "done"} /\ lPc # "acceptStore" /\ ~writer)
        => curLen = Cardinality(Pending)

\* The completed queue (_mysock_passive_connection_complete, called from
\* stcp_unblock_application on success and on the transport's exit) holds
\* each pending slot once, exactly when its child has been unblocked, so
\* myaccept never returns a child still in its handshake, nor one twice.
CompletedMatchesHandshakes ==
    ~writer =>
      /\ IsInjective(completed)
      /\ ToSet(completed) \subseteq Pending
      /\ \A k \in Pending : k \in ToSet(completed) <=> HasCompleted(slots[k].sd)

\* myaccept hands out connections in the order their handshakes completed.
AcceptInCompletionOrder == IsPrefix(accepts, completions)

\* A myaccept() blocked while a connection is pending eventually returns:
\* every pending child's transport ends its handshake and completes it.
AcceptReturns == (lPc = "acceptWait" /\ Pending # {}) ~> (lPc = "idle")

\* myclose() on the listener returns: the receive thread exits and every
\* pending child's transport thread can be joined under the write lock.
ListenerCloseCompletes == (lPc = "closeJoinRecv") ~> (lPc = "closed")

\* network_io_tcp.c asserts that when the listener accepts a TCP connection
\* the previous one has been handed on to a child (new_socket == -1).
AcceptFindsNoPendingSocket ==
    [][lrPc = "poll" /\ lrPc' = "read" => newSocket = NoConn]_vars

=============================================================================
