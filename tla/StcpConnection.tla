--------------------------- MODULE StcpConnection ---------------------------
(***************************************************************************)
(* One active STCP connection inside the mysocket layer: the context of    *)
(* mysock_impl.h with its three packet queues and its flags, the          *)
(* application threads calling myconnect/myread/mywrite/myclose            *)
(* (mysock_api.c), the transport thread (transport_thread_func in          *)
(* mysock.c running the transport layer through the stcp_api.c services)   *)
(* and the network receive thread (network_io_socket.c).                   *)
(*                                                                         *)
(* Every step below is one critical section of the code: a step that holds *)
(* data_ready_lock (enqueue, dequeue, wait_for_event, the close flag) or   *)
(* blocking_lock (unblock, wait_for_connection) is atomic, and a thread    *)
(* blocked on a condition variable is a thread whose next step is not yet  *)
(* enabled.  The transport layer itself (transport.c, the student's state *)
(* machine) is not part of the repository; it is the environment, and it   *)
(* only does what the contract in stcp_api.h lets it do.                   *)
(***************************************************************************)
EXTENDS Naturals, Sequences, SequencesExt, FiniteSets

CONSTANTS
    Threads,      \* application threads using the socket
    PeerData,     \* payloads the peer sends, in order, before its FIN
    WriteLens,    \* lengths passed to mywrite()
    ReadLens,     \* lengths passed to myread()
    AppRecvLens,  \* max_len the transport passes to stcp_app_recv()
    MaxWritten,   \* bound on the bytes the application writes
    FlagChoices   \* flag sets the transport passes to stcp_wait_for_event()

Events == {"APP_DATA", "NETWORK_DATA", "APP_CLOSE_REQUESTED"}

ASSUME
    /\ PeerData \in Seq(Seq(Nat \ {0}))
    /\ WriteLens \subseteq Nat /\ ReadLens \subseteq Nat
    /\ AppRecvLens \subseteq Nat \ {0}
    /\ MaxWritten \in Nat
    /\ FlagChoices \subseteq (SUBSET Events) \ {{}}

\* Bytes are numbered: the peer's from 1 up, the application's from 1001 up.
PeerBytes == FlattenSeq(PeerData)
WriteBase == 1000
Byte == ToSet(PeerBytes) \cup (WriteBase + 1 .. WriteBase + MaxWritten)

\* The peer's i-th segment; after its data the peer sends a FIN.
PeerSeg(i) ==
    IF i <= Len(PeerData) THEN [fin |-> FALSE, data |-> PeerData[i]]
                          ELSE [fin |-> TRUE,  data |-> <<>>]

AppPcs == {"idle", "connecting", "open", "reading", "readCopy", "readDone",
           "closeJoinT", "closeStopRecv", "closeJoinRecv", "closed"}
TPcs   == {"notStarted", "handshake", "loop", "handle", "exitUnblock",
           "exitEof", "done"}
RPcs   == {"notStarted", "poll", "recv", "done"}
ClosingPcs == {"closeJoinT", "closeStopRecv", "closeJoinRecv", "closed"}

VARIABLES
    freed,           \* the context was released by _mysock_free_context
    peerSet,         \* network_state.peer_addr_len > 0
    blocking,        \* ctx->blocking
    stcpErrno,       \* ctx->stcp_errno: NOERR or the failure reported
    closeRequested,  \* ctx->close_requested
    eof,             \* ctx->eof
    appRecvQ,        \* ctx->app_recv_queue: buffers from mywrite()
    appSendQ,        \* ctx->app_send_queue: buffers for myread()
    netQ,            \* ctx->network_recv_queue: segments from the peer
    appPc,           \* where each application thread is
    readLen,         \* buf_len of the myread() in progress
    readRet,         \* what its _mysock_dequeue_buffer() returned
    tPc,             \* where the transport thread is
    tFlags,          \* flags of the last stcp_wait_for_event()
    tRc,             \* events that call returned and not yet handled
    closeSeen,       \* the transport has been told of the close
    rPc,             \* where the network receive thread is
    exitPipe,        \* a byte was written to the receive thread's exit pipe
    connected,       \* the carrier socket is connected (no more POLLHUP)
    peerNext,        \* index of the next segment the peer sends
    written,         \* history: bytes the application wrote
    sentToPeer,      \* history: bytes the transport took with stcp_app_recv
    upStream,        \* history: bytes the transport passed up (app_send)
    readBytes,       \* history: bytes myread() returned
    finQueued        \* history: an empty (EOF) buffer was put on appSendQ

vars == <<freed, peerSet, blocking, stcpErrno, closeRequested, eof,
          appRecvQ, appSendQ, netQ, appPc, readLen, readRet,
          tPc, tFlags, tRc, closeSeen, rPc, exitPipe, connected, peerNext,
          written, sentToPeer, upStream, readBytes, finQueued>>

-----------------------------------------------------------------------------
(* Queue helpers: mysock.c                                                 *)

Min2(a, b) == IF a <= b THEN a ELSE b

\* _mysock_enqueue_buffer: a copy of the buffer is linked at the tail under
\* data_ready_lock and the waiters are woken.
EnqueueBuffer(q, buf) == Append(q, buf)

\* _mysock_free_queue: every node is released, the contents discarded.
FreeQueue(q) == <<>>

\* Fault-injected variant: a partial dequeue that loses the rest of the node.
DequeueBufferDropRest(q, maxLen, removePartial) ==
    LET node == Head(q) IN
    [q    |-> Tail(q),
     data |-> SubSeq(node, 1, Min2(maxLen, Len(node))),
     len  |-> Min2(maxLen, Len(node))]

\* _mysock_dequeue_buffer on a non-empty queue: the new queue, the bytes
\* copied into dst and the length returned.
DequeueBuffer(q, maxLen, removePartial) ==
    LET node == Head(q) IN
    IF Len(node) > maxLen /\ removePartial
    THEN [q    |-> <<SubSeq(node, maxLen + 1, Len(node))>> \o Tail(q),
          data |-> SubSeq(node, 1, maxLen),
          len  |-> maxLen]
    ELSE [q    |-> Tail(q),
          data |-> SubSeq(node, 1, Min2(maxLen, Len(node))),
          len  |-> Len(node)]

\* Fault-injected variant: the close is reported with data still queued.
WaitEventsCloseEarly(flags) ==
    { e \in {"APP_DATA"} : "APP_DATA" \in flags /\ appRecvQ # <<>> }
    \cup { e \in {"NETWORK_DATA"} : "NETWORK_DATA" \in flags /\ netQ # <<>> }
    \cup { e \in {"APP_CLOSE_REQUESTED"} : closeRequested }

\* The event bits stcp_wait_for_event() returns for the given flags.
WaitEvents(flags) ==
    { e \in {"APP_DATA"} : "APP_DATA" \in flags /\ appRecvQ # <<>> }
    \cup { e \in {"NETWORK_DATA"} : "NETWORK_DATA" \in flags /\ netQ # <<>> }
    \cup { e \in {"APP_CLOSE_REQUESTED"} :
              closeRequested /\ appRecvQ = <<>> }

-----------------------------------------------------------------------------
Init ==
    /\ freed = FALSE
    /\ peerSet = FALSE
    /\ blocking = TRUE
    /\ stcpErrno = "NOERR"
    /\ closeRequested = FALSE
    /\ eof = FALSE
    /\ appRecvQ = <<>>
    /\ appSendQ = <<>>
    /\ netQ = <<>>
    /\ appPc = [t \in Threads |-> "idle"]
    /\ readLen = [t \in Threads |-> 0]
    /\ readRet = [t \in Threads |-> 0]
    /\ tPc = "notStarted"
    /\ tFlags = {}
    /\ tRc = {}
    /\ closeSeen = FALSE
    /\ rPc = "notStarted"
    /\ exitPipe = FALSE
    /\ connected = FALSE
    /\ peerNext = 1
    /\ written = <<>>
    /\ sentToPeer = <<>>
    /\ upStream = <<>>
    /\ readBytes = <<>>
    /\ finQueued = FALSE

-----------------------------------------------------------------------------
(* Application threads: mysock_api.c                                       *)

\* myconnect() returned in some thread, so the socket is usable; the
\* application makes no new call once one of its threads called myclose().
Connected(t) ==
    /\ appPc[t] \in {"idle", "open"}
    /\ peerSet
    /\ \A u \in Threads : appPc[u] \notin {"connecting"} \cup ClosingPcs
    /\ ~freed

\* _mysock_transport_init: start the network receive thread, then the
\* transport thread, which enters transport_init() and its handshake.
TransportInit ==
    /\ rPc' = "poll"
    /\ tPc' = "handshake"

\* myconnect(): record the peer, bind, start the receive and transport
\* threads (_mysock_transport_init), then block in
\* _mysock_wait_for_connection.
myconnect(t) ==
    /\ appPc[t] = "idle"
    /\ ~freed
    /\ ~peerSet
    /\ peerSet' = TRUE
    /\ TransportInit
    /\ appPc' = [appPc EXCEPT ![t] = "connecting"]
    /\ UNCHANGED <<freed, blocking, stcpErrno, closeRequested, eof, appRecvQ,
                   appSendQ, netQ, readLen, readRet, tFlags, tRc, closeSeen,
                   exitPipe, connected, peerNext, written, sentToPeer, upStream,
                   readBytes, finQueued>>

\* _mysock_wait_for_connection wakes once blocking is cleared and returns
\* 0 or -1 with errno = stcp_errno.
ConnectReturn(t) ==
    /\ appPc[t] = "connecting"
    /\ ~blocking
    /\ appPc' = [appPc EXCEPT ![t] = "open"]
    /\ UNCHANGED <<freed, peerSet, blocking, stcpErrno, closeRequested, eof,
                   appRecvQ, appSendQ, netQ, readLen, readRet, tPc, tFlags,
                   tRc, closeSeen, rPc, exitPipe, connected, peerNext, written,
                   sentToPeer, upStream, readBytes, finQueued>>

\* mywrite(): the whole buffer goes on app_recv_queue, whatever its length.
mywrite(t, n) ==
    /\ Connected(t)
    /\ Len(written) + n <= MaxWritten
    /\ LET buf == [i \in 1..n |-> WriteBase + Len(written) + i] IN
       /\ appRecvQ' = EnqueueBuffer(appRecvQ, buf)
       /\ written' = written \o buf
    /\ appPc' = [appPc EXCEPT ![t] = "open"]
    /\ UNCHANGED <<freed, peerSet, blocking, stcpErrno, closeRequested, eof,
                   appSendQ, netQ, readLen, readRet, tPc, tFlags, tRc,
                   closeSeen, rPc, exitPipe, connected, peerNext, sentToPeer, upStream,
                   readBytes, finQueued>>

\* myread(): returns 0 at once when eof is set; otherwise it enters
\* _mysock_dequeue_buffer on app_send_queue.
myread(t, n) ==
    /\ Connected(t)
    /\ ~eof
    /\ appPc' = [appPc EXCEPT ![t] = "reading"]
    /\ readLen' = [readLen EXCEPT ![t] = n]
    /\ UNCHANGED <<freed, peerSet, blocking, stcpErrno, closeRequested, eof,
                   appRecvQ, appSendQ, netQ, readRet, tPc, tFlags, tRc,
                   closeSeen, rPc, exitPipe, connected, peerNext, written, sentToPeer,
                   upStream, readBytes, finQueued>>

\* _mysock_dequeue_buffer(remove_partial = TRUE) once app_send_queue is
\* non-empty, under data_ready_lock.  A head that fits is unlinked there and
\* copied from the now private node.  A head larger than buf_len stays
\* linked: the lock is released before it is copied and shifted.
ReadDequeue(t) ==
    /\ appPc[t] = "reading"
    /\ appSendQ # <<>>
    /\ \/ /\ Len(Head(appSendQ)) <= readLen[t]
          /\ LET r == DequeueBuffer(appSendQ, readLen[t], TRUE) IN
             /\ appSendQ' = r.q
             /\ readBytes' = readBytes \o r.data
             /\ readRet' = [readRet EXCEPT ![t] = r.len]
          /\ appPc' = [appPc EXCEPT ![t] = "readDone"]
       \/ /\ Len(Head(appSendQ)) > readLen[t]
          /\ appPc' = [appPc EXCEPT ![t] = "readCopy"]
          /\ UNCHANGED <<appSendQ, readBytes, readRet>>
    /\ UNCHANGED <<freed, peerSet, blocking, stcpErrno, closeRequested, eof,
                   appRecvQ, netQ, readLen, tPc, tFlags, tRc, closeSeen, rPc,
                   exitPipe, connected, peerNext, written, sentToPeer, upStream,
                   finQueued>>

\* The unlocked part of a partial dequeue: memcpy of buf_len bytes, the
\* slide of the rest to the front and data_len -= max_len.  Only readers
\* dequeue, so the node is still the head (the transport only appends);
\* a node freed under the copy (a second reader, myclose) is not modelled.
ReadPartialCopy(t) ==
    /\ appPc[t] = "readCopy"
    /\ appSendQ # <<>>
    /\ LET r == DequeueBuffer(appSendQ, readLen[t], TRUE) IN
       /\ appSendQ' = r.q
       /\ readBytes' = readBytes \o r.data
       /\ readRet' = [readRet EXCEPT ![t] = r.len]
    /\ appPc' = [appPc EXCEPT ![t] = "readDone"]
    /\ UNCHANGED <<freed, peerSet, blocking, stcpErrno, closeRequested, eof,
                   appRecvQ, netQ, readLen, tPc, tFlags, tRc, closeSeen, rPc,
                   exitPipe, connected, peerNext, written, sentToPeer, upStream,
                   finQueued>>

\* Back in myread(): a 0 return sets ctx->eof.  This writes the context.
ReadReturn(t) ==
    /\ appPc[t] = "readDone"
    /\ eof' = (eof \/ readRet[t] = 0)
    /\ appPc' = [appPc EXCEPT ![t] = "open"]
    /\ UNCHANGED <<freed, peerSet, blocking, stcpErrno, closeRequested,
                   appRecvQ, appSendQ, netQ, readLen, readRet, tPc, tFlags,
                   tRc, closeSeen, rPc, exitPipe, connected, peerNext, written,
                   sentToPeer, upStream, readBytes, finQueued>>

\* myclose(): set close_requested and broadcast data_ready_cond.
myclose(t) ==
    /\ Connected(t)
    /\ closeRequested' = TRUE
    /\ appPc' = [appPc EXCEPT ![t] = "closeJoinT"]
    /\ UNCHANGED <<freed, peerSet, blocking, stcpErrno, eof, appRecvQ,
                   appSendQ, netQ, readLen, readRet, tPc, tFlags, tRc,
                   closeSeen, rPc, exitPipe, connected, peerNext, written, sentToPeer,
                   upStream, readBytes, finQueued>>

\* pthread_join on the transport thread (when it was started).
CloseJoinTransport(t) ==
    /\ appPc[t] = "closeJoinT"
    /\ tPc \in {"notStarted", "done"}
    /\ appPc' = [appPc EXCEPT ![t] = "closeStopRecv"]
    /\ UNCHANGED <<freed, peerSet, blocking, stcpErrno, closeRequested, eof,
                   appRecvQ, appSendQ, netQ, readLen, readRet, tPc, tFlags,
                   tRc, closeSeen, rPc, exitPipe, connected, peerNext, written,
                   sentToPeer, upStream, readBytes, finQueued>>

\* Fault-injected variant: the exit byte is never written.
CloseStopRecvNoWake(t) ==
    /\ appPc[t] = "closeStopRecv"
    /\ appPc' = [appPc EXCEPT ![t] = "closeJoinRecv"]
    /\ UNCHANGED <<freed, peerSet, blocking, stcpErrno, closeRequested, eof,
                   appRecvQ, appSendQ, netQ, readLen, readRet, tPc, tFlags,
                   tRc, closeSeen, rPc, exitPipe, connected, peerNext, written,
                   sentToPeer, upStream, readBytes, finQueued>>

\* _network_stop_recv_thread: write a byte to the exit pipe ...
CloseStopRecv(t) ==
    /\ appPc[t] = "closeStopRecv"
    /\ exitPipe' = (rPc # "notStarted")
    /\ appPc' = [appPc EXCEPT ![t] = "closeJoinRecv"]
    /\ UNCHANGED <<freed, peerSet, blocking, stcpErrno, closeRequested, eof,
                   appRecvQ, appSendQ, netQ, readLen, readRet, tPc, tFlags,
                   tRc, closeSeen, rPc, connected, peerNext, written, sentToPeer,
                   upStream, readBytes, finQueued>>

\* ... join the receive thread, then _mysock_free_context: the queues are
\* discarded and the descriptor slot cleared.
CloseFree(t) ==
    /\ appPc[t] = "closeJoinRecv"
    /\ rPc \in {"notStarted", "done"}
    /\ freed' = TRUE
    /\ appRecvQ' = FreeQueue(appRecvQ)
    /\ appSendQ' = FreeQueue(appSendQ)
    /\ netQ' = FreeQueue(netQ)
    /\ appPc' = [appPc EXCEPT ![t] = "closed"]
    /\ UNCHANGED <<peerSet, blocking, stcpErrno, closeRequested, eof, readLen,
                   readRet, tPc, tFlags, tRc, closeSeen, rPc, exitPipe, connected,
                   peerNext, written, sentToPeer, upStream, readBytes,
                   finQueued>>

-----------------------------------------------------------------------------
(* Transport thread: transport_thread_func (mysock.c) around the transport *)
(* layer, which uses the services of stcp_api.c.                           *)

\* errno values; NOERR stands for 0.
Errnos == {"NOERR", "EINTR", "ETIMEDOUT", "ECONNREFUSED"}

\* Fault-injected variant: EINTR is stored as the connection's errno.
UnblockRawErrno(e) ==
    /\ blocking' = FALSE
    /\ stcpErrno' = e

\* stcp_unblock_application(): clear blocking, store errno (EINTR as 0).
\* The context is active, so no passive completion follows.
Unblock(e) ==
    /\ blocking' = FALSE
    /\ stcpErrno' = IF e = "EINTR" THEN "NOERR" ELSE e

\* The transport ends the handshake and calls stcp_unblock_application;
\* on failure it then returns from transport_init().
HandshakeUnblock(e) ==
    /\ tPc = "handshake"
    /\ Unblock(e)
    /\ tPc' = IF e \in {"NOERR", "EINTR"} THEN "loop" ELSE "exitUnblock"
    /\ UNCHANGED <<freed, peerSet, closeRequested, eof, appRecvQ, appSendQ,
                   netQ, appPc, readLen, readRet, tFlags, tRc, closeSeen, rPc,
                   exitPipe, connected, peerNext, written, sentToPeer, upStream,
                   readBytes, finQueued>>

\* The transport gives up on the handshake without unblocking anybody.
HandshakeGiveUp ==
    /\ tPc = "handshake"
    /\ tPc' = "exitUnblock"
    /\ UNCHANGED <<freed, peerSet, blocking, stcpErrno, closeRequested, eof,
                   appRecvQ, appSendQ, netQ, appPc, readLen, readRet, tFlags,
                   tRc, closeSeen, rPc, exitPipe, connected, peerNext, written,
                   sentToPeer, upStream, readBytes, finQueued>>

\* stcp_wait_for_event(flags) once some event is ready; a close request is
\* reported once and cleared.  (A timed wait that times out returns 0 and
\* changes nothing here.)
WaitForEvent(flags) ==
    /\ tPc = "loop"
    /\ LET rc == WaitEvents(flags) IN
       /\ rc # {}
       /\ tRc' = rc
       /\ closeRequested' = (closeRequested /\ "APP_CLOSE_REQUESTED" \notin rc)
    /\ tFlags' = flags
    /\ tPc' = "handle"
    /\ UNCHANGED <<freed, peerSet, blocking, stcpErrno, eof, appRecvQ,
                   appSendQ, netQ, appPc, readLen, readRet, closeSeen, rPc,
                   exitPipe, connected, peerNext, written, sentToPeer, upStream,
                   readBytes, finQueued>>

\* APP_DATA: stcp_app_recv(max_len), a partial dequeue of app_recv_queue;
\* the bytes go out through stcp_network_send.
HandleAppData(m) ==
    /\ tPc = "handle"
    /\ "APP_DATA" \in tRc
    /\ appRecvQ # <<>>
    /\ LET r == DequeueBuffer(appRecvQ, m, TRUE) IN
       /\ appRecvQ' = r.q
       /\ sentToPeer' = sentToPeer \o r.data
    /\ tRc' = tRc \ {"APP_DATA"}
    /\ UNCHANGED <<freed, peerSet, blocking, stcpErrno, closeRequested, eof,
                   appSendQ, netQ, appPc, readLen, readRet, tPc, tFlags,
                   closeSeen, rPc, exitPipe, connected, peerNext, written, upStream,
                   readBytes, finQueued>>

\* Fault-injected variant: a FIN is consumed without queueing the EOF buffer.
HandleNetDataNoEof ==
    /\ tPc = "handle"
    /\ "NETWORK_DATA" \in tRc
    /\ netQ # <<>>
    /\ LET seg == Head(netQ) IN
       /\ netQ' = Tail(netQ)
       /\ appSendQ' = IF Len(seg.data) > 0
                      THEN EnqueueBuffer(appSendQ, seg.data) ELSE appSendQ
       /\ upStream' = upStream \o seg.data
       /\ finQueued' = (finQueued \/ seg.fin)
    /\ tRc' = tRc \ {"NETWORK_DATA"}
    /\ UNCHANGED <<freed, peerSet, blocking, stcpErrno, closeRequested, eof,
                   appRecvQ, appPc, readLen, readRet, tPc, tFlags, closeSeen,
                   rPc, exitPipe, connected, peerNext, written, sentToPeer, readBytes>>

\* NETWORK_DATA: stcp_network_recv, a whole-segment dequeue; its payload is
\* passed up with stcp_app_send (which drops an empty one) or, for a FIN,
\* stcp_fin_received enqueues an empty buffer.
HandleNetData ==
    /\ tPc = "handle"
    /\ "NETWORK_DATA" \in tRc
    /\ netQ # <<>>
    /\ LET seg == Head(netQ) IN
       /\ netQ' = Tail(netQ)
       /\ IF seg.fin
          THEN /\ appSendQ' = EnqueueBuffer(appSendQ, <<>>)
               /\ finQueued' = TRUE
               /\ UNCHANGED upStream
          ELSE /\ appSendQ' = IF Len(seg.data) > 0
                              THEN EnqueueBuffer(appSendQ, seg.data) ELSE appSendQ
               /\ upStream' = upStream \o seg.data
               /\ UNCHANGED finQueued
    /\ tRc' = tRc \ {"NETWORK_DATA"}
    /\ UNCHANGED <<freed, peerSet, blocking, stcpErrno, closeRequested, eof,
                   appRecvQ, appPc, readLen, readRet, tPc, tFlags, closeSeen,
                   rPc, exitPipe, connected, peerNext, written, sentToPeer, readBytes>>

\* APP_CLOSE_REQUESTED: the transport starts its side of the close.
HandleClose ==
    /\ tPc = "handle"
    /\ "APP_CLOSE_REQUESTED" \in tRc
    /\ closeSeen' = TRUE
    /\ tRc' = tRc \ {"APP_CLOSE_REQUESTED"}
    /\ UNCHANGED <<freed, peerSet, blocking, stcpErrno, closeRequested, eof,
                   appRecvQ, appSendQ, netQ, appPc, readLen, readRet, tPc,
                   tFlags, rPc, exitPipe, connected, peerNext, written, sentToPeer,
                   upStream, readBytes, finQueued>>

HandleDone ==
    /\ tPc = "handle"
    /\ tRc = {}
    /\ tPc' = "loop"
    /\ UNCHANGED <<freed, peerSet, blocking, stcpErrno, closeRequested, eof,
                   appRecvQ, appSendQ, netQ, appPc, readLen, readRet, tFlags,
                   tRc, closeSeen, rPc, exitPipe, connected, peerNext, written,
                   sentToPeer, upStream, readBytes, finQueued>>

\* transport_init() returns once the application has closed its side.
TransportReturn ==
    /\ tPc = "loop"
    /\ closeSeen
    /\ tPc' = "exitUnblock"
    /\ UNCHANGED <<freed, peerSet, blocking, stcpErrno, closeRequested, eof,
                   appRecvQ, appSendQ, netQ, appPc, readLen, readRet, tFlags,
                   tRc, closeSeen, rPc, exitPipe, connected, peerNext, written,
                   sentToPeer, upStream, readBytes, finQueued>>

\* transport_thread_func after transport_init(): if nobody unblocked the
\* application, do it with ECONNREFUSED (errno was 0 or EINTR) ...
ExitUnblock ==
    /\ tPc = "exitUnblock"
    /\ IF blocking THEN Unblock("ECONNREFUSED")
                   ELSE UNCHANGED <<blocking, stcpErrno>>
    /\ tPc' = "exitEof"
    /\ UNCHANGED <<freed, peerSet, closeRequested, eof, appRecvQ, appSendQ,
                   netQ, appPc, readLen, readRet, tFlags, tRc, closeSeen, rPc,
                   exitPipe, connected, peerNext, written, sentToPeer, upStream,
                   readBytes, finQueued>>

\* ... then enqueue an empty buffer so a final myread() returns 0.
ExitEof ==
    /\ tPc = "exitEof"
    /\ appSendQ' = EnqueueBuffer(appSendQ, <<>>)
    /\ finQueued' = TRUE
    /\ tPc' = "done"
    /\ UNCHANGED <<freed, peerSet, blocking, stcpErrno, closeRequested, eof,
                   appRecvQ, netQ, appPc, readLen, readRet, tFlags, tRc,
                   closeSeen, rPc, exitPipe, connected, peerNext, written, sentToPeer,
                   upStream, readBytes>>

-----------------------------------------------------------------------------
(* Network receive thread: network_recv_thread_func                         *)

\* The peer sends only once the handshake has succeeded, its segments in
\* order and then a FIN; after a failed handshake it sends nothing.
PeerHasSegment ==
    /\ ~blocking /\ stcpErrno = "NOERR"
    /\ peerNext <= Len(PeerData) + 1

\* poll() returns with the exit pipe quiet and the socket readable: data
\* from the peer, or POLLHUP of the carrier socket before it is connected
\* (the receive thread starts before the transport's first send).  The
\* thread enters _network_recv_packet, which connects the socket
\* (_tcp_connect) and blocks in read() for the next segment.
RecvPoll ==
    /\ rPc = "poll"
    /\ ~exitPipe
    /\ ~connected \/ PeerHasSegment
    /\ rPc' = "recv"
    /\ connected' = TRUE
    /\ UNCHANGED <<freed, peerSet, blocking, stcpErrno, closeRequested, eof,
                   appRecvQ, appSendQ, netQ, appPc, readLen, readRet, tPc,
                   tFlags, tRc, closeSeen, exitPipe, peerNext, written,
                   sentToPeer, upStream, readBytes, finQueued>>

\* The read returns the peer's next segment, which is put on
\* network_recv_queue; the loop polls again.  The exit pipe is not read
\* here: a thread blocked in read() waits for the peer.
RecvSegment ==
    /\ rPc = "recv"
    /\ PeerHasSegment
    /\ netQ' = EnqueueBuffer(netQ, PeerSeg(peerNext))
    /\ peerNext' = peerNext + 1
    /\ rPc' = "poll"
    /\ UNCHANGED <<freed, peerSet, blocking, stcpErrno, closeRequested, eof,
                   appRecvQ, appSendQ, appPc, readLen, readRet, tPc, tFlags,
                   tRc, closeSeen, exitPipe, connected, written, sentToPeer,
                   upStream, readBytes, finQueued>>

\* poll() finds the exit pipe readable: the loop ends, even when the socket
\* is readable as well.
RecvExit ==
    /\ rPc = "poll"
    /\ exitPipe
    /\ rPc' = "done"
    /\ UNCHANGED <<freed, peerSet, blocking, stcpErrno, closeRequested, eof,
                   appRecvQ, appSendQ, netQ, appPc, readLen, readRet, tPc,
                   tFlags, tRc, closeSeen, exitPipe, connected, peerNext,
                   written, sentToPeer, upStream, readBytes, finQueued>>

\* After its FIN the peer may close its socket: poll() reports it, the read
\* returns 0 and the loop ends.
RecvPeerClosed ==
    /\ rPc = "poll"
    /\ ~exitPipe
    /\ connected
    /\ peerNext > Len(PeerData) + 1
    /\ rPc' = "done"
    /\ UNCHANGED <<freed, peerSet, blocking, stcpErrno, closeRequested, eof,
                   appRecvQ, appSendQ, netQ, appPc, readLen, readRet, tPc,
                   tFlags, tRc, closeSeen, exitPipe, connected, peerNext,
                   written, sentToPeer, upStream, readBytes, finQueued>>

-----------------------------------------------------------------------------
AppNext(t) ==
    \/ myconnect(t)
    \/ ConnectReturn(t)
    \/ \E n \in WriteLens : mywrite(t, n)
    \/ \E n \in ReadLens : myread(t, n)
    \/ ReadDequeue(t)
    \/ ReadPartialCopy(t)
    \/ ReadReturn(t)
    \/ myclose(t)
    \/ CloseJoinTransport(t)
    \/ CloseStopRecv(t)
    \/ CloseFree(t)

TransportNext ==
    \/ \E e \in Errnos \ {"ECONNREFUSED"} : HandshakeUnblock(e)
    \/ HandshakeGiveUp
    \/ \E f \in FlagChoices : WaitForEvent(f)
    \/ \E m \in AppRecvLens : HandleAppData(m)
    \/ HandleNetData
    \/ HandleClose
    \/ HandleDone
    \/ TransportReturn
    \/ ExitUnblock
    \/ ExitEof

RecvNext == RecvPoll \/ RecvSegment \/ RecvExit \/ RecvPeerClosed

\* Once the context is freed and every thread has finished, nothing moves.
Terminated ==
    /\ freed
    /\ tPc \in {"notStarted", "done"}
    /\ rPc \in {"notStarted", "done"}
    /\ UNCHANGED vars

Next ==
    \/ \E t \in Threads : AppNext(t)
    \/ TransportNext
    \/ RecvNext
    \/ Terminated

\* Every thread is an OS thread: none stops for ever while it can run.  The
\* peer keeps sending until its FIN; nothing makes it close its socket.  The application thread that closes
\* keeps going; whether it reads or writes is its own choice.
Fairness ==
    /\ \A t \in Threads : /\ WF_vars(ConnectReturn(t))
                          /\ WF_vars(ReadDequeue(t))
                          /\ WF_vars(ReadPartialCopy(t))
                          /\ WF_vars(ReadReturn(t))
                          /\ WF_vars(CloseJoinTransport(t))
                          /\ WF_vars(CloseStopRecv(t))
                          /\ WF_vars(CloseFree(t))
    /\ WF_vars(TransportNext)
    /\ WF_vars(RecvPoll)
    /\ WF_vars(RecvSegment)
    /\ WF_vars(RecvExit)

Spec == Init /\ [][Next]_vars /\ Fairness

-----------------------------------------------------------------------------
(* Properties                                                              *)

TypeOK ==
    /\ freed \in BOOLEAN /\ peerSet \in BOOLEAN /\ blocking \in BOOLEAN
    /\ stcpErrno \in Errnos \ {"EINTR"}
    /\ closeRequested \in BOOLEAN /\ eof \in BOOLEAN
    /\ appRecvQ \in Seq(Seq(Byte)) /\ appSendQ \in Seq(Seq(Byte))
    /\ netQ \in Seq([fin : BOOLEAN, data : Seq(Byte)])
    /\ appPc \in [Threads -> AppPcs]
    /\ readLen \in [Threads -> Nat] /\ readRet \in [Threads -> Nat]
    /\ tPc \in TPcs /\ tFlags \subseteq Events /\ tRc \subseteq Events
    /\ closeSeen \in BOOLEAN
    /\ rPc \in RPcs /\ exitPipe \in BOOLEAN /\ connected \in BOOLEAN
    /\ peerNext \in 1 .. Len(PeerData) + 2
    /\ written \in Seq(Byte) /\ sentToPeer \in Seq(Byte)
    /\ upStream \in Seq(Byte) /\ readBytes \in Seq(Byte)
    /\ finQueued \in BOOLEAN

\* The read side of the socket implements AppByteStream: across partial
\* dequeues of app_send_queue myread() returns exactly the bytes the
\* transport passed up, in order, and the eof flag is set only after all of
\* them were read and an empty buffer (FIN or transport exit) ended them.
Stream == INSTANCE AppByteStream
              WITH avail <- upStream, got <- readBytes, ended <- finQueued
StreamSpec == Stream!Spec

\* stcp_wait_for_event reports the close request only once app_recv_queue
\* is empty ("we don't pass the close event down to STCP until we've already
\* passed it all outstanding data from the app"): when the transport learns
\* of the close it has taken every byte the application wrote.
CloseAfterDrain == closeSeen => sentToPeer = written

\* myclose() after a successful handshake returns: the transport thread
\* learns of the close and returns, the receive thread, which may be
\* blocked in read() since a POLLHUP, gets the peer's segments and then
\* sees the exit byte, and the context is freed.  (After a failed
\* handshake the peer sends nothing and a thread blocked in read() stays
\* there; see README section 4.)
CloseCompletes ==
    \A t \in Threads :
        (appPc[t] = "closeJoinT" /\ ~blocking /\ stcpErrno = "NOERR")
            ~> appPc[t] = "closed"

\* A myread() blocked on app_send_queue returns: the peer's data or FIN is
\* carried up by the receive and transport threads.
ReaderReturns ==
    \A t \in Threads : appPc[t] = "reading" ~> appPc[t] = "readDone"

=============================================================================
