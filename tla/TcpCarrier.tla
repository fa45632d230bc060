----------------------------- MODULE TcpCarrier -----------------------------
(***************************************************************************)
(* The TCP carrier of an active STCP socket (network_io_tcp.c): segments   *)
(* travel as frames, a 16-bit length in network order followed by the      *)
(* segment, over one real TCP connection that is set up lazily by          *)
(* _tcp_connect() under connect_lock.  Two threads of the same context     *)
(* race to set it up:                                                      *)
(*   - the transport thread, whose first stcp_network_send() (the SYN)     *)
(*     goes through _network_send_packet();                                *)
(*   - the network receive thread (network_io_socket.c), whose poll() on   *)
(*     the still unconnected stream socket reports POLLHUP at once, so it  *)
(*     enters _network_recv_packet() and, the context being active,        *)
(*     _tcp_connect() as well.                                             *)
(* The application (myclose) and the peer are the environment.  Bytes are  *)
(* modelled one by one, and read() and write() may move any number of     *)
(* them, as _tcp_io() allows.                                              *)
(***************************************************************************)
EXTENDS Naturals, Sequences, SequencesExt

CONSTANTS
    Pkts,            \* lengths of the segments the transport sends, in order
    PeerPkts,        \* lengths of the segments the peer sends back
    ConnectResults,  \* what connect() may return on an unconnected socket
    MaxRetries,      \* sends the transport retries after a failed one
    NoOwner          \* connect_lock is free

ASSUME
    /\ Pkts \in Seq(1..255) /\ Pkts # <<>>
    /\ PeerPkts \in Seq(1..255) /\ PeerPkts # <<>>
    /\ ConnectResults \subseteq {"ok", "ECONNREFUSED"} /\ "ok" \in ConnectResults
    /\ MaxRetries \in Nat

Threads == {"transport", "recv"}

\* The i-th segment of each side: its bytes all name it, so that a frame
\* read out of step is told apart from a good one.
OurPayload(i)  == [j \in 1..Pkts[i] |-> 10 + i]
PeerPayload(i) == [j \in 1..PeerPkts[i] |-> 20 + i]

\* htons() and ntohs() on the memory image of a uint16_t.
Htons(v)  == <<v \div 256, v % 256>>
Ntohs(bs) == 256 * bs[1] + bs[2]

\* What _network_send_packet() writes: htons(len), then the segment.
Frame(p) == Htons(Len(p)) \o p

\* The counts one read() or write() inside _tcp_io() may transfer.
IoChunk(need) == 1 .. need

TPcs == {"send", "connect", "connecting", "write", "failed", "done"}
RPcs == {"poll", "lock", "connect", "connecting", "readLen", "readData",
         "done"}
APcs == {"open", "joinT", "stopRecv", "joinRecv", "closed"}

\* Where each thread goes when _tcp_connect() returns 0 or -1.
Continue == [transport |-> "write", recv |-> "readLen"]

\* Fault-injected variant: each thread takes the other's error path.
FailedSwapped == [transport |-> "done", recv |-> "failed"]

Failed == [transport |-> "failed", recv |-> "done"]

VARIABLES
    lockOwner,    \* the thread holding tcp_io_ctx->connect_lock
    connected,    \* tcp_io_ctx->connected (set with the socket's connection)
    connectLog,   \* history: the result of every connect() call
    pc,           \* where the transport and receive threads are
    tNext,        \* index of the segment the transport is sending
    tOff,         \* bytes of its frame written so far
    tries,        \* sends the transport has retried
    rBuf,         \* bytes read so far by the current _tcp_io() read
    rLen,         \* packet_len of the frame being read
    netQ,         \* ctx->network_recv_queue: segments the thread enqueued
    aPc,          \* where the application's myclose() is
    closeReq,     \* ctx->close_requested
    exitPipe,     \* the exit pipe holds a byte
    up,           \* the TCP byte stream to the peer
    down,         \* the TCP byte stream from the peer, not yet read
    peerNext,     \* index of the next segment the peer sends
    downClosed    \* the peer closed its end of the TCP connection

vars == <<lockOwner, connected, connectLog, pc, tNext, tOff, tries, rBuf,
          rLen, netQ, aPc, closeReq, exitPipe, up, down, peerNext,
          downClosed>>
tVars == <<tNext, tOff, tries>>
rVars == <<rBuf, rLen, netQ>>
aVars == <<aPc, closeReq, exitPipe>>
peerVars == <<down, peerNext, downClosed>>

\* _network_init(): connected is FALSE and connect_lock is initialised;
\* myconnect() then starts the receive and transport threads.
Init ==
    /\ lockOwner = NoOwner
    /\ connected = FALSE
    /\ connectLog = <<>>
    /\ pc = [transport |-> "send", recv |-> "poll"]
    /\ tNext = 1 /\ tOff = 0 /\ tries = 0
    /\ rBuf = <<>> /\ rLen = 0 /\ netQ = <<>>
    /\ aPc = "open" /\ closeReq = FALSE /\ exitPipe = FALSE
    /\ up = <<>> /\ down = <<>> /\ peerNext = 1 /\ downClosed = FALSE

-----------------------------------------------------------------------------
(* _tcp_connect(), run by either thread                                   *)

\* Fault-injected variant: connect() is called whatever connected says.
TcpConnectCheckUnguarded(th) ==
    /\ pc[th] = "connect"
    /\ lockOwner = th
    /\ pc' = [pc EXCEPT ![th] = "connecting"]
    /\ UNCHANGED <<lockOwner, connected, connectLog, up>>
    /\ UNCHANGED <<tVars, rVars, aVars, peerVars>>

\* With connect_lock held: an already connected socket unlocks at once,
\* otherwise connect() is called.
TcpConnectCheck(th) ==
    /\ pc[th] = "connect"
    /\ lockOwner = th
    /\ \/ /\ connected
          /\ lockOwner' = NoOwner
          /\ pc' = [pc EXCEPT ![th] = Continue[th]]
       \/ /\ ~connected
          /\ pc' = [pc EXCEPT ![th] = "connecting"]
          /\ UNCHANGED lockOwner
    /\ UNCHANGED <<connected, connectLog, up>>
    /\ UNCHANGED <<tVars, rVars, aVars, peerVars>>

\* Fault-injected variant: a successful connect() leaves connect_lock held.
TcpConnectCallNoUnlock(th) ==
    /\ pc[th] = "connecting"
    /\ \E res \in IF connected THEN {"EISCONN"} ELSE ConnectResults :
          /\ connectLog' = Append(connectLog, res)
          /\ \/ /\ res = "ok"
                /\ connected' = TRUE
                /\ pc' = [pc EXCEPT ![th] = Continue[th]]
             \/ /\ res # "ok"
                /\ pc' = [pc EXCEPT ![th] = Failed[th]]
                /\ UNCHANGED connected
    /\ UNCHANGED <<lockOwner, up, tVars, rVars, aVars, peerVars>>

\* connect() returns.  On a connected socket it fails with EISCONN.  On
\* success connected is set and the lock released; on failure the function
\* returns -1 with connect_lock still held.
TcpConnectCall(th) ==
    /\ pc[th] = "connecting"
    /\ \E res \in IF connected THEN {"EISCONN"} ELSE ConnectResults :
          /\ connectLog' = Append(connectLog, res)
          /\ \/ /\ res = "ok"
                /\ connected' = TRUE
                /\ lockOwner' = NoOwner
                /\ pc' = [pc EXCEPT ![th] = Continue[th]]
             \/ /\ res # "ok"
                /\ pc' = [pc EXCEPT ![th] = Failed[th]]
                /\ UNCHANGED <<connected, lockOwner>>
    /\ UNCHANGED <<up, tVars, rVars, aVars, peerVars>>

-----------------------------------------------------------------------------
(* Transport thread: stcp_network_send() -> _network_send_packet()         *)

\* _network_send_packet() enters _tcp_connect(): pthread_mutex_lock blocks
\* while another thread, or this one, holds connect_lock.
TLock ==
    /\ pc["transport"] = "send"
    /\ tNext <= Len(Pkts)
    /\ lockOwner = NoOwner
    /\ lockOwner' = "transport"
    /\ pc' = [pc EXCEPT !["transport"] = "connect"]
    /\ UNCHANGED <<connected, connectLog, up, tVars, rVars, aVars, peerVars>>

\* One write() of _tcp_io(): first the two length bytes, then the segment,
\* in two calls that each loop until their count is written.
TWrite ==
    /\ pc["transport"] = "write"
    /\ LET f    == Frame(OurPayload(tNext))
           room == IF tOff < 2 THEN 2 - tOff ELSE Len(f) - tOff
       IN  \E k \in IoChunk(room) :
              /\ up' = up \o SubSeq(f, tOff + 1, tOff + k)
              /\ \/ /\ tOff + k = Len(f)
                    /\ tNext' = tNext + 1
                    /\ tOff' = 0
                    /\ pc' = [pc EXCEPT !["transport"] = "send"]
                 \/ /\ tOff + k < Len(f)
                    /\ tOff' = tOff + k
                    /\ UNCHANGED <<tNext, pc>>
    /\ UNCHANGED <<lockOwner, connected, connectLog, tries, rVars, aVars,
                   peerVars>>

\* stcp_network_send() returned -1: the transport retransmits the segment
\* or gives up, returns from transport_init() and the thread ends.
TFailed ==
    /\ pc["transport"] = "failed"
    /\ \/ /\ tries < MaxRetries
          /\ tries' = tries + 1
          /\ pc' = [pc EXCEPT !["transport"] = "send"]
       \/ /\ pc' = [pc EXCEPT !["transport"] = "done"]
          /\ UNCHANGED tries
    /\ UNCHANGED <<lockOwner, connected, connectLog, up, tNext, tOff, rVars,
                   aVars, peerVars>>

\* Everything sent and the close requested: transport_init() returns.
TReturn ==
    /\ pc["transport"] = "send"
    /\ tNext > Len(Pkts)
    /\ closeReq
    /\ pc' = [pc EXCEPT !["transport"] = "done"]
    /\ UNCHANGED <<lockOwner, connected, connectLog, up, tVars, rVars, aVars,
                   peerVars>>

-----------------------------------------------------------------------------
(* Network receive thread: network_recv_thread_func -> _network_recv_packet *)

Min2(a, b) == IF a <= b THEN a ELSE b

\* poll() finds the exit pipe readable: the loop ends (it wins over a
\* readable socket).
RPollExit ==
    /\ pc["recv"] = "poll"
    /\ exitPipe
    /\ pc' = [pc EXCEPT !["recv"] = "done"]
    /\ UNCHANGED <<lockOwner, connected, connectLog, up, tVars, rVars, aVars,
                   peerVars>>

\* poll() finds the socket readable: data, the peer's close, or POLLHUP on
\* a stream socket not yet connected.  _network_recv_packet() is called
\* and, the context being active, _tcp_connect() takes connect_lock.
RPollReady ==
    /\ pc["recv"] = "poll"
    /\ ~exitPipe
    /\ ~connected \/ down # <<>> \/ downClosed
    /\ pc' = [pc EXCEPT !["recv"] = "lock"]
    /\ UNCHANGED <<lockOwner, connected, connectLog, up, tVars, rVars, aVars,
                   peerVars>>

RLock ==
    /\ pc["recv"] = "lock"
    /\ lockOwner = NoOwner
    /\ lockOwner' = "recv"
    /\ pc' = [pc EXCEPT !["recv"] = "connect"]
    /\ UNCHANGED <<connected, connectLog, up, tVars, rVars, aVars, peerVars>>

\* The segment goes on network_recv_queue (_mysock_enqueue_buffer).
EnqueuePacket(buf) == netQ' = Append(netQ, buf)

\* One read() of the _tcp_io() that reads the two length bytes; once both
\* are in, packet_len = ntohs() of them.
RReadLen ==
    /\ pc["recv"] = "readLen"
    /\ \E k \in IoChunk(Min2(2 - Len(rBuf), Len(down))) :
          LET buf == rBuf \o SubSeq(down, 1, k) IN
          /\ down' = SubSeq(down, k + 1, Len(down))
          /\ \/ /\ Len(buf) = 2
                /\ rLen' = Ntohs(buf)
                /\ rBuf' = <<>>
                /\ pc' = [pc EXCEPT !["recv"] = "readData"]
             \/ /\ Len(buf) < 2
                /\ rBuf' = buf
                /\ UNCHANGED <<rLen, pc>>
    /\ UNCHANGED <<lockOwner, connected, connectLog, up, netQ, tVars, aVars,
                   peerNext, downClosed>>

\* Fault-injected variant: the segment is taken to be complete after the
\* first read() returns, whatever its count.
RReadDataOnce ==
    /\ pc["recv"] = "readData"
    /\ \E k \in IoChunk(Min2(rLen - Len(rBuf), Len(down))) :
          LET buf == rBuf \o SubSeq(down, 1, k) IN
          /\ down' = SubSeq(down, k + 1, Len(down))
          /\ EnqueuePacket(buf)
          /\ rBuf' = <<>>
          /\ pc' = [pc EXCEPT !["recv"] = "poll"]
    /\ UNCHANGED <<lockOwner, connected, connectLog, up, rLen, tVars, aVars,
                   peerNext, downClosed>>

\* One read() of the _tcp_io() that reads MIN(packet_len, max_len) bytes
\* (max_len, MAX_IP_PAYLOAD_LEN, bounds every segment a peer sends); the
\* whole segment is returned and enqueued, and the thread polls again.
RReadData ==
    /\ pc["recv"] = "readData"
    /\ \E k \in IoChunk(Min2(rLen - Len(rBuf), Len(down))) :
          LET buf == rBuf \o SubSeq(down, 1, k) IN
          /\ down' = SubSeq(down, k + 1, Len(down))
          /\ \/ /\ Len(buf) = rLen
                /\ EnqueuePacket(buf)
                /\ rBuf' = <<>>
                /\ pc' = [pc EXCEPT !["recv"] = "poll"]
             \/ /\ Len(buf) < rLen
                /\ rBuf' = buf
                /\ UNCHANGED <<netQ, pc>>
    /\ UNCHANGED <<lockOwner, connected, connectLog, up, rLen, tVars, aVars,
                   peerNext, downClosed>>

\* read() returns 0 at the peer's close: _network_recv_packet() returns it
\* and the loop ends.
RReadEof ==
    /\ pc["recv"] \in {"readLen", "readData"}
    /\ down = <<>>
    /\ downClosed
    /\ pc' = [pc EXCEPT !["recv"] = "done"]
    /\ UNCHANGED <<lockOwner, connected, connectLog, up, tVars, rVars, aVars,
                   peerVars>>

-----------------------------------------------------------------------------
(* The application's myclose() and the peer                                *)

\* myconnect() has returned (the SYN went out, or the transport gave up):
\* myclose() sets close_requested ...
AppClose ==
    /\ aPc = "open"
    /\ tNext > 1 \/ pc["transport"] = "done"
    /\ closeReq' = TRUE
    /\ aPc' = "joinT"
    /\ UNCHANGED <<lockOwner, connected, connectLog, pc, up, exitPipe, tVars,
                   rVars, peerVars>>

\* ... joins the transport thread ...
AppJoinTransport ==
    /\ aPc = "joinT"
    /\ pc["transport"] = "done"
    /\ aPc' = "stopRecv"
    /\ UNCHANGED <<lockOwner, connected, connectLog, pc, up, closeReq,
                   exitPipe, tVars, rVars, peerVars>>

\* ... _network_stop_recv_thread() writes the exit pipe ...
AppStopRecv ==
    /\ aPc = "stopRecv"
    /\ exitPipe' = TRUE
    /\ aPc' = "joinRecv"
    /\ UNCHANGED <<lockOwner, connected, connectLog, pc, up, closeReq, tVars,
                   rVars, peerVars>>

\* ... and joins the receive thread; the context is then freed.
AppFree ==
    /\ aPc = "joinRecv"
    /\ pc["recv"] = "done"
    /\ aPc' = "closed"
    /\ UNCHANGED <<lockOwner, connected, connectLog, pc, up, closeReq,
                   exitPipe, tVars, rVars, peerVars>>

\* The peer, once its accept() has read our SYN, sends its segments.
PeerSend ==
    /\ connected
    /\ Len(up) >= Len(Frame(OurPayload(1)))
    /\ peerNext <= Len(PeerPkts)
    /\ down' = down \o Frame(PeerPayload(peerNext))
    /\ peerNext' = peerNext + 1
    /\ UNCHANGED <<lockOwner, connected, connectLog, pc, up, downClosed,
                   tVars, rVars, aVars>>

\* The peer closes its TCP socket.
PeerClose ==
    /\ peerNext > Len(PeerPkts)
    /\ ~downClosed
    /\ downClosed' = TRUE
    /\ UNCHANGED <<lockOwner, connected, connectLog, pc, up, down, peerNext,
                   tVars, rVars, aVars>>

-----------------------------------------------------------------------------
TransportNext ==
    TLock \/ TcpConnectCheck("transport") \/ TcpConnectCall("transport")
    \/ TWrite \/ TFailed \/ TReturn

RecvNext ==
    RPollExit \/ RPollReady \/ RLock \/ TcpConnectCheck("recv")
    \/ TcpConnectCall("recv") \/ RReadLen \/ RReadData \/ RReadEof

AppNext == AppClose \/ AppJoinTransport \/ AppStopRecv \/ AppFree

PeerNext == PeerSend \/ PeerClose

\* myclose() has returned.
Terminated ==
    /\ aPc = "closed"
    /\ UNCHANGED vars

Next == TransportNext \/ RecvNext \/ AppNext \/ PeerNext \/ Terminated

\* Both threads are OS threads and every step of theirs is taken once it
\* stays possible; myclose(), once called, runs on.  The peer is a live
\* STCP endpoint that answers our SYN; whether and when it closes is its
\* application's choice, and so is whether ours closes at all.
Fairness ==
    /\ WF_vars(TransportNext)
    /\ WF_vars(RecvNext)
    /\ WF_vars(AppJoinTransport) /\ WF_vars(AppStopRecv) /\ WF_vars(AppFree)
    /\ WF_vars(PeerSend)

Spec == Init /\ [][Next]_vars /\ Fairness

-----------------------------------------------------------------------------
(* Properties                                                              *)

PeerSegs == [i \in 1..Len(PeerPkts) |-> PeerPayload(i)]

TypeOK ==
    /\ lockOwner \in Threads \cup {NoOwner}
    /\ connected \in BOOLEAN
    /\ connectLog \in Seq({"ok", "ECONNREFUSED", "EISCONN"})
    /\ pc \in [Threads -> TPcs \cup RPcs]
    /\ pc["transport"] \in TPcs /\ pc["recv"] \in RPcs
    /\ tNext \in 1 .. Len(Pkts) + 1 /\ tOff \in Nat /\ tries \in 0..MaxRetries
    /\ rBuf \in Seq(Nat) /\ rLen \in Nat /\ netQ \in Seq(Seq(Nat))
    /\ aPc \in APcs /\ closeReq \in BOOLEAN /\ exitPipe \in BOOLEAN
    /\ up \in Seq(Nat) /\ down \in Seq(Nat)
    /\ peerNext \in 1 .. Len(PeerPkts) + 1 /\ downClosed \in BOOLEAN

\* The two threads racing into _tcp_connect() never call connect() on a
\* socket the other has already connected: the check of connected and the
\* connect() under connect_lock make the set-up happen once.
NoConnectOnConnected ==
    \A i \in 1 .. Len(connectLog) : connectLog[i] # "EISCONN"

\* Across short reads, the receive thread enqueues exactly the peer's
\* segments, whole and in order: the length prefix and the _tcp_io() loops
\* keep the frames of the byte stream apart.
FramesIntact == IsPrefix(netQ, PeerSegs)

\* When every connect() succeeds, myclose() returns: the transport thread
\* ends, the exit byte reaches the receive thread and it ends too.
CloseCompletesIfConnected ==
    [](\A i \in 1 .. Len(connectLog) : connectLog[i] = "ok")
        => (aPc = "joinT" ~> aPc = "closed")

\* myclose() returns (spec: myclose blocks until the connection is torn
\* down, then returns), whatever connect() answered.
CloseCompletes == aPc = "joinT" ~> aPc = "closed"

=============================================================================
