--------------------------- MODULE TcpChecksum ---------------------------
(***************************************************************************)
(* The STCP segment checksum and the two library calls that use it.       *)
(* stcp_network_send() assembles a segment, fills the header fields the   *)
(* transport does not own and stores _mysock_tcp_checksum() of it in       *)
(* th_sum; the segment travels to the peer's network_recv_queue.           *)
(* stcp_network_recv() dequeues one segment into the caller's buffer and  *)
(* asserts that the checksum verifies over the length it returns.          *)
(*                                                                         *)
(* Memory is modelled byte by byte: a uint16_t is loaded from and stored  *)
(* to memory in host (little-endian, x86) order, and the addresses, ports  *)
(* and pseudo-header length are in network order, as in the code.          *)
(***************************************************************************)
EXTENDS Naturals, Sequences, SequencesExt, Bitwise

CONSTANTS
    LocalAddr,   \* the sender's local address, 4 bytes in network order
    PeerAddr,    \* the sender's peer address, 4 bytes in network order
    LocalPort,   \* the sender's port, 2 bytes in network order
    PeerPort,    \* the peer's port, 2 bytes in network order
    Headers,     \* struct tcphdr images (20 bytes) the transport builds
    Payloads,    \* payload byte sequences passed as the second buffer
    RecvLens,    \* max_len values the receiving transport passes
    Junk,        \* byte values found in memory past what was copied to dst
    MaxQueue     \* bound on the receiver's network_recv_queue

Byte == 0..255
IPPROTO_TCP == 6
MAX_IP_PAYLOAD_LEN == 1500
TcpHdrLen == 20
\* offsetof(struct tcphdr, th_sum) >> 1: the th_sum word, bytes 17 and 18
ThSumWord == 8

\* A uint16_t read from memory at byte i on a little-endian host.
Load16(bs, i) == bs[i] + 256 * bs[i + 1]

\* The memory image of a uint16_t stored on a little-endian host.
Store16(v) == <<v % 256, v \div 256>>

\* The memory image of htons(v).
Htons(v) == <<v \div 256, v % 256>>

\* The packed pseudo header {src_addr, dst_addr, 0, IPPROTO_TCP, htons(len)}.
PseudoHeader(src, dst, len) ==
    src \o dst \o <<0, IPPROTO_TCP>> \o Htons(len)

\* The sum of the uint16_t words of bs with index (from 0) in ks.
SumWords(bs, ks) == SumFunctionOnSet([k \in ks |-> Load16(bs, 2 * k + 1)], ks)

\* Fault-injected variant: the len & 1 branch is missing.
TrailingByteIgnored(pkt, len) == 0

\* The odd trailing byte, placed at the low address of a zeroed uint16_t.
TrailingByte(pkt, len) == IF len % 2 = 1 THEN pkt[len] ELSE 0

\* Fault-injected variant: a single fold, losing the carry it produces.
FoldOnce(sum) == (sum \div 65536) + (sum % 65536)

\* The two folds of the 32-bit sum into 16 bits.
Fold(sum) ==
    LET s1 == (sum \div 65536) + (sum % 65536)
    IN  s1 + (s1 \div 65536)

\* _mysock_tcp_checksum(): the pseudo header words, every packet word but
\* th_sum, the trailing byte, folded and complemented to a uint16_t.
TcpChecksum(src, dst, pkt, len) ==
    LET sum == SumWords(PseudoHeader(src, dst, len), 0..5)
               + SumWords(pkt, (0..(len \div 2 - 1)) \ {ThSumWord})
               + TrailingByte(pkt, len)
    IN  65535 - (Fold(sum) % 65536)

\* The th_sum field as stored in the packet.
ThSum(pkt) == Load16(pkt, 17)

\* Fault-injected variant: the checksum is stored unsplit in one byte.
SetChecksumUnsplit(pkt) ==
    LET v == TcpChecksum(LocalAddr, PeerAddr, pkt, Len(pkt))
    IN  [i \in 1..Len(pkt) |-> CASE i = 17 -> v [] i = 18 -> 0
                                  [] OTHER  -> pkt[i]]

\* _mysock_set_checksum(): th_sum := checksum over (local, peer).
SetChecksum(pkt) ==
    LET v == TcpChecksum(LocalAddr, PeerAddr, pkt, Len(pkt))
    IN  [i \in 1..Len(pkt) |-> IF i \in 17..18 THEN Store16(v)[i - 16]
                                               ELSE pkt[i]]

\* _mysock_verify_checksum() at the receiver, whose peer is the sender:
\* the checksum over (peer, local) of its context equals th_sum.
VerifyChecksum(pkt, len) ==
    TcpChecksum(LocalAddr, PeerAddr, pkt, len) = ThSum(pkt)

\* stcp_network_send() header fill: th_sport, th_dport, th_sum and th_urp.
FillHeader(pkt) ==
    [i \in 1..Len(pkt) |->
        CASE i \in 1..2   -> LocalPort[i]
          [] i \in 3..4   -> PeerPort[i - 2]
          [] i \in 17..20 -> 0
          [] OTHER        -> pkt[i]]

VARIABLES
    queue,   \* the receiver's network_recv_queue: a sequence of segments
    dst,     \* the bytes the receiver's assertion reads, from dst onwards
    ret      \* what the last stcp_network_recv() returned (0: none yet)

vars == <<queue, dst, ret>>

Init ==
    /\ queue = <<>>
    /\ dst = <<>>
    /\ ret = 0

\* Fault-injected variant: _mysock_set_checksum() runs before the header
\* fields are filled in (lines 222-231 after line 233).
NetworkSendSumFirst(h, p) ==
    /\ Len(queue) < MaxQueue
    /\ Len(h \o p) <= MAX_IP_PAYLOAD_LEN
    /\ Len(h \o p) >= TcpHdrLen
    /\ queue' = Append(queue, FillHeader(SetChecksum(h \o p)))
    /\ UNCHANGED <<dst, ret>>

\* stcp_network_send(sd, h, sizeof h, p, len, NULL) over a reliable network:
\* the segment is appended to the peer's network_recv_queue.
NetworkSend(h, p) ==
    /\ Len(queue) < MaxQueue
    /\ Len(h \o p) <= MAX_IP_PAYLOAD_LEN
    /\ Len(h \o p) >= TcpHdrLen
    /\ queue' = Append(queue, SetChecksum(FillHeader(h \o p)))
    /\ UNCHANGED <<dst, ret>>

\* stcp_network_recv(sd, dst, max_len): _network_recv() dequeues the whole
\* head segment, copies MIN(max_len, data_len) bytes and returns data_len;
\* the bytes from dst + max_len on are whatever memory holds there.
NetworkRecv(maxLen, j) ==
    /\ queue # <<>>
    /\ LET seg  == Head(queue)
           copy == IF maxLen < Len(seg) THEN maxLen ELSE Len(seg)
       IN  /\ dst' = SubSeq(seg, 1, copy)
                     \o [i \in 1..(Len(seg) - copy) |-> j]
           /\ ret' = Len(seg)
    /\ queue' = Tail(queue)

Next ==
    \/ \E h \in Headers, p \in Payloads : NetworkSend(h, p)
    \/ \E m \in RecvLens, j \in Junk : NetworkRecv(m, j)

Spec == Init /\ [][Next]_vars

----------------------------------------------------------------------------
(* Reference definition: RFC 1071, big-endian words, end-around carry.    *)

RECURSIVE OnesSum(_)
OnesSum(ws) ==
    IF ws = <<>> THEN 0
    ELSE LET s == Head(ws) + OnesSum(Tail(ws))
         IN  IF s > 65535 THEN s - 65535 ELSE s

\* The big-endian words of a byte sequence padded with a zero byte.
BigEndianWords(bs) ==
    LET padded == IF Len(bs) % 2 = 1 THEN bs \o <<0>> ELSE bs
    IN  [k \in 1..(Len(padded) \div 2) |-> 256 * padded[2*k - 1] + padded[2*k]]

\* The checksum field in network byte order over the segment with th_sum 0.
RefChecksumBytes(src, dst0, pkt) ==
    LET zeroed == [i \in 1..Len(pkt) |-> IF i \in 17..18 THEN 0 ELSE pkt[i]]
        words  == BigEndianWords(PseudoHeader(src, dst0, Len(pkt)) \o zeroed)
    IN  Htons(65535 - OnesSum(words))

----------------------------------------------------------------------------
TypeOK ==
    /\ queue \in Seq(Seq(Byte))
    /\ Len(queue) <= MaxQueue
    /\ dst \in Seq(Byte)
    /\ ret \in Nat

\* Every segment stcp_network_send() puts on the wire carries, in th_sum,
\* the RFC 1071 checksum in network byte order: the little-endian word sum,
\* two folds and host-order store of _mysock_tcp_checksum() agree with the
\* big-endian end-around-carry definition.
ChecksumMatchesReference ==
    \A k \in 1..Len(queue) :
        SubSeq(queue[k], 17, 18)
            = RefChecksumBytes(LocalAddr, PeerAddr, queue[k])

\* The segment with bit b of byte i flipped.
FlipBit(pkt, i, b) == [pkt EXCEPT ![i] = @ ^^ (2 ^ b)]

\* Any one-bit corruption of a segment on the wire, in the header, the
\* checksum field, the payload or an odd trailing byte, fails
\* _mysock_verify_checksum() at the receiver.
SingleBitErrorsDetected ==
    \A k \in 1..Len(queue) :
        \A i \in 1..Len(queue[k]), b \in 0..7 :
            ~VerifyChecksum(FlipBit(queue[k], i, b), Len(queue[k]))

\* The assertion of stcp_network_recv(): the len bytes at dst it returned
\* verify against the checksum the sender stored.
RecvChecksumAsserted ==
    ret > 0 => VerifyChecksum(dst, ret)

=============================================================================
