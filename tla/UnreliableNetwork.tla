-------------------------- MODULE UnreliableNetwork --------------------------
(***************************************************************************)
(* _network_send() of network.c on a connection created unreliable: each  *)
(* segment stcp_network_send() hands it draws rand_r() & 0x1f and is      *)
(* dropped, duplicated, held in the one-segment copy_buffer, replaced by  *)
(* the held segment, or sent. The carrier delivers what is sent in order  *)
(* to the peer's receive pump.                                             *)
(*                                                                         *)
(* The transport layer is not in the repository. It is the environment:   *)
(* it sends and resends the unacknowledged segments in a window, and a    *)
(* segment counts as acknowledged once it and all before it have reached  *)
(* the peer. The draw is nondeterministic: the seed is fixed, but which   *)
(* draws meet which segments depends on the transport's timing.            *)
(***************************************************************************)
EXTENDS Naturals, Sequences

CONSTANTS
    NumSegs,   \* the segments the transport sends are 1..NumSegs
    Window,    \* how many unacknowledged segments the transport sends
    MaxWire,   \* bound on segments in flight
    NoSeg,     \* no segment (the table's empty held-back slot)
    EmptySeg   \* the zeroed copy_buffer: a segment of length 0

ASSUME NumSegs \in Nat /\ Window \in Nat \ {0} /\ MaxWire >= 2

Segs == 1..NumSegs

VARIABLES
    sent,        \* segments the transport has passed to stcp_network_send
    wire,        \* copies sent by _network_send_packet, in carrier order
    got,         \* segments the peer's receive pump has read
    copied,      \* network_context_t.copied
    copyBuffer   \* network_context_t.copy_buffer (with copy_buf_len)

vars == <<sent, wire, got, copied, copyBuffer>>

\* Fault-injected variant: the network context is not zeroed.
InitNoMemset ==
    /\ sent = {}
    /\ wire = <<>>
    /\ got = {}
    /\ copied = FALSE
    /\ copyBuffer = NoSeg

\* _network_init_socket() zeroes the network context.
Init ==
    /\ sent = {}
    /\ wire = <<>>
    /\ got = {}
    /\ copied = FALSE
    /\ copyBuffer = EmptySeg

\* The transport's cumulative acknowledgement: 1..Acked have all arrived.
Acked == CHOOSE k \in 0..NumSegs :
            /\ 1..k \subseteq got
            /\ k < NumSegs => k + 1 \notin got

\* The segments the transport sends or resends next.
Outstanding == {s \in Segs : Acked < s /\ s <= Acked + Window}

\* The transport calls stcp_network_send(s), which calls _network_send().
TransportSends(s) ==
    /\ s \in Outstanding
    /\ Len(wire) + 2 <= MaxWire
    /\ sent' = sent \cup {s}

\* case 0: drop the segment and report success.
NetworkDrop(s) ==
    /\ TransportSends(s)
    /\ UNCHANGED <<wire, got, copied, copyBuffer>>

\* case 1: send a copy, then leave the switch and send it again.
NetworkDuplicate(s) ==
    /\ TransportSends(s)
    /\ wire' = wire \o <<s, s>>
    /\ UNCHANGED <<got, copied, copyBuffer>>

\* Fault-injected variant: case 2 lacks its return and falls through to
\* the send after the switch.
NetworkHoldFallThrough(s) ==
    /\ TransportSends(s)
    /\ copyBuffer' = s
    /\ copied' = TRUE
    /\ wire' = Append(wire, s)
    /\ UNCHANGED got

\* case 2: keep the segment in copy_buffer and report success.
NetworkHold(s) ==
    /\ TransportSends(s)
    /\ copyBuffer' = s
    /\ copied' = TRUE
    /\ UNCHANGED <<wire, got>>

\* case 3: send the stored segment instead of this one; with none stored,
\* send this one (once). copied is never cleared.
NetworkSendHeld(s) ==
    /\ TransportSends(s)
    /\ \/ copied /\ wire' = Append(wire, copyBuffer)
       \/ ~copied /\ wire' = Append(wire, s)
    /\ UNCHANGED <<got, copied, copyBuffer>>

\* default, and a reliable connection: send what we were asked to send.
NetworkSendPacket(s) ==
    /\ TransportSends(s)
    /\ wire' = Append(wire, s)
    /\ UNCHANGED <<got, copied, copyBuffer>>

\* The peer's receive pump reads the next segment off the carrier and
\* enqueues it for its transport.
Receive ==
    /\ wire # <<>>
    /\ got' = got \cup {Head(wire)}
    /\ wire' = Tail(wire)
    /\ UNCHANGED <<sent, copied, copyBuffer>>

\* Every segment acknowledged and nothing in flight.
Done ==
    /\ Acked = NumSegs
    /\ wire = <<>>
    /\ UNCHANGED vars

Next ==
    \/ \E s \in Segs :
          \/ NetworkDrop(s) \/ NetworkDuplicate(s) \/ NetworkHold(s)
          \/ NetworkSendHeld(s) \/ NetworkSendPacket(s)
    \/ Receive
    \/ Done

Spec == Init /\ [][Next]_vars

----------------------------------------------------------------------------
Table == INSTANCE EmulatorTable
            WITH Seg <- Segs, held <- IF copied THEN copyBuffer ELSE NoSeg

TypeOK ==
    /\ sent \subseteq Segs
    /\ wire \in Seq(Segs \cup {EmptySeg})
    /\ Len(wire) <= MaxWire
    /\ got \subseteq Segs \cup {EmptySeg}
    /\ copied \in BOOLEAN
    /\ copyBuffer \in Segs \cup {EmptySeg}

\* Each call of _network_send() has the effect of one row of the table of
\* spec.md section 4.3 on what is transmitted and on the held-back slot:
\* a held segment is never also transmitted, only a held segment replaces
\* the current one, and the slot only ever holds a segment that was sent.
TableSpec == Table!Spec

=============================================================================
