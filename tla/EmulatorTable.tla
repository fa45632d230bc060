---------------------------- MODULE EmulatorTable ----------------------------
(***************************************************************************)
(* The unreliability emulator as spec.md section 4.3 describes it: each   *)
(* outbound segment draws a 5-bit value, and the value selects one row of  *)
(* the table; the carrier then delivers transmissions in order. The       *)
(* held-back slot holds at most one segment, and storing overwrites it.    *)
(* Whether sending the held segment empties the slot the table does not    *)
(* say, so both are allowed.                                               *)
(***************************************************************************)
EXTENDS Naturals, Sequences

CONSTANTS Seg, NoSeg

VARIABLES
    sent,   \* the segments the transport has sent
    wire,   \* the copies transmitted, in order
    held    \* the held-back slot: a segment or NoSeg

vars == <<sent, wire, held>>

Init ==
    /\ sent = {}
    /\ wire = <<>>
    /\ held = NoSeg

\* Value 0: drop; return success without transmitting.
Drop(s) == /\ UNCHANGED <<wire, held>>

\* Value 1: duplicate; transmit once here and again below.
Duplicate(s) == /\ wire' = wire \o <<s, s>>
                /\ UNCHANGED held

\* Value 2: hold; copy into the slot, return without transmitting.
Hold(s) == /\ held' = s
           /\ UNCHANGED wire

\* Value 3: transmit the held segment in place of this one; otherwise
\* duplicate.
SendHeld(s) ==
    \/ /\ held # NoSeg
       /\ wire' = Append(wire, held)
       /\ held' \in {held, NoSeg}
    \/ /\ held = NoSeg
       /\ Duplicate(s)

\* Values 4 to 31: transmit unchanged.
Transmit(s) == /\ wire' = Append(wire, s)
               /\ UNCHANGED held

Send(s) ==
    /\ sent' = sent \cup {s}
    /\ \/ Drop(s) \/ Duplicate(s) \/ Hold(s) \/ SendHeld(s) \/ Transmit(s)

\* The carrier hands the oldest transmitted copy to the peer; inbound
\* traffic passes through unchanged.
Receive == /\ wire # <<>>
           /\ wire' = Tail(wire)
           /\ UNCHANGED <<sent, held>>

Next == (\E s \in Seg : Send(s)) \/ Receive

Spec == Init /\ [][Next]_vars

=============================================================================
