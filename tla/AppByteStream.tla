--------------------------- MODULE AppByteStream ---------------------------
(***************************************************************************)
(* What the socket layer promises an application reading a connection:    *)
(* myread() hands out, in order and without loss or duplication, the bytes *)
(* the transport layer passed up with stcp_app_send(), and reports end of  *)
(* file (a 0 return, then the eof flag) only once every such byte has been *)
(* read and the stream has been ended (peer FIN or transport exit).        *)
(***************************************************************************)
EXTENDS Naturals, Sequences, SequencesExt

CONSTANT Byte

VARIABLES
    avail,   \* bytes passed up by the transport so far
    got,     \* bytes returned by myread() so far
    ended,   \* the transport has ended the stream
    eof      \* the application has seen end of file

vars == <<avail, got, ended, eof>>

Init ==
    /\ avail = <<>>
    /\ got = <<>>
    /\ ended = FALSE
    /\ eof = FALSE

\* The transport passes more bytes up; never after ending the stream.
Supply ==
    /\ ~ended
    /\ IsStrictPrefix(avail, avail')
    /\ avail' \in Seq(Byte)
    /\ UNCHANGED <<got, ended, eof>>

End ==
    /\ ~ended
    /\ ended' = TRUE
    /\ UNCHANGED <<avail, got, eof>>

\* A read returns the next few bytes that are available.
Take ==
    /\ ~eof
    /\ \E k \in 1..(Len(avail) - Len(got)) :
          got' = SubSeq(avail, 1, Len(got) + k)
    /\ UNCHANGED <<avail, ended, eof>>

\* End of file only after every available byte was read and the end was sent.
SeeEof ==
    /\ ~eof
    /\ ended
    /\ got = avail
    /\ eof' = TRUE
    /\ UNCHANGED <<avail, got, ended>>

Next == Supply \/ End \/ Take \/ SeeEof

Spec == Init /\ [][Next]_vars

=============================================================================
