---------------------------- MODULE MCTcpCarrier ----------------------------
(* Model-checking instance of TcpCarrier: the transport sends a 1-byte and *)
(* a 2-byte segment (the SYN first), the peer answers with 2 and 1 bytes,  *)
(* so that every read() and write() of a frame can be short.               *)
EXTENDS TcpCarrier

MCPkts     == <<1, 2>>
MCPeerPkts == <<2, 1>>
=============================================================================
