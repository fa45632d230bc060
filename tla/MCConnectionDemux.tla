------------------------- MODULE MCConnectionDemux -------------------------
(* Model-checking instance of ConnectionDemux: peer addresses are model    *)
(* values.                                                                 *)
EXTENDS ConnectionDemux, TLC

CONSTANTS p1, p2, p3

MCPeers == {p1, p2, p3}

=============================================================================
