-------------------------- MODULE MCStcpConnection --------------------------
(* Model-checking instance of StcpConnection: the peer sends two segments  *)
(* (2 bytes, then 1) and a FIN; the application writes up to 3 bytes.      *)
EXTENDS StcpConnection

MCPeerData == << <<1, 2>>, <<3>> >>

\* A transport waits on every event, or (handshake, full window) on the
\* network alone.
MCFlagChoices == {{"APP_DATA", "NETWORK_DATA", "APP_CLOSE_REQUESTED"},
                  {"NETWORK_DATA"}}
=============================================================================
