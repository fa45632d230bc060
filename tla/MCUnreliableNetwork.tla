------------------------- MODULE MCUnreliableNetwork -------------------------
EXTENDS UnreliableNetwork
=============================================================================
