--------------------------- MODULE MCTcpChecksum ---------------------------
(* Small instance: two header images, payloads of even and odd length,    *)
(* bytes chosen so that the word sum carries out of 16 bits more than once.*)
EXTENDS TcpChecksum

MCLocalAddr == <<192, 168, 1, 10>>
MCPeerAddr == <<192, 168, 1, 255>>
MCLocalPort == <<195, 80>>
MCPeerPort == <<0, 80>>

\* A SYN with options-free header and an ACK with every flag byte set.
MCHeaders ==
    { <<0, 0, 0, 0, 0, 0, 0, 1, 0, 0, 0, 0, 80, 2, 12, 0, 0, 0, 0, 0>>,
      <<0, 0, 0, 0, 255, 255, 255, 254, 255, 255, 255, 255, 80, 255, 255, 255,
        0, 0, 0, 0>> }

\* <<103, 234>> after the second header makes the word sum 0x9fff7, whose
\* first fold 0x9 + 0xfff7 carries out of 16 bits again.
MCPayloads == { <<>>, <<255>>, <<104, 105, 33>>, <<103, 234>>,
                <<255, 255, 255, 255>> }
============================================================================
