\* Round trip of segments whose receive buffer holds a whole segment.
SPECIFICATION Spec
CONSTANTS
    LocalAddr <- MCLocalAddr
    PeerAddr <- MCPeerAddr
    LocalPort <- MCLocalPort
    PeerPort <- MCPeerPort
    Headers <- MCHeaders
    Payloads <- MCPayloads
    RecvLens = {24, 1500}
    Junk = {0, 255}
    MaxQueue = 2
INVARIANTS
    TypeOK
    ChecksumMatchesReference
    SingleBitErrorsDetected
    RecvChecksumAsserted
