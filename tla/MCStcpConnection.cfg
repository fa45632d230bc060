\* One application thread: stream integrity, close ordering and progress.
CONSTANTS
    Threads = {t1}
    PeerData <- MCPeerData
    WriteLens = {1, 2}
    ReadLens = {1, 2}
    AppRecvLens = {1, 2}
    MaxWritten = 3
    FlagChoices <- MCFlagChoices
SPECIFICATION Spec
\* After a failed handshake the receive thread may be blocked in read(),
\* where the exit byte does not reach it: myclose() then waits for good.
CHECK_DEADLOCK FALSE
INVARIANT TypeOK
INVARIANT CloseAfterDrain
PROPERTY StreamSpec
PROPERTY CloseCompletes
PROPERTY ReaderReturns
