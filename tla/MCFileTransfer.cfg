\* Two clients of one server: transfers, stream alignment and progress.
CONSTANTS
    c1 = c1
    c2 = c2
    Clients = {c1, c2}
    NoFile = NoFile
    NoClient = NoClient
    Uninit = Uninit
    Files <- MCFiles
    FileArg <- MCFileArg
    Input <- MCInput
SPECIFICATION Spec
INVARIANT TypeOK
INVARIANT FileReceivedIntact
INVARIANT RequestsInSync
PROPERTY ServedToTheEnd
