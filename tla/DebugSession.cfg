CONSTANTS
    MaxCmds <- MCMaxCmds
    Counts <- MCCounts
    HandshakeLen <- MCHandshakeLen
    MaxRestarts <- MCNoRestarts
    AsmFileSizes <- MCAsmFileSizes
    MaxTimeouts <- MCNoTimeouts
SPECIFICATION Spec
INVARIANTS
    TypeOK
    ResponseIntegrity
    HaltedWhenBelieved
PROPERTIES
    ImplementsCommandExecutor
