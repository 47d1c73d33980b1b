CONSTANTS
    MaxCmds <- MCMaxCmds
    Counts <- MCCounts
    HandshakeLen <- MCHandshakeLen
    MaxRestarts <- MCNoRestarts
    AsmFileSizes <- MCAsmFileSizes
    MaxTimeouts <- MCOneTimeout
SPECIFICATION Spec
INVARIANT
    ResponseIntegrity
