CONSTANTS
    MaxCmds <- MCMaxCmds
    Counts <- MCCounts
    HandshakeLen <- MCHandshakeLen
    MaxRestarts <- MCOneRestart
    AsmFileSizes <- MCAsmFileSizes
    MaxTimeouts <- MCOneTimeout
SPECIFICATION Spec
PROPERTY
    WaitForHltReturns
