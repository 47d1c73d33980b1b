CONSTANTS
    PrgBankSize <- MCPrgBankSize
    ChrBankSize <- MCChrBankSize
    BlockSize <- MCBlockSize
    Shortfalls <- MCCompleteFile
    MaxSendFailures <- MCMaxSendFailures
SPECIFICATION Spec
INVARIANT
    NoRunAfterFailedSend
