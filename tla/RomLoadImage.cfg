CONSTANTS
    PrgBankSize <- MCPrgBankSize
    ChrBankSize <- MCChrBankSize
    BlockSize <- MCBlockSize
    Shortfalls <- MCShortFile
    MaxSendFailures <- MCMaxSendFailures
SPECIFICATION Spec
INVARIANT
    RomBytesFromImage
