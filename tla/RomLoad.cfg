CONSTANTS
    PrgBankSize <- MCPrgBankSize
    ChrBankSize <- MCChrBankSize
    BlockSize <- MCBlockSize
    Shortfalls <- MCShortFile
    MaxSendFailures <- MCMaxSendFailures
SPECIFICATION Spec
INVARIANTS
    TypeOK
    LoadSequence
    SendsCatalogueLayout
