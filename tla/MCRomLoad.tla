------------------------------- MODULE MCRomLoad -------------------------------
(* Model values for RomLoad: the code's own sizes.                         *)
EXTENDS RomLoad

MCPrgBankSize == 16384
MCChrBankSize == 8192
MCBlockSize == 1024

\* The file holds the whole image its header declares.
MCCompleteFile == {0}

\* The file holds the whole image, or lacks its last byte.
MCShortFile == {0, 1}

\* One SendData call of a load may fail.
MCMaxSendFailures == 1

=============================================================================
