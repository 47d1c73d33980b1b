--------------------------- MODULE MCDebugSession ---------------------------
(* Instantiates DebugSession for TLC.                                      *)
EXTENDS DebugSession

\* The handshake Echo and three library calls: enough for a read, a DbgRun
\* and a WaitForHlt, or for a handshake of each of two processes.
MCMaxCmds == 4
\* Read counts of one and two bytes: a two-byte answer can be cut by a
\* timeout; 65537 is cast to a count of 1 by the USHORT conversion.
MCCounts == {1, 2, 65537}
\* The handshake answer: two bytes, so that it too can be cut or shifted.
MCHandshakeLen == 2
\* A device that always answers within the COMMTIMEOUTS.
MCNoTimeouts == 0
\* A device that is late once.
MCOneTimeout == 1
\* One debugger process only.
MCNoRestarts == 0
\* The debugger is killed once and started again.
MCOneRestart == 1
\* .prg files of 0 and 1 bytes (the count wraps), 2 (nothing to write) and 3.
MCAsmFileSizes == {0, 1, 2, 3}
=============================================================================
