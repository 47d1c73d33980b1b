---------------------------- MODULE DebugSession ----------------------------
(***************************************************************************)
(* One debugging session over the serial link: a test script calling the   *)
(* nesdbg library (sw/src/scriptmgr.cpp), each call building a packet      *)
(* (sw/src/dbgpacket.cpp), writing it with SerialComm::SendData and        *)
(* reading the answer with SerialComm::ReceiveData (sw/src/serialcomm.cpp),*)
(* and the FPGA debug unit at the far end of the link.                     *)
(*                                                                         *)
(* The link is a byte stream with no framing: the host finds the end of    *)
(* an answer only by counting ReturnBytesExpected() bytes.  ReadFile       *)
(* returns early when the COMMTIMEOUTS of SerialComm::Init expire, and     *)
(* every caller ignores ReceiveData's result.  Bytes are tagged with the   *)
(* script call whose packet made the device send them (src), so a          *)
(* property can tell a byte of the caller's own answer from a late byte of *)
(* an earlier call or from uninitialised heap memory (src = NoCmd).  A     *)
(* byte's value is abstracted to zero / nonzero, all WaitForHlt looks at.  *)
(*                                                                         *)
(* A command in the port carries the packet object (DbgPacket) its        *)
(* caller constructs from op and n (NewPacket).  The device (FPGA RTL,     *)
(* not under src/) is modelled from spec.md: it takes packets in order,    *)
(* parses each one's bytes by the opcode catalogue and answers with the    *)
(* response length the catalogue lists.                                    *)
(***************************************************************************)
EXTENDS Naturals, Sequences

Pkt == INSTANCE DbgPacket

CONSTANTS
    MaxCmds,      \* library calls the script makes before it returns
    MaxTimeouts,  \* ReadFile calls that may time out (0: the device is never late)
    Counts,       \* byte counts a script passes to Echo, CpuMemRd, PpuMemRd, ...
    HandshakeLen, \* bytes of SerialComm::Init's echo: strlen("NES") + 1
    MaxRestarts,  \* times the debugger process is killed and started again
    AsmFileSizes  \* bytes ReadFile gets from a .prg file LuaLoadAsm opens (at most 0x10000)

ASSUME /\ MaxCmds \in Nat /\ MaxCmds > 0
       /\ MaxTimeouts \in Nat
       /\ Counts \subseteq Nat
       /\ HandshakeLen \in Nat \ {0}
       /\ MaxRestarts \in Nat
       /\ AsmFileSizes \subseteq 0..65536

VARIABLES
    hostPc,         \* "Start", "Idle", "Recv" (blocked in ReceiveData), "Done" or "Failed"
    call,           \* the library call in progress: [id, op]
    need,           \* bytesToReceive of the pending ReceiveData
    got,            \* bytes ReadFile has stored so far
    buf,            \* pReceivedData: the caller's receive buffer
    delivered,      \* the last answer handed back to the script
    believesHalted, \* the script has seen WaitForHlt return and sent no DbgRun since
    nextId,         \* id of the next library call
    timeouts,       \* ReadFile timeouts so far
    restarts,       \* debugger processes started after the first
    handshakes,     \* history: ids of the Echo packets SerialComm::Init has sent
    txq,            \* packets written to the port and not yet taken by the device
    devOut,         \* answer bytes the device has still to shift out
    rxq,            \* bytes on the wire or in the port's input buffer
    devHalted       \* the NES CPU is halted by the debug unit

hostVars == <<hostPc, call, need, got, buf, delivered, believesHalted, nextId, timeouts,
             restarts, handshakes>>
vars == <<hostVars, txq, devOut, rxq, devHalted>>

Ids == 1..MaxCmds
NoCmd == 0                                   \* src of a byte nobody wrote
Byte == [src : Ids \cup {NoCmd}, val : {0, 1}]

\* Library calls that build one packet (ScriptMgr::Init, nesDbgLib): the
\* packet classes whose constructor takes a USHORT numBytes, and those of
\* fixed size (dbgpacket.h).
CountOps == {"Echo", "CpuMemRd", "CpuMemWr", "PpuMemRd", "PpuMemWr"}
FixedOps == {"DbgHlt", "DbgRun", "CpuRegRd", "CpuRegWr"}
Calls == {[op |-> o, n |-> k] : o \in CountOps, k \in Counts}
           \cup {[op |-> o, n |-> 0] : o \in FixedOps}
Ops == CountOps \cup FixedOps \cup {"QueryHlt"}
\* The packets DbgPacket::CreateObjFromString builds from a typed line.
RawOps == {"Echo", "CpuMemRd", "CpuMemWr"}
\* The count LuaLoadAsm puts in its CpuMemWr: (USHORT)(fileDataActualSize - 2).
UshortRange == 65536
AsmCount(size) == (size + UshortRange - 2) % UshortRange

Packet == [id : Ids, op : Ops, n : 0..(UshortRange - 1), pkt : Pkt!Packets]

NoAnswer == [id |-> 0, bytes |-> <<>>, full |-> TRUE]

-----------------------------------------------------------------------------
(* Packet objects (dbgpacket.cpp).                                        *)

\* The packet object each caller constructs: new <op>Packet(...) in the
\* Lua* functions, RawDbgDlgProc (CreateObjFromString) and LoadRom.  The
\* address and the register selector decide no length and are fixed at 0.
NewPacket(op, n) ==
    CASE op = "Echo"       -> Pkt!EchoPacket(n)
      [] op = "CpuMemRd"   -> Pkt!CpuMemRdPacket(0, n)
      [] op = "CpuMemWr"   -> Pkt!CpuMemWrPacket(0, n)
      [] op = "DbgHlt"     -> Pkt!DbgHltPacket
      [] op = "DbgRun"     -> Pkt!DbgRunPacket
      [] op = "CpuRegRd"   -> Pkt!CpuRegRdPacket(0)
      [] op = "CpuRegWr"   -> Pkt!CpuRegWrPacket(0)
      [] op = "QueryHlt"   -> Pkt!QueryHltPacket
      [] op = "PpuMemRd"   -> Pkt!PpuMemRdPacket(0, n)
      [] op = "PpuMemWr"   -> Pkt!PpuMemWrPacket(0, n)

\* A command in the port: the caller's id, the operation and count it
\* means, and the packet object whose bytes SendData writes.
Cmd(id, op, n) == [id |-> id, op |-> op, n |-> n, pkt |-> NewPacket(op, n)]

\* bytesToReceive = packet.ReturnBytesExpected().
ReturnBytesExpected(op, n) == Pkt!ReturnBytesExpected(NewPacket(op, n))

\* new BYTE[k]: k bytes of uninitialised heap memory.
Uninitialised(k) == { [i \in 1..k |-> [src |-> NoCmd, val |-> g[i]]] : g \in [1..k -> {0, 1}] }

-----------------------------------------------------------------------------
(* The debug unit (spec.md section 3, opcode table).                       *)

\* What the device parses off the wire for a packet (spec.md section 3):
\* the catalogue name of its opcode byte, and the response length the
\* catalogue lists for it and its fields.
Parsed(p) ==
    LET w  == Pkt!Wire(p.pkt)
        nm == IF w.fields[1] \in DOMAIN Pkt!SpecCatalogue
              THEN Pkt!SpecName(w.fields[1]) ELSE "Unknown"
    IN  [name |-> nm, answer |-> IF nm = "Unknown" THEN 0 ELSE Pkt!SpecResponseLen(nm, w.fields)]

\* The device takes the next whole packet once it has sent the previous answer.
DeviceExec ==
    /\ txq # <<>>
    /\ devOut = <<>>
    /\ LET p == Head(txq)
           d == Parsed(p) IN
       /\ devHalted' = CASE d.name = "DbgHlt" -> TRUE
                         [] d.name = "DbgRun" -> FALSE
                         [] OTHER             -> devHalted
       /\ IF d.name = "QueryHlt"
          THEN devOut' = << [src |-> p.id, val |-> IF devHalted THEN 1 ELSE 0] >>
          ELSE \E v \in [1..d.answer -> {0, 1}] :
                  devOut' = [i \in 1..d.answer |-> [src |-> p.id, val |-> v[i]]]
    /\ txq' = Tail(txq)
    /\ UNCHANGED <<hostVars, rxq>>

\* The device shifts one answer byte onto the wire.
DeviceEmit ==
    /\ devOut # <<>>
    /\ rxq' = Append(rxq, Head(devOut))
    /\ devOut' = Tail(devOut)
    /\ UNCHANGED <<hostVars, txq, devHalted>>

\* The running NES program reaches a debug break on its own.
DeviceSelfHalt ==
    /\ ~devHalted
    /\ devHalted' = TRUE
    /\ UNCHANGED <<hostVars, txq, devOut, rxq>>

-----------------------------------------------------------------------------
(* Host: the nesdbg library functions and SerialComm.                      *)

\* Plausible bug: the receive buffer sized by the call's byte count
\* (new BYTE[numBytes]) rather than by ReturnBytesExpected().
SendAndReceiveAllocByCount(name, op, n) ==
    LET k == ReturnBytesExpected(op, n) IN
    /\ txq' = Append(txq, Cmd(nextId, op, n))
    /\ call' = [id |-> nextId, op |-> name]
    /\ need' = k
    /\ got' = 0
    /\ buf' \in Uninitialised(n)
    /\ hostPc' = IF k = 0 THEN "Idle" ELSE "Recv"
    /\ nextId' = nextId + 1

\* Build the packet, SendData it (the result is ignored) and, when
\* ReturnBytesExpected() > 0, allocate new BYTE[ReturnBytesExpected()] and
\* block in ReceiveData.  name is the caller, as the script sees it.
SendAndReceive(name, op, n) ==
    LET k == ReturnBytesExpected(op, n) IN
    /\ txq' = Append(txq, Cmd(nextId, op, n))
    /\ call' = [id |-> nextId, op |-> name]
    /\ need' = k
    /\ got' = 0
    /\ buf' \in Uninitialised(k)
    /\ hostPc' = IF k = 0 THEN "Idle" ELSE "Recv"
    /\ nextId' = nextId + 1

\* The body every ScriptMgr::Lua* packet function shares: cast the
\* script's count to USHORT, build the packet and send it.  DbgRun tells
\* the script the CPU runs again.
LuaPacketCall(op) ==
    /\ hostPc = "Idle"
    /\ nextId <= MaxCmds
    /\ \E c \in {d \in Calls : d.op = op} : SendAndReceive(op, op, c.n % UshortRange)
    /\ believesHalted' = (believesHalted /\ op # "DbgRun")
    /\ UNCHANGED <<delivered, timeouts, restarts, handshakes, devOut, rxq, devHalted>>

LuaEcho == LuaPacketCall("Echo")
LuaCpuMemRd == LuaPacketCall("CpuMemRd")
LuaCpuMemWr == LuaPacketCall("CpuMemWr")
LuaDbgHlt == LuaPacketCall("DbgHlt")
LuaDbgRun == LuaPacketCall("DbgRun")
LuaCpuRegRd == LuaPacketCall("CpuRegRd")
LuaCpuRegWr == LuaPacketCall("CpuRegWr")
LuaPpuMemRd == LuaPacketCall("PpuMemRd")
LuaPpuMemWr == LuaPacketCall("PpuMemWr")

\* The packet functions of the nesdbg library table (ScriptMgr::Init).
LuaCall ==
    \/ LuaEcho \/ LuaCpuMemRd \/ LuaCpuMemWr \/ LuaDbgHlt \/ LuaDbgRun
    \/ LuaCpuRegRd \/ LuaCpuRegWr \/ LuaPpuMemRd \/ LuaPpuMemWr

\* Plausible bug: a while loop in place of the do-while, testing the freshly
\* allocated byte before the first QueryHlt.
LuaWaitForHltTestFirst ==
    /\ hostPc = "Idle"
    /\ nextId <= MaxCmds
    /\ call' = [id |-> nextId, op |-> "WaitForHlt"]
    /\ need' = ReturnBytesExpected("QueryHlt", 0)
    /\ got' = 0
    /\ buf' \in Uninitialised(ReturnBytesExpected("QueryHlt", 0))
    /\ IF buf'[1].val # 0
       THEN /\ hostPc' = "Idle" /\ believesHalted' = TRUE /\ UNCHANGED txq
       ELSE /\ txq' = Append(txq, Cmd(nextId, "QueryHlt", 0))
            /\ hostPc' = "Recv" /\ UNCHANGED believesHalted
    /\ nextId' = nextId + 1
    /\ UNCHANGED <<delivered, timeouts, restarts, handshakes, devOut, rxq, devHalted>>

\* ScriptMgr::LuaWaitForHlt: allocate the one-byte buffer once, then the
\* first turn of the do-while loop sends a QueryHlt packet.
LuaWaitForHlt ==
    /\ hostPc = "Idle"
    /\ nextId <= MaxCmds
    /\ SendAndReceive("WaitForHlt", "QueryHlt", 0)
    /\ UNCHANGED <<delivered, believesHalted, timeouts, restarts, handshakes, devOut, rxq, devHalted>>

\* ScriptMgr::LuaLoadAsm: open and read the .prg file; when both succeed,
\* send one CpuMemWr of the bytes past the two-byte start address, to that
\* address, with the count cast to USHORT.  The packet answers nothing
\* (the assert on ReturnBytesExpected), so no read follows; a failure shows
\* a message box and sends nothing.  Either way the script gets startPc.
LuaLoadAsm ==
    /\ hostPc = "Idle"
    /\ nextId <= MaxCmds
    /\ \/ UNCHANGED <<call, nextId, txq>>
       \/ \E size \in AsmFileSizes :
             /\ txq' = Append(txq, Cmd(nextId, "CpuMemWr", AsmCount(size)))
             /\ call' = [id |-> nextId, op |-> "LoadAsm"]
             /\ nextId' = nextId + 1
    /\ UNCHANGED <<hostPc, need, got, buf, delivered, believesHalted, timeouts, restarts,
                   handshakes, devOut, rxq, devHalted>>

\* NesDbg::RawDbgDlgProc, IDC_RAWDBG_SEND with a line that decodes: send
\* the packet, receive ReturnBytesExpected() bytes (result ignored) and
\* show them in the output box.  A line that does not decode sends nothing.
RawSend ==
    /\ hostPc = "Idle"
    /\ nextId <= MaxCmds
    /\ \E c \in {d \in Calls : d.op \in RawOps /\ d.n < UshortRange} :
         SendAndReceive(c.op, c.op, c.n)
    /\ UNCHANGED <<delivered, believesHalted, timeouts, restarts, handshakes, devOut, rxq, devHalted>>

\* The packets of an accepted ROM, all from one menu command: DbgHlt first
\* and DbgRun last.  PpuDisable, CartSetCfg, the PRG and CHR writes and
\* the two PC writes answer nothing and leave the halt state alone; one
\* CpuMemWr stands for them here (RomLoad has the whole sequence).
LoadRomPackets(id) ==
    << Cmd(id, "DbgHlt", 0), Cmd(id, "CpuMemWr", 0),
       Cmd(id, "DbgRun", 0) >>

\* NesDbg::LoadRom: the file dialog is cancelled, the file cannot be
\* opened or read, or its header is rejected, and nothing is sent; or the
\* whole sequence is sent with no read (the CPU is left running).
LoadRomCmd ==
    /\ hostPc = "Idle"
    /\ nextId <= MaxCmds
    /\ \/ UNCHANGED <<call, nextId, txq, believesHalted>>
       \/ /\ txq' = txq \o LoadRomPackets(nextId)
          /\ call' = [id |-> nextId, op |-> "LoadRom"]
          /\ nextId' = nextId + 1
          /\ believesHalted' = FALSE
    /\ UNCHANGED <<hostPc, need, got, buf, delivered, timeouts, restarts,
                   handshakes, devOut, rxq, devHalted>>

\* Plausible bug: ReceiveData asks ReadFile for more than the buffer holds.
HostRecvByteUnbounded ==
    /\ hostPc = "Recv"
    /\ rxq # <<>>
    /\ buf' = [buf EXCEPT ![got + 1] = Head(rxq)]
    /\ got' = got + 1
    /\ rxq' = Tail(rxq)
    /\ UNCHANGED <<hostPc, call, need, delivered, believesHalted, nextId,
                   timeouts, restarts, handshakes, txq, devOut, devHalted>>

\* ReadFile stores the next byte of the port's input buffer.
HostRecvByte ==
    /\ hostPc = "Recv"
    /\ got < need
    /\ rxq # <<>>
    /\ buf' = [buf EXCEPT ![got + 1] = Head(rxq)]
    /\ got' = got + 1
    /\ rxq' = Tail(rxq)
    /\ UNCHANGED <<hostPc, call, need, delivered, believesHalted, nextId,
                   timeouts, restarts, handshakes, txq, devOut, devHalted>>

\* strcmp("NES", pOutString) = 0: the buffer holds the whole answer to one
\* handshake Echo (the bytes "NES\0").
\* Uninitialised heap bytes are taken never to spell "NES\0".
HandshakeOK(b) == \E h \in handshakes : \A k \in DOMAIN b : b[k].src = h

\* Plausible bug: the poll loop's test inverted (while (*pReceivedData)).
AfterReceiveUntilZero ==
    /\ delivered' = IF call.op = "Handshake" THEN delivered
                    ELSE [id |-> call.id, bytes |-> buf, full |-> got = need]
    /\ IF call.op = "WaitForHlt" /\ buf[1].val # 0
       THEN /\ txq' = Append(txq, Cmd(call.id, "QueryHlt", 0))
            /\ got' = 0
            /\ UNCHANGED <<hostPc, believesHalted>>
       ELSE /\ hostPc' = IF call.op = "Handshake" /\ ~HandshakeOK(buf) THEN "Failed" ELSE "Idle"
            /\ believesHalted' = (believesHalted \/ call.op = "WaitForHlt")
            /\ UNCHANGED <<txq, got>>

\* What the caller does once ReceiveData returns, whatever it returned: a
\* read function hands the buffer to the script; LuaWaitForHlt tests the
\* byte and either returns or sends the next QueryHlt (Sleep(10) between).
AfterReceive ==
    /\ delivered' = IF call.op = "Handshake" THEN delivered
                    ELSE [id |-> call.id, bytes |-> buf, full |-> got = need]
    /\ IF call.op = "WaitForHlt" /\ buf[1].val = 0
       THEN /\ txq' = Append(txq, Cmd(call.id, "QueryHlt", 0))
            /\ got' = 0
            /\ UNCHANGED <<hostPc, believesHalted>>
       ELSE /\ hostPc' = IF call.op = "Handshake" /\ ~HandshakeOK(buf) THEN "Failed" ELSE "Idle"
            /\ believesHalted' = (believesHalted \/ call.op = "WaitForHlt")
            /\ UNCHANGED <<txq, got>>

\* Plausible bug: ReadFile set to return as soon as anything is buffered
\* (ReadIntervalTimeout = MAXDWORD), so ReceiveData ends after one byte.
HostRecvDoneFirstByte ==
    /\ hostPc = "Recv"
    /\ got >= 1 \/ got = need
    /\ AfterReceive
    /\ UNCHANGED <<call, need, buf, nextId, timeouts, restarts, handshakes, devOut, rxq, devHalted>>

\* ReadFile returns with all the bytes it asked for.
HostRecvDone ==
    /\ hostPc = "Recv"
    /\ got = need
    /\ AfterReceive
    /\ UNCHANGED <<call, need, buf, nextId, timeouts, restarts, handshakes, devOut, rxq, devHalted>>

\* ReadFile times out with fewer bytes than asked for (the input buffer is
\* empty while the device is still busy or its answer is still on the
\* wire); ReceiveData returns FALSE, which nobody checks.
HostRecvTimeout ==
    /\ hostPc = "Recv"
    /\ got < need
    /\ rxq = <<>>
    /\ timeouts < MaxTimeouts
    /\ timeouts' = timeouts + 1
    /\ AfterReceive
    /\ UNCHANGED <<call, need, buf, nextId, restarts, handshakes, devOut, rxq, devHalted>>

\* SerialComm::Init, called from NesDbg::Init: opening COM5 or setting its
\* state or timeouts may fail (a message box, Init returns FALSE);
\* otherwise, after Sleep(200), it sends an Echo of "NES\0", allocates the
\* receive buffer and blocks in ReceiveData.  No buffer is purged.
Handshake ==
    /\ hostPc = "Start"
    /\ \/ /\ hostPc' = "Failed"
          /\ UNCHANGED <<txq, call, need, got, buf, nextId, handshakes>>
       \/ /\ SendAndReceive("Handshake", "Echo", HandshakeLen)
          /\ handshakes' = handshakes \cup {nextId}
    /\ UNCHANGED <<delivered, believesHalted, timeouts, restarts, devOut, rxq, devHalted>>

\* The debugger process ends at any point (the user kills it, e.g. stuck in
\* WaitForHlt's poll loop, or it exits after a failed handshake: WinMain
\* returns when NesDbg::Init fails) and is started again: a fresh NesDbg,
\* ScriptMgr and SerialComm.  The relaunch, and SerialComm::Init's
\* Sleep(200), take far longer than the device needs for what was already
\* written (an answer at 38400 baud takes milliseconds), so the new process
\* opens COM5 with the device idle; opening the port empties its input
\* buffer, and with it every answer byte the killed process left unread.
Restart ==
    /\ hostPc # "Start"
    /\ restarts < MaxRestarts
    /\ nextId <= MaxCmds
    /\ txq = <<>> /\ devOut = <<>>
    /\ hostPc' = "Start"
    /\ call' = [id |-> 0, op |-> "None"]
    /\ need' = 0 /\ got' = 0 /\ buf' = <<>>
    /\ delivered' = NoAnswer
    /\ believesHalted' = FALSE
    /\ rxq' = <<>>
    /\ restarts' = restarts + 1
    /\ UNCHANGED <<nextId, timeouts, handshakes, txq, devOut, devHalted>>

\* File > Exit (WM_CLOSE, then WM_DESTROY posts the quit message and
\* WinMain returns), here once the session's calls are made.
Exit ==
    /\ hostPc = "Idle"
    /\ nextId > MaxCmds
    /\ hostPc' = "Done"
    /\ UNCHANGED <<call, need, got, buf, delivered, believesHalted, nextId,
                   timeouts, restarts, handshakes, txq, devOut, rxq, devHalted>>

\* The main window's menu (WndProc): load a ROM, open the raw debug
\* dialog and send lines, open the test script dialog and run scripts
\* (whose library calls these are), or exit.  The dialogs are modal and
\* share the one SerialComm.
WndProc ==
    \/ LoadRomCmd \/ RawSend
    \/ LuaCall \/ LuaWaitForHlt \/ LuaLoadAsm
    \/ Exit

\* Nothing is left to happen once the debugger has exited, or the debugger has
\* given up at start, and the device is idle; late bytes nobody read stay
\* in the port's input buffer.
Quiescent ==
    /\ hostPc \in {"Done", "Failed"}
    /\ txq = <<>> /\ devOut = <<>>
    /\ UNCHANGED vars

Init ==
    /\ hostPc = "Start"
    /\ call = [id |-> 0, op |-> "None"]
    /\ need = 0
    /\ got = 0
    /\ buf = <<>>
    /\ delivered = NoAnswer
    /\ believesHalted = FALSE
    /\ nextId = 1
    /\ timeouts = 0
    /\ restarts = 0
    /\ handshakes = {}
    /\ txq = <<>>
    /\ devOut = <<>>
    /\ rxq = <<>>
    /\ devHalted \in BOOLEAN

Next ==
    \/ WndProc \/ HostRecvByte \/ HostRecvDone \/ HostRecvTimeout
    \/ Handshake \/ Restart \/ Quiescent
    \/ DeviceExec \/ DeviceEmit \/ DeviceSelfHalt

\* The host thread runs whenever it is not blocked; the device and the wire
\* always make progress.  A program reaching a debug break (DeviceSelfHalt)
\* and a ReadFile timeout are not assumed to happen.
Fairness ==
    /\ WF_vars(HostRecvByte) /\ WF_vars(HostRecvDone)
    /\ WF_vars(DeviceExec) /\ WF_vars(DeviceEmit)

Spec == Init /\ [][Next]_vars /\ Fairness

-----------------------------------------------------------------------------
(* Properties                                                              *)

TypeOK ==
    /\ hostPc \in {"Start", "Idle", "Recv", "Done", "Failed"}
    /\ need \in 0..(UshortRange - 1)
    /\ got \in 0..need
    /\ buf \in [1..need -> Byte]
    /\ delivered.bytes \in Seq(Byte) /\ delivered.full \in BOOLEAN
    /\ believesHalted \in BOOLEAN
    /\ nextId \in 1..MaxCmds + 1
    /\ timeouts \in 0..MaxTimeouts
    /\ restarts \in 0..MaxRestarts
    /\ handshakes \subseteq Ids
    /\ txq \in Seq(Packet)
    /\ devOut \in Seq(Byte)
    /\ rxq \in Seq(Byte)
    /\ devHalted \in BOOLEAN

\* Every answer ReceiveData reads in full (ReadFile returned the whole
\* count) and a library function hands back to the script (the data of
\* Echo/CpuMemRd/PpuMemRd/CpuRegRd, the byte LuaWaitForHlt tests) consists
\* of bytes the device sent for that very call, never a late byte of an
\* earlier call: a short read may spoil its own call, not the next ones.
ResponseIntegrity ==
    delivered.full =>
        \A i \in 1..Len(delivered.bytes) : delivered.bytes[i].src = delivered.id

\* Once WaitForHlt has returned, and until the script sends DbgRun, the NES
\* CPU is halted, so the memory and registers the script reads are stable.
HaltedWhenBelieved == believesHalted => devHalted

InWaitForHlt == hostPc = "Recv" /\ call.op = "WaitForHlt"
RunPending == \E i \in 1..Len(txq) : txq[i].op = "DbgRun"

\* A WaitForHlt whose CPU is halted, with no DbgRun still queued ahead of
\* its queries, stops polling: the loop ends on the first nonzero answer
\* (or the process is killed, which Restart may do but is never forced to).
WaitForHltReturns ==
    (InWaitForHlt /\ devHalted /\ ~RunPending) ~> ~InWaitForHlt

-----------------------------------------------------------------------------
(* Refinement: a session implements CommandExecutor.                       *)

\* A process blocked in its handshake is still connecting; the handshake is
\* no call of the script's.
AbstractPc ==
    CASE hostPc = "Recv" /\ call.op = "Handshake" -> "Start"
      [] hostPc = "Recv"                          -> "Busy"
      [] OTHER                                    -> hostPc
AbstractCall == IF call.op = "Handshake" THEN [id |-> 0, op |-> "None"] ELSE call
\* An answer is the call's own when every byte of it the device sent for it.
AbstractAnswer ==
    [id |-> delivered.id,
     own |-> \A i \in 1..Len(delivered.bytes) : delivered.bytes[i].src = delivered.id]

CE == INSTANCE CommandExecutor WITH
        CallOps <- {c.op : c \in Calls} \cup {"WaitForHlt", "LoadAsm", "LoadRom"},
        ReadOps <- {c.op : c \in {d \in Calls : ReturnBytesExpected(d.op, d.n) > 0}}
                     \cup {"WaitForHlt"},
        pc <- AbstractPc, current <- AbstractCall, answer <- AbstractAnswer,
        halted <- devHalted, issued <- nextId

\* The library keeps the promise of CommandExecutor: calls one at a time
\* with fresh ids, every read call handed its own answer and, with no
\* WaitForHlt, returning; WaitForHlt returning only on a halted CPU.
ImplementsCommandExecutor == CE!Spec

=============================================================================
