------------------------------- MODULE RomLoad -------------------------------
(***************************************************************************)
(* NesDbg::LoadRom (sw/src/nesdbg.cpp): read an iNES file, validate its    *)
(* header, then push the image to the debug unit as a fixed sequence of    *)
(* packets, one SerialComm::SendData per packet.  SendData returns FALSE   *)
(* when WriteFile writes less than the packet (write timeout); LoadRom     *)
(* never looks at it.                                                      *)
(*                                                                         *)
(* A packet is abstracted to its opcode, its target (a CPU or PPU address  *)
(* or a register) and the span of the file buffer its payload is copied   *)
(* from, plus the packet object the code constructs (DbgPacket) and        *)
(* whether SendData delivered it whole.  The header is                     *)
(* abstracted to the fields LoadRom tests; byte counts are the code's.     *)
(***************************************************************************)
EXTENDS Naturals, Sequences

P == INSTANCE DbgPacket

CONSTANTS
    PrgBankSize,      \* 0x4000: bytes per PRG ROM bank
    ChrBankSize,      \* 0x2000: bytes per CHR ROM bank
    BlockSize,        \* 0x400: transferBlockSize
    Shortfalls,       \* how many bytes the file may lack of the image its header declares
    MaxSendFailures   \* SendData calls that may fail in one load

ASSUME /\ {PrgBankSize, ChrBankSize, BlockSize} \subseteq Nat \ {0}
       /\ PrgBankSize % BlockSize = 0 /\ ChrBankSize % BlockSize = 0
       /\ Shortfalls \subseteq Nat
       /\ MaxSendFailures \in Nat

HeaderSize == 16

\* The header fields LoadRom tests: the "NES\x1A" signature, the bank counts
\* (bytes 4 and 5; values past the limits stand for every larger count), the
\* four-screen bit 0x08 of byte 6 and the mapper nibbles of bytes 6 and 7.
Headers == [sig : BOOLEAN, prg : 0..3, chr : 0..2, fourScreen : BOOLEAN, mapper : 0..1]

PrgSize(h) == h.prg * PrgBankSize
ChrSize(h) == h.chr * ChrBankSize

NoTarget == 0
CpuRegPcl == 0
CpuRegPch == 1

VARIABLES
    pc,         \* where LoadRom is
    header,     \* the header read from the file
    fileSize,   \* fileDataSize: bytes ReadFile put in the buffer
    i,          \* loop index of the PRG or CHR copy loop
    wire,       \* packets passed to SendData, in order
    failures    \* SendData calls that returned FALSE

vars == <<pc, header, fileSize, i, wire, failures>>

Packet(op, target, src, len, obj) ==
    [op |-> op, target |-> target, src |-> src, len |-> len, obj |-> obj, ok |-> TRUE]

-----------------------------------------------------------------------------
(* LoadRom                                                                 *)

\* GetOpenFileName, CreateFile and ReadFile: the user may cancel, or the
\* file may fail to open or read (a message box, then nothing is sent);
\* otherwise the buffer holds the file's bytes.
ReadRom ==
    /\ pc = "Start"
    /\ \/ pc' = "Done" /\ UNCHANGED <<header, fileSize>>
       \/ \E h \in Headers, s \in Shortfalls :
             /\ s <= PrgSize(h) + ChrSize(h)
             /\ header' = h
             /\ fileSize' = HeaderSize + PrgSize(h) + ChrSize(h) - s
             /\ pc' = "Validate"
    /\ UNCHANGED <<i, wire, failures>>

\* Plausible bug: the CHR bank limit left out.
HeaderValidNoChrCheck(h) ==
    /\ h.sig
    /\ h.prg <= 2
    /\ ~h.fourScreen
    /\ h.mapper = 0

\* The header checks: each failing one shows a message box and clears success.
HeaderValid(h) ==
    /\ h.sig
    /\ h.prg <= 2 /\ h.chr <= 1
    /\ ~h.fourScreen
    /\ h.mapper = 0

ValidateHeader ==
    /\ pc = "Validate"
    /\ pc' = IF HeaderValid(header) THEN "Hlt" ELSE "Done"
    /\ UNCHANGED <<header, fileSize, i, wire, failures>>

\* One SerialComm::SendData of packet p: WriteFile may write it whole or,
\* on a write timeout, only in part; the result is ignored either way.
Send(p) ==
    \/ wire' = Append(wire, [p EXCEPT !.ok = TRUE]) /\ UNCHANGED failures
    \/ /\ failures < MaxSendFailures
       /\ wire' = Append(wire, [p EXCEPT !.ok = FALSE])
       /\ failures' = failures + 1

\* The three packets before the copy loops.
SendPrologue ==
    /\ pc \in {"Hlt", "PpuDisable", "CartSetCfg"}
    /\ CASE pc = "Hlt"        -> Send(Packet("DbgHlt", NoTarget, 0, 0, P!DbgHltPacket))
                                 /\ pc' = "PpuDisable"
         [] pc = "PpuDisable" -> Send(Packet("PpuDisable", NoTarget, 0, 0, P!PpuDisablePacket))
                                 /\ pc' = "CartSetCfg"
         [] pc = "CartSetCfg" -> Send(Packet("CartSetCfg", NoTarget, 4, 5, P!CartSetCfgPacket))
                                 /\ pc' = "Prg" /\ i' = 0
    /\ UNCHANGED <<header, fileSize>>
    /\ pc # "CartSetCfg" => UNCHANGED i

\* Plausible bug: the PRG loop runs while offset <= prgRomDataSize.
SendPrgBlockInclusive ==
    /\ pc = "Prg"
    /\ IF i <= PrgSize(header) \div BlockSize
       THEN /\ Send(Packet("CpuMemWr", 32768 + BlockSize * i,
                           HeaderSize + BlockSize * i, BlockSize,
                           P!CpuMemWrPacket((32768 + BlockSize * i) % 65536, BlockSize)))
            /\ i' = i + 1
            /\ UNCHANGED pc
       ELSE /\ pc' = "Chr" /\ i' = 0
            /\ UNCHANGED <<wire, failures>>
    /\ UNCHANGED <<header, fileSize>>

\* One turn of the PRG copy loop: CpuMemWr of block i to 0x8000 + offset
\* (a UINT narrowed to the USHORT addr parameter), from the buffer at
\* 16 + offset.  Then the CHR loop starts.
SendPrgBlock ==
    /\ pc = "Prg"
    /\ IF i < PrgSize(header) \div BlockSize
       THEN /\ Send(Packet("CpuMemWr", 32768 + BlockSize * i,
                           HeaderSize + BlockSize * i, BlockSize,
                           P!CpuMemWrPacket((32768 + BlockSize * i) % 65536, BlockSize)))
            /\ i' = i + 1
            /\ UNCHANGED pc
       ELSE /\ pc' = "Chr" /\ i' = 0
            /\ UNCHANGED <<wire, failures>>
    /\ UNCHANGED <<header, fileSize>>

\* One turn of the CHR copy loop: PpuMemWr of block i to PPU address
\* offset, from the buffer past the PRG image.  Then the PC is set.
SendChrBlock ==
    /\ pc = "Chr"
    /\ IF i < ChrSize(header) \div BlockSize
       THEN /\ Send(Packet("PpuMemWr", BlockSize * i,
                           HeaderSize + PrgSize(header) + BlockSize * i, BlockSize,
                           P!PpuMemWrPacket((BlockSize * i) % 65536, BlockSize)))
            /\ i' = i + 1
            /\ UNCHANGED pc
       ELSE /\ pc' = "Pcl"
            /\ UNCHANGED <<wire, failures, i>>
    /\ UNCHANGED <<header, fileSize>>

\* The reset vector: CpuRegWr of PCL and PCH from the buffer bytes
\* 16 + prgRomDataSize - 4 and - 3, then DbgRun and the load ends.
SendEpilogue ==
    /\ pc \in {"Pcl", "Pch", "Run"}
    /\ LET vec == HeaderSize + PrgSize(header) - 4 IN
       CASE pc = "Pcl" -> Send(Packet("CpuRegWr", CpuRegPcl, vec, 1, P!CpuRegWrPacket(CpuRegPcl)))
                          /\ pc' = "Pch"
         [] pc = "Pch" -> Send(Packet("CpuRegWr", CpuRegPch, vec + 1, 1, P!CpuRegWrPacket(CpuRegPch)))
                          /\ pc' = "Run"
         [] pc = "Run" -> Send(Packet("DbgRun", NoTarget, 0, 0, P!DbgRunPacket))
                          /\ pc' = "Done"
    /\ UNCHANGED <<header, fileSize, i>>

\* LoadRom has returned; the debugger waits for the next command.
Loaded ==
    /\ pc = "Done"
    /\ UNCHANGED vars

Init ==
    /\ pc = "Start"
    /\ header = [sig |-> FALSE, prg |-> 0, chr |-> 0, fourScreen |-> FALSE, mapper |-> 0]
    /\ fileSize = 0
    /\ i = 0
    /\ wire = <<>>
    /\ failures = 0

Next ==
    \/ ReadRom \/ ValidateHeader
    \/ SendPrologue \/ SendPrgBlock \/ SendChrBlock \/ SendEpilogue
    \/ Loaded

Spec == Init /\ [][Next]_vars

-----------------------------------------------------------------------------
(* Properties                                                              *)

Ops == {"DbgHlt", "PpuDisable", "CartSetCfg", "CpuMemWr", "PpuMemWr", "CpuRegWr", "DbgRun"}
MaxBlocks == (2 * PrgBankSize) \div BlockSize

TypeOK ==
    /\ pc \in {"Start", "Validate", "Hlt", "PpuDisable", "CartSetCfg",
               "Prg", "Chr", "Pcl", "Pch", "Run", "Done"}
    /\ header \in Headers
    /\ fileSize \in Nat
    /\ i \in 0..MaxBlocks
    /\ wire \in Seq([op : Ops, target : Nat, src : Nat, len : Nat, obj : P!Packets, ok : BOOLEAN])
    /\ failures \in 0..MaxSendFailures

\* The header rules of spec section 4.5: the signature, at most 2 program
\* banks, at most 1 graphics bank, no four-screen mirroring, mapper 0.
SpecAccepts(h) ==
    h.sig /\ h.prg <= 2 /\ h.chr <= 1 /\ ~h.fourScreen /\ h.mapper = 0

\* The packets spec section 4.5 prescribes for header h, in strict order.
SpecLoadSequence(h) ==
    LET Op(o, t) == [op |-> o, target |-> t]
        prg == [k \in 1..(PrgSize(h) \div BlockSize) |-> Op("CpuMemWr", 32768 + (k - 1) * BlockSize)]
        chr == [k \in 1..(ChrSize(h) \div BlockSize) |-> Op("PpuMemWr", (k - 1) * BlockSize)]
    IN  << Op("DbgHlt", NoTarget), Op("PpuDisable", NoTarget), Op("CartSetCfg", NoTarget) >>
          \o prg \o chr
          \o << Op("CpuRegWr", CpuRegPcl), Op("CpuRegWr", CpuRegPch), Op("DbgRun", NoTarget) >>

Sent == [k \in 1..Len(wire) |-> [op |-> wire[k].op, target |-> wire[k].target]]

\* LoadRom sends nothing for a header the spec rejects, and for one it
\* accepts sends a prefix of the prescribed sequence, all of it by the time
\* it returns.
LoadSequence ==
    LET want == IF SpecAccepts(header) THEN SpecLoadSequence(header) ELSE <<>> IN
    /\ Len(Sent) <= Len(want)
    /\ Sent = SubSeq(want, 1, Len(Sent))
    /\ pc = "Done" => Sent = want

\* Spec section 4.5: a failed transfer aborts the rest of the sequence, so
\* the CPU is never set running after a packet the transport failed to send.
NoRunAfterFailedSend ==
    \A k \in 1..Len(wire) :
        wire[k].op = "DbgRun" => \A j \in 1..(k - 1) : wire[j].ok

\* Every ROM byte and reset-vector byte LoadRom sends is a byte of the ROM
\* image the file holds after its 16-byte header.
RomBytesFromImage ==
    \A k \in 1..Len(wire) :
        wire[k].op \in {"CpuMemWr", "PpuMemWr", "CpuRegWr"} =>
            /\ HeaderSize <= wire[k].src
            /\ wire[k].src + wire[k].len <= fileSize

\* Nothing frames a packet on the wire and LoadRom reads no answer, so
\* every packet it writes with SendData(PacketData(), SizeInBytes()) must
\* be what the device, parsing the catalogue of spec.md section 3, takes
\* for the packet LoadRom means: its opcode and fields, its address or
\* register, exactly the bytes copied from the file after them, and no
\* response that would be left in the port for the next command.
SendsCatalogueLayout ==
    \A k \in 1..Len(wire) :
        LET w == P!Wire(wire[k].obj) IN
        /\ P!SpecDecodes(w, wire[k].op)
        /\ P!SpecTarget(wire[k].op, w.fields) = wire[k].target
        /\ w.copied = wire[k].len
        /\ P!SpecResponseLen(wire[k].op, w.fields) = 0

=============================================================================
