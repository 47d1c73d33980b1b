------------------------------- MODULE DbgPacket -------------------------------
(***************************************************************************)
(* The packet classes of sw/src/dbgpacket.cpp and dbgpacket.h, and the     *)
(* opcode catalogue of spec.md section 3 they are meant to encode.  No     *)
(* variables: RomLoad and DebugSession send the packets built here.        *)
(*                                                                         *)
(* A packet is its m_pData buffer: the bytes the constructor writes from   *)
(* its typed arguments (opcode, address, count, register), followed by     *)
(* the bytes it copies from the caller's buffer (echo data, memory data,   *)
(* a register value, the iNES header bytes 4..8).  The copied bytes are    *)
(* abstracted to their number.  Multi-byte fields are stored through       *)
(* reinterpret_cast<USHORT*>, little-endian on the x86 host.               *)
(***************************************************************************)
EXTENDS Naturals, Sequences

\* enum DbgPacketOpCode.
OpCode == [Echo |-> 0, CpuMemRd |-> 1, CpuMemWr |-> 2, DbgHlt |-> 3, DbgRun |-> 4,
           CpuRegRd |-> 5, CpuRegWr |-> 6, QueryHlt |-> 7, QueryErrCode |-> 8,
           PpuMemRd |-> 9, PpuMemWr |-> 10, PpuDisable |-> 11, CartSetCfg |-> 12]

\* *reinterpret_cast<USHORT*>(&m_pData[i]) = x, and reading it back.
UshortBytes(x) == << x % 256, x \div 256 >>
UshortAt(data, i) == data[i + 1] + 256 * data[i + 2]

Classes == DOMAIN OpCode \ {"QueryErrCode"}
Packets == [cls : Classes, data : Seq(0..255), copied : Nat]

New(cls, data, copied) == [cls |-> cls, data |-> data, copied |-> copied]

-----------------------------------------------------------------------------
(* Constructors                                                            *)

EchoPacket(numBytes) ==
    New("Echo", <<OpCode.Echo>> \o UshortBytes(numBytes), numBytes)
CpuMemRdPacket(addr, numBytes) ==
    New("CpuMemRd", <<OpCode.CpuMemRd>> \o UshortBytes(addr) \o UshortBytes(numBytes), 0)
CpuMemWrPacket(addr, numBytes) ==
    New("CpuMemWr", <<OpCode.CpuMemWr>> \o UshortBytes(addr) \o UshortBytes(numBytes), numBytes)
DbgHltPacket == New("DbgHlt", <<OpCode.DbgHlt>>, 0)
DbgRunPacket == New("DbgRun", <<OpCode.DbgRun>>, 0)
CpuRegRdPacket(reg) == New("CpuRegRd", <<OpCode.CpuRegRd, reg>>, 0)
CpuRegWrPacket(reg) == New("CpuRegWr", <<OpCode.CpuRegWr, reg>>, 1)
QueryHltPacket == New("QueryHlt", <<OpCode.QueryHlt>>, 0)
PpuMemRdPacket(addr, numBytes) ==
    New("PpuMemRd", <<OpCode.PpuMemRd>> \o UshortBytes(addr) \o UshortBytes(numBytes), 0)
PpuMemWrPacket(addr, numBytes) ==
    New("PpuMemWr", <<OpCode.PpuMemWr>> \o UshortBytes(addr) \o UshortBytes(numBytes), numBytes)
PpuDisablePacket == New("PpuDisable", <<OpCode.PpuDisable>>, 0)
CartSetCfgPacket == New("CartSetCfg", <<OpCode.CartSetCfg>>, 5)

-----------------------------------------------------------------------------
(* The virtual methods                                                     *)

\* Plausible bug: PpuMemWrPacket::SizeInBytes copied from PpuMemRdPacket,
\* without the data bytes.
SizeInBytesNoPpuData(p) ==
    CASE p.cls = "Echo"                     -> 1 + 2 + UshortAt(p.data, 1)
      [] p.cls = "CpuMemWr"                 -> 1 + 2 + 2 + UshortAt(p.data, 3)
      [] p.cls \in {"CpuMemRd", "PpuMemRd", "PpuMemWr"} -> 1 + 2 + 2
      [] p.cls = "CpuRegRd"                 -> 1 + 1
      [] p.cls = "CpuRegWr"                 -> 1 + 1 + 1
      [] p.cls = "CartSetCfg"               -> 1 + 5
      [] OTHER                              -> 1

\* <Packet>::SizeInBytes(): the write packets and Echo read their count
\* back from m_pData.
SizeInBytes(p) ==
    CASE p.cls = "Echo"                     -> 1 + 2 + UshortAt(p.data, 1)
      [] p.cls \in {"CpuMemWr", "PpuMemWr"} -> 1 + 2 + 2 + UshortAt(p.data, 3)
      [] p.cls \in {"CpuMemRd", "PpuMemRd"} -> 1 + 2 + 2
      [] p.cls = "CpuRegRd"                 -> 1 + 1
      [] p.cls = "CpuRegWr"                 -> 1 + 1 + 1
      [] p.cls = "CartSetCfg"               -> 1 + 5
      [] OTHER                              -> 1

\* Plausible bug: EchoPacket::ReturnBytesExpected leaving out the
\* terminator byte the script adds to its echo string.
ReturnBytesExpectedShortEcho(p) ==
    CASE p.cls = "Echo"                     -> UshortAt(p.data, 1) - 1
      [] p.cls \in {"CpuMemRd", "PpuMemRd"} -> UshortAt(p.data, 3)
      [] p.cls \in {"CpuRegRd", "QueryHlt"} -> 1
      [] OTHER                              -> 0

\* <Packet>::ReturnBytesExpected(): the echo and read counts read back from
\* m_pData, one byte for a register read or a halt query, else nothing.
ReturnBytesExpected(p) ==
    CASE p.cls = "Echo"                     -> UshortAt(p.data, 1)
      [] p.cls \in {"CpuMemRd", "PpuMemRd"} -> UshortAt(p.data, 3)
      [] p.cls \in {"CpuRegRd", "QueryHlt"} -> 1
      [] OTHER                              -> 0

\* What SendData(PacketData(), SizeInBytes()) puts on the wire: the
\* leading bytes of m_pData, and how many of the copied bytes follow them
\* (negative when SizeInBytes stops short of the written fields).
Wire(p) ==
    LET s == SizeInBytes(p)
        k == IF s < Len(p.data) THEN s ELSE Len(p.data)
    IN  [fields |-> SubSeq(p.data, 1, k), copied |-> s - Len(p.data)]

-----------------------------------------------------------------------------
(* spec.md section 3: the opcode catalogue, read off the bytes as the     *)
(* device parses them.  Fields are little-endian.                          *)

SpecOpcode == [Echo |-> 0, CpuMemRd |-> 1, CpuMemWr |-> 2, DbgHlt |-> 3, DbgRun |-> 4,
               CpuRegRd |-> 5, CpuRegWr |-> 6, QueryHlt |-> 7, PpuMemRd |-> 9,
               PpuMemWr |-> 10, PpuDisable |-> 11, CartSetCfg |-> 12]
\* The catalogue by opcode byte: the name each listed opcode value stands for.
SpecCatalogue == [code \in {SpecOpcode[o] : o \in DOMAIN SpecOpcode} |->
                     CHOOSE nm \in DOMAIN SpecOpcode : SpecOpcode[nm] = code]
SpecName(code) == SpecCatalogue[code]

\* Bytes of typed fields after the opcode (the selector of a register
\* write; its value is data).
SpecFieldLen(nm) ==
    CASE nm = "Echo"                                              -> 2
      [] nm \in {"CpuMemRd", "CpuMemWr", "PpuMemRd", "PpuMemWr"} -> 4
      [] nm \in {"CpuRegRd", "CpuRegWr"}                         -> 1
      [] OTHER                                                    -> 0

\* The count field, the address or register field.
SpecCount(nm, f) == IF nm = "Echo" THEN f[2] + 256 * f[3] ELSE f[4] + 256 * f[5]
SpecTarget(nm, f) ==
    CASE nm \in {"CpuMemRd", "CpuMemWr", "PpuMemRd", "PpuMemWr"} -> f[2] + 256 * f[3]
      [] nm \in {"CpuRegRd", "CpuRegWr"}                         -> f[2]
      [] OTHER                                                    -> 0

\* Data bytes that follow the fields, and the response length.
SpecDataLen(nm, f) ==
    CASE nm \in {"Echo", "CpuMemWr", "PpuMemWr"} -> SpecCount(nm, f)
      [] nm = "CpuRegWr"                          -> 1
      [] nm = "CartSetCfg"                        -> 5
      [] OTHER                                    -> 0
SpecResponseLen(nm, f) ==
    CASE nm \in {"Echo", "CpuMemRd", "PpuMemRd"} -> SpecCount(nm, f)
      [] nm \in {"CpuRegRd", "QueryHlt"}          -> 1
      [] OTHER                                    -> 0

\* The packet the device reads from a wire image: its opcode is in the
\* catalogue, the fields its layout needs are all there, exactly the data
\* bytes the layout asks for follow, and its opcode is the one of nm.
SpecDecodes(w, nm) ==
    /\ Len(w.fields) >= 1
    /\ w.fields[1] \in DOMAIN SpecCatalogue
    /\ SpecName(w.fields[1]) = nm
    /\ Len(w.fields) = 1 + SpecFieldLen(nm)
    /\ w.copied = SpecDataLen(nm, w.fields)

=============================================================================
