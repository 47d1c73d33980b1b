----------------------------- MODULE PacketCodec -----------------------------
(***************************************************************************)
(* The raw debug dialog (NesDbg::RawDbgDlgProc, sw/src/nesdbg.cpp) and the *)
(* hex text decoder it uses (DbgPacket::CreateObjFromString,               *)
(* sw/src/dbgpacket.cpp).  Text is a sequence of character codes; the      *)
(* operator types it from a few units (byte pairs in both letter cases, a  *)
(* lone digit, a space, a character that is not hex).  The decoder is      *)
(* translated loop for loop, including the bytes it reads and writes: a    *)
(* read of a byte the loop never wrote, or a write past the                *)
(* stringLen / 2 byte buffer, is undefined behaviour and makes the result  *)
(* "undefined".  Answers are assumed to arrive whole here; lost and late   *)
(* bytes are DebugSession's subject.                                       *)
(***************************************************************************)
EXTENDS Naturals, Sequences, SequencesExt

CONSTANTS
    Units,      \* what the operator types in one go: sequences of character codes
    MaxUnits,   \* units in one input line
    MaxAnswer   \* bytes the operator asks to read or echo in one command

ASSUME /\ Units \subseteq Seq(0..127)
       /\ MaxUnits \in Nat /\ MaxAnswer \in Nat

Space == 32
Byte == 0..255

OpEcho == 0
OpCpuMemRd == 1
OpCpuMemWr == 2

NoPacket == [op |-> 255, addr |-> 0, count |-> 0, data |-> <<>>]

-----------------------------------------------------------------------------
(* DbgPacket::CreateObjFromString                                          *)

\* Plausible bug: the 'a'-'f' branch written with the 'A' base.
NibbleOfUpperBase(c) ==
    CASE c \in 48..57  -> c - 48
      [] c \in 97..102 -> c - 65 + 10
      [] c \in 65..70  -> c - 65 + 10
      [] OTHER         -> -1

\* The nibble a character stands for, or -1: '0'-'9', 'a'-'f', 'A'-'F'.
NibbleOf(c) ==
    CASE c \in 48..57  -> c - 48
      [] c \in 97..102 -> c - 97 + 10
      [] c \in 65..70  -> c - 65 + 10
      [] OTHER         -> -1

\* pRawData[nibbleIdx / 2] = odd ? (pRawData[..] | nibble) : (nibble << 4),
\* where the buffer holds bufLen bytes.
StoreNibble(st, v, bufLen) ==
    LET idx == st.nibbleIdx \div 2 IN
    [st EXCEPT
        !.raw = IF st.nibbleIdx % 2 = 1
                THEN [@ EXCEPT ![idx + 1] = @ + v]
                ELSE Append(@, v * 16),
        !.nibbleIdx = @ + 1,
        !.outOfBounds = @ \/ idx >= bufLen]

\* The conversion loop from character k on: spaces are skipped, any other
\* character that is not hex clears success and breaks out.
RECURSIVE ScanFrom(_, _, _)
ScanFrom(s, k, st) ==
    IF k > Len(s) THEN st
    ELSE IF s[k] = Space THEN ScanFrom(s, k + 1, st)
    ELSE IF NibbleOf(s[k]) < 0 THEN [st EXCEPT !.success = FALSE]
    ELSE ScanFrom(s, k + 1, StoreNibble(st, NibbleOf(s[k]), Len(s) \div 2))

Scan(s) == ScanFrom(s, 1, [success |-> TRUE, nibbleIdx |-> 0, raw |-> <<>>,
                           outOfBounds |-> FALSE])

\* Plausible bug: the 16-bit fields read high byte first.
ReadUshortBigEndian(raw, j) == 256 * raw[j + 1] + raw[j + 2]

\* *reinterpret_cast<USHORT*>(&pRawData[j]) on a little-endian host.
ReadUshort(raw, j) == raw[j + 1] + 256 * raw[j + 2]

\* Bytes the switch reads at fixed offsets, and the payload count after them.
FixedLen(op) == IF op = OpEcho THEN 3 ELSE 5
PayloadLen(op, raw) ==
    CASE op = OpEcho     -> ReadUshort(raw, 1)
      [] op = OpCpuMemWr -> ReadUshort(raw, 3)
      [] OTHER           -> 0

\* The packet the switch constructs from the decoded bytes.
PacketOf(raw) ==
    LET op == raw[1] IN
    CASE op = OpEcho ->
           [op |-> op, addr |-> 0, count |-> ReadUshort(raw, 1),
            data |-> SubSeq(raw, 4, 3 + ReadUshort(raw, 1))]
      [] op = OpCpuMemRd ->
           [op |-> op, addr |-> ReadUshort(raw, 1), count |-> ReadUshort(raw, 3),
            data |-> <<>>]
      [] op = OpCpuMemWr ->
           [op |-> op, addr |-> ReadUshort(raw, 1), count |-> ReadUshort(raw, 3),
            data |-> SubSeq(raw, 6, 5 + ReadUshort(raw, 3))]

\* CreateObjFromString: NULL, a packet, or undefined (a write past the
\* buffer, or a read of bytes the loop never wrote: pRawData[0] of an
\* empty line, a field or payload past the decoded bytes).
CreateObjFromString(s) ==
    LET st == Scan(s)
        raw == st.raw
    IN  IF st.outOfBounds THEN [kind |-> "undefined", pkt |-> NoPacket]
        ELSE IF ~st.success \/ st.nibbleIdx % 2 = 1 THEN [kind |-> "null", pkt |-> NoPacket]
        ELSE IF raw = <<>> THEN [kind |-> "undefined", pkt |-> NoPacket]
        ELSE IF raw[1] \notin {OpEcho, OpCpuMemRd, OpCpuMemWr} THEN [kind |-> "null", pkt |-> NoPacket]
        ELSE IF Len(raw) < FixedLen(raw[1]) THEN [kind |-> "undefined", pkt |-> NoPacket]
        ELSE IF Len(raw) < FixedLen(raw[1]) + PayloadLen(raw[1], raw)
             THEN [kind |-> "undefined", pkt |-> NoPacket]
        ELSE [kind |-> "packet", pkt |-> PacketOf(raw)]

-----------------------------------------------------------------------------
(* The reference decoder of spec section 4.1 (DecodeFromHexText)          *)

HexValue == [c \in 48..57 |-> c - 48] @@ [c \in 65..70 |-> c - 55] @@ [c \in 97..102 |-> c - 87]

\* Hex pairs with spaces as separators, or MalformedHex; then byte 0 is the
\* opcode (only Echo, CpuMemRead and CpuMemWrite are decoded), and the
\* opcode's fields, and its count of payload bytes, must all be present.
SpecDecode(s) ==
    LET digits == SelectSeq(s, LAMBDA c : c # Space)
        b == [k \in 1..(Len(digits) \div 2) |->
                 16 * HexValue[digits[2 * k - 1]] + HexValue[digits[2 * k]]]
        U16(k) == b[k] + 256 * b[k + 1]
        Fail(e) == [kind |-> e, pkt |-> NoPacket]
    IN  IF \E k \in 1..Len(digits) : digits[k] \notin DOMAIN HexValue
           THEN Fail("MalformedHex")
        ELSE IF Len(digits) % 2 = 1 THEN Fail("MalformedHex")
        ELSE IF b = <<>> THEN Fail("TruncatedPayload")
        ELSE IF b[1] \notin {OpEcho, OpCpuMemRd, OpCpuMemWr} THEN Fail("UnknownOpcode")
        ELSE IF b[1] = OpEcho THEN
                IF Len(b) < 3 \/ Len(b) < 3 + U16(2) THEN Fail("TruncatedPayload")
                ELSE [kind |-> "packet", pkt |-> [op |-> OpEcho, addr |-> 0, count |-> U16(2),
                                                  data |-> SubSeq(b, 4, 3 + U16(2))]]
        ELSE IF Len(b) < 5 THEN Fail("TruncatedPayload")
        ELSE IF b[1] = OpCpuMemRd THEN
                [kind |-> "packet", pkt |-> [op |-> OpCpuMemRd, addr |-> U16(2), count |-> U16(4),
                                             data |-> <<>>]]
        ELSE IF Len(b) < 5 + U16(4) THEN Fail("TruncatedPayload")
        ELSE [kind |-> "packet", pkt |-> [op |-> OpCpuMemWr, addr |-> U16(2), count |-> U16(4),
                                          data |-> SubSeq(b, 6, 5 + U16(4))]]

\* The bytes a command reads back, by the spec's table.
SpecAnswerLen(s) ==
    LET r == SpecDecode(s) IN
    IF r.kind = "packet" /\ r.pkt.op \in {OpEcho, OpCpuMemRd} THEN r.pkt.count ELSE 0

\* Every line of at most MaxUnits units that asks for at most MaxAnswer bytes.
Inputs == { s \in { FlattenSeq(u) : u \in UNION { [1..k -> Units] : k \in 0..MaxUnits } } :
              SpecAnswerLen(s) <= MaxAnswer }

-----------------------------------------------------------------------------
(* The constructors CreateObjFromString calls, and the SizeInBytes and     *)
(* ReturnBytesExpected methods that read their counts back from m_pData.   *)

\* *reinterpret_cast<USHORT*>(&m_pData[j]) = x on a little-endian host.
UshortBytes(x) == << x % 256, x \div 256 >>

\* EchoPacket: opcode, count, then the count bytes to echo.
EchoPacketData(p) == <<OpEcho>> \o UshortBytes(p.count) \o p.data

\* Plausible bug: CpuMemWrPacket without its copy loop.
MemPacketDataNoPayload(p) == <<p.op>> \o UshortBytes(p.addr) \o UshortBytes(p.count)

\* CpuMemRdPacket: opcode, address, count; CpuMemWrPacket adds the data.
MemPacketData(p) ==
    <<p.op>> \o UshortBytes(p.addr) \o UshortBytes(p.count)
        \o (IF p.op = OpCpuMemWr THEN p.data ELSE <<>>)

\* m_pData as the constructor fills it.
PacketData(p) == IF p.op = OpEcho THEN EchoPacketData(p) ELSE MemPacketData(p)

\* Plausible bug: CpuMemWr's size taken from the field at offset 1 (the
\* address), as EchoPacket's size takes its count.
SizeInBytesCountAtOne(op, m) ==
    CASE op = OpEcho     -> 3 + ReadUshort(m, 1)
      [] op = OpCpuMemRd -> 5
      [] op = OpCpuMemWr -> 5 + ReadUshort(m, 1)

\* <Packet>::SizeInBytes().
SizeInBytes(op, m) ==
    CASE op = OpEcho     -> 3 + ReadUshort(m, 1)
      [] op = OpCpuMemRd -> 5
      [] op = OpCpuMemWr -> 5 + ReadUshort(m, 3)

\* <Packet>::ReturnBytesExpected().
PacketReturnBytes(op, m) ==
    CASE op = OpEcho     -> ReadUshort(m, 1)
      [] op = OpCpuMemRd -> ReadUshort(m, 3)
      [] op = OpCpuMemWr -> 0

\* A byte WriteFile takes from beyond the m_pData allocation.
NotWritten == -1

\* SendData(m_pData, n): the n bytes starting at m_pData.
Transmit(m, n) == [k \in 1..n |-> IF k <= Len(m) THEN m[k] ELSE NotWritten]

\* Spec section 3: the encoding of a packet (little-endian fields).
SpecEncode(p) ==
    LET le(x) == << x % 256, x \div 256 >> IN
    CASE p.op = OpEcho     -> <<OpEcho>> \o le(p.count) \o p.data
      [] p.op = OpCpuMemRd -> <<OpCpuMemRd>> \o le(p.addr) \o le(p.count)
      [] p.op = OpCpuMemWr -> <<OpCpuMemWr>> \o le(p.addr) \o le(p.count) \o p.data

-----------------------------------------------------------------------------
(* NesDbg::RawDbgDlgProc                                                   *)


\* A fixed CPU memory image the debug unit reads from.
Mem(a) == (a * 157 + 11) % 256

\* What the debug unit sends back (spec section 3): the echoed bytes, or
\* count bytes of CPU memory from addr.
DeviceAnswer(p) ==
    CASE p.op = OpEcho     -> p.data
      [] p.op = OpCpuMemRd -> [k \in 1..p.count |-> Mem((p.addr + k - 1) % 65536)]
      [] OTHER             -> <<>>

\* Plausible bug: the letter test written hiNibble > 8.
HexDigitCharOffByOne(n) == IF n > 8 THEN 65 + (n - 10) ELSE 48 + n

\* (nibble > 9) ? ('A' + (nibble - 0xA)) : ('0' + nibble)
HexDigitChar(n) == IF n > 9 THEN 65 + (n - 10) ELSE 48 + n

\* The output text: two hex digits and a space per received byte.
FormatHex(bytes) ==
    [k \in 1..(3 * Len(bytes)) |->
        LET b == bytes[(k - 1) \div 3 + 1] IN
        CASE (k - 1) % 3 = 0 -> HexDigitChar(b \div 16)
          [] (k - 1) % 3 = 1 -> HexDigitChar(b % 16)
          [] OTHER           -> Space]

VARIABLES
    input,      \* IDC_RAWDBG_IN: the line the operator typed
    out,        \* IDC_RAWDBG_OUT
    sent,       \* the bytes SendData wrote for the last packet
    received,   \* the bytes ReceiveData read for the last packet
    dlg         \* "Open", "Sent", "Rejected" (message box) or "Undefined"

vars == <<input, out, sent, received, dlg>>

Init ==
    /\ input \in Inputs
    /\ out = <<>>
    /\ sent = <<>>
    /\ received = <<>>
    /\ dlg = "Open"

\* IDC_RAWDBG_SEND with a line that decodes: send SizeInBytes() bytes of
\* the packet, receive ReturnBytesExpected() bytes, show them in hex and
\* clear the input.
SendRaw ==
    /\ dlg = "Open"
    /\ CreateObjFromString(input).kind = "packet"
    /\ LET p == CreateObjFromString(input).pkt
           m == PacketData(p)
           a == DeviceAnswer(p)
       IN  /\ sent' = Transmit(m, SizeInBytes(p.op, m))
           /\ received' = [k \in 1..PacketReturnBytes(p.op, m) |-> a[k]]
           /\ out' = FormatHex(received')
    /\ input' = <<>>
    /\ dlg' = "Sent"

\* IDC_RAWDBG_SEND with a line CreateObjFromString returns NULL for:
\* the "Invalid data." message box; nothing is sent.
RejectRaw ==
    /\ dlg = "Open"
    /\ CreateObjFromString(input).kind = "null"
    /\ dlg' = "Rejected"
    /\ UNCHANGED <<input, out, sent, received>>

\* IDC_RAWDBG_SEND with a line whose decoding is undefined behaviour.
UndefinedRaw ==
    /\ dlg = "Open"
    /\ CreateObjFromString(input).kind = "undefined"
    /\ dlg' = "Undefined"
    /\ UNCHANGED <<input, out, sent, received>>

\* IDC_RAWDBG_CLEAR.
ClearOutput ==
    /\ dlg = "Sent"
    /\ out # <<>>
    /\ out' = <<>>
    /\ UNCHANGED <<input, sent, received, dlg>>

\* One line per dialog: nothing carries from one send to the next but the
\* two text boxes, which every send overwrites.
Finished ==
    /\ dlg # "Open"
    /\ UNCHANGED vars

Next == SendRaw \/ RejectRaw \/ UndefinedRaw \/ ClearOutput \/ Finished

Spec == Init /\ [][Next]_vars

-----------------------------------------------------------------------------
(* Properties                                                              *)

TypeOK ==
    /\ input \in Seq(0..127)
    /\ out \in Seq(0..127)
    /\ sent \in Seq(Byte \cup {NotWritten})
    /\ received \in Seq(Byte)
    /\ dlg \in {"Open", "Sent", "Rejected", "Undefined"}

\* CreateObjFromString builds a packet exactly for the lines the spec's
\* decoder accepts, and builds the packet the spec's decoder builds.
DecodeMatchesSpec ==
    LET c == CreateObjFromString(input)
        r == SpecDecode(input)
    IN  (c.kind = "packet" \/ r.kind = "packet") => c = r

\* The output box, read back by the dialog's own hex decoder, gives the
\* bytes the debug unit sent: formatting is the inverse of parsing.
OutputRoundTrip ==
    dlg = "Sent" /\ out # <<>> =>
        LET st == Scan(out) IN st.success /\ st.raw = received

\* Spec section 4.1: every line is either decoded or rejected; decoding
\* never reads or writes a byte the hex loop did not produce.
NoUndefinedDecode == CreateObjFromString(input).kind \in {"packet", "null"}

\* Spec section 4.2: Send writes the spec's encoding of the packet the
\* line decodes to, no byte more or less, and reads the answer length of
\* the spec's table: the constructors, SizeInBytes() and
\* ReturnBytesExpected() together encode what the operator typed.
SendsSpecEncoding ==
    [][dlg = "Open" /\ dlg' = "Sent" =>
         /\ sent' = SpecEncode(SpecDecode(input).pkt)
         /\ Len(received') = SpecAnswerLen(input)]_vars

=============================================================================
