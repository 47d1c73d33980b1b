----------------------------- MODULE MCPacketCodec -----------------------------
(* Model values for PacketCodec.                                           *)
EXTENDS PacketCodec

\* "00", "01", "02" (the three decodable opcodes and small counts), "aF"
\* (both letter cases), "9A" (the nibbles on each side of the output
\* formatter's digit/letter boundary), " ", a lone digit "7" and "x",
\* which is not hex.
MCUnits == { <<48, 48>>, <<48, 49>>, <<48, 50>>, <<97, 70>>, <<57, 65>>, <<32>>, <<55>>, <<120>> }

\* Six units: a whole CpuMemRd ("01 aa aa cc cc"), a CpuMemWr with one
\* data byte ("02 aa aa 01 00 dd") and every shorter line.
MCMaxUnits == 6

\* Reads and echoes of up to 2 bytes.
MCMaxAnswer == 2

=============================================================================
