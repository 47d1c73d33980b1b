# TLA+ models of the fpga_nes host debugger

These modules model the Windows host debugger in `src/sw/src`. The debugger drives the
FPGA NES's debug unit over a serial line. It runs Lua test scripts against the
debug unit and loads ROMs into it.

## The system

| Part | Source | What it does |
|---|---|---|
| SerialComm | `serialcomm.cpp` | Opens COM5 at 38400 baud. Sets read timeouts: 50 ms between bytes, 5000 ms + 10 ms/byte in total. Checks the link with an Echo of `"NES\0"`. `SendData` and `ReceiveData` return FALSE on a short transfer, and no caller checks them. |
| Debug packets | `dbgpacket.cpp/.h` | One class per opcode: Echo, CpuMemRd/Wr, DbgHlt, DbgRun, CpuRegRd/Wr, QueryHlt, PpuMemRd/Wr, PpuDisable, CartSetCfg. Each writes its own bytes and has its own `SizeInBytes()` and `ReturnBytesExpected()`. `CreateObjFromString` decodes the raw dialog's hex text. |
| Script callables | `scriptmgr.cpp` | `nesdbg.*` functions for Lua. Each one builds a packet, sends it, allocates `new BYTE[ReturnBytesExpected()]` and reads that many bytes. `WaitForHlt` polls QueryHlt in an unbounded do-while loop. `LoadAsm` writes a program file. |
| Test run engine | `scriptmgrdlg.cpp`, `ScriptMgr::ExecuteScript` | Runs the selected scripts one after another in one shared `lua_State`. Reads each verdict (0 PASS, 1 FAIL, 2 ERROR) from the top of the Lua stack and tallies them. |
| ROM loader | `NesDbg::LoadRom` | Validates an iNES header. Then sends DbgHlt, PpuDisable, CartSetCfg, PRG and CHR in 1 KiB chunks, the reset vector into the PC, and DbgRun. |
| Raw debug dialog | `NesDbg::RawDbgDlgProc` | Hex text becomes one packet. Sends it and prints the answer. |
| Shell | `main.cpp`, `nesdbg.cpp` | Window, menus and file dialogs. |

The host is one thread. Every call blocks in `ReadFile` until the answer bytes
arrive or the timeout expires. The debug unit executes packets in order and
streams answers back. Nothing frames an answer: the host finds where an answer
ends only by counting `ReturnBytesExpected()` bytes.

## Modules

### DebugSession.tla (MCDebugSession.tla)

A debugger process's start-up handshake, and then everything its main window
sends to the debug unit over the one serial port: ROM loads, raw dialog
packets and test-script calls, in any order.

**Host state:**
- `hostPc` is Start, Idle, Recv, Done or Failed.
- `call`, `need`, `got` and `buf` describe the current read.
- `delivered` is what the last read handed to the script.
- `believesHalted` is TRUE after WaitForHlt returns.
- `restarts` counts relaunches. `handshakes` is a history variable holding the ids of handshake echoes.

**Wire and device state:**
- `txq` holds the packets sent.
- `devOut` holds the answer being transmitted.
- `rxq` is the port's input buffer.
- `devHalted` is the CPU's halt state.

Each byte carries the id of the command that produced it (`src`), or `NoCmd`
when it is uninitialised heap memory.

**Host actions:**
- `Handshake`: `SerialComm::Init`. The port set-up can fail. Otherwise it sends an Echo of `"NES\0"` and reads it back. `AfterReceive` then compares the bytes (`HandshakeOK`, the `strcmp`) and moves to Idle, or to Failed.
- `Restart`: the process is killed, or exits after a failed start (`WinMain` returns when `NesDbg::Init` fails), and is launched again. A relaunch and `SerialComm::Init`'s `Sleep(200)` take far longer than the device needs for packets already written (an answer at 38400 baud takes milliseconds), so the step happens with the device idle. Opening the port empties its input buffer, so answer bytes the killed process left unread are gone.
- `SendAndReceive`: the send/receive every call shares. It appends the packet to `txq`, allocates `new BYTE[ReturnBytesExpected()]` (uninitialised bytes) and waits for that many bytes, or none.
- `LuaEcho`, `LuaCpuMemRd`, `LuaCpuMemWr`, `LuaDbgHlt`, `LuaDbgRun`, `LuaCpuRegRd`, `LuaCpuRegWr`, `LuaPpuMemRd`, `LuaPpuMemWr`: one action per `ScriptMgr::Lua*` function (`LuaPacketCall`). The script's count is cast to USHORT (`% 65536`) before the packet is built, as the code does. `LuaCall` is their disjunction, the `nesDbgLib` table of `ScriptMgr::Init`.
- `LuaLoadAsm`: the file cannot be opened or read (a message box, nothing sent), or a CpuMemWr is sent with the count `(USHORT)(size - 2)` (`AsmCount`), which wraps to 65534 or 65535 for files of 0 or 1 bytes.
- `LuaWaitForHlt` and `AfterReceive`: the poll loop.
- `RawSend`: the raw debug dialog's Send button with a line that decodes (`RawOps`, the opcodes `CreateObjFromString` knows). Its count is a typed 16-bit field.
- `LoadRomCmd`: File > Load ROM. Either nothing is sent (dialog cancelled, file unreadable, header rejected) or the packet sequence `LoadRomPackets` goes out with no read: DbgHlt first, DbgRun last, so the CPU is running afterwards. The writes in between stand for the full sequence that RomLoad checks.
- `Exit`: File > Exit once the session's commands are made.
- `WndProc`: the main window's menu, the disjunction of the above. The dialogs are modal, so one command runs at a time.
- `HostRecvByte`, `HostRecvDone` and `HostRecvTimeout`: `ReadFile` under the COMMTIMEOUTS.

Every command in `txq` carries the packet object its caller constructs
(`NewPacket`, built with `DbgPacket`'s constructors). The host's read length
is that object's `ReturnBytesExpected`. The address and the register selector
decide no length and are fixed at 0.

The device side (`DeviceExec`, `DeviceEmit`, `DeviceSelfHalt`) is FPGA code that is
not in `src/sw`. It is modelled from the spec: `Parsed` reads the packet's wire
bytes by the opcode catalogue, and the device answers with the response length
the catalogue lists. So `ResponseIntegrity` compares the host's
`ReturnBytesExpected` with the spec's table, through the bytes the constructors
actually write.

**Refinement.** The end of the module maps the session onto
`CommandExecutor` (`CE == INSTANCE CommandExecutor WITH ...`) and states
`ImplementsCommandExecutor == CE!Spec`:
- `AbstractPc`: a handshake read is the abstract Start, and any other read is Busy.
- `AbstractCall`: the handshake echo is no call.
- `AbstractAnswer`: the delivered answer is "own" when every byte came from that call.

### CommandExecutor.tla

The abstract promise of the script library (spec sections 4.2 and 4.3), with the serial line left out:
- a process connects (`Probe`, `Connect`), then makes one call at a time with a fresh id (`Issue`);
- a read call blocks (`Busy`) until it `Return`s its own answer;
- WaitForHlt returns only while the CPU is halted, polling meanwhile (`Poll`);
- the device changes the halt state (`Device`);
- the script ends (`Finish`), and the process may be restarted (`Restart`).

Its one fairness condition is weak fairness of a read that is not WaitForHlt
returning (`ReadReturns`). It has no cfg of its own: it is checked as the
property `ImplementsCommandExecutor` of DebugSession.

### TestScriptRun.tla (MCTestScriptRun.tla)

The test script dialog and `ExecuteScript`.

**Abstraction:** `luaStack` is the shared `lua_State` stack. Each slot holds the
number `lua_tonumber` reads from it: an error message or string reads as 0, and
any number whose cast to `ScriptResult` is 3 or more is `OutOfRange`. Each run
of a script ends nondeterministically in one of these ways:
- `luaL_dofile` fails;
- it returns one of `Returns`;
- it returns nothing.

A result of 3 or more reads `scriptResultStrTbl` out of bounds. That is
undefined behaviour, so it is either a crash (`Crashed`) or a fall into the else branch.

### DbgPacket.tla

The packet classes, as definitions with no variables. RomLoad and DebugSession
use them through `INSTANCE`.
- `OpCode` is the `DbgPacketOpCode` enum.
- `EchoPacket` ... `CartSetCfgPacket` are the constructors, one per class. A packet is its `m_pData`: the fields the constructor writes from its typed arguments, little-endian through `reinterpret_cast<USHORT*>`, then the bytes it copies from the caller's buffer. The copied bytes are abstracted to their number.
- `SizeInBytes` and `ReturnBytesExpected` are the virtual methods. They read counts back from `m_pData` at the offsets the code uses.
- `Wire` is what `SendData(PacketData(), SizeInBytes())` writes.
- The `Spec*` definitions are the spec's opcode catalogue (section 3), read off the bytes as the device parses them. Only properties and the device use them.

### RomLoad.tla (MCRomLoad.tla)

`NesDbg::LoadRom` has these actions:
- `ReadRom`: the file is cancelled or fails, or is read. A read file may be shorter than its header declares.
- `ValidateHeader`: the header checks.
- `SendPrologue`, `SendPrgBlock`, `SendChrBlock` and `SendEpilogue`: one `SendData` each.

**Abstraction:**
- The header is abstracted to the fields the checks test.
- A packet is its opcode, target, the span of the file buffer it copies from, and the `DbgPacket` object the code constructs. The PRG address `0x8000 + offset` is narrowed to USHORT, as the constructor's parameter does.
- `Send` may fail a bounded number of times. `LoadRom` ignores the result, so the model does too.
- The sizes are the code's: 16 KiB PRG banks, 8 KiB CHR banks, 1 KiB blocks.

### PacketCodec.tla (MCPacketCodec.tla)

The raw debug dialog (`RawDbgDlgProc`) over `DbgPacket::CreateObjFromString`.

**The decoder:**
- `Scan` is a RECURSIVE translation of the nibble loop. It records a write past the `stringLen/2` buffer.
- `CreateObjFromString` returns "undefined" for input the code reads out of bounds or only partly decodes.
- It is checked against `SpecDecode`, a reference decoder written from the spec.
- The input lines are every sequence of up to 6 units from a small alphabet: hex pairs, a space, a lone digit and a non-hex character.

**The dialog actions:**
- `SendRaw`;
- `RejectRaw` (the "Invalid data" box);
- `UndefinedRaw`;
- `ClearOutput` and `Finished`.

Output is formatted by `FormatHex`, which translates the `_stprintf("%02X ")` loop.

**The encoders.** `CreateObjFromString` ends by calling the Echo, CpuMemRd or
CpuMemWr constructor:
- `PacketData` (with `EchoPacketData` and `MemPacketData`) gives `m_pData` as that constructor fills it.
- `UshortBytes` stores a 16-bit field little-endian, as `reinterpret_cast<USHORT*>` does on x86.
- `SizeInBytes` and `PacketReturnBytes` read the counts back from those bytes, as the methods do.

`SendRaw` records the bytes `SendData` writes in `sent` (`Transmit`). A size past
the allocation would write `NotWritten` bytes. It reads `PacketReturnBytes` bytes.
`SpecEncode` is the spec's encoding from its opcode table.

## Runs

| Run | cfg | Expect | Shows |
|---|---|---|---|
| session_reliable | DebugSession.cfg | pass | With no read timeout and one process:<br>- the handshake and every complete read, of a script call or the raw dialog, get only their own command's bytes (`ResponseIntegrity`), USHORT-wrapped counts, LoadAsm's underflow and ROM loads in between included;<br>- WaitForHlt returns only on a halted CPU (`HaltedWhenBelieved`);<br>- the session implements `CommandExecutor` (`ImplementsCommandExecutor`). |
| session_late_live | DebugSessionLateLive.cfg | pass | With one timeout and one restart, WaitForHlt stops polling once the CPU is halted with no DbgRun queued (`WaitForHltReturns`), even when late bytes of a timed-out call are queued ahead of its polls. |
| late_bytes_desync | DebugSessionLate.cfg | violation | A read (a script's or the raw dialog's) times out, its bytes arrive late, and the next Echo's complete read returns them. Every later answer is shifted. |
| late_bytes_halt | DebugSessionLateHalt.cfg | violation | WaitForHlt's QueryHlt read times out. It tests the uninitialised byte and returns while the CPU runs. |
| test_run | TestScriptRun.cfg | pass | The tallies always add up to the scripts run, out-of-range returns included. A script that returns a value or fails gets its own verdict. |
| test_run_leak | TestScriptRunLeak.cfg | violation | A script without a `return` gets the verdict of an earlier script, e.g. FAIL after a failing script. |
| rom_load | RomLoad.cfg | pass | A header the spec rejects sends nothing. An accepted one sends exactly the spec's packet sequence, in order, even with one failed send and a one-byte-short file (`LoadSequence`). Every packet's bytes, as its constructor and `SizeInBytes` produce them, parse by the spec's catalogue as the packet meant: opcode, address or register, exactly the copied bytes, and no answer, since LoadRom reads none (`SendsCatalogueLayout`). |
| rom_load_abort | RomLoadAbort.cfg | violation | After a failed send LoadRom still writes the PC and sends DbgRun. The spec says abort and stay halted. |
| rom_load_image | RomLoadImage.cfg | violation | With 0 PRG banks the reset vector is taken from header bytes 12–13, outside the ROM image. A file one byte short of its header's image is not rejected either: its last block is sent with a byte `ReadFile` never filled. |
| packet_codec | PacketCodec.cfg | pass | Wherever the code or the spec yields a packet, the two agree (`DecodeMatchesSpec`). The printed answer parses back to the bytes received (`OutputRoundTrip`). Every Send writes exactly the spec's encoding of the decoded packet and reads the spec's answer length (`SendsSpecEncoding`, an action property). |
| packet_codec_undefined | PacketCodecUndefined.cfg | violation | An empty line, an odd run of digits, or a truncated packet reaches undefined behaviour. The spec rejects each as MalformedHex or TruncatedPayload. |

**Mutants.** Each property of a passing run has a mutant, listed in `PROJECT.json`.
Each mutant is a plausible bug that TLC catches:
- an Echo answer one byte short;
- a `while` in place of the `do`-`while`;
- the poll's test inverted;
- a receive buffer sized by the packet's count instead of `ReturnBytesExpected()`;
- `else if (result == ERROR)`;
- a verdict read from the stack bottom;
- a loop bound `<=` in the script loop;
- a loop bound `<=` in LoadRom's PRG loop (one block past the image);
- `PpuMemWrPacket::SizeInBytes` without its data bytes;
- the CHR bank check dropped;
- a hex digit value taken from the wrong base;
- a big-endian count;
- the hex output's letter test written `> 8`;
- `ReadFile` returning after its first byte (breaks the refinement);
- CpuMemWrPacket without its copy loop.

## Bounds

**DebugSession:**
- `MaxCmds = 4` ids: the handshake plus three calls, or two handshakes plus two calls.
- `Counts = {1, 2, 65537}` and `HandshakeLen = 2` (the raw dialog takes only the counts below 65536), so that any read, the handshake's included, can be partly filled or shifted by one byte. 65537 wraps to 1 under the USHORT cast.
- `AsmFileSizes = {0, 1, 2, 3}`: both underflowing sizes, the empty program and one byte.
- `MaxTimeouts` is 0 or 1, and `MaxRestarts` is 0 or 1. One timeout already shows the desyncs; more only repeat them. One restart shows a poll loop cut off and a fresh process after it.

**TestScriptRun:**
- Up to 3 scripts per batch and 2 batches, so the stack outlives a batch.
- One return value of each kind the code distinguishes.

**RomLoad:**
- The real bank and block sizes.
- Bank counts up to one past each limit.
- Files complete or one byte short.
- At most one failed send.

**PacketCodec:**
- Lines of up to 6 units whose answer is at most 2 bytes. That covers every opcode's layout, a CpuMemWr carrying a data byte, a space, odd digits and truncation at each field.
- The units include "9A", so echoed bytes have the nibbles 9 and 10 on both sides of the output formatter's digit/letter test.

## Fairness

- **DebugSession** assumes weak fairness of `HostRecvByte`, `HostRecvDone` (a blocked `ReadFile` completes once its bytes are in), `DeviceExec` and `DeviceEmit` (the device and UART make progress).
- A timeout, a restart or a self-halt is never forced.
- **CommandExecutor** asks only that a non-WaitForHlt read returns (`WF` of `ReadReturns`). The detailed session's fairness on receiving implies it.
- The other modules state only safety.

## Not modelled

1. **Short writes:** a `WriteFile` timeout in `SendData` (result ignored, `scriptmgr.cpp:202`). The device would then parse a packet whose tail is the next packet's head. What it does with such bytes is defined neither by the spec nor by any source in this repository, so no property could say what should happen.
2. **Argument errors:** `assert(0); return 0` sends nothing and changes no debugger state, so DebugSession cannot tell it from a call never made. The spec's ScriptUsageError (the script ends as Error) is a verdict; TestScriptRun enumerates the script continuing with nil among its outcomes.
3. **Data of LoadAsm:** the 65534 bytes sent from the buffer after an underflow, and the `startPc` read from unread bytes. DebugSession abstracts payloads to the id of the command that produced them.

The window, fonts, file dialogs and the `util.h` string conversions are left out.
`src/nesdbg` is an older copy of the same code.
