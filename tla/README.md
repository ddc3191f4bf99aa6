# Boa³² in TLA+

Models of the Boa³² RISC-V microcontroller (`hdl/`, `dev/hdl/`), of the boot
ROM and programmer that load programs into it (`prog/bootloader`,
`tools/programmer`) and of the C library its programs use (`prog/common`), the properties that make them correct, the TLC runs that
check those properties on small instances, and the theorems TLAPS proves about
them for every instance. `PROJECT.json` relates every definition to the source
lines it stands for.

## 1. The system

```
   programmer ──serial line── UART ─┐
   (tools/)                         │ dbus
                                    │
  IF ─ ID ─ EX ─ MEM ─ write-back   ├── GPIO, PWM, PMU, ...
  │  CSRs, PMP   │   └─ overlay ────┘
  │              └──── machine timer (clk | rtc_clk)
  └ pbus ┬─ ROM / RAM, or ─ demultiplexer + arbiter ─ cache ─ SRAM
         └────────────────────┘
```

| Part | State | Operations | What makes it correct |
|---|---|---|---|
| Pipeline (`boa32_cpu.sv`, `stages/`) | barrier registers of ID, EX, MEM, a write-back register, `pc`, `fw_branch_alt`, the divider's timer, `r_csr_re`, `p_mie`, register file, CSRs | one clock edge: fetch, decode, execute, access, write back, under stalls, forwarding, clears and redirects | instructions take effect one after the other, in program order, once and whole; the CPU never stops |
| Fetch buffer (`boa_stage_if.sv`) | the last words fetched, their addresses, validity and permissions | shift in a word, look up, clear on `fence.i` and PMP locks | the instruction handed to ID is the one at its address |
| Decoders, decompressor (`boa_stage_id.sv`, `boa_compressed.sv`) | none | classify, validate, expand | one meaning for every bit pattern |
| Arithmetic (`boa_arithmetic.sv`) | a timer per unit | add, shift, multiply, divide | results; the timer covers the latency |
| Data access (`boa_stage_mem.sv`) | the access under way, a reservation, the steps of an atomic | load, store, read-modify-write, LR, SC, CSR access | accesses happen once; SC fails if it must |
| CSRs, PMP (`boa32_cpu.sv`, `boa_csr.sv`, `boa_pmp.sv`) | trap state, enables, regions and locks | read, write, trap, return, check | a trap is precise; a locked region stays |
| Demultiplexer, arbiters (`boa_memory.sv`) | `cur`, `hold` | arbitrate, connect, answer | one master at a time; answers go where they belong; nobody starves |
| Atomic controller (`boa_memory.sv`) | reservations | reserve, invalidate | at most one valid reservation per address |
| Machine timer (`boa_mtime.sv`) | time and comparison, in two clock domains, and a handshake | count, compare, write, read | writes cross whole; the interrupt follows the comparison |
| FIFO, UART (`fifo.sv`, `uart.sv`) | ring; shift registers and timers; divider | push, pop; send, receive; stall | every byte arrives, once, in order |
| Cache, SRAM controller (`dev/hdl/mem`) | tags, lines, dirty bits; pins | hit, fill, evict, write back, invalidate | memory as without a cache |
| Boot ROM (`prog/bootloader`) | `rx_type`, `rx_len`, `header`, `data`, `xsum`, `waddr`, the UART's divider | ping, identify, change speed, read, write, jump, call | an answer says what happened; nothing but what was asked for is done |
| Programmer (`tools/programmer`) | the same parser, the request that waits, its tries | upload, run, read, write, ping, id, jump, call, each at a speed of its own | a command that succeeds has been carried out; every command ends |
| C library (`prog/common`) | the caller's memory; the loop's counter | copy, set, search, compare, print | what C asks of each function, at the ends of its objects and with overlaps |
| Remaining peripherals, board files, benches, demonstration programs, scripts | | | not modelled, see section 8 |

The parts talk over `boa_mem_bus`: a master drives `re` or `we`, an address and
data in one cycle; the slave answers with `ready` in the next cycle or a later
one. The MEM stage and the caches repeat a request until then, unless an exception
withdraws it; the fetch stage changes its address when it is sent elsewhere. The timer has a second clock. The UART is a FIFO, a shift register and
a wire; the programmer sees it as a line that carries packets of a type, a
length, data and an additive checksum, and answers of the same form.

What is hard: several instructions in flight, with stalls, forwarding, clears
and redirects that compete in one cycle; values held for one stage while another
moves on; masters that request and give up at any time; two unrelated clocks;
full and empty queues; a line of the cache on its way out and another on its
way in; packets that are damaged or no longer framed as they were sent, retries, and a change of speed with bytes on
the way. The list, line by line, is under `hazards` in `PROJECT.json`.

## 2. Modules

| Module | Stands for | Checked by |
|---|---|---|
| `BoaMemDemux` | `boa_mem_demux` with either arbiter, its masters and a memory with wait states | `BoaUnitProofs`, run `demux_rr` |
| `BoaDefs` | instructions by class, ALU, CSRs | extended by the next two |
| `BoaISA` | the abstract specification: one instruction or interrupt at a time | |
| `BoaPipeline` | the pipeline, with `MCPipeline` holding the programs it is checked on | `BoaPipelineProofs`, runs `pipe_*` |
| `BoaQueue` | the abstract specification: a bounded queue | |
| `BoaFifo` | `param_fifo` | `BoaFifoProofs`, run `fifo` |
| `BoaUart` | `boa_peri_uart`, `unbuffered_uart_tx`, `unbuffered_uart_rx`; instantiates `BoaFifo` | `BoaUartProofs`; `MCUart`, run `uart_link` |
| `BoaMtime` | `boa_mtime` | `BoaUnitProofs`, run `mtime` |
| `BoaCache` | `boa_cache`, a requester and an external memory | `BoaCacheProofs`; `MCCache`, runs `cache`, `cache_fetch` |
| `BoaPmp` | `boa_pmp` with its checkers; `MCPmp` holds the arithmetic its masks are compared with | `BoaUnitProofs`, run `pmp` |
| `BoaBoot` | `run` of the programmer and the boot ROM, a packet at a time | `BoaBootProofs`, run `boot` |
| `BoaPacket` | the packets of `protocol.h` and the parser both sides have | extended by the next two |
| `BoaRom` | the boot ROM: `handle_rx` and the handlers of all requests | |
| `BoaProgrammer` | the programmer: `await_packet` and all commands | |
| `BoaLink` | both, and the line between them, a byte at a time; implements `BoaBoot` | `BoaLinkProofs`; `MCLink`, run `link` |
| `BoaSearch` | the functions of `string.c` that only read | extended by the next one |
| `BoaString` | the functions of `string.c` and `print.c` that write | `BoaStringProofs` (with `BoaSearch`), run `library` |
| `BoaText` | numbers and text in `print.c` and the programmer, and the placing of segments in `kbelfx.c` | `MCLibrary`, run `library` |

One step is one clock edge in the hardware modules (`BoaMtime` has two clocks,
whose edges come in any order or together), one packet in `BoaBoot`, one byte
in `BoaLink` and one iteration of a loop in `BoaString`. A
register of the source is a variable, with its name where TLA+ allows it; a wire
is an operator over the unprimed variables; a bit vector with one bit per port
is a set of ports. Definitions whose comment begins "Fault for the checks" are
not part of the model: each is a faulty variant of the definition after it, kept to
show that the properties notice.

**BoaMemDemux.** `cur`, `hold` are the registers; `pend` is what each master
presented in the cycle before, `lat` and `wait` are the memory's. The repository has
memories of two kinds, and `slave` is either. One that `"samples"` looks at its bus at every
edge (block RAM, UART, the front of a cache): its masters present anything in any
cycle, so that requests are changed and withdrawn before they are answered, as the MEM stage
does on an exception and the fetch stage on a redirect. One that is `"busy"` keeps what
it latched until it is done (`extmem_sram.sv`, behind the crossbar of `dev/hdl/main.sv`): its masters
are the caches, which repeat (`Presented`, `Waiting`). `OnBus` ORs the addresses of all
ports with custody, as the bus does; a port without a request drives any address.

**BoaPipeline.** `id`, `ex` and `mem` are the barrier registers, `wb` the
write-back register. The operators from `Exception` to `FetchAddrs` are the wires of
`boa32_cpu.sv` in the source's order; `Fetch`, `TakeAlternative`, `Execute`,
`Memory`, `ReadCsr`, `CsrFile`, `WriteBack` and `IrqLatch` are its clocked
blocks, all in one step `Clock`. A CSR instruction whose operand is `x0` writes nothing
(`WritesCsr`), and one whose CSR does not exist, or is written and may only be read, is refused (`Refused`). What a bubble in ID
holds is undefined in the source, and some decoders look at it all the same: `Bubbles` are the instructions it may look like. Three things are data the properties do not
tell apart, and are abstracted: the ALU (one adder that tells its operands
apart), the instruction formats (a record: class, registers, target, CSR) and
the fetch buffer, which holds the instruction at the fetch address or not, by
choice. `SkipHits` restricts that choice: whether the buffer may hold the
instruction in the very cycle a trap or a fence withholds it from ID (section 5); the
runs leave the case out. Code
is a set of instructions per address and each fetch picks one; the ISA picks
from the same set, so one run covers every program over it.
`amem` and `acsr` are history: the memory and CSRs after the last instruction that
retired, since stores and CSR writes act when an instruction enters MEM and retiring comes
a cycle or more later. The refinement mapping of `BoaISA` takes `OldestPC`, the
address of the oldest instruction in flight, for its `pc`. `Conforming` collects, as a
predicate on the program, the fetch buffer and the environment, what the processor's items
of section 5 leave out; `MCPipeline` asserts it of both programs.

**BoaFifo, BoaUart.** `BoaUart` connects a transmitter to a receiver over one
wire. `flight` is history: bytes accepted by the FIFO and not yet triggered.
A byte is a sequence of bits, least significant first; `Bits` is 8 in the code.
`ReadStatus` and `SetDivider` are the boot ROM's `p_speed`.

**BoaMtime.** The registers of both domains and the write on the bus.
`RtcEdge` and `CpuEdge` are the two clocked blocks, with the synchronisers. In any cycle in
which it is not ready a write may be withdrawn, as an exception does (`Withdrawn`); `torn` is history: since a
withdrawal, some trigger or acknowledgement has always been up.

**BoaPmp.** `lock`, `cfg` and `addr` are the registers, `WriteCfg`, `WriteAddr` and `Reset` what an edge
does to them; `locking` is the output of that name in the cycle that ended. Addresses
are sets of bits, so that `NapotMask` and `NapotBit` are the code's masks; `MCPmp` calculates with
numbers what the CSRs, as programs read them (`AddrRead`), stand for.

**BoaBoot.** `Send`, `Receive` and `GiveUp` are `await_packet` and its callers,
`React` is `handle_rx`, `Disturb` the line. A damaged P_WDATA packet has
written its bytes before its checksum is seen; a packet whose type is damaged
may pass for one. `Misframe` is damage to a start byte or a length. The packet
then ends early, late or not at all, and either parser may skip packets or find some in what is left of
others: from then on `Astray` takes packets and answers off the line (`Swallowed`), and carries out and answers packets that
nobody has sent, with any data and any address (`Stray`), as often as it likes. `acked`, `mistaken` and `misframed` are history: the blocks
acknowledged, whether a packet has written to memory as another type, and whether framing was disturbed.

**BoaCache.** `ab`, `fl` and `xm` are the registers with those prefixes; `tags`
and `data` the two RAMs, `rtags` and `rdata` what they read at the last edge, in
write-first mode. `NewTags` and `NewData` are the "write access logic", `Ready`,
`TagRaddr` and `CacheRaddr` the "read access logic", `NextFl` and `NextXm` the
state machine. Of the data, only those of one address are told apart, and that
address, `watched`, is any the requester uses: a word of another address that
turns up there shows as `Other`. `writeable` is the parameter that makes the
cache one for instructions or for data. `Requests` is the requester:
one that repeats a request until it is answered, as the MEM stage does, or one
that moves on, as the fetch stage does. `latest` is history: what was written to
`watched` last, which an invalidation without write-back takes back to what
external memory holds.

**BoaPacket, BoaRom, BoaProgrammer, BoaLink.** `up` and `down` are the bytes on
the line, with what the receiver's FIFO still holds; `part`, which neither side
sees, says which part of its packet a byte was sent as. A 32-bit word of a header or of data is one byte
here, so that a header has two bytes. `rrx` and `prx` are the two parsers, both
with `BoaPacket.Advance`. `rom` says where the ROM is: in `main`, in the loop of `p_speed`, or in
a program. `todo` is what the command still asks for: requests, each with what the
caller does if it fails (`drops` the requests that depend on it, or is `fatal`),
as `write_mem_block`, `f_change_speed` and the others have it in their control
flow. `session` is a list of commands, one run of the tool after the other.
`LoopLeft` is an assumption on time: the computer, whose loop takes microseconds, has left the loop
of `p_speed` by the time a byte has crossed the line. A disturbed byte becomes
one of `Noise`, which holds a type and a value that is none of the
protocol's; a packet is disturbed once at most, as two changes may cancel out in
an additive sum. `Unrecognised` loses bytes while the two ends differ in speed.
`acked`, `said`, `handled`, `mistaken`, `misframed` and `started` are history. `Boot` is the
refinement mapping: `BoaBoot` sees the packet that
waits, what was disturbed in it, and memory after the last complete packet. `Commands` is what `main` makes of its arguments; a `write`
or an `upload` of nothing, which sends no packet, is left out.

**BoaSearch, BoaString, BoaText.** Memory is a function from a few addresses
to characters. `call` is the function called, with arguments that C allows
(`Valid`); `i` is the loop's counter, `pc` the loop. Recursive functions stand for the
loops of the functions that only read; one over a string also ends at the end of memory, so that the function exists for every memory. `Copied`, and the references in
`BoaSearch`, are what the comments in `string.c` and the C standard say, as sets and quantifiers; none
describes a bug. Where the code differs (section 5), the passing property leaves the case
out, in so many words, and a property of its own asks for what was promised: `LastIsFound`, `MissIsTold`, `Joins`, `JoinsBounded`.

## 3. Passing runs

Distinct states in brackets.

| Run | Question |
|---|---|
| `demux_rr` (1 512) | four masters, two addresses, up to two wait states, resets; memories that sample, with masters that change and withdraw requests, and busy ones: `OneCustodian`, `AnswerIsMine`, and under fairness `CustodianServed` |
| `fifo` (256) | the ring implements `BoaQueue` (`IsQueue`), with `allow_full_we`; the flags agree with the queue. `BoaUart` uses the other setting, and the proofs cover both |
| `uart_link` (22 244) | two dividers, a CPU that writes, polls and rewrites the divider: `DeliversInOrder`, `NothingLost`, and under fairness `WriteCompletes`, `Drains` |
| `mtime` (109 334) | writes to time and comparison, withdrawn at any time: `WritesOwnData`, and under fairness `WriteEnds`, `IrqSilenced` |
| `pipe_data` (93 425) | `ProgramOrder`, `CorrectionAddress` and under fairness `Progress`, for everything that stalls: dependent ALU, back-to-back divides, load, store, `jalr`, branches that wait behind accesses and divides, CSR writes, `mret`, `fence.i`, with fetch misses and wait states |
| `pipe_control` (496 513) | `ProgramOrder`, `TrapEntersVector`, for branches in any sequence, traps from ID and MEM, CSR accesses that write, only read, or are refused, `mret`, `fence.i`, bubbles that look like any of them, and interrupts at every point |
| `pmp` (13 393) | three entries, two of which share a CSR, written, locked and reset in any order: `CoversAsRead`, `LockHolds`, `ChangesAreTold` |
| `cache` (260 046) | an instruction cache with `fence.i` and a data cache with writes, from power-up: `ReadsLatest`, `TagsTrue`, and under fairness `Answered` |
| `boot` (1 072 938) | two blocks, two retries, up to nine disturbances, of framing as well: `AnswersMatch`, `AckedBlocksHold`, `JumpRunsImage` until a start byte or a length is disturbed, and under fairness `RetriesEnd` in any case |
| `link` (326 556) | seven sessions with every command, bytes disturbed: `ReadsMemory`, `WritesMemory`, `CallsAsAsked`, `SpeedsAgree`, `HangsOnlyAlone`, the refinement `IsBoot`, and under fairness `SessionEnds` |
| `library` (369 378) | every function that writes, called with all arguments C allows on every memory, and every one that reads, on every memory: `MovesWhole`, `WritesText`, `SearchesRight`, `TextRight`, and under fairness `Returns` |

**Bounds, and why they are enough.** The demultiplexer's rules compare ports
with each other, so four show a scan that passes over two and wraps around; the proof
covers the rest. A FIFO of four slots fills, empties and wraps in every phase.
The UART has bytes of two bits and both parities of divider, 2 and 3, which the
half-bit sample distinguishes; four FIFO slots are the code's own depth. The
timer's words have one bit, so that each wraps around and the low one carries
into the high one within a few steps. The pipeline has four addresses, four
stages and so every pair of neighbours in flight that the program has; two
values tell right from wrong operands; two registers beside `x0` let three older
instructions write the same one. The upload has two blocks, one first and one
last, and `RetryCount` is 2 (3 in the code); nine disturbances (`MaxFaults`) use up all
tries of a block's two packets and of the jump. `JumpRunsImage` claims a complete image for behaviours with
at most as many disturbances as there are retries, as the code promises no more.
The cache has the code's two ways, two lines of two words, and three tags, so
that the third line of a kind evicts the first; the four addresses in `Used` are
in three such lines and in one of the other kind. The PMP has three entries, so that one is both shielded and a shield, and a grain of
two words as the boards' builds have a grain above one; the same holds with a grain of one, and with two entries of more bits.
`link` has a single retry, two disturbances
per command, blocks of three words with an image of four, so that the second
block is shorter, a ROM buffer of two and a programmer's buffer of
three, so that a packet can be too long for either; three speeds, one of which the
ROM refuses. `library` has five bytes of a terminator and two letters that differ only in
case: objects of up to five bytes overlap in every way, strings are empty, full and everything
between. The operators of `BoaText` have no state: their checks are evaluated in one.

Deadlock is checked everywhere but in `boot`, `link` and `library`: an upload, a session
and a call end, and a programmer that waits for a lost answer stands still.

## 4. Fairness

The hardware runs: `WF` on the clock step (`BoaMemDemux`, `BoaUart`,
`BoaPipeline`) and on the edges of each clock (`BoaMtime`, where no edge that withdraws a write is ever forced). In `demux_rr` the reset
may come at any time, and a master may withdraw or change its request before a memory that samples; a custodian that
keeps asking for the same address is answered. `pipe_data` adds that the program memory answers again and
again (`SF` on a step in which the fetch hits), which is what `CustodianServed`
gives a fetcher that has custody. In `BoaBoot` neither the programmer nor the
boot ROM stops (`WF` on each), and the line delivers what framing leaves of a packet (nothing is assumed of `Astray`); in
`BoaLink` `WF` is on all the programmer does and on all the computer does. The
cache has `WF` on its clock, with a memory whose wait states are bounded, and the
library `WF` on the loop: the processor runs on.

## 5. Where code and promise differ

One run ends with a counterexample to a property that states what a comment of
the repository says; `PROJECT.json` quotes it.

`cache_fetch`: a requester whose address changes in the cycle of a miss, as the
fetch stage's does, gets a line filled from one address and tagged with another
(`cache.sv:239`). In `cache` requests are repeated until they are answered.

The models show more differences, which are no run of the list. Each item says how to
see it, by the configuration that violates the property named, where there is one (`tlc -config MCPipeAlt.cfg MCPipeline`), and what keeps it out of
the passing runs.

In the processor (all but the arbiters' are conjuncts of `Conforming`):

- The static arbiter, which `dev/hdl/main.sv` uses, gives custody to
  two masters at once (`boa_memory.sv:432`; the comment on line 470 speaks of one CPU): `MCDemuxStatic.cfg` with
  `BoaMemDemux` violates `OneCustodian`. `demux_rr` has the other arbiter.
- A branch in ID overwrites the correction address of a branch that
  waits in EX (`boa32_cpu.sv:353`): `MCPipeAlt.cfg` violates `CorrectionAddress`. In
  `pipe_data` branches wait in EX, but no branch stands where one that waits
  behind an access is predicted to go (`Spaced`, `Alone`); in `pipe_control` branches follow each other in any way, and accesses have no wait states.
- A load that waits while a CSR instruction, or a bubble that looks like one, is in EX returns
  the CSR (`boa_stage_mem.sv:388`): `MCPipeLoadCsr.cfg` violates
  `LoadResult`. `pipe_data` has no CSR instruction directly behind a load.
- A `fence.i` that is being cleared from ID still stalls IF, in the one
  cycle in which the correction of the mispredicted branch before it is due
  (`boa32_cpu.sv:523`, `boa_stage_id.sv:170`), and the wrong way is run:
  `MCPipeFence.cfg` violates `ProgramOrder`. The passing
  runs have no fence at the address a branch is predicted to go to.
- The "round-robin" arbiter lets one master keep the memory for good if the others'
  requests come at the wrong time (`boa_memory.sv:474`, 397): ask `demux_rr`
  for `x \in Ports` with a standing request to get custody. `CustodianServed` claims service
  for the custodian only.
- The instruction at the trap vector, or after a fence, is skipped if the fetch
  buffer holds it (`boa_stage_if.sv:264`): `MCPipeSkip.cfg` violates
  `TrapEntersVector`, and `SkipHits = {"fence"}` violates `ProgramOrder`. The passing runs have `SkipHits = {}`: `MustMiss` is an
  assumption on the fetch buffer that nothing in the code enforces.
- After a PMP lock the fetch restarts at the address in an empty ID
  (`boa32_cpu.sv:385`): `CsrRw(1, "pmpcfg", 1)` in a program with `FetchMiss = TRUE`.
  No passing run locks an entry, so that `PmpLocking` stays false in them.
- An `mret` changes `mstatus` although an older instruction traps, or an
  interrupt is taken on one that waits
  (`boa32_cpu.sv:362`): `mret` directly behind an access that may trap, after a
  write to `mie`, or behind an `ecall`, which is in EX when the `mret` is in ID. The passing runs have no such pair.
- An interrupt on a CSR instruction or a store in MEM makes it happen twice
  (`boa32_cpu.sv:591`): `CsrRw(2, "mscratch", 1)` with `Irqs = TRUE`. `pipe_control` has
  only instructions that can be started again.

In the memory protection:

- An entry that is shielded by the locked entry above it takes a lock bit although its
  configuration cannot be written, and `locking` is not raised (`boa_pmp.sv:86` to 89 ask `writeable`, 140 to 143 do not):
  `MCPmpShielded.cfg` violates `LocksAreTold`; `ChangesAreTold` leaves the case out (`Shields`).
- A reset clears configurations and addresses and leaves the lock bits (`boa_pmp.sv:119`), so that a
  locked entry is off after it and cannot be written again: `LockHolds` without `~Reset`.

In the cache, the timer and the UART:

- A write to the high word of the time lands one bit too low: it ends at bit 31 and takes it from the low
  word (`boa_mtime.sv:54`), while reads return bits 63 to 32 (97): `W = 2`, `Regs = {"hi"}` with `HighWordWritten`.

- A write-back during an invalidation takes the tag of the way that would be evicted next, the line
  of the access buffer, and data from the line's number taken for the number of a word
  (`cache.sv:316`, 243, 480); the first iteration uses the tags of the line on the bus:
  `Flushes <- FlushData` or `FlushAll` with `TagsTrue`. `cache` never flushes the data cache.
- A precise invalidation starts with the tags of the line on the bus:
  `Flushes <- FlushPrecise` with `TagsTrue`.
- A miss while `stall` is set makes a valid tag and fetches nothing (`cache.sv:416`
  looks at no `ab_stall`): `Stalls = {TRUE, FALSE}` with `ReadsLatest`.
- The power-up invalidation starts at any line and way (`cache.sv:263`), and so may leave out
  some; their tags were never written. A request to flush during a flush is dropped (`cache.sv:266`).
- The 64-bit time is read in two words, between which it may carry
  (`prog/coremark/port`, `prog/gpiotest`).
- The boot ROM changes the divider while bytes of its answer wait in the FIFO
  (`prog/bootloader/src/main.c:171`): `Retune = "any"`. `uart_link` has `"keeps"`.
- A write to the time that an exception withdraws is carried out with what is on the bus then, and leaves its trigger
  up (`boa_mtime.sv:91`): until the next write that waits the time takes `wdata` at every edge in place of counting, against "Timekeeping clock" (14).
  `MCMtimeWithdrawn.cfg` violates `TimeRuns`. `mtime` withdraws writes as well, and `WritesOwnData` speaks of the
  time before that and after the lines are down again (`torn`).

In the boot ROM and the programmer:

- A block that failed does not stop the upload (`tools/programmer/src/main.c:299`):
  `JumpRunsImage` without its bound on `faults`.
- A packet whose type is damaged overwrites an acknowledged block
  (`prog/bootloader/src/main.c:254`): `AckedBlocksHold` without `~mistaken`.
- No timeout: a packet that is not recognised hangs the programmer
  (`tools/programmer/src/main.c:201`), against the 100 ms of the protocol's
  document: `RetriesEnd` without `Stuck`.
- A damaged length may end a packet inside its data, and if the data hold a whole packet the ROM answers both
  (`prog/bootloader/src/main.c:247`);
  from then on every answer is that to the request before, a block is taken for acknowledged that is not in memory, and the computer jumps into an
  incomplete image after no more than `RetryCount` disturbances, against "The operation was successful" (`protocol.h:39`): `MCLinkFrame.cfg` with `MCLink` violates `WritesMemory`.
  In `BoaBoot` the properties of answers and blocks end with `misframed`, and only `RetriesEnd` goes on; no session of `link`
  sends such data.
- The ROM keeps its speed when the programmer exits, which starts at the default: a later command
  hangs. `HangsOnlyAlone` says so (`~SameSpeed`), and the sessions change the speed in their last command.
- The ROM waits in `p_speed` for ever if a byte arrives while it is in the loop (`main.c:171`).
- A `P_JUMP` whose acknowledgement is damaged is sent to a program, which
  does not answer; a `P_CALL` is carried out again. `CallsAsAsked` counts the calls.
- `f_get_id` returns no value when it succeeds (`tools/programmer/src/main.c:427`); `Success` lets it be either.
- `upload` and `write` exit with success whatever became of their blocks; `read` passes with any number of arguments
  (`argc | 1 == 6`); `DATA_MAX` is 16 in the ROM and 65536 in the programmer.
- The dump of `read` with length 0 counts down from the largest number; `f_write` copies 8 bytes
  into a buffer of the length given; `decode_num` takes an empty argument, a sign and a second `0x`.
  The checks of `BoaText` ask for none of these.

In the C library (`string.c`); `WritesText` and `SearchesRight` leave these cases out:

- `memrchr` never looks at the first byte (33), against "searching `__len` bytes" (30): `MCLibraryMemrchr.cfg` with `MCLibrary` violates `LastIsFound`.
- `memccpy` returns the end of `dst` and not NULL when there is no `c` (74), against "or NULL if `__c` was not found" (65):
  `MCLibraryMemccpy.cfg` violates `MissIsTold`.
- `strcat` writes no terminator, and runs past an empty `src` (199 to 203), against "Concatenate" (192): `MCLibraryStrcat.cfg` violates `Joins`.
- `strncat` appends nothing, or as much as is left of `n`, and cuts `dst` to `n` characters (211 to 215), against "Concatenate at most
  `__len` bytes" (207): `MCLibraryStrncat.cfg` violates `JoinsBounded`.
- `strchr` and `strrchr` do not find the terminator, as those of the C standard do (128 to 151; their comments do not say).
- `strdup` and `strndup` always return NULL (331).

## 6. Proofs

Of the demultiplexer `BoaUnitProofs` proves, for every number of masters `N >= 2`, every set of
addresses and every bound on wait states, under the hypothesis `Arbiter = "rr"`:

- `DemuxInvariant`: `DemuxSpec => []DemuxInv`;
- `RoundRobinOneCustodian`: `DemuxSpec => []OneCustodian`;
- `RoundRobinAnswerIsMine`: `DemuxSpec => []AnswerIsMine`.

The hypothesis is needed: with the static arbiter the second is false (section 5). `OneCustodian`
is inductive by itself: from one custodian the chain `AfterCur` reaches at most
one requester, the first one found counting down, and `cur` is
kept if it reaches none. `AnswerIsMine` is not: nothing about `wait` alone says for whom the memory
works. `BusyForCustodian` adds that what the memory has latched is the request of its custodian, alone, if that requests at all, and
that a memory with wait states left works for a custodian that does. A memory that samples latches whatever the
master drives that has custody next, so this survives a request that is changed or withdrawn; before a busy memory
the custodian repeats its request, and custody cannot move meanwhile. `DemuxInv` joins
it with `DemuxTypeOK` and `OneCustodian`. Should a busy memory's masters withdraw, `AnswerIsMine` is false; in the system they are the
caches, which do not (`cache.sv:367-380`).

`BoaFifoProofs` proves, for every `Depth >= 2`, every set of data and both
values of `AllowFullWe`:

- `FifoTypeOK`: `Spec => []TypeOK`;
- `FifoOutputsAgree`: `Spec => []OutputsAgree`;
- `FifoIsQueue`: `Spec => Queue!Spec`, the refinement of `BoaQueue`.

The argument is arithmetic modulo `Depth`, kept linear by the two-case
definitions of `Count` and `At`: an
accepted write appends at `At(Count)`, which is `wpos`; a read removes the
element at `rpos`; a write to a full ring makes the positions equal and the
queue empty. The lemmas state each for the positions as plain numbers, and the
refinement theorem applies them to the four combinations of read and write.

`BoaStringProofs` proves, for memory of every size, every set of characters and all arguments C allows:

- `MovesWholeCorrect`: `Spec => []MovesWhole`, for `memcpy` and `memmove`;
- `SearchesRightCorrect`: `Spec => []SearchesRight`, for the loops that only read, on every memory, less the cases of section 5;
- `WritesTextCorrect`: `Spec => []WritesText`, for the other loops that write, likewise.

`MoveInv` holds the loop invariants of the first: upwards, the bytes before `i` are copied
and the others are as they were; downwards, the bytes after `i`. What keeps it is that
a byte is read before it is overwritten, which is a lemma for each direction: the
bytes written so far and the byte read next are apart because the loop
begins at the end of `dst` that lies away from `src`, or, for `memcpy`, because
the objects do not overlap.

A loop that only reads is a recursive function, and the library's induction theorems cannot be used. Instead
`Minimum` takes the least element of a set of numbers from the well-ordering of
finite sets by inclusion. From it follow that a bounded loop has a first stop (`StopExists`), that the
recursive function exists, and that it returns what it says at that stop (`UpwardsStops`, `DownwardsStops`). Each
function then is one lemma that names its stops (`StrlenStops` to `FindStops`), and one that
compares the first stop with the set of the reference (`MemchrRight` to `ComparedRight`). In comparisons the hard part is
memory: the loop stops at the common end, so it cannot pass the end of one string without having met a
difference (`StopsInMemory`), which is also where `ComparedFolded` is needed: a zero equals nothing but a zero without its case.

`WriteTextInv` has one invariant for each loop that writes. For a string it says that the
counter has not passed the end `src` had at the time of the call; the loop looks for that end in memory as it is *now*, and finds it
there because what it has written lies apart. `strcat` passes the end of an empty `src` and stops at the next one,
which `Valid` lets it find before the end of memory; of `strncat` only the place it writes to is claimed.

`BoaBootProofs` proves, for every number of blocks, every `RetryCount`, every set of
faults and every number of disturbances:

- `BootInvariant`: `Spec => []IInv`, and from it `BootTypeOK`;
- `AnswersMatchCorrect`: `Spec => []AnswersMatch`;
- `AckedBlocksHoldCorrect`: `Spec => []AckedBlocksHold`;
- `JumpRunsImageCorrect`: `Spec => []JumpRunsImage`.

All three properties end when a start byte or a length has been disturbed (`misframed`): then nothing ties an answer to
a packet any more, and section 5 shows, byte by byte, where that leads. `IInv` is `Typed`, which holds whatever is disturbed, and, until then, `Framed`,
whose parts follow. `Serial` says that at most one packet or answer is under way and belongs to
what the programmer is at; this makes `AnswersMatch` inductive although packets have no numbers.
`AckedBlocksHold` needs to know where the next P_WDATA is written: `AddressSet`, which
holds because a P_WDATA only follows a positive answer to the P_WRITE of its block,
and such an answer is true (`AnswerTrue`); and `AckedPast`, that no acknowledged block
is at work again. `JumpRunsImage` counts: every failed try was disturbed once
at least (`Counted`), so a block that fails takes more than `RetryCount`
disturbances, and with fewer every block behind the programmer is acknowledged
(`NoneFailed`). The computer jumps only after the last block (`JumpAfter`).
As `BoaLink` implements `BoaBoot` (`IsBoot`, proved below, of sessions in which no length is disturbed), these hold byte by byte there.

Of memory protection `BoaUnitProofs`, the module of the units beside the pipeline, proves, for every number of entries and of entries in a CSR, every width and grain,
and every set of configurations that programs write:

- `PmpTypeOK`: `Spec => []TypeOK`;
- `LocksHold`: `Spec => LockHolds`;
- `MachineChangesAreTold`: `Spec => ChangesAreTold`.

Both are about one step and need the types only. A locked entry cannot be written (`ShutStays`), and
where its range begins at the entry below, it shields that entry (`LockedKeeps`). Machine
mode is bound by locked entries alone; so what it may do stays as it is unless a lock bit is set, which
`locking` says, except behind a shield (`LockBitsAreTold`): there machine rights change untold (section 5), and the theorem says nothing.

`BoaLinkProofs` is about the boot protocol byte by byte. It proves, for all sizes of buffers and blocks, every set of
sessions, of parts disturbed and of bytes they become, and every `RetryCount` and `MaxFaults`:

- `LinkInvariant`: `Spec => []LinkInv`;
- `HangsAlone`: `Spec => []HangsOnlyAlone`;
- `SpeedsAlwaysAgree`: `Spec => [](misframed \/ SpeedsAgree)`;
- `CallsOnce`: `Spec => [](misframed \/ CallsAsAsked)`, if `OneCall`;
- `ReadsTrue`: `Spec => [](misframed \/ ReadsMemory)`, if `ReadsRam`;
- `WritesTrue`: `Spec => [](misframed \/ WritesMemory)`, if `WritesRam`;
- `LinkIsBoot`: `Spec => IsBoot`, if `WritesRam` and `UploadAlone`;

all if `NoFalseStart`: no disturbance, and no byte at another speed, reads as the start of a packet. `OneCall` says that only one command of
a session calls a function (`calls` counts those of the whole session), `ReadsRam` and `WritesRam` that
sessions read and write RAM, which does not begin at 1 (in the code it begins at 0x50000000): a request of two words whose damaged
type makes it a P_WDATA before there was a P_WRITE is written to 0 and 1. `UploadAlone` is about the session that uploads, which
`BoaBoot` describes: it is one `run` command at the speed both ends begin with, for a program that has some data and does not return; the line
disturbs no length in it; and blocks have at least two bytes (1024 in the code). Its last part belongs to the mapping, which calls a block "old" when its
place is still zero: each block has a byte that is not zero, and so has every disturbed one. The constants of run `link` satisfy all of them.
A disturbed length (`misframed`) ends what ties a byte to its place in a packet; that case is open, and stays with the run.

A state is described by what the two parsers make of the bytes on the line. In the phase `Together` the ends have one speed, and at
most one packet is under way, partly in a parser and partly on the line: a request (`Asking`), an answer (`Answering`), or one that a
program has read in place of the ROM (`Lost`). `Garbled` begins when the computer changes its speed in the middle of
its own answer, and the programmer's parser has seen the start of it; `Deaf` when no parser has, and everything sent is noise to the other end.
`LinkInv` says that there is no fourth. The lemmas follow a packet through `Advance`: the sum of its first
bytes, the length in its header, and that a disturbed byte shows in the sum unless the type hides it.

The others do not look at bytes again. `Kinds` shows that every step that does not disturb a length begins a command, ends or repeats
a request, carries one out, or leaves all that matters as it is, and each has an invariant over these kinds. `Tried`
counts: a try of an acknowledged request that failed was disturbed, so that no request is given up with at most `RetryCount`
disturbances; `CalledOnce` counts calls in the same way. `WritesTrue` needs `Addressed`, where the P_WDATA of a block goes, and
`Written`, that blocks that are `Due` are `Held`: the writes of later blocks, and of the same block again, do not touch them (`BlocksApart`).

`LinkIsBoot` maps an upload to `BoaBoot`, and any other session to a state that stays. The mapping reads the programmer's
place in its list of requests (`BootStep`, `BootBlk`), what is between the two programs, whether in a sender, on the line or in a
parser (`BootRequest`, `BootAnswer`), and the memory of each block (`BootMem`). `Uploaded` is what has to be known besides the phases:
the answer under way says whether its packet was disturbed, the address the ROM holds is that of a block, and nobody changes the speed.
`WdataShown` and `MistakenShown` say what a packet leaves in the place of a block, whole, disturbed or taken for another type; no
other block shows it (`PlacesApart`). Every step of the two programs is then a step of `BoaBoot` or, as for every byte but the last, none at all.

`BoaPipelineProofs` proves, for every program and set of addresses and values, every
latency of the divider, wait state and fetch miss, with and without interrupts:

- `PipelineTypes`: `Spec => []TypeOK`, for any program;
- `PipelineTrapEntersVector`: `Spec => TrapEntersVector`, for any program, if `"trap" \notin SkipHits`;
- `PipelineInvariant`: `Spec => []IInv`, and from it
- `PipelineCorrectionAddress`: `Spec => []CorrectionAddress`;
- `PipelineProgramOrder`: `Spec => ISA!Spec`, the refinement of `BoaISA`,

the last three under the hypothesis `Conforming`. Every conjunct of it is one of the differences of section 5,
and none can be spared: for each there is a program that violates that conjunct alone and, with TLC, `ProgramOrder`. A branch may wait in EX behind an access or a
division for any time; what is left out is only that another branch, or a bubble that looks like one, stands where it is predicted
to go while it waits behind an access on which it does not depend.
The programs of the runs are `Conforming`, which TLC evaluates (`ProgramAssumption`).

`IInv` says what a register of the pipeline holds *because of* the instructions that are older. `Kinds` ties the flags in EX
and MEM to the class of the instruction, `FollowsEx` and `FollowsMem` say that the next stage behind holds the
instruction that comes next, unless a branch or an exception is still to say so, and then that
`fw_branch_alt` and the prediction agree with it. `Operands` is forwarding, turned around: EX holds what the registers will be after
MEM has retired, or the value still comes by forwarding; `Results` is the same for MEM. `CsrsAhead` and the histories
`amem` and `acsr` say by which instructions memory and CSRs are ahead of the program. `EnabledBefore` is the interrupt's part:
a latched `irq` was enabled at the oldest instruction. A clock edge is one of four cases, each a lemma for every
conjunct: an exception empties the pipeline; MEM waits and holds all behind it; the divider holds EX; or all moves. In the refinement
the last two retire the instruction in MEM, if there is one, or stutter; the second stutters; the first is a trap or an interrupt of the ISA.

`BoaUartProofs` proves, for bytes of every width `Bits >= 1`, every depth of the FIFO from 2 and every set of dividers from 2,
under the hypothesis `Retune # "any"`:

- `UartInvariant`: `Spec => []IInv`;
- `UartDeliversInOrder`: `Spec => []DeliversInOrder`;
- `UartNothingLost`: `Spec => []NothingLost`.

With `Retune = "any"` both are false (section 5). Neither property says anything of the wire between two bits, where all the
work is: `InStep` relates the receiver's bit counter and timer to the transmitter's, so that every sample falls between two
changes of the wire, the half divider being where the parity of the divider matters; `WireHolds` gives
the value of the wire in every phase of the transmitter, `Sampled` the bits the receiver has so far.
`DueInOrder` says that `flight` is the byte on the wire, if it has not been sampled whole, followed by the FIFO, whose
behaviour comes from the lemmas of `BoaFifoProofs`; `Handover` is the cycle in which a byte is complete.

Of the timer `BoaUnitProofs` proves, for words of every width, every order of the edges of the two clocks, and writes withdrawn in any cycle:

- `HandshakeInvariant`: `TimerSpec => []Handshake`;
- `WritesOwnDataCorrect`: `TimerSpec => WritesOwnData`.

`FourPhases` orders the trigger and the acknowledgement: set, the trigger travels to the timer and comes back as the
acknowledgement, and so does its absence; `OfTheBus` says that each is for the half of the register that is on the bus, and
`ReadyAtRest` that the bus is released when nothing is on the way. All survive
an edge of either clock and of both at once. A withdrawn write changes the bus under the phases (section 5) and sets `torn`;
when trigger and acknowledgement are down on both sides the phases begin anew, so `Handshake` is that the handshake is `torn` or `Clean`.

`BoaCacheProofs` proves, for every number of lines, of words in a line and of tags, every set of addresses used and any
wait states of the memory behind the cache, under the hypothesis `Usage`:

- `CacheInvariant`: `Spec => []IInv`;
- `CacheReadsLatest`: `Spec => []ReadsLatest`;
- `CacheTagsTrue`: `Spec => []TagsTrue`.

`Usage` is how a CPU uses the cache that the source was written for, and none of its conjuncts can be spared: each
leaves out one difference of section 5. A requester may repeat an unanswered request
(`Repeating`, run `cache_fetch`), `stall` is not set (`Stalls`), no flush is for one address (`FlushPrecise`), and a cache that
is written to is not flushed (`FlushData`, `FlushAll`). The constants of both runs satisfy it.

A tag is written before the words of its line move, so for the time of a transfer it promises too much. `IInv` takes
the promise apart. `Fills` and `Spills` say how far a transfer has come: the counter `xm_addr`, the place in `cache_ram` and the word on its way
agree. `Copies` is the promise of a valid tag, that the line holds what was written last, but for the words that are still to be
fetched; `Originals` that of a clean one, that memory does too, but for those still to be written back; `Absent` that memory holds
every address in no way. The rest says what the registers were read from: `rtags` are the tags of the line accessed (`Looked`), `rdata` its words
when the cache answers (`Answering`) and at the start of a write-back (`Evicting`); `Flushed` how far an
invalidation has come, over a cache that has nothing dirty (`Clean`). `Unique` is inductive because a line is fetched only where no way has
its address. The step is split into the kinds of cycle that the code has: waiting for memory, a word fetched, a word written
back, an invalidation, a hit, the start of a write-back and of a fetch; each has a lemma for the conjuncts it disturbs.

**Only model-checked.** Liveness (`CustodianServed`, `WriteCompletes`, `Drains`,
`WriteEnds`, `IrqSilenced`, `Progress`, `RetriesEnd`, `SessionEnds`, `Returns`, `Answered`),
as TLAPS does not handle fairness and ENABLED here. What `BoaLink` does after a length was disturbed. `TextRight` and
`CoversAsRead`, which are about digits and areas that are powers of a base: the provers know nothing of exponents, not even
that 2^(k + 1) is twice 2^k.

## 7. Plan

The project keeps to a dozen runs: a new component joins an existing question
or takes the place of a run of section 5.

Done: the demultiplexer and its proofs; the pipeline with its ISA, proved to implement it; FIFO and UART with
proofs; the timer with the proof of its handshake; upload with proofs; the protocol byte by byte, proved to implement the upload; the cache with proofs; memory
protection with proofs; the C library with proofs of all its loops; framing disturbed in `BoaBoot`, requests withdrawn in `BoaMemDemux` and `BoaMtime`. Next, in this order:

1. Proofs: the phases of `BoaLink` after a disturbed length.
2. `BoaAtomics`: the MEM stage's access registers, reservation and
   read-modify-write steps with `boa_amo_ctl_1` and two CPUs over `BoaMemDemux`.
3. `BoaFetch`: the fetch buffer with its permissions, instruction lengths
   and misses, refining the choice of hit and miss in `BoaPipeline`, and as the
   requester of `BoaCache`.
4. `BoaDivider` and the shifter: checked against integer division.
5. Overlay, multiplexer and crossbar in front of `BoaMemDemux`; the pins of the SRAM
   controller under `BoaCache`.
6. The receive path of `BoaUart` with cancelled loads.

## 8. Not modelled

In the pipeline: compressed instructions, fetch access faults, atomics, U-mode,
`if_branch_reg = 1`, `misa` writes and a reset in operation. In the timer: the
read path and metastability; registers without reset power up as zero, as do the PMP's lock bits. In the
UART: the receive FIFO on the bus, resets, dividers below 2. In memory protection: CSR numbers without
an entry, and the permissions that words in the fetch buffer keep. In the cache: reset
in operation, byte enables (a word is written whole), and ways other than two. In
the boot protocol: the ROM's trap handler, a receive FIFO that overruns, the terminal's
settings, the programmer's help text and files, ELF files of more than one
segment, and words of four bytes. In `string.c`:
`strdup` and `strndup`; in `kbelfx.c`, all but the placing of segments, which hands
calls on to the C library. The SRAM controller is an external memory with any wait
states to the cache. Overlay, multiplexer and crossbar decode addresses. Other peripherals are
registers behind a one-cycle bus; board files are wiring and vendor primitives; the port
of CoreMark reads the clock and sets options; benches, demonstration programs and the
scripts carry no state shared with the system.
