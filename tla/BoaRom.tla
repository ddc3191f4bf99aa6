------------------------------- MODULE BoaRom -------------------------------
(***************************************************************************)
(* The computer's side of the boot protocol: prog/bootloader/src/main.c.   *)
(* main polls the UART and hands each byte to handle_rx, which collects a  *)
(* packet and carries it out.                                              *)
(*                                                                         *)
(* Memory is the bytes of Ram; a write elsewhere has no effect and a read  *)
(* elsewhere returns zero.  waddr is 0, not in Ram, until the first        *)
(* P_WRITE.  wlen is left out: nothing reads it.                           *)
(***************************************************************************)
EXTENDS BoaPacket

CONSTANTS
  RomMax,        \* sizeof(data) (16 bytes, which are four words here).
  Ram,           \* Addresses.
  Ident,         \* The text of ident.
  Freq,          \* UART_BASE_FREQ.
  DefaultSpeed,  \* The baud rate the computer starts with.
  Returning      \* Addresses of programs that return when they are jumped to.

ASSUME RomAssumption ==
  /\ RomMax \in Nat /\ Ram \subseteq Nat \ {0} /\ Freq \in Nat /\ DefaultSpeed \in Nat
  /\ Ident \in Seq(0 .. Base - 1) /\ Len(Ident) < Base
  /\ \A type \in DOMAIN SizeOf : SizeOf[type] <= RomMax

VARIABLES
  rrx,    \* Its parser: rx_type, rx_len, xsum, header.
  rdata,  \* data.
  waddr,  \* The address P_WDATA packets are written to.
  mem,    \* Memory.
  rom,    \* "rom", "speed" in the loop of p_speed, or "program" after a jump.
  div,    \* UART0.clk_div.
  calls   \* History: the addresses of the functions called for a P_CALL.

computer == <<rrx, rdata, waddr, mem, rom, div, calls>>

NoData(n) == [i \in 1 .. n |-> 0]

\* A division by zero yields the largest number.
Divider(speed) == IF speed = 0 THEN Base * Base ELSE Freq \div speed
Supported(divider) == divider >= 4 /\ divider < Base * Base

RomInit ==
  /\ rrx = Idle /\ rdata = NoData(RomMax) /\ waddr = 0
  /\ mem = [a \in Ram |-> 0]
  /\ rom = "rom" /\ div = Divider(DefaultSpeed) /\ calls = <<>>

----------------------------------------------------------------------------
(* A byte of a packet.                                                     *)

\* Data of a P_WDATA packet have no limit: they go to memory and not to data.
Limit == IF rrx.header.type = P_WDATA THEN Base ELSE RomMax

\* Fault for the checks: the bytes are written in reverse.
TargetReversed == waddr + rrx.header.length - 1 - rrx.len
\* The address of the byte of a P_WDATA packet that comes next.
Target == waddr + rrx.len

\* handle_rx, RX_DATA: the byte is stored at once, before the checksum.
StoreByte(b) ==
  IF rrx.type # "DATA" THEN UNCHANGED <<rdata, mem>>
  ELSE IF rrx.header.type = P_WDATA
  THEN /\ mem' = IF Target \in Ram THEN [mem EXCEPT ![Target] = b] ELSE mem
       /\ UNCHANGED rdata
  ELSE rdata' = [rdata EXCEPT ![rrx.len + 1] = b] /\ UNCHANGED mem

\* handle_rx up to the checksum.
RomCollect(b) ==
  /\ rom = "rom" /\ ~Complete(rrx)
  /\ rrx' = Advance(rrx, b, Limit)
  /\ StoreByte(b)
  /\ UNCHANGED <<waddr, rom, div, calls, down>>

----------------------------------------------------------------------------
(* A complete packet.  Each of these is handle_rx in RX_XSUM with b for    *)
(* the checksum.                                                           *)

\* Fault for the checks: the checksum is not compared.
XsumAny(b) == TRUE
XsumRight(b) == rrx.xsum = b

Send(type, data) == down' = down \o OnLine(Packet(type, data))
SendAck(status) == Send(P_ACK, <<status, 0>>)

\* The check each of the handlers but p_wdata begins with.
RightLength ==
  rrx.header.type # P_WDATA => rrx.header.length = SizeOf[rrx.header.type]

\* The packet is intact, of the type, and as long as the type requires.
Accepts(b, type) ==
  /\ rom = "rom" /\ Complete(rrx) /\ XsumRight(b)
  /\ rrx.header.type = type
  /\ RightLength
  /\ rrx' = Advance(rrx, b, Limit) /\ UNCHANGED rdata

Handled == {P_PING, P_WHO, P_SPEED, P_WRITE, P_READ, P_WDATA, P_JUMP, P_CALL}

\* A_XSUM, or A_NCAP for an unknown type and a wrong length.
Refuse(b) ==
  /\ rom = "rom" /\ Complete(rrx)
  /\ IF XsumRight(b)
     THEN ~(rrx.header.type \in Handled /\ RightLength) /\ SendAck(A_NCAP)
     ELSE SendAck(A_XSUM)
  /\ rrx' = Advance(rrx, b, Limit)
  /\ UNCHANGED <<rdata, waddr, mem, rom, div, calls>>

PPing(b) ==
  /\ Accepts(b, P_PING) /\ Send(P_PONG, <<rdata[1]>>)
  /\ UNCHANGED <<waddr, mem, rom, div, calls>>

PWho(b) ==
  /\ Accepts(b, P_WHO) /\ Send(P_IDENT, Ident)
  /\ UNCHANGED <<waddr, mem, rom, div, calls>>

\* p_speed up to its loop.
PSpeed(b) ==
  /\ Accepts(b, P_SPEED)
  /\ IF Supported(Divider(rdata[1]))
     THEN SendAck(A_ACK) /\ rom' = "speed"
     ELSE SendAck(A_NSPEED) /\ UNCHANGED rom
  /\ UNCHANGED <<waddr, mem, div, calls>>

PWrite(b) ==
  /\ Accepts(b, P_WRITE) /\ waddr' = rdata[1] /\ SendAck(A_ACK)
  /\ UNCHANGED <<mem, rom, div, calls>>

\* What a read of n bytes from address a returns.
Contents(a, n) ==
  [i \in 1 .. n |-> IF a + i - 1 \in Ram THEN mem[a + i - 1] ELSE 0]

PRead(b) ==
  /\ Accepts(b, P_READ) /\ Send(P_RDATA, Contents(rdata[1], rdata[2]))
  /\ UNCHANGED <<waddr, mem, rom, div, calls>>

\* The bytes are in memory already.
PWdata(b) ==
  /\ Accepts(b, P_WDATA) /\ SendAck(A_ACK)
  /\ UNCHANGED <<waddr, mem, rom, div, calls>>

PJump(b) ==
  /\ Accepts(b, P_JUMP) /\ SendAck(A_ACK) /\ rom' = "program"
  /\ UNCHANGED <<waddr, mem, div, calls>>

\* The function is called after the answer, and returns.
PCall(b) ==
  /\ Accepts(b, P_CALL) /\ SendAck(A_ACK) /\ calls' = Append(calls, rdata[1])
  /\ UNCHANGED <<waddr, mem, rom, div>>

\* main and handle_rx: a byte from the receive FIFO.
RomRx(b) ==
  \/ RomCollect(b) \/ Refuse(b)
  \/ PPing(b) \/ PWho(b) \/ PSpeed(b) \/ PWrite(b) \/ PRead(b) \/ PWdata(b)
  \/ PJump(b) \/ PCall(b)

----------------------------------------------------------------------------
(* What it does by itself.                                                 *)

\* p_speed after its loop: nothing received, and the transmitter not busy.  It
\* is not busy between two bytes either, whether the FIFO holds bytes or not.
SetDivider ==
  /\ rom = "speed" /\ up = <<>>
  /\ div' = Divider(rdata[1]) /\ rom' = "rom"
  /\ UNCHANGED <<rrx, rdata, waddr, mem, calls, down>>

\* p_jump after a program that returns: _start clears the globals.
Restart ==
  /\ rom = "program" /\ rdata[1] \in Returning
  /\ rom' = "rom" /\ rrx' = Idle /\ rdata' = NoData(RomMax) /\ waddr' = 0
  /\ UNCHANGED <<mem, div, calls, down>>

=============================================================================
