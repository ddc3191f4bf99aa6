------------------------------ MODULE BoaPacket ------------------------------
(***************************************************************************)
(* The packets of prog/bootloader/include/protocol.h, byte by byte, and    *)
(* the parser that handle_rx is on both sides of the serial line.          *)
(*                                                                         *)
(* A 32-bit word of a header or of a packet's data is one byte here, with  *)
(* the value it has in the code, so that a header is two bytes long.       *)
(***************************************************************************)
EXTENDS Integers, Sequences

VARIABLES
  up,   \* The line to the computer, and its receive FIFO.
  down  \* The computer's transmit FIFO, and the line to the programmer.

Base == 256  \* Values of a byte.
STX == 2     \* The byte a packet starts with.

P_PING == 0
P_PONG == 1
P_ACK == 2
P_WHO == 3
P_IDENT == 4
P_SPEED == 5
P_WRITE == 16
P_READ == 17
P_WDATA == 18
P_RDATA == 19
P_JUMP == 32
P_CALL == 33

A_ACK == 0
A_XSUM == 2
A_NCAP == 3
A_NSPEED == 8

\* The length of the data of each type of packet with a structure of its own.
SizeOf ==
  [type \in {P_PING, P_WHO, P_SPEED, P_WRITE, P_READ, P_JUMP, P_CALL} |->
     CASE type = P_WHO -> 0
       [] type \in {P_WRITE, P_READ} -> 2
       [] type \in {P_PING, P_SPEED, P_JUMP, P_CALL} -> 1]
AckSize == 2

----------------------------------------------------------------------------
(* Sending.                                                                *)

\* The sum of the first n bytes of s.
SumTo(s, n) ==
  LET sum[i \in 0 .. n] == IF i = 0 THEN 0 ELSE (sum[i - 1] + s[i]) % Base
  IN sum[n]

\* send_packet1, send_packet: start byte, header, data, additive checksum.
Packet(type, data) ==
  LET front == <<STX, type, Len(data)>> \o data
  IN Append(front, SumTo(front, Len(front)))

\* What is on a line: bytes, each with the part of its packet it was sent as,
\* which neither side sees.
OnLine(p) ==
  LET n == Len(p)
      part(i) == CASE i = 1 -> "start" [] i = 2 -> "type" [] i = 3 -> "length"
                   [] i = n -> "xsum" [] OTHER -> "data"
  IN [i \in 1 .. n |-> [b |-> p[i], part |-> part(i)]]

----------------------------------------------------------------------------
(* Receiving: the globals rx_type, rx_len, xsum and header.                *)

Idle == [type |-> "NONE", len |-> 0, xsum |-> 0, header |-> [type |-> 0, length |-> 0]]

\* RX_NONE: anything but a start byte is skipped.
Start(rx, b) ==
  IF b = STX THEN [rx EXCEPT !.xsum = b, !.len = 0, !.type = "PHDR"]
  ELSE [rx EXCEPT !.xsum = b]

\* Fault for the checks: data are expected of every packet.
AfterLengthAlways(b, max) == IF b > max THEN "NCAP" ELSE "DATA"
\* After the length the data follow, if there are any; data of more than max
\* bytes are only counted.
AfterLength(b, max) == IF b = 0 THEN "XSUM" ELSE IF b > max THEN "NCAP" ELSE "DATA"

\* RX_PHDR.
TakeHeader(rx, b, max) ==
  LET sum == (rx.xsum + b) % Base
  IN IF rx.len = 0
     THEN [rx EXCEPT !.header.type = b, !.len = 1, !.xsum = sum]
     ELSE [rx EXCEPT !.header.length = b, !.len = 0, !.xsum = sum,
                     !.type = AfterLength(b, max)]

\* RX_DATA and RX_NCAP.
TakeData(rx, b) ==
  [rx EXCEPT !.xsum = (rx.xsum + b) % Base, !.len = rx.len + 1,
             !.type = IF rx.len + 1 = rx.header.length THEN "XSUM" ELSE rx.type]

\* RX_XSUM: the packet is complete.
Complete(rx) == rx.type = "XSUM"

\* handle_rx without what it does with the data and with complete packets.
Advance(rx, b, max) ==
  CASE rx.type = "NONE" -> Start(rx, b)
    [] rx.type = "PHDR" -> TakeHeader(rx, b, max)
    [] rx.type \in {"DATA", "NCAP"} -> TakeData(rx, b)
    [] rx.type = "XSUM" -> [rx EXCEPT !.type = "NONE"]
=============================================================================
