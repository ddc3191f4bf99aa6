------------------------------ MODULE BoaLink ------------------------------
(***************************************************************************)
(* Programmer and computer at the two ends of a serial line that disturbs  *)
(* bytes.  One step is one byte received by one side, or what a side does  *)
(* by itself.                                                              *)
(*                                                                         *)
(* A byte sent at one speed and received at another arrives as one of      *)
(* Noise, or not at all.  A disturbance changes one byte of a packet, of   *)
(* one of the parts in Hit of the command; two changes to one packet could *)
(* cancel out in its additive checksum.                                    *)
(***************************************************************************)
EXTENDS BoaRom, BoaProgrammer

CONSTANTS
  Hit,        \* The parts of a packet the line may disturb, by command name.
  Noise,      \* What a disturbed byte becomes.
  MaxFaults,  \* Bound on the number of disturbances per command.
  Upload      \* The `run' command that BoaBoot describes.

ASSUME LinkAssumption ==
  /\ Hit \in [Names -> SUBSET {"type", "length", "data", "xsum"}]
  /\ Noise \subseteq 0 .. Base - 1 /\ Noise # {} /\ MaxFaults \in Nat

VARIABLES
  faults,    \* Disturbances since the command began.
  upHit,     \* What was disturbed in the last request sent, or "none".
  downHit,   \* The same for the last answer.
  \* History.
  acked,     \* Blocks whose P_WDATA the programmer saw acknowledged.
  said,      \* What the computer found of the last packet's checksum.
  handled,   \* Memory after the last complete packet.
  mistaken,  \* A packet has written to memory as another type.
  misframed, \* A length has been disturbed.
  started    \* The computer has jumped to a program.

line == <<faults, upHit, downHit>>
history == <<acked, said, handled, mistaken, misframed, started>>
vars == <<up, down, computer, programmer, line, history>>

Init ==
  /\ up = <<>> /\ down = <<>>
  /\ RomInit /\ ProgrammerInit
  /\ faults = 0 /\ upHit = "none" /\ downHit = "none"
  /\ acked = {} /\ said = "A_ACK" /\ handled = mem /\ mistaken = FALSE
  /\ misframed = FALSE /\ started = FALSE

----------------------------------------------------------------------------
(* The two sides.                                                          *)

\* The computer polls faster than the line carries a byte: it has left the
\* loop of p_speed by the time its whole answer has been received.
LoopLeft == ~(rom = "speed" /\ down = <<>>)

ProgrammerSends ==
  /\ SendRequest /\ LoopLeft
  /\ upHit' = "none" /\ UNCHANGED <<computer, faults, downHit, history>>

ProgrammerGivesUp == GiveUpRequest /\ UNCHANGED <<computer, line, history>>

ProgrammerStarts ==
  /\ NextCommand /\ LoopLeft
  /\ faults' = 0 /\ upHit' = "none" /\ downHit' = "none"
  /\ UNCHANGED <<computer, history>>

SameSpeed == Divider(hspeed) = div

\* What may be received of byte b.
Received(b) == IF SameSpeed THEN {b} ELSE Noise

ProgrammerReceives ==
  /\ down # <<>> /\ awaiting
  /\ down' = Tail(down) /\ \E b \in Received(Head(down).b) : HostRx(b)
  /\ acked' = IF Complete(prx) /\ Present.type = P_WDATA /\ try' = 0 /\ ExpectAck(A_ACK)
              THEN acked \cup {Present.blk} ELSE acked
  /\ UNCHANGED <<up, computer, line, said, handled, mistaken, misframed, started>>

\* A packet on its way to memory that was sent as another.
Mistaken ==
  rrx.header.type = P_WDATA /\ Present.type # P_WDATA /\ waddr # 0

ComputerReceives ==
  /\ up # <<>>
  /\ up' = Tail(up)
  /\ \E b \in Received(Head(up).b) :
       /\ RomRx(b)
       /\ IF Complete(rrx)
          THEN /\ said' = IF XsumRight(b) THEN "A_ACK" ELSE "A_XSUM"
               /\ handled' = mem' /\ mistaken' = (mistaken \/ Mistaken)
               /\ downHit' = "none"
          ELSE UNCHANGED <<said, handled, mistaken, downHit>>
  /\ started' = (started \/ rom' = "program")
  /\ UNCHANGED <<programmer, faults, upHit, acked, misframed>>

ComputerSetsDivider == SetDivider /\ UNCHANGED <<up, programmer, line, history>>

\* What the program did not read is still in the receive FIFO, or was read.
ComputerRestarts ==
  /\ Restart /\ up' \in {up, <<>>}
  /\ UNCHANGED <<programmer, line, history>>

----------------------------------------------------------------------------
(* The line.                                                               *)

Command == Head(session)
Other(bytes, n) == <<[Head(bytes) EXCEPT !.b = n]>> \o Tail(bytes)
Open(bytes, hit) == bytes # <<>> /\ hit = "none" /\ Head(bytes).part \in Hit[Command.name]

\* The byte that arrives next is disturbed.
DisturbUp(n) ==
  /\ Open(up, upHit) /\ n # Head(up).b
  /\ up' = Other(up, n) /\ upHit' = Head(up).part /\ UNCHANGED <<down, downHit>>

DisturbDown(n) ==
  /\ Open(down, downHit) /\ n # Head(down).b
  /\ down' = Other(down, n) /\ downHit' = Head(down).part /\ UNCHANGED <<up, upHit>>

Disturb ==
  /\ faults < MaxFaults /\ faults' = faults + 1
  /\ \E n \in Noise : DisturbUp(n) \/ DisturbDown(n)
  /\ misframed' = (misframed \/ "length" \in {upHit', downHit'})
  /\ UNCHANGED <<computer, programmer, acked, said, handled, mistaken, started>>

\* A byte sent at another speed is not recognised as one.
Unrecognised ==
  /\ ~SameSpeed
  /\ \/ up # <<>> /\ up' = Tail(up) /\ UNCHANGED down
     \/ down # <<>> /\ down' = Tail(down) /\ UNCHANGED up
  /\ UNCHANGED <<computer, programmer, line, history>>

Programmer == ProgrammerSends \/ ProgrammerGivesUp \/ ProgrammerStarts \/ ProgrammerReceives
Computer == ComputerReceives \/ ComputerSetsDivider \/ ComputerRestarts
Next == Programmer \/ Computer \/ Disturb \/ Unrecognised
Spec == Init /\ [][Next]_vars

\* Neither side stops: both poll.
FairSpec == Spec /\ WF_vars(Programmer) /\ WF_vars(Computer)

----------------------------------------------------------------------------
(* Properties.                                                             *)

Ended(names) == result = "ok" /\ Command.name \in names

\* The length bytes of memory from address addr.
InMemory(addr, length) == [i \in 1 .. length |-> mem[addr + i - 1]]

\* A `read' that succeeds shows what is in memory, whatever was damaged on the
\* way and however often it was tried; more than data holds is never read.
ReadsMemory ==
  Ended({"read"}) =>
    /\ Command.length <= HostMax
    /\ SubSeq(pdata, 1, Command.length) = InMemory(Command.addr, Command.length)

\* After an `upload', a `write' or the part of a `run' before its jump, memory
\* holds the data.  These commands succeed whatever becomes of a block, so this
\* takes so few disturbances that no block can have used up its tries.
WritesMemory ==
  Ended({"upload", "write", "run"}) /\ faults <= RetryCount /\ ~mistaken =>
    InMemory(Command.addr, Len(Command.wdata)) = Command.wdata

\* A `call' calls the function it was given and no other; once, and again only
\* for an answer that was damaged.
CallsAsAsked ==
  Command.name = "call" =>
    /\ \A i \in 1 .. Len(calls) : calls[i] = Command.addr
    /\ Len(calls) <= 1 + faults /\ (result = "ok" => Len(calls) > 0)

\* After f_change_speed has returned true both sides use the new speed, although
\* the computer may change its own with its answer still on the way, or late.
SpeedsAgree == switched = "yes" => SameSpeed /\ hspeed = Command.speed

\* The programmer waits for ever: there is no timeout, and the computer has
\* nothing to answer, is in a program that does not return, or in the loop of
\* p_speed with a byte received.
Hung ==
  /\ awaiting /\ down = <<>>
  /\ CASE rom = "rom" -> up = <<>>
       [] rom = "speed" -> up # <<>>
       [] rom = "program" -> rdata[1] \notin Returning

\* As long as what frames a packet arrives, the programmer waits for ever only
\* after it has started a program or for a computer at another speed.
HangsOnlyAlone == Hung => started \/ ~SameSpeed \/ misframed

\* Every session comes to its end, or hangs.
SessionEnds == <>(Hung \/ (result # "busy" /\ Len(session) = 1))

----------------------------------------------------------------------------
(* The upload, packet by packet.                                           *)

Uploading == session = <<Upload>>
Blocks == 1 .. BlockCount(Len(Upload.wdata))
AddressOf(blk) == Upload.addr + (blk - 1) * BlockSize
DataOf(blk) == WriteMem(Upload.addr, Upload.wdata)[2 * blk].data

NameOf(type) ==
  CASE type = P_WRITE -> "P_WRITE" [] type = P_WDATA -> "P_WDATA" [] type = P_JUMP -> "P_JUMP"

FaultOf(hit) == IF hit = "xsum" THEN "data" ELSE hit

BlockState(blk) ==
  LET now == [i \in 1 .. Len(DataOf(blk)) |-> handled[AddressOf(blk) + i - 1]]
  IN CASE now = DataOf(blk) -> "image"
       [] \A i \in DOMAIN now : now[i] = 0 -> "old"
       [] OTHER -> "garbage"

\* The state of BoaBoot that a state of an upload stands for; other sessions
\* stand for its initial state.
BootStep ==
  IF ~Uploading THEN "P_WRITE" ELSE IF result = "busy" THEN NameOf(Present.type)
  ELSE IF result = "ok" THEN "done" ELSE "failed"
BootBlk ==
  IF ~Uploading THEN 1 ELSE IF result = "busy" THEN Present.blk
  ELSE BlockCount(Len(Upload.wdata))
BootRequest ==
  IF Uploading /\ up # <<>>
  THEN [type |-> NameOf(Present.type), blk |-> Present.blk, fault |-> FaultOf(upHit)]
  ELSE [type |-> "none"]
BootAnswer ==
  IF Uploading /\ down # <<>>
  THEN [type |-> said, for |-> NameOf(Present.type), blk |-> Present.blk,
        intact |-> downHit = "none"]
  ELSE [type |-> "none"]
BootWaddr ==
  IF Uploading /\ waddr # 0 THEN CHOOSE blk \in Blocks : AddressOf(blk) = waddr ELSE 0
BootMem == [blk \in Blocks |-> IF Uploading THEN BlockState(blk) ELSE "old"]

Boot ==
  INSTANCE BoaBoot WITH
    NBlocks <- BlockCount(Len(Upload.wdata)), Faults <- {"data", "type", "reply"},
    step <- BootStep, blk <- BootBlk,
    try <- IF Uploading THEN try ELSE 0,
    awaiting <- Uploading /\ awaiting,
    request <- BootRequest, answer <- BootAnswer, waddr <- BootWaddr, mem <- BootMem,
    jumped <- Uploading /\ rom = "program",
    acked <- IF Uploading THEN acked ELSE {},
    faults <- IF Uploading THEN faults ELSE 0,
    mistaken <- Uploading /\ mistaken,
    misframed <- FALSE

\* The upload of packets of bytes through two parsers is the upload of whole
\* messages that BoaBoot describes, with all that is shown there.
IsBoot == Boot!Spec
=============================================================================
