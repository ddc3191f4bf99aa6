--------------------------- MODULE BoaProgrammer ---------------------------
(***************************************************************************)
(* The programmer's side of the boot protocol:                             *)
(* tools/programmer/src/main.c.  A session is a sequence of invocations of *)
(* the tool; each carries out one command, which is a list of requests.    *)
(* await_packet sends a request, reads the answer byte by byte, and tries  *)
(* again a bounded number of times; what comes next depends on the caller. *)
(***************************************************************************)
EXTENDS BoaPacket

CONSTANTS
  RetryCount,   \* RETRY_COUNT (3 in the code).
  HostMax,      \* sizeof(data) (65536 bytes in the code).
  BlockSize,    \* BLOCK_SIZE (1024 in the code).
  Nonce,        \* What a ping carries.
  InitSpeed,    \* The baud rate the tool starts with.
  Sessions      \* The sessions considered: sequences of commands.

Names == {"upload", "run", "ping", "id", "jump", "call", "read", "write"}

\* A command as main parses it; one that writes has something to write.
Commands ==
  {c \in [name : Names,
          addr : 0 .. Base - 1, wdata : Seq(0 .. Base - 1), length : 0 .. Base - 1,
          speed : 0 .. Base - 1] :
     /\ c.addr + Len(c.wdata) <= Base - 1
     /\ c.name \in {"upload", "write"} => c.wdata # <<>>}

ASSUME ProgrammerAssumption ==
  /\ RetryCount \in Nat /\ InitSpeed \in Nat /\ BlockSize \in Nat \ {0}
  /\ HostMax \in Nat /\ HostMax >= AckSize /\ Nonce \in 0 .. Base - 1
  /\ \A s \in Sessions : s \in Seq(Commands) /\ s # <<>>

VARIABLES
  session,   \* The commands still to run, the present one first.
  todo,      \* The requests of the present command, the present one first.
  try,       \* Tries of the present request so far.
  awaiting,  \* awaiting_packet: the request is sent, and no answer received.
  prx,       \* The parser: rx_type, rx_len, xsum, header.
  pdata,     \* data.
  hspeed,    \* The baud rate of the tool's port.
  result,    \* "busy", or what the tool exits with: "ok" or "failed".
  switched   \* History: what f_change_speed returned: "yes", "no", "unknown".

programmer == <<session, todo, try, awaiting, prx, pdata, hspeed, result, switched>>

----------------------------------------------------------------------------
(* The commands.                                                           *)

\* A request, and what follows if it fails: the next `drops' requests are left
\* out, or the command ends.
Request(type, data, drops, fatal, blk) ==
  [type |-> type, data |-> data, drops |-> drops, fatal |-> fatal, blk |-> blk]

Smaller(m, n) == IF m < n THEN m ELSE n

\* Fault for the checks: the last, shorter block is forgotten.
BlockCountDown(length) == length \div BlockSize
\* How often the loop of write_mem runs.
BlockCount(length) == (length + BlockSize - 1) \div BlockSize

\* write_mem_block: a P_WDATA packet only follows a P_WRITE that succeeded.
BlockRequests(addr, wdata, blk) ==
  <<Request(P_WRITE, <<addr, Len(wdata)>>, 1, FALSE, blk),
    Request(P_WDATA, wdata, 0, FALSE, blk)>>

\* write_mem, which goes on whatever becomes of a block.
WriteMem(addr, wdata) ==
  LET from(blk) == (blk - 1) * BlockSize
      block(blk) == SubSeq(wdata, from(blk) + 1, Smaller(from(blk) + BlockSize, Len(wdata)))
      half(i) == (i + 1) \div 2
  IN [i \in 1 .. 2 * BlockCount(Len(wdata)) |->
        BlockRequests(addr + from(half(i)), block(half(i)), half(i))[2 - (i % 2)]]

\* f_change_speed, and the ping that ends it; main ignores what it returns.
ChangeSpeed(speed) ==
  <<Request(P_SPEED, <<speed>>, 1, FALSE, 0), Request(P_PING, <<Nonce>>, 0, FALSE, 0)>>

\* f_upload_elf of a file with one segment, which begins at the entry point.
UploadElf(c, run) ==
  WriteMem(c.addr, c.wdata)
    \o IF run THEN <<Request(P_JUMP, <<c.addr>>, 0, TRUE, BlockCount(Len(c.wdata)))>> ELSE <<>>

\* A command of one request, which fails if that does.
Only(type, data) == <<Request(type, data, 0, TRUE, 0)>>
Ping == Only(P_PING, <<Nonce>>)
GetId == Only(P_WHO, <<>>)
JumpOrCall(c, is_call) == Only(IF is_call THEN P_CALL ELSE P_JUMP, <<c.addr>>)
ReadRange(c) == Only(P_READ, <<c.addr, c.length>>)
\* f_write, with the data it has prepared.
WriteRange(c) == WriteMem(c.addr, c.wdata)

\* main after the speed.
Requests(c) ==
  CASE c.name = "upload" -> UploadElf(c, FALSE)
    [] c.name = "run" -> UploadElf(c, TRUE)
    [] c.name = "ping" -> Ping
    [] c.name = "id" -> GetId
    [] c.name = "jump" -> JumpOrCall(c, FALSE)
    [] c.name = "call" -> JumpOrCall(c, TRUE)
    [] c.name = "read" -> ReadRange(c)
    [] c.name = "write" -> WriteRange(c)

\* A new process, at the default speed; main changes it first if it is to.
Begin(c) ==
  [todo |-> (IF c.speed > 0 THEN ChangeSpeed(c.speed) ELSE <<>>) \o Requests(c),
   pdata |-> [i \in 1 .. HostMax |-> 0]]

ProgrammerInit ==
  /\ session \in Sessions
  /\ todo = Begin(Head(session)).todo /\ pdata = Begin(Head(session)).pdata
  /\ prx = Idle /\ try = 0 /\ awaiting = FALSE /\ hspeed = InitSpeed
  /\ result = "busy" /\ switched = "unknown"

\* The user runs the tool again.  Bytes that nobody read are kept by the
\* operating system or not.
NextCommand ==
  /\ result # "busy" /\ Len(session) > 1
  /\ session' = Tail(session)
  /\ todo' = Begin(Head(session')).todo /\ pdata' = Begin(Head(session')).pdata
  /\ prx' = Idle /\ try' = 0 /\ awaiting' = FALSE /\ hspeed' = InitSpeed
  /\ result' = "busy" /\ switched' = "unknown"
  /\ down' \in {down, <<>>} /\ UNCHANGED up

----------------------------------------------------------------------------
(* One request.                                                            *)

Present == Head(todo)

\* await_packet: the request is sent, for the first time or again.
SendRequest ==
  /\ result = "busy" /\ ~awaiting /\ try <= RetryCount
  /\ up' = up \o OnLine(Packet(Present.type, Present.data))
  /\ awaiting' = TRUE
  /\ UNCHANGED <<session, todo, try, prx, pdata, hspeed, result, switched, down>>

ExpectAck(status) ==
  prx.header.type = P_ACK /\ prx.header.length = AckSize /\ pdata[1] = status

\* What the caller of await_packet asks of the packet it received.
Succeeds ==
  CASE Present.type = P_PING -> SubSeq(pdata, 1, 1) = Present.data
    [] Present.type = P_WHO -> prx.header.type = P_IDENT /\ prx.header.length # 0
    [] Present.type = P_READ -> prx.header.type = P_RDATA
    [] OTHER -> ExpectAck(A_ACK)

\* The next request, or the end of the command.
GoOn(rest, ends) ==
  /\ todo' = rest /\ try' = 0
  /\ result' \in IF rest # <<>> THEN {"busy"} ELSE ends

\* A request of f_change_speed, whose failure main ignores.
OfSpeed == Present.type \in {P_SPEED, P_PING} /\ ~Present.fatal

\* Fault for the checks: f_change_speed is satisfied with the answer to P_SPEED.
ConfirmsEarly == OfSpeed
\* The last request of f_change_speed: the ping.
Confirms == OfSpeed /\ Present.type = P_PING

\* f_change_speed sets its own speed after the answer to P_SPEED, and returns
\* what the ping returned.  f_get_id returns no value when it succeeds.
Success ==
  /\ GoOn(Tail(todo), IF Present.type = P_WHO THEN {"ok", "failed"} ELSE {"ok"})
  /\ hspeed' = IF Present.type = P_SPEED THEN Present.data[1] ELSE hspeed
  /\ switched' = IF Confirms THEN "yes" ELSE switched

Failure ==
  /\ IF Present.fatal THEN GoOn(<<>>, {"failed"})
     ELSE GoOn(SubSeq(todo, 2 + Present.drops, Len(todo)), {"ok"})
  /\ switched' = IF OfSpeed THEN "no" ELSE switched
  /\ UNCHANGED hspeed

\* Fault for the checks: a try is allowed that is never made.
NoTriesLeftLate == try > RetryCount + 1
NoTriesLeft == try > RetryCount

\* await_packet gives up.
GiveUpRequest ==
  /\ result = "busy" /\ ~awaiting /\ NoTriesLeft
  /\ Failure
  /\ UNCHANGED <<session, awaiting, prx, pdata, up, down>>

\* Fault for the checks: the checksum is not compared.
SumWrongNever(b) == FALSE
SumWrong(b) == prx.xsum # b

\* handle_xsum, handle_ncap, and an answer that asks for a retry.
Again(b) ==
  \/ SumWrong(b)
  \/ prx.header.length > HostMax
  \/ ExpectAck(A_XSUM)

\* handle_rx up to the checksum.
HostCollect(b) ==
  /\ ~Complete(prx)
  /\ prx' = Advance(prx, b, HostMax)
  /\ pdata' = IF prx.type = "DATA" THEN [pdata EXCEPT ![prx.len + 1] = b] ELSE pdata
  /\ UNCHANGED <<session, todo, try, awaiting, hspeed, result, switched>>

\* handle_rx in RX_XSUM, and await_packet and its caller with the answer.
HostAnswer(b) ==
  /\ Complete(prx)
  /\ prx' = Advance(prx, b, HostMax)
  /\ awaiting' = FALSE
  /\ IF Again(b) THEN try' = try + 1 /\ UNCHANGED <<todo, hspeed, result, switched>>
     ELSE IF Succeeds THEN Success ELSE Failure
  /\ UNCHANGED <<session, pdata>>

\* The loop of await_packet reads a byte.
HostRx(b) == awaiting /\ (HostCollect(b) \/ HostAnswer(b))

=============================================================================
