------------------------------ MODULE BoaBoot ------------------------------
(***************************************************************************)
(* Uploading a program: the `run' command of tools/programmer/src/main.c   *)
(* and the boot ROM prog/bootloader/src/main.c, with the serial line       *)
(* between them.  The programmer writes the image block by block, a        *)
(* P_WRITE and a P_WDATA packet for each, and ends with a P_JUMP.          *)
(*                                                                         *)
(* A packet is one message.  A disturbance of the line changes one byte of *)
(* a packet.  The additive checksum detects it, unless the byte frames the *)
(* packet: its start byte or a byte of its length.  The packet then ends   *)
(* too early, too late or not at all, and what is left of it may be taken  *)
(* for other packets.  From there on any of the packets may go unnoticed,  *)
(* and packets nobody has sent may be carried out and answered.            *)
(***************************************************************************)
EXTENDS Integers

CONSTANTS
  NBlocks,     \* Number of blocks of the image; they do not overlap.
  RetryCount,  \* RETRY_COUNT (3 in the code).
  Faults,      \* What the line may disturb, of "data", "type", "reply", "frame".
  MaxFaults    \* Bound on the number of disturbances.

ASSUME BootAssumption ==
  /\ NBlocks \in Nat \ {0} /\ RetryCount \in Nat /\ MaxFaults \in Nat
  /\ Faults \subseteq {"data", "type", "reply", "frame"}

Block == 1 .. NBlocks
None == [type |-> "none"]

VARIABLES
  step,      \* What the programmer is at: a packet type, "done" or "failed".
  blk,       \* The block it is at.
  try,       \* Tries of the packet so far.
  awaiting,  \* awaiting_packet: the packet is sent, and no answer received.
  request,   \* The packet on the line to the computer, or None.
  answer,    \* The packet on the line to the programmer, or None.
  waddr,     \* The block the computer writes to, 0 before the first P_WRITE.
  mem,       \* Memory: what is in the place of each block.
  jumped,    \* The computer has left the boot ROM.
  acked,     \* History: the blocks whose P_WDATA the programmer saw acknowledged.
  faults,    \* Disturbances so far.
  mistaken,  \* History: a packet has written to memory as another type.
  misframed  \* History: a start byte or a length has been disturbed.

prog == <<step, blk, try, awaiting, acked>>
boot == <<waddr, mem, jumped>>
vars == <<prog, request, answer, boot, faults, mistaken, misframed>>

Init ==
  /\ step = "P_WRITE" /\ blk = 1 /\ try = 0 /\ awaiting = FALSE
  /\ request = None /\ answer = None
  /\ waddr = 0 /\ mem = [b \in Block |-> "old"] /\ jumped = FALSE
  /\ acked = {} /\ faults = 0 /\ mistaken = FALSE
  /\ misframed = FALSE

----------------------------------------------------------------------------
(* The programmer.                                                         *)

\* Fault for the checks: a packet is sent again before it is answered.
SendsAgain == step \notin {"done", "failed"}
Sends == step \notin {"done", "failed"} /\ ~awaiting

\* await_packet: send the packet, the first time or again.
Send ==
  /\ Sends /\ try <= RetryCount
  /\ request' = [type |-> step, blk |-> blk, fault |-> "none"]
  /\ awaiting' = TRUE
  /\ UNCHANGED <<step, blk, try, acked, answer, boot, faults, mistaken, misframed>>

\* Fault for the checks: the last block is left out.
NextBlockShort ==
  IF blk < NBlocks - 1 THEN blk' = blk + 1 /\ step' = "P_WRITE"
  ELSE step' = "P_JUMP" /\ UNCHANGED blk

\* The next block, or the jump after the last one.
NextBlock ==
  IF blk < NBlocks THEN blk' = blk + 1 /\ step' = "P_WRITE"
  ELSE step' = "P_JUMP" /\ UNCHANGED blk

\* write_mem_block and f_upload_elf after await_packet and expect_ack(A_ACK)
\* succeeded.
Succeed ==
  /\ try' = 0
  /\ acked' = IF step = "P_WDATA" THEN acked \cup {blk} ELSE acked
  /\ \/ step = "P_WRITE" /\ step' = "P_WDATA" /\ UNCHANGED blk
     \/ step = "P_WDATA" /\ NextBlock
     \/ step = "P_JUMP" /\ step' = "done" /\ UNCHANGED blk

\* A positive answer with a good checksum.
Accepts(a) == a.intact /\ a.type = "A_ACK"

\* handle_packet, handle_xsum, and what await_packet makes of it: an answer
\* that is broken, or says that the request was, leads to another try.
Receive ==
  /\ awaiting /\ answer # None
  /\ answer' = None /\ awaiting' = FALSE
  /\ IF Accepts(answer) THEN Succeed
     ELSE try' = try + 1 /\ UNCHANGED <<step, blk, acked>>
  /\ UNCHANGED <<request, boot, faults, mistaken, misframed>>

\* Fault for the checks: the limits of await_packet's two loops disagree.
GiveUpLate ==
  /\ Sends /\ try > RetryCount + 1
  /\ try' = 0
  /\ IF step = "P_JUMP" THEN step' = "failed" /\ UNCHANGED blk ELSE NextBlock
  /\ UNCHANGED <<awaiting, acked, request, answer, boot, faults, mistaken, misframed>>

\* await_packet returns false.  write_mem goes on with the next block whatever
\* write_mem_block returned; only a P_JUMP that fails ends the upload.
GiveUp ==
  /\ Sends /\ try > RetryCount
  /\ try' = 0
  /\ IF step = "P_JUMP" THEN step' = "failed" /\ UNCHANGED blk ELSE NextBlock
  /\ UNCHANGED <<awaiting, acked, request, answer, boot, faults, mistaken, misframed>>

----------------------------------------------------------------------------
(* The computer.                                                           *)

\* Address 0 is none of a block.
Put(what) == mem' = [mem EXCEPT ![waddr] = what]
Answer(type) == answer' = [type |-> type, for |-> request.type, blk |-> request.blk,
                           intact |-> TRUE]

\* handle_rx up to the switch on the packet's type: p_write, p_wdata, p_jump.
Intact ==
  /\ request.fault = "none" /\ ~jumped
  /\ \/ request.type = "P_WRITE" /\ waddr' = request.blk /\ UNCHANGED <<mem, jumped>>
     \/ /\ request.type = "P_WDATA"
        /\ Put(IF waddr = request.blk THEN "image" ELSE "garbage")
        /\ UNCHANGED <<waddr, jumped>>
     \/ request.type = "P_JUMP" /\ jumped' = TRUE /\ UNCHANGED <<waddr, mem>>
  /\ Answer("A_ACK")

\* Fault for the checks: a P_WDATA packet is answered before its checksum.
DamagedAccepted ==
  /\ request.fault = "data" /\ ~jumped
  /\ IF request.type = "P_WDATA" /\ waddr # 0 THEN Put("garbage") ELSE UNCHANGED mem
  /\ Answer("A_ACK")
  /\ UNCHANGED <<waddr, jumped>>

\* A damaged byte of the data: the bytes of a P_WDATA packet are in memory by
\* the time its checksum is seen to be wrong.  The checksum may be the byte.
Damaged ==
  /\ request.fault = "data" /\ ~jumped
  /\ IF request.type = "P_WDATA" /\ waddr # 0
     THEN \E what \in {"image", "garbage"} : Put(what) ELSE UNCHANGED mem
  /\ Answer("A_XSUM")
  /\ UNCHANGED <<waddr, jumped>>

\* A damaged type: a packet may pass for a P_WDATA packet until its checksum,
\* and put into memory what is there or something else.
Mistaken ==
  /\ request.fault = "type" /\ ~jumped
  /\ \/ UNCHANGED <<mem, mistaken>>
     \/ /\ request.type # "P_WDATA" /\ waddr # 0 /\ mistaken' = TRUE
        /\ \E what \in {"image", "garbage"} : Put(what)
  /\ Answer("A_XSUM")
  /\ UNCHANGED <<waddr, jumped>>

\* The program that runs after the jump does not answer.
Ignored == jumped /\ UNCHANGED <<answer, boot>>

React ==
  /\ request # None
  /\ request' = None
  /\ \/ Mistaken
     \/ (Intact \/ Damaged \/ Ignored) /\ UNCHANGED mistaken
  /\ UNCHANGED <<prog, faults, misframed>>

----------------------------------------------------------------------------
(* The line.                                                               *)

Damage(kind) ==
  /\ request # None /\ request.fault = "none"
  /\ request' = [request EXCEPT !.fault = kind] /\ UNCHANGED <<answer, misframed>>

DamageReply ==
  /\ answer # None /\ answer.intact
  /\ answer' = [answer EXCEPT !.intact = FALSE] /\ UNCHANGED <<request, misframed>>

\* The start byte or the length of a packet or of an answer.
Misframe ==
  /\ request # None \/ answer # None
  /\ misframed' = TRUE /\ UNCHANGED <<request, answer>>

Disturb ==
  /\ faults < MaxFaults /\ faults' = faults + 1
  /\ \/ \E kind \in Faults \cap {"data", "type"} : Damage(kind)
     \/ "reply" \in Faults /\ DamageReply
     \/ "frame" \in Faults /\ Misframe
  /\ UNCHANGED <<prog, boot, mistaken>>

\* Either parser has taken the packet for a part of another, or skipped it.
Swallowed ==
  \/ request # None /\ request' = None /\ UNCHANGED answer
  \/ answer # None /\ answer' = None /\ UNCHANGED request

\* handle_rx has found a packet in what was left of others: an answer to it
\* belongs to none of the programmer's packets.  Data that are taken for a
\* P_WDATA packet may go anywhere.
Stray ==
  /\ ~jumped /\ answer = None
  /\ \/ UNCHANGED boot
     \/ waddr' \in Block /\ UNCHANGED <<mem, jumped>>
     \/ /\ \E hit \in SUBSET Block :
             mem' = [b \in Block |-> IF b \in hit THEN "garbage" ELSE mem[b]]
        /\ UNCHANGED <<waddr, jumped>>
     \/ jumped' = TRUE /\ UNCHANGED <<waddr, mem>>
  /\ \E type \in {"A_ACK", "A_XSUM"} :
       answer' = [type |-> type, for |-> "none", blk |-> blk, intact |-> TRUE]
  /\ request' \in {request, None}

\* What may happen once a packet was not framed as it was sent.
Astray ==
  /\ misframed
  /\ (Swallowed /\ UNCHANGED boot) \/ Stray
  /\ UNCHANGED <<prog, faults, mistaken, misframed>>

Next == Send \/ Receive \/ GiveUp \/ React \/ Disturb \/ Astray
Spec == Init /\ [][Next]_vars

\* Neither side stops, and the line delivers what is sent.
FairSpec == Spec /\ WF_vars(Send \/ Receive \/ GiveUp) /\ WF_vars(React)

----------------------------------------------------------------------------
(* Properties.                                                             *)

TypeOK ==
  /\ step \in {"P_WRITE", "P_WDATA", "P_JUMP", "done", "failed"}
  /\ blk \in Block /\ try \in 0 .. RetryCount + 1 /\ awaiting \in BOOLEAN
  /\ request \in {None} \cup [type : {"P_WRITE", "P_WDATA", "P_JUMP"}, blk : Block,
                              fault : {"none", "data", "type"}]
  /\ answer \in {None} \cup [type : {"A_ACK", "A_XSUM"}, blk : Block, intact : BOOLEAN,
                             for : {"P_WRITE", "P_WDATA", "P_JUMP", "none"}]
  /\ waddr \in 0 .. NBlocks /\ mem \in [Block -> {"old", "image", "garbage"}]
  /\ jumped \in BOOLEAN /\ acked \subseteq Block /\ faults \in 0 .. MaxFaults
  /\ mistaken \in BOOLEAN /\ misframed \in BOOLEAN

\* Although packets carry no number, an answer that arrives is the answer to
\* the packet the programmer waits for and to no earlier one ("the computer may
\* react to one request at a time").  The code relies on the framing for this:
\* it holds until a start byte or a length is disturbed.
AnswersMatch ==
  answer # None /\ ~misframed =>
    awaiting /\ request = None /\ answer.for = step /\ answer.blk = blk

\* A block whose P_WDATA was acknowledged is in memory and stays there, whatever
\* happens to later packets (A_ACK: "The operation was successful").  The code
\* has two exceptions: a later packet whose damaged type makes the computer
\* write it to memory before it sees the checksum, and a start byte or a length
\* that was disturbed.
AckedBlocksHold == ~mistaken /\ ~misframed => \A b \in acked : mem[b] = "image"

\* The computer jumps only into a complete image.  This takes so few
\* disturbances that no block can have used up all its tries: write_mem ignores
\* a block that failed, and the jump follows all the same.  It has the two
\* exceptions of AckedBlocksHold.
JumpRunsImage ==
  jumped /\ faults <= RetryCount /\ ~mistaken /\ ~misframed =>
    \A b \in Block : mem[b] = "image"

\* A packet or an answer was swallowed, or the program that runs does not
\* answer: there is no timeout, so that nothing happens by itself any more.
Stuck == awaiting /\ request = None /\ answer = None

\* However often packets and answers are damaged, retries come to an end: the
\* upload succeeds or fails, unless the programmer waits for an answer that does
\* not come.  This holds of packets that lost their framing, too.
RetriesEnd == <>(step \in {"done", "failed"} \/ Stuck)
=============================================================================
