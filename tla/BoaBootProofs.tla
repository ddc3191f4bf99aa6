--------------------------- MODULE BoaBootProofs ---------------------------
(***************************************************************************)
(* The upload of BoaBoot is correct for every number of blocks, of retries *)
(* and of disturbances, as long as packets are framed as they were sent.   *)
(***************************************************************************)
EXTENDS BoaBoot, TLAPS

----------------------------------------------------------------------------
(* The inductive invariant.                                                *)

\* Blocks the programmer is done with.
AfterBlocks == step \in {"P_JUMP", "done", "failed"}
Past(b) == b < blk \/ AfterBlocks

\* One packet or one answer is under way, and it belongs to the packet the
\* programmer waits for.
Serial ==
  /\ request # None =>
       awaiting /\ answer = None /\ request.type = step /\ request.blk = blk
  /\ answer # None =>
       awaiting /\ request = None /\ answer.for = step /\ answer.blk = blk

\* What a positive answer says is so.
AnswerTrue ==
  answer # None /\ answer.type = "A_ACK" =>
    /\ answer.for = "P_WRITE" => waddr = blk
    /\ answer.for = "P_WDATA" /\ ~mistaken => mem[blk] = "image"

AddressSet == step = "P_WDATA" => waddr = blk
AckedPast == \A b \in acked : Past(b)
JumpAfter == jumped => AfterBlocks

\* Every try that failed was disturbed once at least.
Spoilt ==
  (request # None /\ request.fault # "none") \/ (answer # None /\ ~Accepts(answer))
Counted ==
  /\ try <= faults /\ (Spoilt => try < faults)
  /\ awaiting => try <= RetryCount

\* Blocks the programmer saw acknowledged are in memory.
AckedHold == ~mistaken => \A b \in acked : mem[b] = "image"

\* With fewer disturbances than tries no block fails.
NoneFailed == faults <= RetryCount => \A b \in Block : Past(b) => b \in acked

\* What holds as long as every packet is framed as it was sent.
Framed ==
  /\ TypeOK /\ Serial /\ AnswerTrue /\ AddressSet /\ AckedPast /\ JumpAfter
  /\ Counted /\ NoneFailed /\ AckedHold

\* What holds whatever is disturbed: no try past the last is made.
Typed == TypeOK /\ (awaiting => try <= RetryCount)

IInv == Typed /\ (misframed \/ Framed)

----------------------------------------------------------------------------
(* Init and the steps.                                                     *)

\* The upload starts with nothing on the line and nothing acknowledged.
LEMMA InitFramed == Init => Framed
  <1> SUFFICES ASSUME Init PROVE Framed
      OBVIOUS
  <1>1. TypeOK
    <2>1. /\ awaiting \in BOOLEAN /\ jumped \in BOOLEAN
        /\ mistaken \in BOOLEAN /\ misframed \in BOOLEAN
        BY DEF Init
    <2> QED
        BY <2>1, BootAssumption DEF Init, TypeOK, Block
  <1>2. Serial /\ AnswerTrue /\ AddressSet /\ AckedPast /\ JumpAfter /\ AckedHold
      BY DEF Init, Serial, AnswerTrue, AddressSet, AckedPast, JumpAfter,
             AckedHold
  <1>3. Counted
      BY BootAssumption DEF Init, Counted, Spoilt
  <1>4. NoneFailed
      BY DEF Init, NoneFailed, Past, AfterBlocks, Block
  <1> QED
      BY <1>1, <1>2, <1>3, <1>4 DEF Framed

\* A packet is sent only when nothing is under way.
LEMMA SendFramed == Framed /\ Send => Framed'
  <1> SUFFICES ASSUME Framed, Send PROVE Framed'
      OBVIOUS
  <1>1. /\ ~awaiting /\ request = None /\ answer = None
        /\ step \in {"P_WRITE", "P_WDATA", "P_JUMP"}
      BY DEF Framed, TypeOK, Serial, Send, Sends
  <1>2. TypeOK'
      BY <1>1 DEF Framed, TypeOK, Send, boot
  <1>3. request' # None /\ request'.type = step /\ request'.blk = blk
        /\ request'.fault = "none"
      BY <1>1 DEF Send, None
  <1>4. Serial' /\ AnswerTrue' /\ Counted'
      BY <1>1, <1>3 DEF Framed, Serial, AnswerTrue, Counted, Spoilt, Send
  <1>5. AddressSet' /\ AckedPast' /\ JumpAfter' /\ NoneFailed' /\ AckedHold'
      BY DEF Framed, Send, boot, AddressSet, AckedPast, JumpAfter, NoneFailed,
             AckedHold, Past, AfterBlocks
  <1> QED
      BY <1>2, <1>4, <1>5 DEF Framed

\* Blocks that are past stay past, and NextBlock adds the block it leaves.
LEMMA NextBlockPast ==
  ASSUME TypeOK, step \in {"P_WRITE", "P_WDATA"}, NextBlock
  PROVE  /\ blk' \in Block /\ step' \in {"P_WRITE", "P_JUMP"}
         /\ \A b \in Block : Past(b)' <=> (Past(b) \/ b = blk)
  BY BootAssumption DEF TypeOK, Block, NextBlock, Past, AfterBlocks

\* An answer that arrives is the answer to the packet waited for, and a
\* positive one is true.
LEMMA ReceiveFramed == Framed /\ Receive => Framed'
  <1> SUFFICES ASSUME Framed, Receive PROVE Framed'
      OBVIOUS
  <1>1. /\ awaiting /\ request = None /\ answer # None
        /\ answer.for = step /\ answer.blk = blk
        /\ step \in {"P_WRITE", "P_WDATA", "P_JUMP"}
        /\ answer.type \in {"A_ACK", "A_XSUM"}
      BY DEF Framed, TypeOK, Serial, Receive
  <1>2. /\ answer' = None /\ ~awaiting' /\ awaiting' \in BOOLEAN /\ request' = None
        /\ UNCHANGED <<boot, faults, mistaken, misframed>>
      BY <1>1 DEF Receive
  <1>3. Serial' /\ AnswerTrue'
      BY <1>2 DEF Serial, AnswerTrue
  <1>4. CASE ~Accepts(answer)
    <2>1. try' = try + 1 /\ UNCHANGED <<step, blk, acked>>
        BY <1>4 DEF Receive
    <2>2. try < faults /\ try <= RetryCount
        BY <1>1, <1>4 DEF Framed, Counted, Spoilt
    <2>3. TypeOK'
        BY <1>2, <2>1, <2>2, BootAssumption DEF Framed, TypeOK, boot
    <2>4. Counted'
        BY <1>2, <2>1, <2>2 DEF Framed, TypeOK, Counted, Spoilt
    <2>5. AddressSet' /\ AckedPast' /\ JumpAfter' /\ NoneFailed' /\ AckedHold'
        BY <1>2, <2>1 DEF Framed, boot, AddressSet, AckedPast, JumpAfter, NoneFailed,
                          AckedHold, Past, AfterBlocks
    <2> QED
        BY <1>3, <2>3, <2>4, <2>5 DEF Framed
  <1>5. CASE Accepts(answer)
    <2>1. Succeed /\ answer.type = "A_ACK" /\ try' = 0
        BY <1>5 DEF Receive, Accepts, Succeed
    <2>2. Counted'
        BY <1>2, <2>1, BootAssumption DEF Framed, TypeOK, Counted, Spoilt
    <2>3. CASE step = "P_WRITE"
      <3>1. step' = "P_WDATA" /\ UNCHANGED <<blk, acked>>
          BY <2>1, <2>3 DEF Succeed
      <3>2. waddr = blk
          BY <1>1, <2>1, <2>3 DEF Framed, AnswerTrue
      <3>3. TypeOK' /\ AddressSet' /\ AckedHold'
          BY <1>2, <2>1, <3>1, <3>2, BootAssumption
             DEF Framed, TypeOK, AddressSet, AckedHold, boot
      <3>4. AckedPast' /\ JumpAfter' /\ NoneFailed'
          BY <1>2, <2>3, <3>1 DEF Framed, boot, AckedPast, JumpAfter, NoneFailed, Past,
                                  AfterBlocks
      <3> QED
          BY <1>3, <2>2, <3>3, <3>4 DEF Framed
    <2>4. CASE step = "P_WDATA"
      <3>1. NextBlock /\ acked' = acked \cup {blk}
          BY <2>1, <2>4 DEF Succeed
      <3>2. /\ blk' \in Block /\ step' \in {"P_WRITE", "P_JUMP"}
            /\ \A b \in Block : Past(b)' <=> (Past(b) \/ b = blk)
          BY <2>4, <3>1, NextBlockPast DEF Framed
      <3>3. TypeOK' /\ AddressSet'
          BY <1>2, <2>1, <3>1, <3>2, BootAssumption
             DEF Framed, TypeOK, AddressSet, boot
      <3>4. AckedPast' /\ NoneFailed'
          BY <1>2, <3>1, <3>2 DEF Framed, TypeOK, AckedPast, NoneFailed
      <3>5. JumpAfter'
          BY <1>2, <2>4 DEF Framed, boot, JumpAfter, AfterBlocks
      <3>6. AckedHold'
        <4>1. ~mistaken => mem[blk] = "image"
            BY <1>1, <2>1, <2>4 DEF Framed, AnswerTrue
        <4> QED
            BY <1>2, <3>1, <4>1 DEF Framed, boot, AckedHold
      <3> QED
          BY <1>3, <2>2, <3>3, <3>4, <3>5, <3>6 DEF Framed
    <2>5. CASE step = "P_JUMP"
      <3>1. step' = "done" /\ UNCHANGED <<blk, acked>>
          BY <2>1, <2>5 DEF Succeed
      <3>2. TypeOK' /\ AddressSet' /\ AckedHold'
          BY <1>2, <2>1, <3>1, BootAssumption
             DEF Framed, TypeOK, AddressSet, AckedHold, boot
      <3>3. AckedPast' /\ JumpAfter' /\ NoneFailed'
          BY <1>2, <2>5, <3>1 DEF Framed, boot, AckedPast, JumpAfter, NoneFailed, Past,
                                  AfterBlocks
      <3> QED
          BY <1>3, <2>2, <3>2, <3>3 DEF Framed
    <2> QED
        BY <1>1, <2>3, <2>4, <2>5
  <1> QED
      BY <1>4, <1>5

\* A block is given up only after as many disturbances as it has tries.
LEMMA GiveUpFramed == Framed /\ GiveUp => Framed'
  <1> SUFFICES ASSUME Framed, GiveUp PROVE Framed'
      OBVIOUS
  <1>1. /\ ~awaiting /\ request = None /\ answer = None /\ try > RetryCount
        /\ step \in {"P_WRITE", "P_WDATA", "P_JUMP"}
      BY DEF Framed, TypeOK, Serial, GiveUp, Sends
  <1>2. try' = 0 /\ UNCHANGED <<awaiting, acked, request, answer, boot, faults, mistaken, misframed>>
      BY DEF GiveUp
  <1>3. /\ blk' \in Block /\ step' \in {"P_WRITE", "P_JUMP", "failed"}
        /\ \A b \in Block : Past(b) => Past(b)'
        /\ AfterBlocks => AfterBlocks'
    <2>1. CASE step = "P_JUMP"
        BY <2>1 DEF Framed, TypeOK, GiveUp, Past, AfterBlocks
    <2>2. CASE step # "P_JUMP"
        BY <1>1, <2>2, NextBlockPast DEF Framed, GiveUp, AfterBlocks
    <2> QED
        BY <2>1, <2>2
  <1>4. faults > RetryCount
      BY <1>1, BootAssumption DEF Framed, TypeOK, Counted
  <1>5. TypeOK' /\ AddressSet' /\ JumpAfter'
      BY <1>2, <1>3, BootAssumption DEF Framed, TypeOK, AddressSet, JumpAfter, boot
  <1>6. Serial' /\ AnswerTrue' /\ Counted'
      BY <1>1, <1>2, BootAssumption
         DEF Framed, TypeOK, Serial, AnswerTrue, Counted, Spoilt
  <1>7. AckedPast' /\ AckedHold'
      BY <1>2, <1>3 DEF Framed, TypeOK, AckedPast, AckedHold, boot
  <1>8. NoneFailed'
      BY <1>2, <1>4, BootAssumption DEF Framed, TypeOK, NoneFailed
  <1> QED
      BY <1>5, <1>6, <1>7, <1>8 DEF Framed

\* The computer writes only to the block of the last address, which no later
\* packet of a block that was acknowledged can be under way for.
LEMMA ReactFramed == Framed /\ React => Framed'
  <1> SUFFICES ASSUME Framed, React PROVE Framed'
      OBVIOUS
  <1>1. /\ awaiting /\ request # None /\ answer = None /\ request.type = step
        /\ request.blk = blk /\ step \in {"P_WRITE", "P_WDATA", "P_JUMP"}
        /\ request.fault \in {"none", "data", "type"}
      BY DEF Framed, TypeOK, Serial, React
  <1>2. request' = None /\ UNCHANGED <<prog, faults, misframed>>
      BY DEF React
  <1>3. step = "P_WDATA" => waddr = blk /\ blk \notin acked
      BY <1>1 DEF Framed, TypeOK, Block, AddressSet, AckedPast, Past, AfterBlocks
  <1>4. AckedPast' /\ NoneFailed'
      BY <1>2 DEF Framed, AckedPast, NoneFailed, Past, AfterBlocks, prog
  <1>5. CASE Ignored /\ UNCHANGED mistaken
    <2>1. answer' = None /\ UNCHANGED <<waddr, mem, jumped, mistaken>>
        BY <1>1, <1>5 DEF Ignored, boot
    <2>2. TypeOK'
        BY <1>2, <2>1 DEF Framed, TypeOK, prog
    <2>3. Serial' /\ AnswerTrue' /\ Counted'
        BY <1>2, <2>1 DEF Framed, Serial, AnswerTrue, Counted, Spoilt, prog
    <2>4. AddressSet' /\ JumpAfter' /\ AckedHold'
        BY <1>2, <2>1 DEF Framed, AddressSet, JumpAfter, AckedHold, AfterBlocks, prog
    <2> QED
        BY <1>4, <2>2, <2>3, <2>4 DEF Framed
  <1>6. CASE Intact /\ UNCHANGED mistaken
    <2>1. /\ answer' = [type |-> "A_ACK", for |-> step, blk |-> blk, intact |-> TRUE]
          /\ UNCHANGED mistaken
        BY <1>1, <1>6 DEF Intact, Answer
    <2>2. /\ answer'.type = "A_ACK" /\ answer'.for = step /\ answer'.blk = blk
          /\ answer'.intact
        BY <2>1
    <2>3. Serial' /\ Counted'
        BY <1>1, <1>2, <2>2
           DEF Framed, Serial, Counted, Spoilt, Accepts, prog
    <2>4. CASE step = "P_WRITE"
      <3>1. waddr' = blk /\ UNCHANGED <<mem, jumped>>
          BY <1>1, <1>6, <2>4 DEF Intact
      <3>2. TypeOK'
          BY <1>1, <1>2, <2>1, <3>1 DEF Framed, TypeOK, prog, Block
      <3>3. AnswerTrue' /\ AddressSet' /\ JumpAfter' /\ AckedHold'
          BY <1>2, <2>1, <2>2, <2>4, <3>1
             DEF Framed, AnswerTrue, AddressSet, JumpAfter, AckedHold, AfterBlocks, prog
      <3> QED
          BY <1>4, <2>3, <3>2, <3>3 DEF Framed
    <2>5. CASE step = "P_WDATA"
      <3>1. mem' = [mem EXCEPT ![blk] = "image"] /\ UNCHANGED <<waddr, jumped>>
          BY <1>1, <1>3, <1>6, <2>5 DEF Intact, Put
      <3>2. /\ mem' \in [Block -> {"old", "image", "garbage"}] /\ mem'[blk] = "image"
            /\ \A b \in Block : b # blk => mem'[b] = mem[b]
          BY <3>1 DEF Framed, TypeOK
      <3>3. TypeOK'
          BY <1>1, <1>2, <2>1, <3>1, <3>2 DEF Framed, TypeOK, prog
      <3>4. AnswerTrue' /\ AddressSet' /\ JumpAfter'
          BY <1>2, <1>3, <2>1, <2>2, <2>5, <3>1, <3>2
             DEF Framed, AnswerTrue, AddressSet, JumpAfter, AfterBlocks, prog
      <3>5. AckedHold'
          BY <1>2, <1>3, <2>1, <2>5, <3>2 DEF Framed, TypeOK, AckedHold, prog
      <3> QED
          BY <1>4, <2>3, <3>3, <3>4, <3>5 DEF Framed
    <2>6. CASE step = "P_JUMP"
      <3>1. jumped' = TRUE /\ UNCHANGED <<mem, waddr>>
          BY <1>1, <1>6, <2>6 DEF Intact
      <3>2. TypeOK'
          BY <1>1, <1>2, <2>1, <3>1 DEF Framed, TypeOK, prog
      <3>3. AnswerTrue' /\ AddressSet' /\ JumpAfter' /\ AckedHold'
          BY <1>2, <2>1, <2>2, <2>6, <3>1
             DEF Framed, AnswerTrue, AddressSet, JumpAfter, AckedHold, AfterBlocks, prog
      <3> QED
          BY <1>4, <2>3, <3>2, <3>3 DEF Framed
    <2> QED
        BY <1>1, <2>4, <2>5, <2>6
  <1>7. CASE (Damaged /\ UNCHANGED mistaken) \/ Mistaken
    <2>1. /\ answer' = [type |-> "A_XSUM", for |-> step, blk |-> blk, intact |-> TRUE]
          /\ request.fault # "none" /\ UNCHANGED <<waddr, jumped>>
        BY <1>1, <1>7 DEF Damaged, Mistaken, Answer
    <2>2. answer'.type = "A_XSUM" /\ answer'.for = step /\ answer'.blk = blk
        BY <2>1
    <2>3. Serial' /\ AnswerTrue' /\ AddressSet' /\ JumpAfter'
        BY <1>1, <1>2, <2>1, <2>2
           DEF Framed, Serial, AnswerTrue, AddressSet, JumpAfter, AfterBlocks, prog
    <2>4. Counted'
        BY <1>1, <1>2, <2>1 DEF Framed, Counted, Spoilt, prog
    <2>5. /\ mistaken' \in BOOLEAN /\ mem' \in [Block -> {"old", "image", "garbage"}]
          /\ ~mistaken' => ~mistaken /\ \A b \in acked : mem'[b] = mem[b]
      <3>1. CASE UNCHANGED <<mem, mistaken>>
          BY <3>1 DEF Framed, TypeOK
      <3>2. CASE mistaken' = TRUE /\ \E what \in {"image", "garbage"} : Put(what)
        <4>1. PICK what \in {"image", "garbage"} : mem' = [mem EXCEPT ![waddr] = what]
            BY <3>2 DEF Put
        <4>2. mem' \in [Block -> {"old", "image", "garbage"}]
            BY <4>1 DEF Framed, TypeOK
        <4> QED
            BY <3>2, <4>2
      <3>3. CASE /\ UNCHANGED mistaken /\ step = "P_WDATA"
                 /\ \E what \in {"image", "garbage"} : Put(what)
        <4>1. PICK what \in {"image", "garbage"} : mem' = [mem EXCEPT ![blk] = what]
            BY <1>3, <3>3 DEF Put
        <4>2. mem' \in [Block -> {"old", "image", "garbage"}]
            BY <4>1 DEF Framed, TypeOK
        <4>3. \A b \in acked : mem'[b] = mem[b]
            BY <1>3, <3>3, <4>1 DEF Framed, TypeOK
        <4> QED
            BY <3>3, <4>2, <4>3 DEF Framed, TypeOK
      <3> QED
          BY <1>1, <1>7, <3>1, <3>2, <3>3 DEF Damaged, Mistaken
    <2>6. TypeOK'
        BY <1>1, <1>2, <2>1, <2>5 DEF Framed, TypeOK, prog
    <2>7. AckedHold'
        BY <1>2, <2>5 DEF Framed, AckedHold, prog
    <2> QED
        BY <1>4, <2>3, <2>4, <2>6, <2>7 DEF Framed
  <1> QED
      BY <1>5, <1>6, <1>7 DEF React

\* A disturbance marks a packet or an answer as spoilt, and is counted.
LEMMA DisturbFramed == Framed /\ Disturb => Framed'
  <1> SUFFICES ASSUME Framed, Disturb PROVE Framed'
      OBVIOUS
  <1>1. /\ faults' = faults + 1 /\ faults < MaxFaults
        /\ UNCHANGED <<step, blk, try, awaiting, acked, waddr, mem, jumped, mistaken>>
      BY DEF Disturb, prog, boot
  <1>2. AddressSet' /\ AckedPast' /\ JumpAfter' /\ AckedHold'
      BY <1>1 DEF Framed, AddressSet, AckedPast, JumpAfter, AckedHold, Past, AfterBlocks
  <1>3. NoneFailed' /\ Counted'
      BY <1>1, BootAssumption
         DEF Framed, TypeOK, NoneFailed, Counted, Past, AfterBlocks
  <1>4. CASE \E kind \in {"data", "type"} : Damage(kind)
    <2>1. PICK kind \in {"data", "type"} : Damage(kind)
        BY <1>4
    <2>2. /\ request # None /\ UNCHANGED <<answer, misframed>>
          /\ request' = [request EXCEPT !.fault = kind]
        BY <2>1 DEF Damage
    <2>3. answer = None
        BY <2>2 DEF Framed, Serial
    <2>4. /\ request' \in [type : {"P_WRITE", "P_WDATA", "P_JUMP"}, blk : Block,
                           fault : {"none", "data", "type"}]
          /\ request'.type = request.type /\ request'.blk = request.blk
        BY <2>2 DEF Framed, TypeOK
    <2>5. TypeOK'
        BY <1>1, <2>2, <2>4, BootAssumption DEF Framed, TypeOK
    <2>6. Serial' /\ AnswerTrue'
        BY <1>1, <2>2, <2>3, <2>4 DEF Framed, Serial, AnswerTrue
    <2> QED
        BY <1>2, <1>3, <2>5, <2>6 DEF Framed
  <1>5. CASE DamageReply
    <2>1. /\ answer # None /\ UNCHANGED <<request, misframed>>
          /\ answer' = [answer EXCEPT !.intact = FALSE]
        BY <1>5 DEF DamageReply
    <2>2. /\ answer' \in [type : {"A_ACK", "A_XSUM"}, blk : Block, intact : BOOLEAN,
                          for : {"P_WRITE", "P_WDATA", "P_JUMP", "none"}]
          /\ answer'.type = answer.type /\ answer'.blk = answer.blk
          /\ answer'.for = answer.for
        BY <2>1 DEF Framed, TypeOK
    <2>3. TypeOK'
        BY <1>1, <2>1, <2>2, BootAssumption DEF Framed, TypeOK
    <2>4. Serial' /\ AnswerTrue'
        BY <1>1, <2>1, <2>2 DEF Framed, Serial, AnswerTrue
    <2> QED
        BY <1>2, <1>3, <2>3, <2>4 DEF Framed
  <1>6. CASE Misframe
    <2>1. UNCHANGED <<request, answer>> /\ misframed' \in BOOLEAN
        BY <1>6 DEF Misframe
    <2>2. TypeOK'
        BY <1>1, <2>1, BootAssumption DEF Framed, TypeOK
    <2>3. Serial' /\ AnswerTrue'
        BY <1>1, <2>1 DEF Framed, Serial, AnswerTrue
    <2> QED
        BY <1>2, <1>3, <2>2, <2>3 DEF Framed
  <1> QED
      BY <1>4, <1>5, <1>6 DEF Disturb

\* Steps that change nothing.
LEMMA StutterFramed == Framed /\ UNCHANGED vars => Framed'
  BY DEF Framed, vars, prog, boot, TypeOK, Serial, AnswerTrue, AddressSet,
         AckedPast, JumpAfter, Counted, Spoilt, Accepts, NoneFailed, AckedHold,
         Past, AfterBlocks

\* As long as packets are framed as they were sent, steps keep Framed.
LEMMA StepFramed == Framed /\ ~misframed /\ [Next]_vars => Framed'
  BY SendFramed, ReceiveFramed, GiveUpFramed, ReactFramed, DisturbFramed, StutterFramed
     DEF Next, Astray

\* Every step keeps the types, whatever has become of the framing.
LEMMA StepTyped == Typed /\ [Next]_vars => Typed'
  <1> SUFFICES ASSUME Typed, [Next]_vars PROVE Typed'
      OBVIOUS
  <1>1. CASE Send
      BY <1>1 DEF Typed, TypeOK, Send, Sends, boot
  <1>2. CASE Receive
    <2>1. /\ answer' = None /\ ~awaiting' /\ awaiting' \in BOOLEAN
          /\ try' \in 0 .. RetryCount + 1
          /\ UNCHANGED <<request, boot, faults, mistaken, misframed>>
      <3>1. try' = 0 \/ (try' = try + 1 /\ try <= RetryCount)
          BY <1>2 DEF Typed, Receive, Succeed
      <3>2. /\ answer' = None /\ awaiting' = FALSE
            /\ UNCHANGED <<request, boot, faults, mistaken, misframed>>
          BY <1>2 DEF Receive
      <3>3. try' \in 0 .. RetryCount + 1
          BY <3>1, BootAssumption DEF Typed, TypeOK
      <3> QED
          BY <3>2, <3>3
    <2>2. /\ step' \in {"P_WRITE", "P_WDATA", "P_JUMP", "done", "failed"}
          /\ blk' \in Block /\ acked' \subseteq Block
      <3>1. CASE ~Accepts(answer)
          BY <1>2, <3>1 DEF Typed, TypeOK, Receive
      <3>2. CASE Accepts(answer) /\ step = "P_WDATA"
          BY <1>2, <3>2, NextBlockPast DEF Typed, TypeOK, Receive, Succeed
      <3>3. CASE Accepts(answer) /\ step # "P_WDATA"
          BY <1>2, <3>3 DEF Typed, TypeOK, Receive, Succeed
      <3> QED
          BY <3>1, <3>2, <3>3
    <2> QED
        BY <2>1, <2>2 DEF Typed, TypeOK, boot
  <1>3. CASE GiveUp
    <2>1. /\ try' = 0 /\ ~awaiting
          /\ UNCHANGED <<awaiting, acked, request, answer, boot, faults, mistaken, misframed>>
        BY <1>3 DEF GiveUp, Sends
    <2>2. step' \in {"P_WRITE", "P_WDATA", "P_JUMP", "done", "failed"} /\ blk' \in Block
      <3>1. CASE step = "P_JUMP"
          BY <1>3, <3>1 DEF Typed, TypeOK, GiveUp
      <3>2. CASE step # "P_JUMP"
          BY <1>3, <3>2, NextBlockPast DEF Typed, TypeOK, GiveUp, Sends
      <3> QED
          BY <3>1, <3>2
    <2> QED
        BY <2>1, <2>2, BootAssumption DEF Typed, TypeOK, boot
  <1>4. CASE React
    <2>1. /\ request # None /\ request' = None /\ UNCHANGED <<prog, faults, misframed>>
          /\ request.type \in {"P_WRITE", "P_WDATA", "P_JUMP"} /\ request.blk \in Block
        BY <1>4 DEF Typed, TypeOK, React
    <2>2. /\ waddr' \in 0 .. NBlocks /\ mem' \in [Block -> {"old", "image", "garbage"}]
          /\ jumped' \in BOOLEAN /\ mistaken' \in BOOLEAN
      <3>1. \A what \in {"image", "garbage"} :
              Put(what) => mem' \in [Block -> {"old", "image", "garbage"}]
          BY DEF Put, Typed, TypeOK
      <3>2. CASE Intact /\ UNCHANGED mistaken
        <4>1. Put(IF waddr = request.blk THEN "image" ELSE "garbage") =>
                mem' \in [Block -> {"old", "image", "garbage"}]
            BY <3>1
        <4>2. mistaken' \in BOOLEAN /\ jumped' \in BOOLEAN
            BY <3>2 DEF Typed, TypeOK, Intact
        <4>3. waddr' \in 0 .. NBlocks
            BY <2>1, <3>2, BootAssumption DEF Typed, TypeOK, Block, Intact
        <4>4. mem' \in [Block -> {"old", "image", "garbage"}]
            BY <3>2, <4>1 DEF Typed, TypeOK, Intact
        <4> QED
            BY <4>2, <4>3, <4>4
      <3>3. CASE (Damaged \/ Ignored) /\ UNCHANGED mistaken
          BY <3>1, <3>3 DEF Typed, TypeOK, Damaged, Ignored, boot
      <3>4. CASE Mistaken
          BY <3>1, <3>4 DEF Typed, TypeOK, Mistaken
      <3> QED
          BY <1>4, <3>2, <3>3, <3>4 DEF React
    <2>3. \/ UNCHANGED answer
          \/ \E type \in {"A_ACK", "A_XSUM"} :
               answer' = [type |-> type, for |-> request.type, blk |-> request.blk,
                          intact |-> TRUE]
        BY <1>4 DEF React, Intact, Damaged, Mistaken, Ignored, Answer, boot
    <2>4. answer' \in {None} \cup [type : {"A_ACK", "A_XSUM"}, blk : Block, intact : BOOLEAN,
                                  for : {"P_WRITE", "P_WDATA", "P_JUMP", "none"}]
      <3>1. CASE UNCHANGED answer
          BY <3>1 DEF Typed, TypeOK
      <3>2. ASSUME NEW type \in {"A_ACK", "A_XSUM"},
                   answer' = [type |-> type, for |-> request.type, blk |-> request.blk,
                              intact |-> TRUE]
            PROVE  answer' \in [type : {"A_ACK", "A_XSUM"}, blk : Block, intact : BOOLEAN,
                                for : {"P_WRITE", "P_WDATA", "P_JUMP", "none"}]
          BY <2>1, <3>2
      <3> QED
          BY <2>3, <3>1, <3>2
    <2>5. request' \in {None}
        BY <2>1
    <2> QED
        BY <2>1, <2>2, <2>4, <2>5 DEF Typed, TypeOK, prog
  <1>5. CASE Disturb
    <2>1. /\ faults' \in 0 .. MaxFaults
          /\ UNCHANGED <<step, blk, try, awaiting, acked, waddr, mem, jumped, mistaken>>
        BY <1>5, BootAssumption DEF Disturb, prog, boot, Typed, TypeOK
    <2>2. /\ misframed' \in BOOLEAN
          /\ \/ UNCHANGED <<request, answer>>
             \/ /\ request # None /\ UNCHANGED answer
                /\ \E kind \in {"data", "type"} : request' = [request EXCEPT !.fault = kind]
             \/ /\ answer # None /\ UNCHANGED request
                /\ answer' = [answer EXCEPT !.intact = FALSE]
        BY <1>5 DEF Disturb, Damage, DamageReply, Misframe, Typed, TypeOK
    <2> QED
        BY <2>1, <2>2 DEF Typed, TypeOK
  <1>6. CASE Astray
    <2>1. UNCHANGED <<prog, faults, mistaken, misframed>> /\ request' \in {request, None}
        BY <1>6 DEF Astray, Swallowed, Stray
    <2>2. /\ waddr' \in 0 .. NBlocks /\ jumped' \in BOOLEAN
          /\ mem' \in [Block -> {"old", "image", "garbage"}]
      <3>1. CASE UNCHANGED boot
          BY <3>1 DEF Typed, TypeOK, boot
      <3>2. CASE waddr' \in Block /\ UNCHANGED <<mem, jumped>>
          BY <3>2, BootAssumption DEF Typed, TypeOK, Block
      <3>3. CASE /\ \E hit \in SUBSET Block :
                      mem' = [b \in Block |-> IF b \in hit THEN "garbage" ELSE mem[b]]
                 /\ UNCHANGED <<waddr, jumped>>
          BY <3>3 DEF Typed, TypeOK
      <3>4. CASE jumped' = TRUE /\ UNCHANGED <<waddr, mem>>
          BY <3>4 DEF Typed, TypeOK
      <3> QED
          BY <1>6, <3>1, <3>2, <3>3, <3>4 DEF Astray, Stray
    <2>3. \/ answer' \in {answer, None}
          \/ \E type \in {"A_ACK", "A_XSUM"} :
               answer' = [type |-> type, for |-> "none", blk |-> blk, intact |-> TRUE]
        BY <1>6 DEF Astray, Swallowed, Stray
    <2>4. answer' \in {None} \cup [type : {"A_ACK", "A_XSUM"}, blk : Block, intact : BOOLEAN,
                                  for : {"P_WRITE", "P_WDATA", "P_JUMP", "none"}]
      <3>1. blk \in Block
          BY DEF Typed, TypeOK
      <3>2. CASE answer' \in {answer, None}
          BY <3>2 DEF Typed, TypeOK
      <3>3. ASSUME NEW type \in {"A_ACK", "A_XSUM"},
                   answer' = [type |-> type, for |-> "none", blk |-> blk, intact |-> TRUE]
            PROVE  answer' \in [type : {"A_ACK", "A_XSUM"}, blk : Block, intact : BOOLEAN,
                                for : {"P_WRITE", "P_WDATA", "P_JUMP", "none"}]
          BY <3>1, <3>3
      <3> QED
          BY <2>3, <3>2, <3>3
    <2> QED
        BY <2>1, <2>2, <2>4 DEF Typed, TypeOK, prog
  <1>7. CASE UNCHANGED vars
      BY <1>7 DEF Typed, TypeOK, vars, prog, boot
  <1> QED
      BY <1>1, <1>2, <1>3, <1>4, <1>5, <1>6, <1>7 DEF Next

\* A length that has been disturbed stays so.
LEMMA StepMisframed == misframed /\ [Next]_vars => misframed'
  BY DEF Next, Send, Receive, GiveUp, React, Disturb, Damage, DamageReply, Misframe, Astray,
         vars

----------------------------------------------------------------------------
(* The theorems.                                                           *)

\* The invariant holds in every state of every upload.
THEOREM BootInvariant == Spec => []IInv
  <1>1. Init => IInv
      BY InitFramed DEF IInv, Framed, Typed, Counted
  <1>2. IInv /\ [Next]_vars => IInv'
      BY StepFramed, StepTyped, StepMisframed DEF IInv
  <1> QED
      BY <1>1, <1>2, PTL DEF Spec

\* The state has its type.
THEOREM BootTypeOK == Spec => []TypeOK
  <1>1. IInv => TypeOK
      BY DEF IInv, Typed
  <1> QED
      BY BootInvariant, <1>1, PTL

\* An answer that arrives is the answer to the packet await_packet waits for,
\* until a start byte or a length has been disturbed.
THEOREM AnswersMatchCorrect == Spec => []AnswersMatch
  <1>1. IInv => AnswersMatch
      BY DEF IInv, Framed, Serial, AnswersMatch
  <1> QED
      BY BootInvariant, <1>1, PTL

\* A block whose P_WDATA was acknowledged is in memory and stays there, unless
\* a packet was taken for one of another type, or a start byte or a length has
\* been disturbed.
THEOREM AckedBlocksHoldCorrect == Spec => []AckedBlocksHold
  <1>1. IInv => AckedBlocksHold
      BY DEF IInv, Framed, AckedHold, AckedBlocksHold
  <1> QED
      BY BootInvariant, <1>1, PTL

\* The computer jumps into a complete image when there were no more
\* disturbances than RETRY_COUNT, with the exceptions of AckedBlocksHold.
THEOREM JumpRunsImageCorrect == Spec => []JumpRunsImage
  <1>1. IInv => JumpRunsImage
      BY DEF IInv, Framed, JumpRunsImage, JumpAfter, NoneFailed, AckedHold, Past
  <1> QED
      BY BootInvariant, <1>1, PTL

=============================================================================
