--------------------------- MODULE BoaUartProofs ---------------------------
(***************************************************************************)
(* What is written to the UART comes out at the other end of the wire, in  *)
(* order and complete, for every number of bits in a byte, every set of    *)
(* bytes, every depth of the transmit FIFO and every divider from 2 on, as *)
(* long as the CPU does not change the divider (Retune # "any").           *)
(***************************************************************************)
EXTENDS BoaUart, SequenceTheorems, TLAPS

\* The lemmas about the ring of the transmit FIFO.
Ring == INSTANCE BoaFifoProofs
          WITH Data <- Bytes, Depth <- TxDepth, AllowFullWe <- FALSE

----------------------------------------------------------------------------
(* The inductive invariant.                                                *)

\* Accepted bytes that the receiver has not triggered with, and the oldest of
\* them, which is the one on the wire if there is one.
Due == IF rxTrig THEN Tail(flight) ELSE flight
OnWire == txState # 0 \/ rxState # 0
Current == Head(Due)

\* Bit k of a byte's frame: the start bit, the data, and then idleness.
FrameBit(b, k) == IF k = 1 THEN 0 ELSE IF k <= Bits + 1 THEN b[k - 1] ELSE 1

\* The transmitter's bit period, counted on into the stop bit, the cycles that
\* have passed of it, and the cycle in which the receiver samples it.
Period == IF txState = 0 THEN Bits + 2 ELSE txState
Passed == clkDiv - txTimer
Sample == clkDiv \div 2

TypeInv ==
  /\ clkDiv \in Divs /\ rxDiv = clkDiv
  /\ TxFifo!TypeOK /\ pend \in Bytes \cup {NoByte}
  /\ txTimer \in 1 .. clkDiv /\ txState \in 0 .. Bits + 1 /\ txAck \in BOOLEAN
  /\ txBuf \in [1 .. Bits + 1 -> {0, 1}]
  /\ rxState \in 0 .. Bits + 2 /\ rxBuf \in [1 .. Bits -> {0, 1}]
  /\ rxTrig \in BOOLEAN /\ flight \in Seq(Bytes)

\* The transmitter acknowledges in the first cycle of the start bit, and what
\* it acknowledges is still in the FIFO.
AckFirst ==
  /\ txAck <=> txState = 1 /\ txTimer = clkDiv
  /\ txAck => TxFifo!HasDat

\* The wire carries the rest of the frame of the oldest byte.
WireHolds ==
  \A k \in 1 .. Bits + 1 :
    txBuf[k] = IF txState = 0 THEN 1 ELSE FrameBit(Current, txState - 1 + k)

\* The receiver is in step: before the sample of the period on the wire it
\* counts down to it, after it to the sample of the next.  It has seen nothing
\* yet in the first cycle of the start bit.
InStep ==
  IF rxState = 0 THEN txState = 0 \/ txAck
  ELSE /\ ~txAck
       /\ \/ rxState = Period /\ Passed <= Sample /\ rxTimer = Sample + 1 - Passed
          \/ /\ rxState = Period + 1 /\ Passed > Sample
             /\ rxTimer = clkDiv + Sample + 1 - Passed

\* The samples taken are the bits of the frame that went by.
Sampled ==
  \A k \in 1 .. Bits :
    k > Bits + 1 - rxState => rxBuf[k] = FrameBit(Current, rxState - 1 - Bits + k)

\* The byte on the wire is due before those in the FIFO.  In the cycle of the
\* acknowledgement it is still in the FIFO.
DueInOrder ==
  IF OnWire /\ ~txAck THEN Due # <<>> /\ Tail(Due) = TxFifo!Contents
                      ELSE Due = TxFifo!Contents

\* The receiver hands over the oldest byte, and is idle then.
Handover ==
  rxTrig => rxState = 0 /\ flight # <<>> /\ rxByte = Head(flight)

IInv ==
  /\ TypeInv /\ AckFirst /\ WireHolds /\ InStep
  /\ Sampled /\ DueInOrder /\ Handover

----------------------------------------------------------------------------
(* The transmit FIFO.                                                      *)

\* What the bus adds to a queue of bytes when it carries w.
Pushed(s, w) == IF Accepted(w) THEN Append(s, w) ELSE s

LEMMA RingAssumptions ==
  /\ TxDepth \in Nat /\ TxDepth >= 2 /\ FALSE \in BOOLEAN
  /\ Bytes \subseteq [1 .. Bits -> {0, 1}] /\ Bytes # {} /\ NoByte \notin Bytes
  /\ Bits \in Nat /\ Bits >= 1
BY UartAssumption

LEMMA SlotsAgree ==
  /\ Ring!Slots = TxFifo!Slots
  /\ \A i : Ring!Succ(i) = TxFifo!Succ(i)
BY DEF Ring!Slots, TxFifo!Slots, Ring!Succ, TxFifo!Succ

LEMMA ContentsAre ==
  /\ TxFifo!Contents = Ring!Con(wpos, rpos, storage)
  /\ TxFifo!Contents' = Ring!Con(wpos', rpos', storage')
BY DEF TxFifo!Contents, TxFifo!Count, TxFifo!At, Ring!Con, Ring!Cnt, Ring!Idx

\* has_dat and rdata of the FIFO against its contents.
LEMMA FifoOutputs ==
  ASSUME TxFifo!TypeOK
  PROVE  /\ TxFifo!Contents \in Seq(Bytes)
         /\ TxFifo!HasDat <=> TxFifo!Contents # <<>>
         /\ TxFifo!HasDat => TxFifo!Rdata = Head(TxFifo!Contents)
                             /\ TxFifo!Rdata \in Bytes
<1>1. /\ wpos \in Ring!Slots /\ rpos \in Ring!Slots
      /\ storage \in [Ring!Slots -> Bytes]
  BY SlotsAgree DEF TxFifo!TypeOK
<1>2. TxFifo!Contents \in Seq(Bytes)
  BY <1>1, ContentsAre, RingAssumptions, Ring!ConFacts
<1>3. Ring!TypeOK
  BY <1>1 DEF Ring!TypeOK
<1>4. Ring!OutputsAgree
  BY <1>3, RingAssumptions, Ring!OutputsLemma
<1>5. Ring!Contents = TxFifo!Contents
  BY DEF TxFifo!Contents, TxFifo!Count, TxFifo!At, Ring!Contents, Ring!Count, Ring!At
<1>6. Ring!HasDat = TxFifo!HasDat /\ Ring!Rdata = TxFifo!Rdata
  BY DEF Ring!HasDat, TxFifo!HasDat, Ring!Rdata, TxFifo!Rdata
<1>7. TxFifo!Rdata \in Bytes
  BY <1>1 DEF TxFifo!Rdata
<1>8. QED
  BY <1>2, <1>4, <1>5, <1>6, <1>7 DEF Ring!OutputsAgree

\* One clock edge of the FIFO: the acknowledged byte leaves it, an accepted
\* one enters it.
LEMMA FifoEdge ==
  ASSUME TxFifo!TypeOK, txAck \in BOOLEAN, txAck => TxFifo!HasDat,
         NEW w \in Bytes \cup {NoByte},
         TxFifo!Clock(w # NoByte, IF w = NoByte THEN storage[0] ELSE w, txAck)
  PROVE  /\ TxFifo!TypeOK' /\ (TxFifo!HasDat' <=> TxFifo!Contents' # <<>>)
         /\ TxFifo!Contents' =
              Pushed(IF txAck THEN Tail(TxFifo!Contents) ELSE TxFifo!Contents, w)
<1> DEFINE rest == IF txAck THEN Tail(TxFifo!Contents) ELSE TxFifo!Contents
<1>1. /\ wpos \in Ring!Slots /\ rpos \in Ring!Slots
      /\ storage \in [Ring!Slots -> Bytes]
  BY SlotsAgree DEF TxFifo!TypeOK
<1>2. rpos' = IF txAck THEN Ring!Succ(rpos) ELSE rpos
  BY SlotsAgree DEF TxFifo!Clock
<1>3. Ring!Succ(rpos) \in Ring!Slots /\ Ring!Succ(wpos) \in Ring!Slots
  BY <1>1, RingAssumptions, Ring!SuccType
<1>4. Ring!Con(wpos, rpos', storage) = rest
  <2>1. CASE txAck
    <3>1. rpos # wpos
      BY <2>1 DEF TxFifo!HasDat
    <3>2. Ring!Con(wpos, Ring!Succ(rpos), storage)
            = Tail(Ring!Con(wpos, rpos, storage))
      BY <1>1, <3>1, RingAssumptions, Ring!ConPop
    <3>3. QED
      BY <1>2, <2>1, <3>2, ContentsAre
  <2>2. CASE ~txAck
    BY <1>2, <2>2, ContentsAre
  <2>3. QED
    BY <2>1, <2>2
<1>5. ASSUME Accepted(w)
      PROVE  TxFifo!TypeOK' /\ TxFifo!Contents' = Pushed(rest, w)
  <2>1. /\ storage' = [storage EXCEPT ![wpos] = w]
        /\ wpos' = Ring!Succ(wpos) /\ rpos # Ring!Succ(wpos) /\ w \in Bytes
    BY <1>5, SlotsAgree DEF Accepted, TxFifo!Clock, TxFifo!Full
  <2>2. rpos' # Ring!Succ(wpos)
    <3>1. CASE txAck
      BY <1>1, <1>2, <3>1, RingAssumptions
        DEF TxFifo!HasDat, Ring!Succ, Ring!Slots
    <3>2. CASE ~txAck
      BY <1>2, <2>1, <3>2
    <3>3. QED
      BY <3>1, <3>2
  <2>3. rpos' \in Ring!Slots
    BY <1>1, <1>2, <1>3
  <2>4. Ring!Con(Ring!Succ(wpos), rpos', [storage EXCEPT ![wpos] = w])
          = Append(Ring!Con(wpos, rpos', storage), w)
    <3>1. w \in Bytes
      BY <2>1
    <3>2. \A r \in Ring!Slots, d \in Bytes :
            r # Ring!Succ(wpos) =>
              Ring!Con(Ring!Succ(wpos), r, [storage EXCEPT ![wpos] = d])
                = Append(Ring!Con(wpos, r, storage), d)
      BY <1>1, RingAssumptions, Ring!ConPush
    <3>3. QED
      BY <2>2, <2>3, <3>1, <3>2
  <2>5. TxFifo!Contents' = Append(rest, w)
    BY <1>4, <2>1, <2>4, ContentsAre
  <2>6. TxFifo!TypeOK'
    BY <1>1, <1>3, <2>1, <2>3, SlotsAgree DEF TxFifo!TypeOK
  <2>7. QED
    BY <1>5, <2>5, <2>6 DEF Pushed
<1>6. ASSUME ~Accepted(w)
      PROVE  TxFifo!TypeOK' /\ TxFifo!Contents' = Pushed(rest, w)
  <2>1. UNCHANGED <<wpos, storage>>
    BY <1>6 DEF Accepted, TxFifo!Clock
  <2>2. TxFifo!Contents' = rest
    BY <1>4, <2>1, ContentsAre
  <2>3. TxFifo!TypeOK'
    BY <1>1, <1>2, <1>3, <2>1, SlotsAgree DEF TxFifo!TypeOK
  <2>4. QED
    BY <1>6, <2>2, <2>3 DEF Pushed
<1>7. /\ TxFifo!TypeOK'
      /\ TxFifo!Contents' = Pushed(rest, w)
  BY <1>5, <1>6
<1>8. TxFifo!HasDat' <=> TxFifo!Contents' # <<>>
  <2>1. /\ wpos' \in Ring!Slots /\ rpos' \in Ring!Slots
        /\ storage' \in [Ring!Slots -> Bytes]
    BY <1>7, SlotsAgree DEF TxFifo!TypeOK
  <2>2. Ring!Con(wpos', rpos', storage') = <<>> <=> rpos' = wpos'
    BY <2>1, RingAssumptions, Ring!ConEmpty
  <2>3. QED
    BY <2>2, ContentsAre DEF TxFifo!HasDat
<1>9. QED
  BY <1>7, <1>8

\* Pushing leaves the head of a queue that has one.
LEMMA PushedFacts ==
  ASSUME NEW s \in Seq(Bytes), NEW w \in Bytes \cup {NoByte}
  PROVE  /\ Pushed(s, w) \in Seq(Bytes)
         /\ s # <<>> => /\ Pushed(s, w) # <<>>
                        /\ Head(Pushed(s, w)) = Head(s)
                        /\ Tail(Pushed(s, w)) = Pushed(Tail(s), w)
<1>1. CASE ~Accepted(w)
  BY <1>1 DEF Pushed
<1>2. CASE Accepted(w)
  <2>1. w \in Bytes
    BY <1>2 DEF Accepted
  <2>2. Append(s, w) \in Seq(Bytes)
    BY <2>1
  <2>3. ASSUME s # <<>>
        PROVE  /\ Append(s, w) # <<>> /\ Head(Append(s, w)) = Head(s)
               /\ Tail(Append(s, w)) = Append(Tail(s), w)
    BY <2>1, <2>3
  <2>4. QED
    BY <1>2, <2>2, <2>3 DEF Pushed
<1>3. QED
  BY <1>1, <1>2

----------------------------------------------------------------------------
(* One clock edge of the transmitter and of the receiver, case by case.    *)

\* An edge with which the divider does not change.
Edge(w) ==
  /\ Tick(w) /\ pend' \in Bytes \cup {NoByte}
  /\ UNCHANGED <<clkDiv, rxDiv>>

TxHold ==
  /\ txTimer > 1 /\ txTimer' = txTimer - 1
  /\ txState' = txState /\ txBuf' = txBuf /\ txAck' = FALSE

TxShift ==
  /\ txTimer = 1 /\ txState # 0 /\ txTimer' = clkDiv
  /\ txState' = IF txState = Bits + 1 THEN 0 ELSE txState + 1
  /\ txBuf' = Shifted /\ txAck' = FALSE

TxStart ==
  /\ txTimer = 1 /\ txState = 0 /\ TxFifo!HasDat /\ txAck = FALSE
  /\ txTimer' = clkDiv /\ txState' = 1
  /\ txBuf' = <<0>> \o TxFifo!Rdata /\ txAck' = TRUE

TxRest ==
  /\ txTimer = 1 /\ txState = 0 /\ txTimer' = clkDiv /\ txState' = 0
  /\ txBuf' = txBuf /\ txAck' = FALSE

RxRest == rxState = 0 /\ Txd # 0 /\ rxState' = 0 /\ rxTrig' = FALSE

RxBegin ==
  /\ rxState = 0 /\ Txd = 0
  /\ rxState' = 1 /\ rxTimer' = Sample /\ rxTrig' = FALSE /\ rxBuf' = rxBuf

RxCount ==
  /\ rxState # 0 /\ rxTimer > 1
  /\ rxState' = rxState /\ rxTimer' = rxTimer - 1 /\ rxTrig' = FALSE
  /\ rxBuf' = rxBuf

RxSample ==
  /\ rxState # 0 /\ rxTimer <= 1 /\ rxState # Bits + 2
  /\ rxState' = rxState + 1 /\ rxTimer' = clkDiv /\ rxTrig' = FALSE
  /\ rxBuf' = Append(Tail(rxBuf), Txd)

RxStop ==
  /\ rxTimer <= 1 /\ rxState = Bits + 2 /\ rxState' = 0
  /\ rxTrig' = (Txd = 1) /\ (Txd = 1 => rxByte' = rxBuf) /\ rxBuf' = rxBuf

LEMMA Dividers ==
  ASSUME TypeInv
  PROVE  /\ clkDiv \in Nat /\ clkDiv >= 2 /\ rxDiv = clkDiv
         /\ Sample \in Nat /\ Sample >= 1 /\ Sample <= clkDiv - 1
         /\ FirstSample = Sample
<1>1. clkDiv \in Nat /\ clkDiv >= 2 /\ rxDiv = clkDiv
  BY UartAssumption DEF TypeInv
<1>2. \A n \in Nat : n >= 2 => n \div 2 \in Nat /\ n \div 2 >= 1 /\ n \div 2 <= n - 1
  OBVIOUS
<1>3. QED
  BY <1>1, <1>2 DEF Sample, FirstSample

LEMMA TxCases ==
  ASSUME TypeInv, AckFirst, Transmit
  PROVE  TxHold \/ TxShift \/ TxStart \/ TxRest
<1>1. txAck' = AckNext /\ txTimer \in Int /\ txTimer >= 1
  BY Dividers DEF Transmit, TypeInv
<1>2. CASE txTimer # 1
  <2>1. txTimer > 1
    BY <1>1, <1>2
  <2>2. txAck' = FALSE
    BY <1>1, <1>2 DEF AckNext, TxTrig, TypeInv
  <2>3. QED
    BY <1>2, <2>1, <2>2 DEF Transmit, TxHold
<1>3. CASE txTimer = 1 /\ txState # 0
  BY <1>1, <1>3 DEF Transmit, TxShift, AckNext, TxTrig, TypeInv
<1>4. CASE txTimer = 1 /\ txState = 0
  <2>1. txAck = FALSE /\ TxTrig = TxFifo!HasDat /\ AckNext = TxFifo!HasDat
    BY <1>4 DEF AckFirst, TypeInv, TxTrig, AckNext, TxFifo!HasDat
  <2>2. CASE TxFifo!HasDat
    BY <1>1, <1>4, <2>1, <2>2 DEF Transmit, TxStart
  <2>3. CASE ~TxFifo!HasDat
    BY <1>1, <1>4, <2>1, <2>3 DEF Transmit, TxRest, TxFifo!HasDat
  <2>4. QED
    BY <2>2, <2>3
<1>5. QED
  BY <1>2, <1>3, <1>4

LEMMA RxCases ==
  ASSUME TypeInv, Receive, rxState # 0 => rxTimer \in Int
  PROVE  RxRest \/ RxBegin \/ RxCount \/ RxSample \/ RxStop
<1>1. FirstSample = Sample /\ rxDiv = clkDiv
  BY Dividers
<1>2. CASE rxState = 0
  BY <1>1, <1>2 DEF Receive, RxRest, RxBegin
<1>3. CASE rxState # 0 /\ rxTimer > 1
  BY <1>3 DEF Receive, RxCount
<1>4. CASE rxState # 0 /\ ~(rxTimer > 1) /\ rxState # Bits + 2
  BY <1>1, <1>4 DEF Receive, RxSample
<1>5. CASE rxState # 0 /\ ~(rxTimer > 1) /\ rxState = Bits + 2
  BY <1>5 DEF Receive, RxStop, StopBit
<1>6. QED
  BY <1>2, <1>3, <1>4, <1>5

----------------------------------------------------------------------------
(* The bits on the wire.                                                   *)

LEMMA ShiftIn ==
  ASSUME NEW n \in Nat, n >= 1, NEW s \in [1 .. n -> {0, 1}],
         NEW x \in {0, 1}
  PROVE  /\ Append(Tail(s), x) \in [1 .. n -> {0, 1}]
         /\ \A k \in 1 .. n : Append(Tail(s), x)[k] = IF k < n THEN s[k + 1] ELSE x
<1>1. s \in Seq({0, 1}) /\ Len(s) = n /\ s # <<>>
  BY SeqDef, LenProperties, EmptySeq
<1>2. /\ Tail(s) \in Seq({0, 1}) /\ Len(Tail(s)) = n - 1
      /\ \A k \in 1 .. n - 1 : Tail(s)[k] = s[k + 1]
  BY <1>1, HeadTailProperties
<1>3. /\ Append(Tail(s), x) \in Seq({0, 1}) /\ Len(Append(Tail(s), x)) = n
      /\ \A k \in 1 .. n - 1 : Append(Tail(s), x)[k] = Tail(s)[k]
      /\ Append(Tail(s), x)[n] = x
  BY <1>2, AppendProperties
<1>4. Append(Tail(s), x) \in [1 .. n -> {0, 1}]
  BY <1>3, LenProperties
<1>5. \A k \in 1 .. n : Append(Tail(s), x)[k] = IF k < n THEN s[k + 1] ELSE x
  <2> TAKE k \in 1 .. n
  <2>1. CASE k = n
    BY <1>3, <2>1
  <2>2. CASE k # n
    <3>1. k \in 1 .. n - 1 /\ k < n
      BY <2>2
    <3>2. QED
      BY <1>2, <1>3, <3>1
  <2>3. QED
    BY <2>1, <2>2
<1>6. QED
  BY <1>4, <1>5

LEMMA FrameStart ==
  ASSUME NEW b \in Bytes
  PROVE  /\ <<0>> \o b \in [1 .. Bits + 1 -> {0, 1}]
         /\ \A k \in 1 .. Bits + 1 : (<<0>> \o b)[k] = FrameBit(b, k)
<1>1. /\ b \in [1 .. Bits -> {0, 1}] /\ b \in Seq({0, 1}) /\ Len(b) = Bits
      /\ <<0>> \in Seq({0, 1}) /\ Len(<<0>>) = 1 /\ <<0>>[1] = 0
  BY RingAssumptions, SeqDef, LenProperties
<1>2. /\ <<0>> \o b \in Seq({0, 1}) /\ Len(<<0>> \o b) = Bits + 1
      /\ (<<0>> \o b)[1] = 0
      /\ \A k \in 2 .. Bits + 1 : (<<0>> \o b)[k] = b[k - 1]
  BY <1>1, RingAssumptions, ConcatProperties
<1>3. <<0>> \o b \in [1 .. Bits + 1 -> {0, 1}]
  BY <1>2, LenProperties
<1>4. \A k \in 1 .. Bits + 1 : (<<0>> \o b)[k] = FrameBit(b, k)
  BY <1>2, RingAssumptions DEF FrameBit
<1>5. QED
  BY <1>3, <1>4

\* Of the frame of a byte the receiver samples the start bit, the byte and
\* the stop bit.
LEMMA FrameBits ==
  ASSUME NEW b \in Bytes
  PROVE  /\ FrameBit(b, 1) = 0
         /\ \A k \in 1 .. Bits : FrameBit(b, k + 1) = b[k]
         /\ \A k \in Nat : k > Bits + 1 => FrameBit(b, k) = 1
         /\ \A k \in Nat : k >= 1 => FrameBit(b, k) \in {0, 1}
<1>1. b \in [1 .. Bits -> {0, 1}]
  BY RingAssumptions
<1>2. \A k \in 1 .. Bits : FrameBit(b, k + 1) = b[k]
  <2> TAKE k \in 1 .. Bits
  <2>1. k + 1 # 1 /\ k + 1 <= Bits + 1 /\ (k + 1) - 1 = k
    BY RingAssumptions
  <2>2. QED
    BY <2>1 DEF FrameBit
<1>3. \A k \in Nat : k > Bits + 1 => FrameBit(b, k) = 1
  BY RingAssumptions DEF FrameBit
<1>4. \A k \in Nat : k >= 1 => FrameBit(b, k) \in {0, 1}
  BY <1>1, RingAssumptions DEF FrameBit
<1>5. QED
  BY <1>2, <1>3, <1>4 DEF FrameBit

----------------------------------------------------------------------------
(* The bytes under way.                                                    *)

LEMMA DueFacts ==
  ASSUME IInv
  PROVE  /\ Due \in Seq(Bytes) /\ TxFifo!Contents \in Seq(Bytes)
         /\ txAck => TxFifo!Contents # <<>> /\ txState = 1 /\ rxState = 0
         /\ rxState = 0 => Due = TxFifo!Contents
         /\ rxState # 0 => /\ txAck = FALSE /\ rxTrig = FALSE
                           /\ Due # <<>> /\ Tail(Due) = TxFifo!Contents
         /\ (OnWire => Due # <<>> /\ Current \in Bytes)
<1>1. TxFifo!Contents \in Seq(Bytes) /\ (TxFifo!HasDat <=> TxFifo!Contents # <<>>)
  BY FifoOutputs DEF IInv, TypeInv
<1>2. Due \in Seq(Bytes)
  <2>1. CASE rxTrig
    <3>1. flight # <<>> /\ flight \in Seq(Bytes)
      BY <2>1 DEF IInv, Handover, TypeInv
    <3>2. Tail(flight) \in Seq(Bytes)
      BY <3>1
    <3>3. QED
      BY <2>1, <3>2 DEF Due
  <2>2. CASE ~rxTrig
    BY <2>2 DEF Due, IInv, TypeInv
  <2>3. QED
    BY <2>1, <2>2
<1>3. txAck => TxFifo!Contents # <<>> /\ txState = 1 /\ rxState = 0
  BY <1>1 DEF IInv, AckFirst, InStep
<1>4. rxState = 0 => Due = TxFifo!Contents
  BY DEF IInv, DueInOrder, InStep, OnWire
<1>5. rxState # 0 => /\ txAck = FALSE /\ rxTrig = FALSE
                     /\ Due # <<>> /\ Tail(Due) = TxFifo!Contents
  BY DEF IInv, TypeInv, DueInOrder, InStep, OnWire, Handover
<1>6. OnWire => Due # <<>>
  BY <1>3, <1>4, <1>5 DEF IInv, InStep, OnWire
<1>7. Due # <<>> => Current \in Bytes
  BY <1>2 DEF Current
<1>8. QED
  BY <1>1, <1>2, <1>3, <1>4, <1>5, <1>6, <1>7

\* The bit on the wire.
LEMMA WireBit ==
  ASSUME IInv
  PROVE  Txd = IF txState = 0 THEN 1 ELSE FrameBit(Current, txState)
<1>1. txState \in Nat /\ 1 \in 1 .. Bits + 1
  BY RingAssumptions DEF IInv, TypeInv
<1>2. txBuf[1] = IF txState = 0 THEN 1 ELSE FrameBit(Current, txState - 1 + 1)
  BY <1>1 DEF IInv, WireHolds
<1>3. txState - 1 + 1 = txState
  BY <1>1
<1>4. QED
  BY <1>2, <1>3 DEF Txd

\* History and FIFO take in the same byte.
LEMMA Flow ==
  ASSUME IInv, NEW w \in Bytes \cup {NoByte}, Edge(w)
  PROVE  /\ flight' = Pushed(Due, w) /\ flight' \in Seq(Bytes)
         /\ TxFifo!TypeOK' /\ (TxFifo!HasDat' <=> TxFifo!Contents' # <<>>)
         /\ TxFifo!Contents' =
              Pushed(IF txAck THEN Tail(TxFifo!Contents) ELSE TxFifo!Contents, w)
<1>1. flight' = Pushed(Due, w)
  <2>1. Due = IF rxTrig /\ flight # <<>> THEN Tail(flight) ELSE flight
    BY DEF IInv, Handover, Due
  <2>2. flight' = LET left == IF rxTrig /\ flight # <<>> THEN Tail(flight) ELSE flight
                  IN IF Accepted(w) THEN Append(left, w) ELSE left
    BY DEF Edge, Tick
  <2>3. QED
    BY <2>1, <2>2 DEF Pushed
<1>2. flight' \in Seq(Bytes)
  BY <1>1, DueFacts, PushedFacts
<1>3. txAck \in BOOLEAN /\ (txAck => TxFifo!HasDat) /\ TxFifo!TypeOK
  BY DEF IInv, TypeInv, AckFirst
<1>4. TxFifo!Clock(w # NoByte, IF w = NoByte THEN storage[0] ELSE w, txAck)
  BY DEF Edge, Tick
<1>5. QED
  BY <1>1, <1>2, <1>3, <1>4, FifoEdge

\* While a byte is on the wire it stays the oldest one that is due.
LEMMA Underway ==
  ASSUME IInv, NEW w \in Bytes \cup {NoByte}, Edge(w),
         rxState # 0 \/ txAck, rxTrig' = FALSE
  PROVE  /\ Due' # <<>> /\ Current' = Current /\ Current \in Bytes
         /\ Tail(Due') = TxFifo!Contents'
<1>1. Due' = Pushed(Due, w)
  BY Flow DEF Due
<1>2. /\ Due \in Seq(Bytes) /\ Due # <<>> /\ Current \in Bytes
      /\ Tail(Due) = IF txAck THEN Tail(TxFifo!Contents) ELSE TxFifo!Contents
  <2>1. CASE rxState # 0
    BY <2>1, DueFacts DEF OnWire
  <2>2. CASE rxState = 0 /\ txAck
    BY <2>2, DueFacts DEF OnWire
  <2>3. QED
    BY <2>1, <2>2
<1>3. /\ Due' # <<>> /\ Head(Due') = Head(Due)
      /\ Tail(Due') = Pushed(Tail(Due), w)
  BY <1>1, <1>2, PushedFacts
<1>4. QED
  BY <1>2, <1>3, Flow DEF Current

\* When the wire is idle or the receiver hands over the byte, the next one is
\* that at the head of the FIFO.
LEMMA NextUp ==
  ASSUME IInv, NEW w \in Bytes \cup {NoByte}, Edge(w), txAck = FALSE,
         \/ rxState = 0 /\ rxTrig' = FALSE
         \/ rxState # 0 /\ rxTrig' = TRUE
  PROVE  /\ Due' = TxFifo!Contents'
         /\ TxFifo!HasDat => /\ TxFifo!HasDat' /\ Current' = TxFifo!Rdata
                             /\ TxFifo!Rdata \in Bytes
<1>1. Due' = TxFifo!Contents'
  <2>1. CASE rxState = 0 /\ rxTrig' = FALSE
    BY <2>1, Flow, DueFacts DEF Due
  <2>2. CASE rxState # 0 /\ rxTrig' = TRUE
    <3>1. Due' = Tail(Pushed(Due, w))
      BY <2>2, Flow DEF Due
    <3>2. Due' = Pushed(Tail(Due), w)
      BY <2>2, <3>1, DueFacts, PushedFacts
    <3>3. QED
      BY <2>2, <3>2, Flow, DueFacts
  <2>3. QED
    BY <2>1, <2>2
<1>2. TxFifo!Contents' = Pushed(TxFifo!Contents, w)
  BY Flow
<1>3. ASSUME TxFifo!HasDat
      PROVE  /\ TxFifo!HasDat' /\ Current' = TxFifo!Rdata
             /\ TxFifo!Rdata \in Bytes
  <2>1. /\ TxFifo!Contents \in Seq(Bytes) /\ TxFifo!Contents # <<>>
        /\ TxFifo!Rdata = Head(TxFifo!Contents) /\ TxFifo!Rdata \in Bytes
    BY <1>3, FifoOutputs DEF IInv, TypeInv
  <2>2. /\ TxFifo!Contents' # <<>>
        /\ Head(TxFifo!Contents') = Head(TxFifo!Contents)
    BY <1>2, <2>1, PushedFacts
  <2>3. QED
    BY <1>1, <2>1, <2>2, Flow DEF Current
<1>4. QED
  BY <1>1, <1>3

----------------------------------------------------------------------------
(* Every edge keeps the invariant, receiver case by receiver case.  Each   *)
(* lemma gives the parts that depend on the phase between the two ends.    *)

\* What the receiver's cases have in common.
LEMMA EdgeFacts ==
  ASSUME IInv, NEW w \in Bytes \cup {NoByte}, Edge(w)
  PROVE  /\ TxHold \/ TxShift \/ TxStart \/ TxRest
         /\ RxRest \/ RxBegin \/ RxCount \/ RxSample \/ RxStop
         /\ clkDiv \in Nat /\ clkDiv >= 2 /\ clkDiv' = clkDiv
         /\ Sample \in Nat /\ Sample >= 1 /\ Sample <= clkDiv - 1 /\ Sample' = Sample
         /\ txTimer \in 1 .. clkDiv /\ txState \in 0 .. Bits + 1
         /\ rxState \in 0 .. Bits + 2 /\ Bits \in Nat /\ Bits >= 1
<1>1. TypeInv /\ clkDiv' = clkDiv
  BY DEF IInv, Edge
<1>2. /\ clkDiv \in Nat /\ clkDiv >= 2
      /\ Sample \in Nat /\ Sample >= 1 /\ Sample <= clkDiv - 1
  BY <1>1, Dividers
<1>3. Sample' = Sample
  BY <1>1 DEF Sample
<1>4. txTimer \in Int
  BY <1>1, <1>2 DEF TypeInv
<1>5. rxState # 0 => rxTimer \in Int
  BY <1>2, <1>4 DEF IInv, InStep, Passed
<1>6. TxHold \/ TxShift \/ TxStart \/ TxRest
  BY TxCases DEF IInv, Edge, Tick
<1>7. RxRest \/ RxBegin \/ RxCount \/ RxSample \/ RxStop
  BY <1>1, <1>5, RxCases DEF Edge, Tick
<1>8. QED
  BY <1>1, <1>2, <1>3, <1>6, <1>7, RingAssumptions DEF TypeInv

\* The acknowledgement lasts for the first cycle of the start bit.
LEMMA AckStep ==
  ASSUME IInv, NEW w \in Bytes \cup {NoByte}, Edge(w)
  PROVE  AckFirst'
<1>1. (txAck' <=> txState' = 1 /\ txTimer' = clkDiv')
  <2>0. /\ txTimer \in 1 .. clkDiv /\ txState \in 0 .. Bits + 1 /\ Bits \in Nat
        /\ clkDiv \in Nat /\ clkDiv >= 2 /\ clkDiv' = clkDiv /\ Bits >= 1
    BY EdgeFacts
  <2>1. CASE TxHold
    <3>1. txTimer' = txTimer - 1 /\ txAck' = FALSE
      BY <2>1 DEF TxHold
    <3>2. txTimer' # clkDiv'
      BY <2>0, <3>1
    <3>3. QED
      BY <3>1, <3>2
  <2>2. CASE TxShift
    <3>1. txState # 0 /\ txState' = IF txState = Bits + 1 THEN 0 ELSE txState + 1
      BY <2>2 DEF TxShift
    <3>2. txState' # 1
      BY <2>0, <3>1
    <3>3. QED
      BY <2>2, <3>2 DEF TxShift
  <2>3. CASE TxStart
    BY <2>3, EdgeFacts DEF TxStart
  <2>4. CASE TxRest
    BY <2>4 DEF TxRest
  <2>5. QED
    BY <2>1, <2>2, <2>3, <2>4, EdgeFacts
<1>2. txAck' => TxFifo!HasDat'
  <2> SUFFICES ASSUME txAck' PROVE TxFifo!HasDat'
    OBVIOUS
  <2>1. txAck = FALSE /\ TxFifo!HasDat
    BY EdgeFacts DEF TxHold, TxShift, TxStart, TxRest
  <2>2. TxFifo!Contents' = Pushed(TxFifo!Contents, w)
    BY <2>1, Flow
  <2>3. TxFifo!Contents \in Seq(Bytes) /\ TxFifo!Contents # <<>>
    BY <2>1, FifoOutputs DEF IInv, TypeInv
  <2>4. QED
    BY <2>2, <2>3, PushedFacts, Flow
<1>3. QED
  BY <1>1, <1>2 DEF AckFirst

\* The transmitter shifts the frame of the byte that is due.
LEMMA WireStep ==
  ASSUME IInv, NEW w \in Bytes \cup {NoByte}, Edge(w),
         txState # 0 => Current' = Current /\ Current \in Bytes,
         TxStart => Current' = TxFifo!Rdata /\ TxFifo!Rdata \in Bytes
  PROVE  WireHolds' /\ txBuf' \in [1 .. Bits + 1 -> {0, 1}]
<1>1. /\ txBuf \in [1 .. Bits + 1 -> {0, 1}] /\ Bits + 1 \in Nat /\ Bits + 1 >= 1
      /\ txState \in 0 .. Bits + 1 /\ Bits \in Nat
  BY EdgeFacts DEF IInv, TypeInv
<1>2. CASE TxHold \/ TxRest
  <2>1. txState' = txState /\ txBuf' = txBuf
    BY <1>2 DEF TxHold, TxRest
  <2>2. QED
    BY <1>1, <2>1 DEF IInv, WireHolds
<1>3. CASE TxShift
  <2>1. /\ txBuf' \in [1 .. Bits + 1 -> {0, 1}]
        /\ \A k \in 1 .. Bits + 1 :
             txBuf'[k] = IF k < Bits + 1 THEN txBuf[k + 1] ELSE 1
    <3>1. txBuf' = Append(Tail(txBuf), 1) /\ 1 \in {0, 1}
      BY <1>3 DEF TxShift, Shifted
    <3>2. \A n \in Nat : n >= 1 /\ txBuf \in [1 .. n -> {0, 1}] =>
            /\ Append(Tail(txBuf), 1) \in [1 .. n -> {0, 1}]
            /\ \A k \in 1 .. n :
                 Append(Tail(txBuf), 1)[k] = IF k < n THEN txBuf[k + 1] ELSE 1
      BY <3>1, ShiftIn
    <3>3. QED
      BY <1>1, <3>1, <3>2
  <2>2. txState # 0 /\ Current' = Current /\ Current \in Bytes
    BY <1>3 DEF TxShift
  <2>3. \A k \in 1 .. Bits + 1 : txBuf'[k] = FrameBit(Current, txState + k)
    <3> TAKE k \in 1 .. Bits + 1
    <3>1. CASE k < Bits + 1
      <4>1. k + 1 \in 1 .. Bits + 1 /\ txState - 1 + (k + 1) = txState + k
        BY <1>1, <3>1
      <4>2. txBuf[k + 1] = FrameBit(Current, txState - 1 + (k + 1))
        BY <2>2, <4>1 DEF IInv, WireHolds
      <4>3. QED
        BY <2>1, <3>1, <4>1, <4>2
    <3>2. CASE ~(k < Bits + 1)
      <4>1. txState + k \in Nat /\ txState + k > Bits + 1
        BY <1>1, <2>2, <3>2
      <4>2. FrameBit(Current, txState + k) = 1
        BY <2>2, <4>1, FrameBits
      <4>3. QED
        BY <2>1, <3>2, <4>2
    <3>3. QED
      BY <3>1, <3>2
  <2>4. CASE txState = Bits + 1
    <3>1. txState' = 0
      BY <1>3, <2>4 DEF TxShift
    <3>2. \A k \in 1 .. Bits + 1 : FrameBit(Current, txState + k) = 1
      <4> TAKE k \in 1 .. Bits + 1
      <4>1. txState + k \in Nat /\ txState + k > Bits + 1
        BY <1>1, <2>4
      <4>2. QED
        BY <2>2, <4>1, FrameBits
    <3>3. QED
      BY <2>1, <2>3, <3>1, <3>2 DEF WireHolds
  <2>5. CASE txState # Bits + 1
    <3>1. txState' = txState + 1 /\ txState' # 0
      BY <1>1, <1>3, <2>5 DEF TxShift
    <3>2. \A k \in 1 .. Bits + 1 : txState' - 1 + k = txState + k
      BY <1>1, <3>1
    <3>3. QED
      BY <2>1, <2>2, <2>3, <3>1, <3>2 DEF WireHolds
  <2>6. QED
    BY <2>4, <2>5
<1>4. CASE TxStart
  <2>1. /\ txBuf' = <<0>> \o TxFifo!Rdata /\ txState' = 1
        /\ Current' = TxFifo!Rdata /\ TxFifo!Rdata \in Bytes
    BY <1>4 DEF TxStart
  <2>2. /\ txBuf' \in [1 .. Bits + 1 -> {0, 1}]
        /\ \A k \in 1 .. Bits + 1 : txBuf'[k] = FrameBit(Current', k)
    BY <2>1, FrameStart
  <2>3. \A k \in 1 .. Bits + 1 : txState' - 1 + k = k
    BY <1>1, <2>1
  <2>4. QED
    BY <2>1, <2>2, <2>3 DEF WireHolds
<1>5. QED
  BY <1>2, <1>3, <1>4, EdgeFacts

\* The parts of the invariant that relate the two ends.
Ends == WireHolds /\ InStep /\ Sampled /\ DueInOrder /\ Handover
Bits01(n) == [1 .. n -> {0, 1}]

\* Idle receiver, idle wire.
LEMMA RestStep ==
  ASSUME IInv, NEW w \in Bytes \cup {NoByte}, Edge(w), RxRest
  PROVE  Ends' /\ txBuf' \in Bits01(Bits + 1) /\ rxState' = 0
<1>1. rxState = 0 /\ Txd # 0 /\ rxState' = 0 /\ rxTrig' = FALSE
  BY DEF RxRest
<1>2. txState = 0 /\ txAck = FALSE
  <2>1. ASSUME txState # 0 PROVE FALSE
    <3>1. txAck
      BY <1>1, <2>1 DEF IInv, InStep
    <3>2. Current \in Bytes /\ txState = 1
      BY <2>1, <3>1, DueFacts DEF OnWire
    <3>3. Txd = 0
      BY <3>2, WireBit, FrameBits
    <3>4. QED
      BY <1>1, <3>3
  <2>2. txState = 0 => ~txAck
    BY DueFacts
  <2>3. txAck \in BOOLEAN
    BY DEF IInv, TypeInv
  <2>4. QED
    BY <2>1, <2>2, <2>3
<1>3. /\ Due' = TxFifo!Contents'
      /\ TxFifo!HasDat => Current' = TxFifo!Rdata /\ TxFifo!Rdata \in Bytes
  BY <1>1, <1>2, NextUp
<1>4. WireHolds' /\ txBuf' \in Bits01(Bits + 1)
  BY <1>2, <1>3, WireStep DEF TxStart, Bits01
<1>5. txState' = 0 \/ txAck'
  BY <1>2, EdgeFacts DEF TxHold, TxShift, TxStart, TxRest
<1>6. InStep' /\ DueInOrder' /\ Handover'
  BY <1>1, <1>3, <1>5 DEF InStep, DueInOrder, OnWire, Handover
<1>7. Sampled'
  <2>1. \A k \in 1 .. Bits : ~(k > Bits + 1 - 0)
    BY EdgeFacts
  <2>2. QED
    BY <1>1, <2>1 DEF Sampled
<1>8. QED
  BY <1>1, <1>4, <1>6, <1>7 DEF Ends

\* The first cycle of a start bit.
LEMMA BeginStep ==
  ASSUME IInv, NEW w \in Bytes \cup {NoByte}, Edge(w), RxBegin
  PROVE  Ends' /\ txBuf' \in Bits01(Bits + 1) /\ rxState' = 1
<1>1. /\ rxState = 0 /\ Txd = 0
      /\ rxState' = 1 /\ rxTimer' = Sample /\ rxTrig' = FALSE
  BY DEF RxBegin
<1>2. txState = 1 /\ txTimer = clkDiv /\ txAck
  <2>1. txState # 0
    BY <1>1, WireBit
  <2>2. txAck
    BY <1>1, <2>1 DEF IInv, InStep
  <2>3. QED
    BY <2>2 DEF IInv, AckFirst
<1>3. clkDiv \in Nat /\ clkDiv >= 2 /\ clkDiv' = clkDiv /\ Sample \in Nat
      /\ Sample >= 1 /\ Sample' = Sample /\ Bits \in Nat
  BY EdgeFacts
<1>4. txTimer # 1
  BY <1>2, <1>3
<1>5. txTimer' = clkDiv - 1 /\ txState' = 1 /\ txAck' = FALSE
  BY <1>2, <1>4, EdgeFacts DEF TxHold, TxShift, TxStart, TxRest
<1>6. /\ Due' # <<>> /\ Current' = Current /\ Current \in Bytes
      /\ Tail(Due') = TxFifo!Contents'
  BY <1>1, <1>2, Underway
<1>7. WireHolds' /\ txBuf' \in Bits01(Bits + 1)
  BY <1>4, <1>6, WireStep DEF TxStart, Bits01
<1>8. Period' = 1 /\ Passed' = 1
  BY <1>3, <1>5 DEF Period, Passed
<1>9. InStep'
  <2>1. Passed' <= Sample' /\ rxTimer' = Sample' + 1 - Passed'
    BY <1>1, <1>3, <1>8
  <2>2. QED
    BY <1>1, <1>5, <1>8, <2>1 DEF InStep
<1>10. Sampled'
  <2>1. \A k \in 1 .. Bits : ~(k > Bits + 1 - 1)
    BY <1>3
  <2>2. QED
    BY <1>1, <2>1 DEF Sampled
<1>11. DueInOrder' /\ Handover'
  BY <1>1, <1>5, <1>6 DEF DueInOrder, OnWire, Handover
<1>12. QED
  BY <1>1, <1>7, <1>9, <1>10, <1>11 DEF Ends

\* What the phase between the two ends says while a byte is on the wire.
LEMMA Phase ==
  ASSUME IInv, rxState # 0
  PROVE  /\ rxTimer \in Int
         /\ txTimer = 1 /\ txState = 0 => rxTimer <= 1 /\ rxState = Bits + 2
         /\ rxTimer > 1 /\ txTimer = 1 => rxState = Period + 1
         /\ rxTimer <= 1 => rxState = Period /\ Passed = Sample
<1>1. /\ clkDiv \in Nat /\ clkDiv >= 2
      /\ Sample \in Nat /\ Sample >= 1 /\ Sample <= clkDiv - 1
      /\ txTimer \in 1 .. clkDiv /\ txState \in 0 .. Bits + 1
      /\ rxState \in 0 .. Bits + 2 /\ Bits \in Nat
  BY Dividers, RingAssumptions DEF IInv, TypeInv
<1>2. Passed \in 0 .. clkDiv - 1 /\ (txTimer = 1 => Passed = clkDiv - 1)
  BY <1>1 DEF Passed
<1>3. Period \in Nat /\ (txState = 0 => Period = Bits + 2)
  BY <1>1 DEF Period
<1>4. \/ rxState = Period /\ Passed <= Sample /\ rxTimer = Sample + 1 - Passed
      \/ /\ rxState = Period + 1 /\ Passed > Sample
         /\ rxTimer = clkDiv + Sample + 1 - Passed
  BY DEF IInv, InStep
<1>5. QED
  BY <1>1, <1>2, <1>3, <1>4

\* A byte is on the wire and the receiver waits for its next sample.
LEMMA CountStep ==
  ASSUME IInv, NEW w \in Bytes \cup {NoByte}, Edge(w), RxCount
  PROVE  Ends' /\ txBuf' \in Bits01(Bits + 1) /\ rxState' = rxState
<1>1. /\ rxState # 0 /\ rxTimer > 1 /\ rxState' = rxState /\ rxBuf' = rxBuf
      /\ rxTimer' = rxTimer - 1 /\ rxTrig' = FALSE
  BY DEF RxCount
<1>2. /\ clkDiv \in Nat /\ clkDiv >= 2 /\ clkDiv' = clkDiv /\ Sample \in Nat
      /\ Sample >= 1 /\ Sample <= clkDiv - 1 /\ Sample' = Sample /\ Bits \in Nat
      /\ txTimer \in 1 .. clkDiv /\ txState \in 0 .. Bits + 1
  BY EdgeFacts
<1>3. /\ Due' # <<>> /\ Current' = Current /\ Current \in Bytes
      /\ Tail(Due') = TxFifo!Contents'
  BY <1>1, Underway
<1>4. /\ rxTimer \in Int /\ (txTimer = 1 => rxState = Period + 1)
      /\ ~(txTimer = 1 /\ txState = 0)
  BY <1>1, Phase
<1>5. TxHold \/ TxShift
  BY <1>4, EdgeFacts DEF TxStart, TxRest
<1>6. txAck' = FALSE
  BY <1>5 DEF TxHold, TxShift
<1>7. WireHolds' /\ txBuf' \in Bits01(Bits + 1)
  BY <1>3, <1>4, WireStep DEF TxStart, Bits01
<1>8. InStep'
  <2>1. \/ rxState = Period /\ Passed <= Sample /\ rxTimer = Sample + 1 - Passed
        \/ /\ rxState = Period + 1 /\ Passed > Sample
           /\ rxTimer = clkDiv + Sample + 1 - Passed
    BY <1>1 DEF IInv, InStep
  <2>2. CASE TxHold
    <3>1. Period' = Period /\ Passed' = Passed + 1 /\ Passed \in Int
      BY <1>2, <2>2 DEF TxHold, Period, Passed
    <3>2. \/ /\ rxState' = Period' /\ Passed' <= Sample'
             /\ rxTimer' = Sample' + 1 - Passed'
          \/ /\ rxState' = Period' + 1 /\ Passed' > Sample'
             /\ rxTimer' = clkDiv' + Sample' + 1 - Passed'
      BY <1>1, <1>2, <2>1, <3>1
    <3>3. QED
      BY <1>1, <1>6, <3>2 DEF InStep
  <2>3. CASE TxShift
    <3>1. txTimer = 1 /\ txTimer' = clkDiv /\ txState # 0
          /\ txState' = IF txState = Bits + 1 THEN 0 ELSE txState + 1
      BY <2>3 DEF TxShift
    <3>2. Period = txState /\ Period' = Period + 1
      BY <1>2, <3>1 DEF Period
    <3>3. Passed = clkDiv - 1 /\ Passed' = 0
      BY <1>2, <3>1 DEF Passed
    <3>4. rxState' = Period' /\ Passed' <= Sample' /\ rxTimer' = Sample' + 1 - Passed'
      BY <1>1, <1>2, <1>4, <2>1, <3>1, <3>2, <3>3
    <3>5. QED
      BY <1>1, <1>6, <3>4 DEF InStep
  <2>4. QED
    BY <1>5, <2>2, <2>3
<1>9. Sampled'
  BY <1>1, <1>3 DEF IInv, Sampled
<1>10. DueInOrder' /\ Handover'
  BY <1>1, <1>3, <1>6 DEF DueInOrder, OnWire, Handover
<1>11. QED
  BY <1>1, <1>7, <1>8, <1>9, <1>10 DEF Ends

\* The receiver samples the start bit or a bit of the byte.
LEMMA SampleStep ==
  ASSUME IInv, NEW w \in Bytes \cup {NoByte}, Edge(w), RxSample
  PROVE  /\ Ends' /\ txBuf' \in Bits01(Bits + 1) /\ rxState' = rxState + 1
         /\ rxBuf' \in Bits01(Bits)
<1>1. /\ rxState # 0 /\ rxTimer <= 1 /\ rxState # Bits + 2
      /\ rxState' = rxState + 1 /\ rxTimer' = clkDiv /\ rxTrig' = FALSE
      /\ rxBuf' = Append(Tail(rxBuf), Txd)
  BY DEF RxSample
<1>2. /\ clkDiv \in Nat /\ clkDiv >= 2 /\ clkDiv' = clkDiv /\ Sample \in Nat
      /\ Sample >= 1 /\ Sample <= clkDiv - 1 /\ Sample' = Sample
      /\ Bits \in Nat /\ Bits >= 1 /\ rxState \in 0 .. Bits + 2
      /\ txTimer \in 1 .. clkDiv /\ txState \in 0 .. Bits + 1
  BY EdgeFacts
<1>3. /\ Due' # <<>> /\ Current' = Current /\ Current \in Bytes
      /\ Tail(Due') = TxFifo!Contents'
  BY <1>1, Underway
<1>4. rxState = Period /\ Passed = Sample
  BY <1>1, Phase
<1>5. txState # 0 /\ rxState = txState
  BY <1>1, <1>4 DEF Period
<1>6. TxHold \/ TxShift
  BY <1>5, EdgeFacts DEF TxStart, TxRest
<1>7. txAck' = FALSE
  BY <1>6 DEF TxHold, TxShift
<1>8. WireHolds' /\ txBuf' \in Bits01(Bits + 1)
  BY <1>3, <1>5, WireStep DEF TxStart, Bits01
<1>9. InStep'
  <2>1. rxState' # 0
    BY <1>1, <1>2
  <2>2. CASE TxHold
    <3>1. Period' = Period /\ Passed' = Passed + 1
      BY <1>2, <2>2 DEF TxHold, Period, Passed
    <3>2. /\ rxState' = Period' + 1 /\ Passed' > Sample'
          /\ rxTimer' = clkDiv' + Sample' + 1 - Passed'
      BY <1>1, <1>2, <1>4, <3>1
    <3>3. QED
      BY <1>7, <2>1, <3>2 DEF InStep
  <2>3. CASE TxShift
    <3>1. txTimer = 1 /\ txTimer' = clkDiv /\ txState # 0
          /\ txState' = IF txState = Bits + 1 THEN 0 ELSE txState + 1
      BY <2>3 DEF TxShift
    <3>2. Period' = txState + 1
      BY <1>2, <3>1 DEF Period
    <3>3. Passed = clkDiv - 1 /\ Passed' = 0
      BY <1>2, <3>1 DEF Passed
    <3>4. rxState' = Period' /\ Passed' <= Sample' /\ rxTimer' = Sample' + 1 - Passed'
      BY <1>1, <1>2, <1>4, <1>5, <3>1, <3>2, <3>3
    <3>5. QED
      BY <1>7, <2>1, <3>4 DEF InStep
  <2>4. QED
    BY <1>6, <2>2, <2>3
<1>10. Txd = FrameBit(Current, rxState) /\ Txd \in {0, 1}
  BY <1>2, <1>3, <1>5, WireBit, FrameBits
<1>11. rxBuf' \in Bits01(Bits)
       /\ \A k \in 1 .. Bits : rxBuf'[k] = IF k < Bits THEN rxBuf[k + 1] ELSE Txd
  <2>1. rxBuf \in [1 .. Bits -> {0, 1}]
    BY DEF IInv, TypeInv
  <2>2. QED
    BY <1>1, <1>2, <1>10, <2>1, ShiftIn, ZenonT(60) DEF Bits01
<1>12. Sampled'
  <2> SUFFICES ASSUME NEW k \in 1 .. Bits, k > Bits + 1 - (rxState + 1)
               PROVE  rxBuf'[k] = FrameBit(Current, (rxState + 1) - 1 - Bits + k)
    BY <1>1, <1>3 DEF Sampled
  <2>1. CASE k < Bits
    <3>1. /\ k + 1 \in 1 .. Bits /\ k + 1 > Bits + 1 - rxState
          /\ (rxState + 1) - 1 - Bits + k = rxState - 1 - Bits + (k + 1)
      BY <1>2, <2>1
    <3>2. rxBuf[k + 1] = FrameBit(Current, rxState - 1 - Bits + (k + 1))
      BY <3>1 DEF IInv, Sampled
    <3>3. QED
      BY <1>11, <2>1, <3>1, <3>2
  <2>2. CASE ~(k < Bits)
    <3>1. (rxState + 1) - 1 - Bits + k = rxState
      BY <1>2, <2>2
    <3>2. QED
      BY <1>10, <1>11, <2>2, <3>1
  <2>3. QED
    BY <2>1, <2>2
<1>13. DueInOrder' /\ Handover'
  <2>1. OnWire'
    BY <1>1, <1>2 DEF OnWire
  <2>2. QED
    BY <1>1, <1>3, <1>7, <2>1 DEF DueInOrder, Handover
<1>14. QED
  BY <1>1, <1>8, <1>9, <1>11, <1>12, <1>13 DEF Ends

\* The receiver samples the stop bit and hands the byte over.
LEMMA StopStep ==
  ASSUME IInv, NEW w \in Bytes \cup {NoByte}, Edge(w), RxStop
  PROVE  Ends' /\ txBuf' \in Bits01(Bits + 1) /\ rxState' = 0 /\ rxTrig' = TRUE
<1>1. /\ rxTimer <= 1 /\ rxState = Bits + 2 /\ rxState' = 0
      /\ rxTrig' = (Txd = 1) /\ (Txd = 1 => rxByte' = rxBuf)
  BY DEF RxStop
<1>2. /\ Bits \in Nat /\ Bits >= 1 /\ txState \in 0 .. Bits + 1 /\ rxState # 0
  BY <1>1, EdgeFacts
<1>3. txState = 0
  BY <1>1, <1>2, Phase DEF Period
<1>4. Txd = 1
  BY <1>3, WireBit
<1>5. rxTrig' = TRUE /\ rxByte' = rxBuf
  BY <1>1, <1>4
<1>6. /\ txAck = FALSE /\ Due \in Seq(Bytes) /\ Due # <<>> /\ Current \in Bytes
  BY <1>2, DueFacts DEF OnWire
<1>7. /\ Due' = TxFifo!Contents'
      /\ TxFifo!HasDat => Current' = TxFifo!Rdata /\ TxFifo!Rdata \in Bytes
  BY <1>2, <1>5, <1>6, NextUp
<1>8. WireHolds' /\ txBuf' \in Bits01(Bits + 1)
  BY <1>3, <1>7, WireStep DEF TxStart, Bits01
<1>9. txState' = 0 \/ txAck'
  BY <1>3, EdgeFacts DEF TxHold, TxShift, TxStart, TxRest
<1>10. InStep' /\ DueInOrder'
  BY <1>1, <1>7, <1>9 DEF InStep, DueInOrder, OnWire
<1>11. Sampled'
  <2>1. \A k \in 1 .. Bits : ~(k > Bits + 1 - 0)
    BY <1>2
  <2>2. QED
    BY <1>1, <2>1 DEF Sampled
<1>12. rxBuf = Current
  <2>1. rxBuf \in [1 .. Bits -> {0, 1}] /\ Current \in [1 .. Bits -> {0, 1}]
    BY <1>6, RingAssumptions DEF IInv, TypeInv
  <2>2. \A k \in 1 .. Bits : rxBuf[k] = Current[k]
    <3> TAKE k \in 1 .. Bits
    <3>1. k > Bits + 1 - rxState /\ rxState - 1 - Bits + k = k + 1
      BY <1>1, <1>2
    <3>2. rxBuf[k] = FrameBit(Current, k + 1)
      BY <3>1 DEF IInv, Sampled
    <3>3. QED
      BY <1>6, <3>2, FrameBits
  <2>3. /\ rxBuf = [k \in 1 .. Bits |-> rxBuf[k]]
        /\ Current = [k \in 1 .. Bits |-> Current[k]]
    BY <2>1
  <2>4. [k \in 1 .. Bits |-> rxBuf[k]] = [k \in 1 .. Bits |-> Current[k]]
    BY <2>2
  <2>5. QED
    BY <2>3, <2>4
<1>13. Handover'
  <2>1. flight' # <<>> /\ Head(flight') = Current
    BY <1>6, Flow, PushedFacts, ZenonT(60) DEF Current
  <2>2. QED
    BY <1>1, <1>5, <1>12, <2>1 DEF Handover
<1>14. QED
  BY <1>1, <1>5, <1>8, <1>10, <1>11, <1>13 DEF Ends

LEMMA EdgeInvariant ==
  ASSUME IInv, NEW w \in Bytes \cup {NoByte}, Edge(w)
  PROVE  IInv'
<1>1. Ends' /\ txBuf' \in Bits01(Bits + 1)
  BY EdgeFacts, RestStep, BeginStep, CountStep, SampleStep, StopStep
<1>2. rxState' \in 0 .. Bits + 2 /\ rxBuf' \in Bits01(Bits)
  <2>1. rxState \in 0 .. Bits + 2 /\ Bits \in Nat /\ rxBuf \in Bits01(Bits)
    BY EdgeFacts DEF IInv, TypeInv, Bits01
  <2>2. CASE RxRest
    <3>1. rxBuf' = rxBuf /\ rxState' = rxState
      BY <2>2 DEF Edge, Tick, Receive, RxRest
    <3>2. QED
      BY <2>1, <3>1
  <2>3. CASE RxBegin \/ RxCount \/ RxStop
    <3>1. rxBuf' = rxBuf /\ rxState' \in {0, 1, rxState}
      BY <2>3 DEF RxBegin, RxCount, RxStop
    <3>2. QED
      BY <2>1, <3>1
  <2>4. CASE RxSample
    <3>1. rxState # Bits + 2 /\ rxState' = rxState + 1
      BY <2>4 DEF RxSample
    <3>2. rxState' \in 0 .. Bits + 2
      BY <2>1, <3>1
    <3>3. QED
      BY <2>4, <3>2, SampleStep
  <2>5. QED
    BY <2>2, <2>3, <2>4, EdgeFacts
<1>3. rxTrig' \in BOOLEAN /\ txAck' \in BOOLEAN
  <2>1. rxTrig' \in BOOLEAN
    BY EdgeFacts, StopStep DEF RxRest, RxBegin, RxCount, RxSample
  <2>2. txAck' \in BOOLEAN
    BY EdgeFacts DEF TxHold, TxShift, TxStart, TxRest
  <2>3. QED
    BY <2>1, <2>2
<1>4. txTimer' \in 1 .. clkDiv' /\ txState' \in 0 .. Bits + 1
  <2>1. /\ clkDiv \in Nat /\ clkDiv >= 2 /\ Bits \in Nat /\ clkDiv' = clkDiv
        /\ txTimer \in 1 .. clkDiv /\ txState \in 0 .. Bits + 1
    BY EdgeFacts
  <2>2. CASE TxHold
    <3>1. txTimer > 1 /\ txTimer' = txTimer - 1 /\ txState' = txState
      BY <2>2 DEF TxHold
    <3>2. QED
      BY <2>1, <3>1
  <2>3. CASE TxShift
    <3>1. /\ txTimer' = clkDiv
          /\ txState' = IF txState = Bits + 1 THEN 0 ELSE txState + 1
      BY <2>3 DEF TxShift
    <3>2. QED
      BY <2>1, <3>1
  <2>4. CASE TxStart \/ TxRest
    <3>1. txTimer' = clkDiv /\ txState' \in {0, 1}
      BY <2>4 DEF TxStart, TxRest
    <3>2. QED
      BY <2>1, <3>1
  <2>5. QED
    BY <2>2, <2>3, <2>4, EdgeFacts
<1>5. TypeInv'
  BY <1>1, <1>2, <1>3, <1>4, Flow DEF IInv, TypeInv, Edge, Bits01
<1>6. QED
  BY <1>1, <1>5, AckStep DEF IInv, Ends

LEMMA StepInvariant ==
  ASSUME Retune # "any", IInv, [Next]_vars PROVE IInv'
<1>1. CASE Write
  <2>1. PICK w \in Presents : Tick(w) /\ pend' = w /\ UNCHANGED <<clkDiv, rxDiv>>
    BY <1>1 DEF Write
  <2>2. w \in Bytes \cup {NoByte}
    BY DEF Presents, IInv, TypeInv
  <2>3. Edge(w)
    BY <2>1, <2>2 DEF Edge
  <2>4. QED
    BY <2>2, <2>3, EdgeInvariant
<1>2. CASE ReadStatus \/ SetDivider
  <2>1. Tick(NoByte) /\ pend' = NoByte /\ UNCHANGED <<clkDiv, rxDiv>>
    BY <1>2 DEF ReadStatus, SetDivider
  <2>2. Edge(NoByte)
    BY <2>1 DEF Edge
  <2>3. QED
    BY <2>2, EdgeInvariant
<1>3. CASE UNCHANGED vars
  <2>1. TxFifo!Contents' = TxFifo!Contents /\ (TxFifo!TypeOK' <=> TxFifo!TypeOK)
        /\ (TxFifo!HasDat' <=> TxFifo!HasDat)
    BY <1>3 DEF vars, fifo, TxFifo!Contents, TxFifo!Count, TxFifo!At, TxFifo!TypeOK,
                TxFifo!HasDat
  <2>2. UNCHANGED <<clkDiv, rxDiv, pend, txTimer, txState, txAck, txBuf, rxState,
                    rxTimer, rxBuf, rxTrig, rxByte, flight>>
    BY <1>3 DEF vars, tx, rx, cpu
  <2>3. TypeInv' /\ AckFirst'
    BY <2>1, <2>2 DEF IInv, TypeInv, AckFirst
  <2>4. UNCHANGED <<Due, OnWire, Current, Period, Passed, Sample>>
    BY <2>2 DEF Due, OnWire, Current, Period, Passed, Sample
  <2>5. WireHolds' /\ InStep' /\ Sampled'
    BY <2>2, <2>4 DEF IInv, WireHolds, InStep, Sampled
  <2>6. DueInOrder' /\ Handover'
    BY <2>1, <2>2, <2>4 DEF IInv, DueInOrder, Handover
  <2>7. QED
    BY <2>3, <2>5, <2>6 DEF IInv
<1>4. QED
  BY <1>1, <1>2, <1>3 DEF Next

LEMMA InitInvariant == Init => IInv
<1> SUFFICES ASSUME Init PROVE IInv
  OBVIOUS
<1>1. /\ clkDiv \in Divs /\ rxDiv = clkDiv /\ clkDiv \in Nat /\ clkDiv >= 2
      /\ Bits \in Nat /\ Bits >= 1
  BY UartAssumption DEF Init
<1>2. TxFifo!TypeOK
  BY RingAssumptions DEF Init, TxFifo!TypeOK, TxFifo!Slots
<1>3. ~TxFifo!HasDat /\ TxFifo!Contents = <<>>
  BY <1>2, FifoOutputs DEF Init, TxFifo!HasDat
<1>4. /\ Ones(Bits + 1) \in [1 .. Bits + 1 -> {0, 1}] /\ Ones(Bits) \in [1 .. Bits -> {0, 1}]
      /\ \A k \in 1 .. Bits + 1 : Ones(Bits + 1)[k] = 1
  BY DEF Ones
<1>5. TypeInv
  <2>1. txTimer \in 1 .. clkDiv /\ txState \in 0 .. Bits + 1 /\ rxState \in 0 .. Bits + 2
    BY <1>1 DEF Init
  <2>2. txBuf \in [1 .. Bits + 1 -> {0, 1}] /\ rxBuf \in [1 .. Bits -> {0, 1}]
    BY <1>4 DEF Init
  <2>3. txAck \in BOOLEAN /\ rxTrig \in BOOLEAN
    BY DEF Init
  <2>4. flight \in Seq(Bytes) /\ pend \in Bytes \cup {NoByte}
    BY EmptySeq DEF Init
  <2>5. QED
    BY <1>1, <1>2, <2>1, <2>2, <2>3, <2>4 DEF TypeInv
<1>6. AckFirst /\ InStep
  <2>1. txState = 0 /\ txState # 1 /\ rxState = 0 /\ txAck = FALSE
    BY DEF Init
  <2>2. QED
    BY <2>1 DEF AckFirst, InStep
<1>7. WireHolds
  BY <1>1, <1>4 DEF Init, WireHolds
<1>8. Sampled
  BY <1>1 DEF Init, Sampled
<1>9. DueInOrder /\ Handover
  BY <1>3 DEF Init, DueInOrder, OnWire, Due, Handover
<1>10. QED
  BY <1>5, <1>6, <1>7, <1>8, <1>9 DEF IInv

\* The two ends of the wire stay in step, and what is due is what is on the
\* wire and in the FIFO, for a divider the CPU leaves as it is.
THEOREM UartInvariant == Retune # "any" => (Spec => []IInv)
<1> SUFFICES ASSUME Retune # "any" PROVE Spec => []IInv
  OBVIOUS
<1>1. IInv /\ [Next]_vars => IInv'
  BY StepInvariant
<1>2. QED
  BY <1>1, InitInvariant, PTL DEF Spec

\* unbuffered_uart_rx triggers with the oldest byte that boa_peri_uart has
\* accepted and not delivered yet.
THEOREM UartDeliversInOrder == Retune # "any" => (Spec => []DeliversInOrder)
<1>1. IInv => DeliversInOrder
  BY DEF IInv, Handover, DeliversInOrder
<1>2. QED
  BY <1>1, UartInvariant, PTL

\* No byte that boa_peri_uart accepted is missing when all is idle.
THEOREM UartNothingLost == Retune # "any" => (Spec => []NothingLost)
<1>1. IInv => NothingLost
  <2> SUFFICES ASSUME IInv, ~TxFifo!HasDat, ~TxBusy, rxState = 0, ~rxTrig
               PROVE  flight = <<>>
    BY DEF NothingLost
  <2>1. Due = flight
    BY DEF Due
  <2>2. TxFifo!Contents = <<>>
    BY FifoOutputs DEF IInv, TypeInv
  <2>3. QED
    BY <2>1, <2>2, DueFacts
<1>2. QED
  BY <1>1, UartInvariant, PTL
=============================================================================
