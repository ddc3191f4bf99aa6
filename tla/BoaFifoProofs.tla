--------------------------- MODULE BoaFifoProofs ---------------------------
(***************************************************************************)
(* param_fifo is a queue, for every depth, every kind of element and both  *)
(* ways to treat a write to a full FIFO.                                   *)
(***************************************************************************)
EXTENDS BoaFifo, SequenceTheorems, TLAPS

\* The contents as a function of the registers.
Cnt(w, r) == IF r <= w THEN w - r ELSE w - r + Depth
Idx(r, i) == IF r + i < Depth THEN r + i ELSE r + i - Depth
Con(w, r, st) == [i \in 1 .. Cnt(w, r) |-> st[Idx(r, i - 1)]]

LEMMA ContentsIsCon == Contents = Con(wpos, rpos, storage)
BY DEF Contents, Con, Count, Cnt, At, Idx

LEMMA NextContentsIsCon == Contents' = Con(wpos', rpos', storage')
BY DEF Contents, Con, Count, Cnt, At, Idx

LEMMA SuccType == \A i \in Slots : Succ(i) \in Slots
BY DepthAssumption DEF Slots, Succ

\* The ring holds 0 to Depth - 1 elements, and is empty if the indices meet.
LEMMA CntFacts ==
  ASSUME NEW w \in Slots, NEW r \in Slots
  PROVE  /\ Cnt(w, r) \in 0 .. Depth - 1
         /\ Cnt(w, r) = 0 <=> r = w
         /\ Cnt(w, r) = Depth - 1 <=> r = Succ(w)
         /\ r # w => Cnt(w, Succ(r)) = Cnt(w, r) - 1
         /\ r # Succ(w) => Cnt(Succ(w), r) = Cnt(w, r) + 1
BY DepthAssumption DEF Slots, Cnt, Succ

LEMMA IdxType ==
  ASSUME NEW r \in Slots, NEW i \in 0 .. Depth - 1
  PROVE  Idx(r, i) \in Slots
BY DepthAssumption DEF Slots, Idx

LEMMA ConFacts ==
  ASSUME NEW w \in Slots, NEW r \in Slots, NEW st \in [Slots -> Data]
  PROVE  /\ Con(w, r, st) \in Seq(Data)
         /\ Len(Con(w, r, st)) = Cnt(w, r)
         /\ \A i \in 1 .. Cnt(w, r) : Con(w, r, st)[i] = st[Idx(r, i - 1)]
<1>1. Cnt(w, r) \in Nat /\ Cnt(w, r) <= Depth - 1
  BY CntFacts, DepthAssumption
<1>2. \A i \in 1 .. Cnt(w, r) : st[Idx(r, i - 1)] \in Data
  <2> TAKE i \in 1 .. Cnt(w, r)
  <2>1. i - 1 \in 0 .. Depth - 1
    BY <1>1, DepthAssumption
  <2>2. QED
    BY <2>1, IdxType
<1>3. Con(w, r, st) \in [1 .. Cnt(w, r) -> Data]
  BY <1>2 DEF Con
<1>4. Con(w, r, st) \in Seq(Data)
  BY <1>1, <1>3, SeqDef
<1>5. Len(Con(w, r, st)) = Cnt(w, r)
  BY <1>1, <1>3, <1>4, LenProperties
<1>6. QED
  BY <1>4, <1>5 DEF Con

LEMMA ConEmpty ==
  ASSUME NEW w \in Slots, NEW r \in Slots, NEW st \in [Slots -> Data]
  PROVE  Con(w, r, st) = <<>> <=> r = w
BY ConFacts, CntFacts, EmptySeq

\* Moving rpos on takes the head off.
LEMMA ConPop ==
  ASSUME NEW w \in Slots, NEW r \in Slots, NEW st \in [Slots -> Data], r # w
  PROVE  Con(w, Succ(r), st) = Tail(Con(w, r, st))
<1> DEFINE old == Con(w, r, st)
           new == Con(w, Succ(r), st)
<1>1. Succ(r) \in Slots
  BY SuccType
<1>2. /\ old \in Seq(Data) /\ Len(old) = Cnt(w, r)
      /\ \A i \in 1 .. Cnt(w, r) : old[i] = st[Idx(r, i - 1)]
  BY ConFacts
<1>3. /\ new \in Seq(Data) /\ Len(new) = Cnt(w, Succ(r))
      /\ \A i \in 1 .. Cnt(w, Succ(r)) : new[i] = st[Idx(Succ(r), i - 1)]
  BY <1>1, ConFacts
<1>4. Cnt(w, Succ(r)) = Cnt(w, r) - 1 /\ Cnt(w, r) \in 1 .. Depth - 1
  BY CntFacts, DepthAssumption
<1>5. old # <<>>
  BY ConEmpty
<1> HIDE DEF old, new
<1>6. /\ Tail(old) \in Seq(Data) /\ Len(Tail(old)) = Cnt(w, r) - 1
      /\ \A i \in 1 .. Cnt(w, r) - 1 : Tail(old)[i] = old[i + 1]
  BY <1>2, <1>4, <1>5, HeadTailProperties
<1>7. \A i \in 1 .. Cnt(w, r) - 1 : new[i] = Tail(old)[i]
  <2> TAKE i \in 1 .. Cnt(w, r) - 1
  <2>1. new[i] = st[Idx(Succ(r), i - 1)]
    BY <1>3, <1>4
  <2>2. Tail(old)[i] = st[Idx(r, (i + 1) - 1)]
    BY <1>2, <1>4, <1>6
  <2>3. Idx(Succ(r), i - 1) = Idx(r, (i + 1) - 1)
    BY <1>4, DepthAssumption DEF Idx, Succ, Slots
  <2>4. QED
    BY <2>1, <2>2, <2>3
<1>8. new = Tail(old)
  BY <1>3, <1>4, <1>6, <1>7, SeqEqual
<1>9. QED
  BY <1>8 DEF old, new

\* Writing slot w and moving wpos on appends, if a slot stays free.
LEMMA ConPush ==
  ASSUME NEW w \in Slots, NEW r \in Slots, NEW st \in [Slots -> Data],
         NEW d \in Data, r # Succ(w)
  PROVE  Con(Succ(w), r, [st EXCEPT ![w] = d]) = Append(Con(w, r, st), d)
<1> DEFINE st2 == [st EXCEPT ![w] = d]
           old == Con(w, r, st)
           new == Con(Succ(w), r, st2)
           n == Cnt(w, r)
<1>1. Succ(w) \in Slots /\ st2 \in [Slots -> Data]
  BY SuccType
<1>2. old \in Seq(Data) /\ Len(old) = n /\ \A i \in 1 .. n : old[i] = st[Idx(r, i - 1)]
  BY ConFacts
<1>3. /\ new \in Seq(Data) /\ Len(new) = Cnt(Succ(w), r)
      /\ \A i \in 1 .. Cnt(Succ(w), r) : new[i] = st2[Idx(r, i - 1)]
  BY <1>1, ConFacts, ZenonT(60)
<1>4. Cnt(Succ(w), r) = n + 1 /\ n \in 0 .. Depth - 2
  BY CntFacts, DepthAssumption
<1>5. Idx(r, n) = w /\ \A i \in 1 .. n : Idx(r, i - 1) \in Slots \ {w}
  BY DepthAssumption DEF Idx, Cnt, Slots
<1> HIDE DEF old, new, n
<1>6. /\ Append(old, d) \in Seq(Data) /\ Len(Append(old, d)) = n + 1
      /\ \A i \in 1 .. n : Append(old, d)[i] = old[i]
      /\ Append(old, d)[n + 1] = d
  BY <1>2, AppendProperties
<1>7. \A i \in 1 .. n + 1 : new[i] = Append(old, d)[i]
  <2> TAKE i \in 1 .. n + 1
  <2>1. CASE i = n + 1
    <3>1. n + 1 - 1 = n /\ n + 1 \in 1 .. n + 1
      BY <1>4
    <3>2. new[n + 1] = st2[Idx(r, n + 1 - 1)]
      BY <1>3, <1>4, <3>1
    <3>3. QED
      BY <1>5, <1>6, <2>1, <3>1, <3>2
  <2>2. CASE i \in 1 .. n
    BY <1>2, <1>3, <1>4, <1>5, <1>6, <2>2
  <2>3. n \in Int
    BY <1>4, DepthAssumption
  <2>4. i = n + 1 \/ i \in 1 .. n
    BY <2>3
  <2>5. QED
    BY <2>1, <2>2, <2>4
<1>8. new = Append(old, d)
  BY <1>3, <1>4, <1>6, <1>7, SeqEqual
<1>9. QED
  BY <1>8 DEF old, new

LEMMA InitType == Init => TypeOK
BY DepthAssumption DEF Init, TypeOK, Slots

LEMMA StepType == TypeOK /\ [Next]_vars => TypeOK'
<1> SUFFICES ASSUME TypeOK, [Next]_vars PROVE TypeOK'
  OBVIOUS
<1>1. CASE Reset
  BY <1>1, DepthAssumption DEF Reset, TypeOK, Slots
<1>2. ASSUME NEW we \in BOOLEAN, NEW re \in BOOLEAN, NEW d \in Data, Clock(we, d, re)
      PROVE  TypeOK'
  BY <1>2, SuccType DEF Clock, TypeOK
<1>3. CASE UNCHANGED vars
  BY <1>3 DEF vars, TypeOK
<1>4. QED
  BY <1>1, <1>2, <1>3 DEF Next

\* The indices of param_fifo stay within its storage.
THEOREM FifoTypeOK == Spec => []TypeOK
BY InitType, StepType, PTL DEF Spec

LEMMA OutputsLemma == TypeOK => OutputsAgree
<1> SUFFICES ASSUME TypeOK PROVE OutputsAgree
  OBVIOUS
<1> DEFINE c == Con(wpos, rpos, storage)
<1>1. /\ c = <<>> <=> rpos = wpos
      /\ c \in Seq(Data) /\ Len(c) = Cnt(wpos, rpos)
      /\ \A i \in 1 .. Cnt(wpos, rpos) : c[i] = storage[Idx(rpos, i - 1)]
  BY ConEmpty, ConFacts DEF TypeOK
<1>2. Cnt(wpos, rpos) = Depth - 1 <=> rpos = Succ(wpos)
  BY CntFacts DEF TypeOK
<1>3. HasDat => Rdata = Head(c)
  <2> SUFFICES ASSUME HasDat PROVE Rdata = Head(c)
    OBVIOUS
  <2>1. Cnt(wpos, rpos) \in 1 .. Depth - 1
    BY CntFacts, DepthAssumption DEF HasDat, TypeOK
  <2>2. c[1] = storage[Idx(rpos, 1 - 1)]
    BY <1>1, <2>1
  <2>3. Idx(rpos, 1 - 1) = rpos
    BY DepthAssumption DEF Idx, TypeOK, Slots
  <2>4. Head(c) = c[1]
    BY <1>1
  <2>5. QED
    BY <2>2, <2>3, <2>4 DEF Rdata
<1>4. QED
  BY <1>1, <1>2, <1>3, ContentsIsCon DEF OutputsAgree, HasDat, Full

\* has_dat, full and rdata of param_fifo agree with the queue in the ring.
THEOREM FifoOutputsAgree == Spec => []OutputsAgree
BY FifoTypeOK, OutputsLemma, PTL

\* One clock edge of the ring is one step of the queue.
LEMMA ClockIsQueueStep ==
  ASSUME TypeOK, NEW we \in BOOLEAN, NEW re \in BOOLEAN, NEW d \in Data,
         Clock(we, d, re)
  PROVE  Queue!Next
<1> DEFINE c == Con(wpos, rpos, storage)
           c2 == Con(wpos', rpos', storage')
<1>1. Contents = c
  BY ContentsIsCon
<1>2. Contents' = c2
  BY NextContentsIsCon
<1>3. rpos' \in Slots /\ rpos' = IF re /\ rpos # wpos THEN Succ(rpos) ELSE rpos
  BY SuccType DEF Clock, HasDat, TypeOK
<1>4. Queue!Popped(re) = Con(wpos, rpos', storage)
  <2>1. CASE re /\ rpos # wpos
    <3>1. Con(wpos, rpos', storage) = Tail(c) /\ c # <<>>
      BY <1>3, <2>1, ConPop, ConEmpty DEF TypeOK
    <3>2. QED
      BY <1>1, <2>1, <3>1 DEF Queue!Popped
  <2>2. CASE ~re
    BY <1>1, <1>3, <2>2 DEF Queue!Popped
  <2>3. CASE rpos = wpos
    <3>1. c = <<>>
      BY <2>3, ConEmpty DEF TypeOK
    <3>2. QED
      BY <1>1, <1>3, <2>3, <3>1 DEF Queue!Popped
  <2>4. QED
    BY <2>1, <2>2, <2>3
<1>5. /\ c \in Seq(Data) /\ Len(c) \in Nat /\ Len(c) <= Depth - 1
      /\ Len(c) = Depth - 1 <=> rpos = Succ(wpos)
  BY ConFacts, CntFacts, DepthAssumption DEF TypeOK
<1>6. CASE ~we \/ (Full /\ ~AllowFullWe)
  <2>1. c2 = Con(wpos, rpos', storage)
    BY <1>6 DEF Clock
  <2>2. QED
    BY <1>2, <1>4, <2>1 DEF Queue!Next, Queue!Idle
<1>7. CASE we /\ ~Full
  <2>1. wpos' = Succ(wpos) /\ storage' = [storage EXCEPT ![wpos] = d]
    BY <1>7 DEF Clock
  <2>2. rpos' # Succ(wpos)
    BY <1>3, <1>7, DepthAssumption DEF Full, Succ, Slots, TypeOK
  <2>3. c2 = Append(Con(wpos, rpos', storage), d)
    BY <1>3, <2>1, <2>2, ConPush DEF TypeOK
  <2>4. Len(c) < Depth - 1
    BY <1>5, <1>7, DepthAssumption DEF Full
  <2>5. Queue!Push(d, re)
    BY <1>1, <1>2, <1>4, <2>3, <2>4 DEF Queue!Push
  <2>6. QED
    BY <2>5 DEF Queue!Next
<1>8. CASE we /\ Full /\ AllowFullWe
  <2>1. /\ wpos' = Succ(wpos) /\ storage' = [storage EXCEPT ![wpos] = d]
        /\ storage' \in [Slots -> Data] /\ wpos' \in Slots
    BY <1>8, SuccType DEF Clock, TypeOK
  <2>2. Len(Contents) = Depth - 1
    BY <1>1, <1>5, <1>8 DEF Full
  <2>3. CASE re
    <3>1. rpos' # Succ(wpos)
      BY <1>3, <1>8, <2>3, DepthAssumption DEF Full, Succ, Slots, TypeOK
    <3>2. c2 = Append(Con(wpos, rpos', storage), d)
      <4>1. rpos' \in Slots /\ wpos \in Slots /\ storage \in [Slots -> Data]
        BY <1>3 DEF TypeOK
      <4>2. Con(Succ(wpos), rpos', [storage EXCEPT ![wpos] = d])
              = Append(Con(wpos, rpos', storage), d)
        BY <3>1, <4>1, ConPush
      <4>3. QED
        BY <2>1, <4>2
    <3>3. Queue!PushFull(d, re)
      BY <1>2, <1>4, <1>8, <2>2, <2>3, <3>2 DEF Queue!PushFull
    <3>4. QED
      BY <3>3 DEF Queue!Next
  <2>4. CASE ~re
    <3>1. rpos' = wpos'
      BY <1>3, <1>8, <2>1, <2>4 DEF Full
    <3>2. c2 = <<>>
      <4>1. Con(wpos', wpos', storage') = <<>>
        BY <2>1, ConEmpty
      <4>2. QED
        BY <3>1, <4>1
    <3>3. Queue!PushFull(d, re)
      BY <1>2, <1>8, <2>2, <2>4, <3>2 DEF Queue!PushFull
    <3>4. QED
      BY <3>3 DEF Queue!Next
  <2>5. QED
    BY <2>3, <2>4
<1>9. QED
  BY <1>6, <1>7, <1>8

LEMMA StepIsQueueStep == TypeOK /\ [Next]_vars => [Queue!Next]_Contents
<1> SUFFICES ASSUME TypeOK, [Next]_vars PROVE [Queue!Next]_Contents
  OBVIOUS
<1>1. CASE Reset
  <2>1. wpos' \in Slots /\ rpos' = wpos' /\ storage' \in [Slots -> Data]
    BY <1>1, DepthAssumption DEF Reset, TypeOK, Slots
  <2>2. Con(wpos', rpos', storage') = <<>>
    BY <2>1, ConEmpty
  <2>3. Contents' = <<>>
    BY <2>2, NextContentsIsCon
  <2>4. QED
    BY <2>3 DEF Queue!Next, Queue!Clear
<1>2. ASSUME NEW we \in BOOLEAN, NEW re \in BOOLEAN, NEW d \in Data, Clock(we, d, re)
      PROVE  Queue!Next
  BY <1>2, ClockIsQueueStep
<1>3. CASE UNCHANGED vars
  <2>1. Contents' = Contents
    BY <1>3 DEF vars, Contents, Count, At
  <2>2. QED
    BY <2>1
<1>4. QED
  BY <1>1, <1>2, <1>3 DEF Next

\* param_fifo implements a queue of Depth - 1 elements: what is written comes
\* out once and in order, until a reset or an overflow empties it.
THEOREM FifoIsQueue == Spec => IsQueue
<1>1. Init => Queue!Init
  <2> SUFFICES ASSUME Init PROVE Queue!Init
    OBVIOUS
  <2>1. Con(wpos, rpos, storage) = <<>>
    BY ConEmpty, DepthAssumption DEF Init, Slots
  <2>2. QED
    BY <2>1, ContentsIsCon DEF Queue!Init
<1>2. QED
  BY <1>1, StepIsQueueStep, FifoTypeOK, PTL DEF Spec, IsQueue, Queue!Spec
=============================================================================
