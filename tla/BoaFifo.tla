------------------------------ MODULE BoaFifo ------------------------------
(***************************************************************************)
(* param_fifo of dev/hdl/util/fifo.sv: a ring of Depth slots of which one  *)
(* always stays free.  One action is one rising edge of the clock.         *)
(***************************************************************************)
EXTENDS Integers, Sequences

CONSTANTS
  Data,
  Depth,        \* Number of slots, a power of two in the code.
  AllowFullWe   \* Accept writes if full.

ASSUME DepthAssumption == Depth \in Nat /\ Depth >= 2
ASSUME AllowFullWeAssumption == AllowFullWe \in BOOLEAN

VARIABLES wpos, rpos, storage
vars == <<wpos, rpos, storage>>

Slots == 0 .. Depth - 1
Succ(i) == IF i = Depth - 1 THEN 0 ELSE i + 1

HasDat == rpos # wpos
\* Fault for the checks: the positions are mistaken for one another.
FullSwapped == wpos = Succ(rpos)
Full == rpos = Succ(wpos)
Rdata == storage[rpos]

\* The storage is not initialised and not reset.
Init ==
  /\ wpos = 0 /\ rpos = 0
  /\ storage \in [Slots -> Data]

Reset ==
  /\ wpos' = 0 /\ rpos' = 0
  /\ UNCHANGED storage

\* Fault for the checks: a read takes a slot off although there is no data.
ClockUnderflow(we, d, re) ==
  /\ rpos' = IF re THEN Succ(rpos) ELSE rpos
  /\ IF we /\ (~Full \/ AllowFullWe)
     THEN /\ storage' = [storage EXCEPT ![wpos] = d]
          /\ wpos' = Succ(wpos)
     ELSE UNCHANGED <<wpos, storage>>

Clock(we, d, re) ==
  /\ rpos' = IF re /\ HasDat THEN Succ(rpos) ELSE rpos
  /\ IF we /\ (~Full \/ AllowFullWe)
     THEN /\ storage' = [storage EXCEPT ![wpos] = d]
          /\ wpos' = Succ(wpos)
     ELSE UNCHANGED <<wpos, storage>>

Next == Reset \/ \E we, re \in BOOLEAN, d \in Data : Clock(we, d, re)

Spec == Init /\ [][Next]_vars

----------------------------------------------------------------------------

TypeOK == wpos \in Slots /\ rpos \in Slots /\ storage \in [Slots -> Data]

\* The queue the ring stands for: Count elements from rpos on, going around.
Count == IF rpos <= wpos THEN wpos - rpos ELSE wpos - rpos + Depth
At(i) == IF rpos + i < Depth THEN rpos + i ELSE rpos + i - Depth
Contents == [i \in 1 .. Count |-> storage[At(i - 1)]]

Queue == INSTANCE BoaQueue
           WITH q <- Contents, Capacity <- Depth - 1, Overflows <- AllowFullWe

\* The ring behaves as a queue of Depth - 1 elements, reads and writes in the
\* same cycle, wrap-around and writes to a full FIFO included.
IsQueue == Queue!Spec

\* The outputs tell the truth about that queue: has_dat that it is not empty,
\* full that it has no room, rdata what comes out next.
OutputsAgree ==
  /\ HasDat <=> Contents # <<>>
  /\ Full <=> Len(Contents) = Depth - 1
  /\ HasDat => Rdata = Head(Contents)
=============================================================================
