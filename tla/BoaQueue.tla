------------------------------ MODULE BoaQueue ------------------------------
(***************************************************************************)
(* What a FIFO of the UART promises its two sides: a queue of at most      *)
(* Capacity elements that comes out in the order it went in.               *)
(***************************************************************************)
EXTENDS Naturals, Sequences

CONSTANTS Data, Capacity,
          Overflows  \* A write to the full queue empties it.

VARIABLE q

Popped(re) == IF re /\ q # <<>> THEN Tail(q) ELSE q

Init == q = <<>>

Idle(re) == q' = Popped(re)

Push(d, re) == Len(q) < Capacity /\ q' = Append(Popped(re), d)

\* A write to the full queue: dropped, or else, unless an element leaves at
\* the same time, the end of everything in it.
PushFull(d, re) ==
  /\ Len(q) = Capacity
  /\ q' = IF ~Overflows THEN Popped(re)
          ELSE IF re THEN Append(Popped(re), d) ELSE <<>>

Clear == q' = <<>>

Next ==
  \/ \E re \in BOOLEAN : Idle(re) \/ \E d \in Data : Push(d, re) \/ PushFull(d, re)
  \/ Clear

Spec == Init /\ [][Next]_q
=============================================================================
