------------------------------ MODULE MCCache ------------------------------
(* Small instances of BoaCache. *)
EXTENDS BoaCache

\* fence.i at the instruction cache; what fences and the bench of the cache ask
\* for: to write back, to write back and invalidate, to invalidate an address.
FenceI == [r |-> TRUE, w |-> FALSE, pi |-> FALSE, addr |-> 0]
Release == [r |-> FALSE, w |-> TRUE, pi |-> FALSE, addr |-> 0]
Acquire == [r |-> TRUE, w |-> TRUE, pi |-> FALSE, addr |-> 0]
Precise == [r |-> TRUE, w |-> FALSE, pi |-> TRUE, addr |-> 9]

FlushReads == [kind \in BOOLEAN |-> IF kind THEN {} ELSE {FenceI}]
NoFlushes == [kind \in BOOLEAN |-> {}]
FlushData == [kind \in BOOLEAN |-> IF kind THEN {Release} ELSE {}]
FlushAll == [kind \in BOOLEAN |-> IF kind THEN {Acquire} ELSE {}]
FlushPrecise == [kind \in BOOLEAN |-> {Precise}]
=============================================================================
