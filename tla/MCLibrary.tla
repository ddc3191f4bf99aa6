------------------------------ MODULE MCLibrary ------------------------------
(* A small instance of BoaString, with the checks of BoaText beside it. *)
EXTENDS BoaString, BoaText

\* What is checked of BoaText does not depend on the state: one is enough.
Once == call.fn = "search" /\ mem = [a \in Addr |-> 0]

\* putd and putx of print.c, the decoding of arguments and of a number to write,
\* the dump of f_read and kbelfx_seg_alloc compute what they are for, over bounded
\* inputs.
TextRight ==
  Once => NumbersPrinted /\ ArgumentsDecoded /\ ValuesPrepared /\ DumpWhole /\ SegmentsPlaced
=============================================================================
