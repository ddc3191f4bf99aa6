------------------------------- MODULE MCUart -------------------------------
(***************************************************************************)
(* The bytes of the model checking of BoaUart: two of two bits each, whose *)
(* bits differ from one another and from the start and the stop bit.       *)
(***************************************************************************)
EXTENDS BoaUart

MCBytes == {<<0, 1>>, <<1, 0>>}
=============================================================================
