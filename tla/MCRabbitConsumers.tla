------------------------- MODULE MCRabbitConsumers -------------------------
(***************************************************************************)
(* A small instance of RabbitConsumers for TLC: two probes that overlap,   *)
(* so that one can discard the channel that the other has just opened.     *)
(***************************************************************************)
EXTENDS RabbitConsumers, TLC

CONSTANTS k1, k2

OneTick  == {k1}
TwoTicks == {k1, k2}
=============================================================================
