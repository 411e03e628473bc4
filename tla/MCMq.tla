-------------------------------- MODULE MCMq ---------------------------------
(* The message queue on a small instance. *)
EXTENDS Mq
==============================================================================
