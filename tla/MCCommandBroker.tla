-------------------------- MODULE MCCommandBroker --------------------------
(* The command broker on a small instance.                                 *)
EXTENDS CommandBroker, TLC
=============================================================================
