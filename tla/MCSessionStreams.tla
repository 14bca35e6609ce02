-------------------------- MODULE MCSessionStreams --------------------------
(* The instance of SessionStreams that TLC checks.                         *)
EXTENDS SessionStreams
=============================================================================
