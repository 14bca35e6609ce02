--------------------------- MODULE MCRuntimeLogs ---------------------------
(* The log pipeline on a small instance.                                   *)
EXTENDS RuntimeLogs
=============================================================================
