-------------------------- MODULE MCRuntimeBridge --------------------------
(* Launch, attach, push and stop on a small instance.                      *)
EXTENDS RuntimeBridge, TLC

Symmetry == Permutations(Games) \cup Permutations(Runtimes) \cup Permutations(Tokens)
              \cup Permutations(Calls) \cup Permutations(Editors)
=============================================================================
