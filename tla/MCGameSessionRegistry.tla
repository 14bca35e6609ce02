----------------------- MODULE MCGameSessionRegistry -----------------------
(* The game session registry on a small instance, any sequence of calls.   *)
EXTENDS GameSessionRegistry, TLC

Symmetry == Permutations(Games) \cup Permutations(Editors) \cup Permutations(Runtimes)
=============================================================================
