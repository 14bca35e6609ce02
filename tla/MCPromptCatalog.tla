--------------------------- MODULE MCPromptCatalog ---------------------------
(* Two skills whose names may collide; the first and the third write of the *)
(* run give the same list metadata, the second another, the fourth a        *)
(* second name.                                                             *)
EXTENDS PromptCatalog
MCText == <<[name |-> "scene", meta |-> 1], [name |-> "scene", meta |-> 2],
            [name |-> "scene", meta |-> 1], [name |-> "node", meta |-> 1]>>
=============================================================================
