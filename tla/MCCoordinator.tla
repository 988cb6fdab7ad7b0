---------------------------- MODULE MCCoordinator ----------------------------
(* Two codes, issued for one name or for two. *)
EXTENDS Coordinator

CONSTANTS code1, code2, name, c1, c2

OneName == [ c \in Codes |-> name ]
OwnName == [ c \in Codes |-> c ]

Symmetry == Permutations(Codes) \cup Permutations(Connections)
==============================================================================
