------------------------------- MODULE MCSlots -------------------------------
(* Two repositories, of which one keeps its workspaces, or two profiles of one. *)
EXTENDS Slots

CONSTANTS p1, p2, repo, other, r1, r2, a1, a2

OneRepository == [ p \in Policies |-> repo ]
TwoRepositories == [ p \in Policies |-> IF p = p1 THEN repo ELSE other ]

AnyRoot == [ p \in Policies |-> Roots ]
OnlyOfP1 == [ p \in Policies |-> IF p = p1 THEN Roots ELSE {} ]
==============================================================================
