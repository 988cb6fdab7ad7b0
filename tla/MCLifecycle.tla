----------------------------- MODULE MCLifecycle -----------------------------
(* One attempt, which a pass visits while the loop of another target, the
   operating system and GitHub go on. *)
EXTENDS Lifecycle

CONSTANT a1
==============================================================================
