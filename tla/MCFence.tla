------------------------------- MODULE MCFence -------------------------------
(* One or two watchdogs over one distribution. *)
EXTENDS Fence

CONSTANTS w1, w2
==============================================================================
