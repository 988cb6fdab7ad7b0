---------------------------- MODULE MCPackageCache ----------------------------
(* Two attempts, so that one may hold the version another has superseded. *)
EXTENDS PackageCache

CONSTANTS a1, a2
===============================================================================
