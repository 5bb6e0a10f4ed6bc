----------------------------- MODULE MCDirector -----------------------------
(* Instances of Director for TLC. *)
EXTENDS Director
=============================================================================
