-------------------------- MODULE MCPaperRehearsal --------------------------
(* Instances of PaperRehearsal for TLC. *)
EXTENDS PaperRehearsal
=============================================================================
