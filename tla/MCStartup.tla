------------------------------ MODULE MCStartup ------------------------------
(* Small instances of Startup. *)
EXTENDS Startup

CONSTANTS s1, s2
=============================================================================
