------------------------------ MODULE MCSession ------------------------------
(* A small instance of Session. *)
EXTENDS Session

CONSTANTS t1, t2
=============================================================================
