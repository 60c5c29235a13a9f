----------------------------- MODULE MCHandles ------------------------------
(* Two threads of a C program.                                             *)
EXTENDS Handles

CONSTANTS t1, t2
=============================================================================
