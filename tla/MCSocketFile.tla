------------------------------ MODULE MCSocketFile ------------------------------
(***************************************************************************)
(* Constants of the TLC run of SocketFile.                                 *)
(***************************************************************************)
EXTENDS SocketFile

CONSTANTS a1, a2, c1, c2
=============================================================================
