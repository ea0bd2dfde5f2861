----------------------------- MODULE MCLaunchdAgent -----------------------------
(***************************************************************************)
(* Constants of the TLC runs of LaunchdAgent.                              *)
(***************************************************************************)
EXTENDS LaunchdAgent

CONSTANTS c1, c2
=============================================================================
