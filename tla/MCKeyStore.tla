------------------------------ MODULE MCKeyStore ------------------------------
(***************************************************************************)
(* Constants of the TLC run of KeyStore.                                   *)
(***************************************************************************)
EXTENDS KeyStore, TLC

CONSTANTS p1, p2, p3, lA, lB

(* Nothing tells one command, or one label, from another.                  *)
MCSymmetry == Permutations(Procs) \cup Permutations(Labels)
=============================================================================
