------------------------------- MODULE MCLog -------------------------------
(***************************************************************************)
(* Instance of Log for TLC.                                                *)
(***************************************************************************)
EXTENDS Log, TLC

Symmetric == Permutations(Procs)
=============================================================================
