---------------------------- MODULE MCTokenStore ----------------------------
(***************************************************************************)
(* Two tool calls at a time for TokenStore.  They are interchangeable.     *)
(***************************************************************************)
EXTENDS TokenStore, TLC

Symmetry == Permutations(Callers)
=============================================================================
