---------------------------- MODULE MCProviderImpl ----------------------------
(***************************************************************************)
(* ProviderImpl for TLC: requests and ids are interchangeable.             *)
(***************************************************************************)
EXTENDS ProviderImplInvariant, TLC

Symmetry == Permutations(Requests) \cup Permutations(UUIDs)
=============================================================================
