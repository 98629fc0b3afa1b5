--------------------------- MODULE MCRequestResult ---------------------------
(***************************************************************************)
(* RequestResult for TLC, with integers of two bits.                       *)
(***************************************************************************)
EXTENDS RequestResult, TLC

MCMinInt == -2

Symmetry ==
  Permutations(Calls) \cup Permutations(UUIDs) \cup Permutations(Errors) \cup
  Permutations(Cells)
=============================================================================
