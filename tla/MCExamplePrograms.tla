-------------------------- MODULE MCExamplePrograms ---------------------------
(***************************************************************************)
(* ExamplePrograms for TLC: programs and ids are interchangeable.          *)
(***************************************************************************)
EXTENDS ExampleProgramsInvariant, TLC

Symmetry == Permutations(Programs) \cup Permutations(UUIDs)
=============================================================================
