-------------------------- MODULE MCSequencerFactory --------------------------
(***************************************************************************)
(* SequencerFactory for TLC: three backends, two of them with one name,    *)
(* and a name nobody registers.                                            *)
(***************************************************************************)
EXTENDS SequencerFactory, TLC

CONSTANTS b1, b2, b3, n1, n2, n3
MCBackends == {b1, b2, b3}
MCNames == {n1, n2, n3}
MCName == b1 :> n1 @@ b2 :> n2 @@ b3 :> n2
Symmetry == Permutations(Requests)
=============================================================================
