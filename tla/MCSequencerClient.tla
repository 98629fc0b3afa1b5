-------------------------- MODULE MCSequencerClient ---------------------------
(***************************************************************************)
(* SequencerClient for TLC, with the invariant of its proofs.              *)
(***************************************************************************)
EXTENDS SequencerClientInvariant
=============================================================================
