---------------------------- MODULE MCAsyncRequest ----------------------------
(***************************************************************************)
(* AsyncRequest for TLC, with the invariant of its proofs.                 *)
(***************************************************************************)
EXTENDS AsyncRequestInvariant
=============================================================================
