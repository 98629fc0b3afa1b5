------------------------- MODULE MCProviderLifecycle -------------------------
(***************************************************************************)
(* ProviderLifecycle for TLC.                                              *)
(***************************************************************************)
EXTENDS ProviderLifecycle
=============================================================================
