------------------------------ MODULE MCLastHop ------------------------------
(***************************************************************************)
(* An instance of LastHop: three calls besides the constructor's, made at  *)
(* any moment, locally or through the broker.                              *)
(***************************************************************************)
EXTENDS LastHop
=============================================================================
