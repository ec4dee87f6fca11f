---------------------------- MODULE MCSignalling ----------------------------
(***************************************************************************)
(* An instance of Signalling: three pages for a room of two, one of them   *)
(* without a TURN server, one that leaves or dies at any moment.           *)
(***************************************************************************)
EXTENDS Signalling
=============================================================================
