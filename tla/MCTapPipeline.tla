---------------------------- MODULE MCTapPipeline ----------------------------
(* TapPipeline with the values TLC checks it under. *)
EXTENDS TapPipeline
=============================================================================
