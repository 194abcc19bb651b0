-------------------------- MODULE MCMosaicPipeline --------------------------
(* Instances of MosaicPipeline for TLC: the constants are ordinary values. *)
EXTENDS MosaicPipeline
=============================================================================
