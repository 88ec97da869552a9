-------------------------- MODULE MCAnchorPipeline --------------------------
(* Small instances of AnchorPipeline for TLC.                              *)
EXTENDS AnchorPipeline, TLC

\* The assets are interchangeable: no operator orders them.
AssetSymmetry == Permutations(Assets)
=============================================================================
