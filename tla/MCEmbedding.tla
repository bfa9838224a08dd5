---------------------------- MODULE MCEmbedding ----------------------------
(* Instances of Embedding for TLC. *)
EXTENDS Embedding, TLC

CONSTANTS c1, c2, anchors

(* Two anchors and a classification with a current turn, or several. *)
BootTexts  == (anchors :> 2) @@ (c1 :> 2)
MixedTexts == (anchors :> 2) @@ (c1 :> 2) @@ (c2 :> 1)
=============================================================================
