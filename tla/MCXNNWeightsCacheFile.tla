------------------------- MODULE MCXNNWeightsCacheFile -------------------------
(* Two weights for XNNWeightsCacheFile. *)
EXTENDS XNNWeightsCacheFile

TwoWeights == {[name |-> "a", seed |-> 1], [name |-> "b", seed |-> 1]}

\* The hypothesis of the theorems about names holds of this instance.
ASSUME TwoNames == NamesTellWeights
=============================================================================
