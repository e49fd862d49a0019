--------------------------- MODULE MCXNNWeightsCache ---------------------------
(* Small graphs over two named constants for XNNWeightsCache. *)
EXTENDS XNNWeightsCache, TLC

NamedConstants == {"w", "v", "b"}

Linear(w, b) == [kernel |-> w, bias |-> b, seed |-> 1, packed |-> TRUE]
Reseeded(op) == [op EXCEPT !.seed = 2]
Add(c) == [kernel |-> c, bias |-> "none", seed |-> 0, packed |-> FALSE]

\* Two models that share a layer; the second also adds a constant of its own.
SharedLayer == {<<Linear("w", "b")>>,
                <<Linear("w", "b"), Linear("v", "none")>>,
                <<Linear("v", "none"), Add("inline")>>}

\* The same weights for two micro-kernels.
TwoSeeds == {<<Linear("w", "b")>>, <<Reseeded(Linear("w", "b"))>>}

\* A layer whose weights are inside the delegate blob.
InlineLayer == {<<Linear("w", "b")>>, <<Linear("inline", "b")>>}

\* A constant that is added, not packed.
AddedConstant == {<<Linear("w", "none"), Add("b")>>}

AllGraphs == SharedLayer \cup TwoSeeds \cup InlineLayer \cup AddedConstant

\* The graphs of the shared-layer run are such that names say what is packed.
ASSUME SharedLayerIsWellNamed == Graphs = SharedLayer => WellNamed

Symmetry == Permutations(Executors)
=============================================================================
