----------------------------- MODULE MCMethodLoad -----------------------------
(* Small execution plans for MethodLoad. *)
EXTENDS MethodLoad

\* Two tensors share an external constant, a third has its own.
Shared == [values |-> <<"w", "plain", "w", "b">>, ndelegates |-> 1,
           chains |-> <<<<"KernelCall">>>>]

\* Two delegates, and two chains with kernels, one of them empty-handed.
TwoDelegates == [values |-> <<"plain", "w">>, ndelegates |-> 2,
                 chains |-> <<<<"KernelCall", "other", "KernelCall">>, <<"KernelCall">>>>]

\* A plan that init refuses for its lack of chains.
NoChains == [values |-> <<"plain">>, ndelegates |-> 1, chains |-> <<>>]

LoadPlans == {Shared, TwoDelegates, NoChains}
=============================================================================
