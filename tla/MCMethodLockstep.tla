--------------------------- MODULE MCMethodLockstep ---------------------------
(* Deterministic plans for MethodLockstep. *)
EXTENDS MethodLockstep

T(k) == [tag |-> "Tensor", impl |-> k]
BoolT(d) == [dtype |-> "Bool", planned |-> TRUE, data |-> d]
NoneV == [tag |-> "None"]
Kernel(out, fn) == [op |-> "KernelCall", out |-> out, fn |-> fn]
Delegate(d, out) == [op |-> "DelegateCall", delegate |-> d, out |-> out, fn |-> "not"]
JumpFalse(c, dest) == [op |-> "JumpFalseCall", cond |-> c, dest |-> dest]
Move(from, to) == [op |-> "MoveCall", from |-> from, to |-> to]
Free(v) == [op |-> "FreeCall", value |-> v]

Zero(s) == [i \in 0 .. Len(s) - 1 |-> s[i + 1]]
Plan(chains, vs, ts) ==
    [chains |-> chains, inputs |-> <<0>>, outputs |-> <<0>>, nv |-> Len(vs),
     nt |-> Len(ts), values |-> Zero(vs), tensors |-> Zero(ts), ndelegates |-> 1]

\* Every plan with these two values and one or two chains drawn from Bodies.
Bodies == {<<>>,
           <<Kernel(0, "not")>>,
           <<Delegate(0, 1), Move(1, 0)>>,
           <<Delegate(1, 1), Kernel(0, "not")>>,
           <<JumpFalse(0, 2), Kernel(1, "not")>>,
           <<Kernel(1, "not"), JumpFalse(1, 0), Kernel(0, "id")>>,
           <<Move(0, 1), Free(1), JumpFalse(0, 0)>>,
           <<Free(1), Kernel(0, "not")>>,
           <<Free(2)>>}
Starts == {<<BoolT(d), BoolT(e)>> : d, e \in {"true", "false"}}

DeterministicPlans ==
    {Plan(cs, <<T(0), T(1), NoneV>>, ts) :
        cs \in {<<c>> : c \in Bodies} \cup {<<c, d>> : c, d \in Bodies}, ts \in Starts}

\* What StepAndExecuteAgree asks of the plans.
ASSUME LockstepHypothesis ==
    \A p \in Plans : Deterministic(p) /\ A!JumpsInside(p)
=============================================================================
