----------------------------- MODULE MCMethodExec -----------------------------
(* Small plans for MethodExec, each with the shape of one the emitter makes. *)
EXTENDS MethodExec

BoolT(planned, d) == [dtype |-> "Bool", planned |-> planned, data |-> d]
FloatT(d) == [dtype |-> "Float", planned |-> TRUE, data |-> d]
T(k) == [tag |-> "Tensor", impl |-> k]
B(b) == [tag |-> "Bool", b |-> b]
NoneV == [tag |-> "None"]

Kernel(out, fn) == [op |-> "KernelCall", out |-> out, fn |-> fn]
Delegate(d, out) == [op |-> "DelegateCall", delegate |-> d, out |-> out, fn |-> "any"]
JumpFalse(c, dest) == [op |-> "JumpFalseCall", cond |-> c, dest |-> dest]
Move(from, to) == [op |-> "MoveCall", from |-> from, to |-> to]
Free(v) == [op |-> "FreeCall", value |-> v]

\* 0-based functions from sequences
Zero(s) == [i \in 0 .. Len(s) - 1 |-> s[i + 1]]
Plan(chains, inputs, outputs, vs, ts, nd) ==
    [chains |-> chains, inputs |-> inputs, outputs |-> outputs,
     nv |-> Len(vs), nt |-> Len(ts), values |-> Zero(vs), tensors |-> Zero(ts),
     ndelegates |-> nd]

\* torch.cond: the else branch is entered by the tensor, left out by a False.
IfElse == Plan(<<<<JumpFalse(0, 3), Kernel(1, "any"), JumpFalse(2, 4), Kernel(1, "not")>>>>,
               <<0>>, <<1>>, <<T(0), T(1), B(FALSE)>>,
               <<BoolT(TRUE, "true"), BoolT(FALSE, "null")>>, 0)

\* Three chains, the middle one empty; the last one names a delegate too many.
Delegates == Plan(<<<<Delegate(0, 1)>>, <<>>, <<Kernel(0, "not"), Delegate(1, 1)>>>>,
                  <<0>>, <<1>>, <<T(0), T(1)>>,
                  <<BoolT(TRUE, "true"), BoolT(TRUE, "false")>>, 1)

\* A loop whose body starts after the first instruction.
Loop == Plan(<<<<Move(0, 1), Kernel(2, "any"), JumpFalse(2, 1)>>>>,
             <<0, 3>>, <<2>>, <<T(0), NoneV, T(1), B(TRUE)>>,
             <<BoolT(FALSE, "null"), BoolT(TRUE, "true")>>, 0)

\* A moved tensor is freed through one name and tested through the other.
FreedAlias == Plan(<<<<Move(0, 1), Free(1), JumpFalse(0, 3)>>, <<Free(2)>>>>,
                   <<0>>, <<1>>, <<T(0), NoneV, NoneV>>,
                   <<BoolT(TRUE, "true")>>, 0)

\* A Float condition.
FloatCond == Plan(<<<<Kernel(0, "id"), JumpFalse(0, 1)>>>>,
                  <<0>>, <<>>, <<T(0)>>, <<FloatT("true")>>, 0)

GoodPlans == {IfElse, Delegates, Loop, FreedAlias, FloatCond}

ASSUME GoodPlansJump == \A p \in GoodPlans : JumpsInside(p) /\ NoJumpToStart(p)

\* A loop whose body starts with the first instruction of the first chain.
LoopAtStart == Plan(<<<<Kernel(0, "any"), JumpFalse(0, 0), Kernel(0, "id")>>>>,
                    <<0>>, <<0>>, <<T(0)>>, <<BoolT(TRUE, "true")>>, 0)
LoopPlans == {LoopAtStart}
=============================================================================
