---------------------------- MODULE MethodLockstep ----------------------------
(***************************************************************************)
(* Two Methods loaded from one plan: a is run by execute(), b by calling   *)
(* step() until EndOfMethod.  step() is "the incremental counterpart to    *)
(* execute()", so with deterministic kernels the two must agree.           *)
(***************************************************************************)
EXTENDS Integers, Sequences

CONSTANTS Plans, MaxInstructions

VARIABLES plan,
          a_chain, a_instr, a_values, a_tensors, a_inputs, a_temp, a_running,
          a_count, a_last, a_begun,
          b_chain, b_instr, b_values, b_tensors, b_inputs, b_temp, b_running,
          b_count, b_last, b_begun

aVars == <<a_chain, a_instr, a_values, a_tensors, a_inputs, a_temp, a_running,
           a_count, a_last, a_begun>>
bVars == <<b_chain, b_instr, b_values, b_tensors, b_inputs, b_temp, b_running,
           b_count, b_last, b_begun>>
vars == <<plan, aVars, bVars>>

A == INSTANCE MethodExec WITH
       chain_idx <- a_chain, instr_idx <- a_instr, values <- a_values,
       tensors <- a_tensors, input_set <- a_inputs, temp <- a_temp,
       running <- a_running, count <- a_count, last <- a_last, begun <- a_begun
B == INSTANCE MethodExec WITH
       chain_idx <- b_chain, instr_idx <- b_instr, values <- b_values,
       tensors <- b_tensors, input_set <- b_inputs, temp <- b_temp,
       running <- b_running, count <- b_count, last <- b_last, begun <- b_begun

\* a runs once: its inputs are marked as set, then execute() is called.
Execute == \/ a_last.call = "load" /\ ~a_running /\ A!GetInputs(A!Ordinals)
           \/ a_last.call = "get_inputs" /\ A!ExecuteBegin
           \/ A!Executing

Step == b_last.err # "EndOfMethod" /\ B!Step

Init == A!Init /\ B!Init

Next == \/ Execute /\ UNCHANGED bVars
        \/ Step /\ UNCHANGED aVars

Spec == Init /\ [][Next]_vars /\ WF_vars(Execute /\ UNCHANGED bVars)
             /\ WF_vars(Step /\ UNCHANGED aVars)

-----------------------------------------------------------------------------
(* Plans for which step() and execute() do the same *)

ASSUME LockstepAssumption ==
    MaxInstructions \in Nat \ {0} /\ \A p \in Plans : A!IsPlan(p)

\* Kernels and delegates compute and do not fail.
Deterministic(p) == \A c \in DOMAIN p.chains : \A i \in DOMAIN p.chains[c] :
    p.chains[c][i].op \in {"KernelCall", "DelegateCall"} => p.chains[c][i].fn # "any"

-----------------------------------------------------------------------------
(* Properties *)

ADone == a_last.call = "execute"
BEnded == b_last.err = "EndOfMethod"
BFailed == b_last.err \notin {"Ok", "EndOfMethod"}

\* A stepped run ends with the values and the tensor data of an executed one,
\* and a run that fails fails with the same error and the same data both ways.
Agree == /\ ADone /\ (BEnded \/ BFailed) => /\ a_values = b_values
                                            /\ a_tensors = b_tensors
         /\ ADone /\ BFailed => a_last.err = b_last.err
         /\ ADone /\ BEnded => a_last.err = "Ok"

\* "The caller keeps calling step() until it returns EndOfMethod": a program
\* that execute() runs to its end is one that step() runs to its end.
StepReachesEnd == (ADone /\ a_last.err = "Ok") ~> BEnded
=============================================================================
