------------------------------ MODULE MethodExec ------------------------------
(***************************************************************************)
(* The execution half of runtime/executor/method.rs: an initialized Method *)
(* whose caller interleaves set_input(s), the input accessors,             *)
(* set_output_data_ptr, step, execute and reset_execution.  execute() is   *)
(* split at every instruction, so the intermediate states are visible.     *)
(*                                                                         *)
(* A plan is the part of the ExecutionPlan flatbuffer that init accepted.  *)
(* Indices are 0-based as in the source.  Tensors are shared: a MoveCall   *)
(* copies an EValue, and both copies then name the same TensorImpl.        *)
(***************************************************************************)
EXTENDS Integers, Sequences, FiniteSets

CONSTANTS Plans,             \* the execution plans to consider
          MaxInstructions    \* K_MAX_INSTRUCTIONS

ASSUME MaxInstructionsAssumption == MaxInstructions \in Nat \ {0}

VARIABLES plan,        \* serialization_plan_, chosen once by load
          chain_idx,   \* step_state_.chain_idx
          instr_idx,   \* step_state_.instr_idx
          values,      \* values_: value index -> EValue
          tensors,     \* the TensorImpls the values point to
          input_set,   \* input_set_
          temp,        \* temp_allocator_ holds memory of an instruction
          running,     \* an execute() call is on the stack
          count,       \* its instruction_count
          last,        \* the last call that returned, and its Error
          begun        \* history: an instruction of the current run completed

stepState == <<chain_idx, instr_idx>>
data == <<values, tensors>>
vars == <<plan, chain_idx, instr_idx, values, tensors, input_set, temp,
          running, count, last, begun>>

-----------------------------------------------------------------------------
(* Plans, EValues and tensors *)

Data == {"true", "false", "null"}      \* what a Bool condition tells apart
Tensor == [dtype : {"Bool", "Float"}, planned : BOOLEAN, data : Data]

EValue(nt) == [tag : {"Tensor"}, impl : 0 .. nt - 1]
                \cup [tag : {"Bool"}, b : BOOLEAN]
                \cup [tag : {"None", "Int"}]

\* What a kernel or a delegate does: "not" and "id" are deterministic, "any"
\* writes what it likes and may fail.
Behaviours == {"any", "not", "id"}

\* dest is a destination_instruction: a negative one becomes a huge usize.
Instr(nv) == [op : {"KernelCall"}, out : 0 .. nv - 1, fn : Behaviours]
    \cup [op : {"DelegateCall"}, delegate : Nat, out : 0 .. nv - 1, fn : Behaviours]
    \cup [op : {"JumpFalseCall"}, cond : 0 .. nv - 1, dest : Nat]
    \cup [op : {"MoveCall"}, from : 0 .. nv - 1, to : 0 .. nv - 1]
    \cup [op : {"FreeCall"}, value : 0 .. nv - 1]

\* What init leaves behind when it returns Ok: at least one chain, and
\* operands that were checked against n_value_.
IsPlan(p) ==
    /\ p.nv \in Nat /\ p.nt \in Nat
    /\ p.chains \in Seq(Seq(Instr(p.nv))) /\ p.chains # <<>>
    /\ p.ndelegates \in Nat
    /\ p.inputs \in Seq(0 .. p.nv - 1)
    /\ p.outputs \in Seq(0 .. p.nv - 1)
    /\ p.values \in [0 .. p.nv - 1 -> EValue(p.nt)]
    /\ p.tensors \in [0 .. p.nt - 1 -> Tensor]

ASSUME PlansAssumption == \A p \in Plans : IsPlan(p)

n_chains == Len(plan.chains)
Instructions == plan.chains[chain_idx + 1]
Ordinals == 0 .. Len(plan.inputs) - 1
Outputs == 0 .. Len(plan.outputs) - 1

Writable == {"true", "false"}
Errors == {"Ok", "EndOfMethod", "InvalidState", "InvalidArgument", "Internal",
           "InvalidProgram", "InvalidType", "NotSupported", "KernelFailed"}

Returns(call, e) == last' = [call |-> call, err |-> e]

-----------------------------------------------------------------------------
(* set_input.  set_inputs is a loop over it that stops at the first failure  *)
(* and keeps the inputs set so far: a row of SetInput steps, since no other  *)
(* call can come between.                                                    *)

\* What a caller may pass: shape says how its sizes relate to the input's.
InputEValue == [tag : {"Tensor"}, dtype : {"Bool", "Float"}, data : Data,
                shape : {"fits", "numel_overflow", "exceeds_bound"}]
                 \cup [tag : {"Bool"}, b : BOOLEAN] \cup [tag : {"None", "Int"}]

\* Slip: only the chain is compared.
AtStartByChain == chain_idx = 0

\* The position before the first instruction.
AtStart == chain_idx = 0 /\ instr_idx = 0

\* The method's metadata describes the tensor that the plan puts in value v,
\* whatever tensor a MoveCall has put there since.
Described(v) == plan.values[v].tag = "Tensor"
MemoryPlanned(v) == plan.tensors[plan.values[v].impl].planned

\* Storing tensor src in the input v, now tensor dst: the data pointer that must
\* be there is the destination's when the input is memory planned (the bytes are
\* copied), the source's when it is not (the pointer is shared).  Asking for
\* the metadata of an input that was no tensor aborts the process.
TensorError(v, dst, src) ==
    IF dst.dtype # src.dtype THEN "InvalidArgument"
    ELSE IF src.shape = "numel_overflow" THEN "InvalidArgument"
    ELSE IF src.shape = "exceeds_bound" THEN "NotSupported"
    ELSE IF ~Described(v) THEN "Abort"
    ELSE IF (IF MemoryPlanned(v) THEN dst.data ELSE src.data) = "null"
         THEN "InvalidArgument"
    ELSE "Ok"

\* A primitive must have the value it was traced with.
InputError(v, ev) == LET e == values[v] IN
    IF e.tag # ev.tag THEN "InvalidArgument"
    ELSE IF e.tag = "Tensor" THEN TensorError(v, tensors[e.impl], ev)
    ELSE IF e.tag = "Bool" /\ e.b # ev.b THEN "InvalidArgument"
    ELSE "Ok"

\* Nothing is copied out of a null source.
StoreInput(v, ev) == LET e == values[v] IN
    IF e.tag # "Tensor" \/ (MemoryPlanned(v) /\ ev.data = "null")
    THEN UNCHANGED tensors
    ELSE tensors' = [tensors EXCEPT ![e.impl].data = ev.data]

SetInput(i, ev) ==
    LET v == plan.inputs[i + 1]
        err == InputError(v, ev)
    IN  /\ ~running
        /\ AtStart
        /\ err # "Abort"
        /\ Returns("set_input", err)
        /\ IF err = "Ok" THEN /\ StoreInput(v, ev)
                              /\ input_set' = [input_set EXCEPT ![i] = TRUE]
                         ELSE UNCHANGED <<tensors, input_set>>
        /\ UNCHANGED <<plan, stepState, values, temp, running, count, begun>>

\* get_inputs (S = every input), get_input and mutable_input (S = one): the
\* caller is given the slots, and "is responsible to set the inputs".
GetInputs(S) ==
    /\ ~running
    /\ input_set' = [i \in Ordinals |-> i \in S \/ input_set[i]]
    /\ Returns("get_inputs", "Ok")
    /\ UNCHANGED <<plan, stepState, data, temp, running, count, begun>>

\* set_output_data_ptr has no test of step_state_: it works mid-run as well.
SetOutputDataPtr(o, d) ==
    LET v == plan.outputs[o + 1]
        e == values[v]
    IN
    /\ ~running
    /\ e.tag = "Tensor"
    /\ Described(v) /\ ~MemoryPlanned(v)
    /\ tensors' = [tensors EXCEPT ![e.impl].data = d]
    /\ Returns("set_output_data_ptr", "Ok")
    /\ UNCHANGED <<plan, stepState, values, input_set, temp, running, count, begun>>

-----------------------------------------------------------------------------
(* execute_instruction: every handler yields the error, the next          *)
(* instruction, what it did to the values, whether it used temp memory and  *)
(* whether it returned early, before the temp allocator is reset.           *)

Outcome(err, next, vs, ts) ==
    [err |-> err, next |-> next, values |-> vs, tensors |-> ts,
     alloc |-> FALSE, early |-> FALSE]

Early(err) == [Outcome(err, instr_idx, values, tensors) EXCEPT !.early = TRUE]

Next1 == instr_idx + 1

\* What a kernel or a delegate may leave in its output value; neither gives a
\* tensor without storage a data pointer.
Writes(out, fn) ==
    LET e == values[out]
        old == tensors[e.impl].data
        new == CASE old = "null" -> {"null"}
                 [] old # "null" /\ fn = "not" -> Writable \ {old}
                 [] old # "null" /\ fn = "id" -> {old}
                 [] old # "null" /\ fn = "any" -> Writable
    IN  IF e.tag # "Tensor" THEN {tensors}
        ELSE {[tensors EXCEPT ![e.impl].data = d] : d \in new}

CallOutcomes(out, fn) ==
    {[Outcome(err, Next1, values, ts) EXCEPT !.alloc = TRUE] :
        err \in (IF fn = "any" THEN {"Ok", "KernelFailed"} ELSE {"Ok"}),
        ts \in Writes(out, fn)}

\* parse_cond_value: a Bool scalar, or a Bool tensor read through its data
\* pointer.
CondError(v) ==
    LET e == values[v] IN
    CASE e.tag = "Tensor" -> IF tensors[e.impl].dtype # "Bool" THEN "InvalidProgram"
                             ELSE IF tensors[e.impl].data = "null" THEN "InvalidState"
                             ELSE "Ok"
      [] e.tag = "Bool" -> "Ok"
      [] e.tag \notin {"Tensor", "Bool"} -> "InvalidProgram"

CondValue(v) == LET e == values[v] IN
    IF e.tag = "Tensor" THEN tensors[e.impl].data = "true" ELSE e.b

InstrOutcomes ==
    IF instr_idx >= Len(Instructions) THEN {Early("Internal")}
    ELSE LET i == Instructions[instr_idx + 1] IN
    CASE i.op = "KernelCall" -> CallOutcomes(i.out, i.fn)
      [] i.op = "DelegateCall" ->
            IF i.delegate >= plan.ndelegates THEN {Early("Internal")}
            ELSE CallOutcomes(i.out, i.fn)
      [] i.op = "JumpFalseCall" ->
            LET e == CondError(i.cond)
                next == IF e = "Ok" /\ ~CondValue(i.cond) THEN i.dest ELSE Next1
            IN  {Outcome(e, next, values, tensors)}
      [] i.op = "MoveCall" ->
            {Outcome("Ok", Next1, [values EXCEPT ![i.to] = values[i.from]], tensors)}
      [] i.op = "FreeCall" ->
            IF values[i.value].tag # "Tensor"
            THEN {Outcome("InvalidType", Next1, values, tensors)}
            ELSE {Outcome("Ok", Next1, values,
                          [tensors EXCEPT ![values[i.value].impl].data = "null"])}

\* Slip: the temp allocator is not reset.
CommitKeepingTemp(o) == /\ values' = o.values
                        /\ tensors' = o.tensors
                        /\ temp' = (temp \/ o.alloc)

\* The part of an outcome that step and execute share.
Commit(o) == /\ values' = o.values
             /\ tensors' = o.tensors
             /\ temp' = (o.early /\ (temp \/ o.alloc))

\* Slip: a failed instruction is passed over.
CommittedAlways(o) == o.next

\* Only an instruction that succeeds moves the cursor.
Committed(o) == IF o.err = "Ok" THEN o.next ELSE instr_idx

-----------------------------------------------------------------------------
(* step and reset_execution *)

StepAtEnd == /\ ~running
             /\ chain_idx = n_chains
             /\ Returns("step", "EndOfMethod")
             /\ UNCHANGED <<plan, stepState, data, input_set, temp, running, count, begun>>

\* A chain without instructions: a model that returns an input or a constant.
StepEmptyChain ==
    /\ ~running
    /\ chain_idx < n_chains
    /\ Instructions = <<>>
    /\ chain_idx' = chain_idx + 1
    /\ begun' = TRUE
    /\ Returns("step", "Ok")
    /\ UNCHANGED <<plan, instr_idx, data, input_set, temp, running, count>>

\* Slip: the end of a chain is recognised only when it is fallen into.
ChainDoneByFalling(o) == o.err = "Ok" /\ instr_idx + 1 = Len(Instructions)

\* The chain is done when the cursor reaches its end, by falling or by jumping.
ChainDone(o) == o.err = "Ok" /\ Committed(o) = Len(Instructions)

\* Slip: instr_idx is kept when the next chain is entered.
StepCursorKeepingInstr(o) ==
    /\ instr_idx' = Committed(o)
    /\ chain_idx' = IF ChainDone(o) THEN chain_idx + 1 ELSE chain_idx

\* Where step() leaves the cursor.
StepCursor(o) ==
    /\ instr_idx' = IF ChainDone(o) THEN 0 ELSE Committed(o)
    /\ chain_idx' = IF ChainDone(o) THEN chain_idx + 1 ELSE chain_idx

\* One instruction.  A failure leaves step_state_ where it was.
StepInstruction ==
    /\ ~running
    /\ chain_idx < n_chains
    /\ Instructions # <<>>
    /\ \E o \in InstrOutcomes :
        /\ Commit(o)
        /\ StepCursor(o)
        /\ begun' = (begun \/ o.err = "Ok")
        /\ Returns("step", o.err)
    /\ UNCHANGED <<plan, input_set, running, count>>

Step == StepAtEnd \/ StepEmptyChain \/ StepInstruction

ResetExecution ==
    /\ ~running
    /\ chain_idx = n_chains
    /\ chain_idx' = 0 /\ instr_idx' = 0
    /\ begun' = FALSE
    /\ Returns("reset_execution", "Ok")
    /\ UNCHANGED <<plan, data, input_set, temp, running, count>>

\* Calls refused with InvalidState or InvalidArgument change nothing but the
\* error the caller sees.
Refused ==
    /\ ~running
    /\ \/ chain_idx # n_chains /\ Returns("reset_execution", "InvalidState")
       \/ ~AtStart /\ Returns("set_input", "InvalidState")
    /\ UNCHANGED <<plan, stepState, data, input_set, temp, running, count, begun>>

-----------------------------------------------------------------------------
(* execute *)

in_progress == ~AtStart /\ chain_idx < n_chains

\* Slip: the scan starts at the second input.
AllInputsSetButFirst == \A i \in Ordinals \ {0} : input_set[i]

AllInputsSet == \A i \in Ordinals : input_set[i]

ExecuteRefused ==
    /\ ~running
    /\ \/ in_progress /\ Returns("execute", "InvalidState")
       \/ ~in_progress /\ ~AllInputsSet /\ Returns("execute", "InvalidArgument")
    /\ UNCHANGED <<plan, stepState, data, input_set, temp, running, count, begun>>

ExecuteBegin ==
    /\ ~running
    /\ ~in_progress
    /\ AllInputsSet
    /\ running' = TRUE
    /\ count' = 0
    /\ temp' = FALSE
    /\ chain_idx' = 0 /\ instr_idx' = 0
    /\ begun' = FALSE
    /\ UNCHANGED <<plan, data, input_set, last>>

\* Slip: a failed instruction leaves step_state_ where it was.
ExecuteReturnInPlace(e) == /\ running' = FALSE
                           /\ IF e = "Ok" THEN chain_idx' = 0 /\ instr_idx' = 0
                                           ELSE UNCHANGED stepState
                           /\ begun' = FALSE
                           /\ Returns("execute", e)

\* Leaving execute() on any path: step_state_ is back at the first instruction.
ExecuteReturn(e) == /\ running' = FALSE
                    /\ chain_idx' = 0 /\ instr_idx' = 0
                    /\ begun' = FALSE
                    /\ Returns("execute", e)

InChain == running /\ chain_idx < n_chains /\ instr_idx < Len(Instructions)

\* Slip: the guard against infinite loops is off by one.
UnderLimitOffByOne == count <= MaxInstructions

UnderLimit == count < MaxInstructions

\* Slip: instructions are not counted.
TickNot == UNCHANGED count

Tick == count' = count + 1

ExecuteLimit == /\ InChain
                /\ ~UnderLimit
                /\ ExecuteReturn("InvalidProgram")
                /\ UNCHANGED <<plan, data, input_set, temp, count>>

ExecuteInstruction ==
    /\ InChain
    /\ UnderLimit
    /\ Tick
    /\ \E o \in InstrOutcomes :
        /\ Commit(o)
        /\ IF o.err = "Ok"
           THEN /\ instr_idx' = o.next
                /\ begun' = TRUE
                /\ UNCHANGED <<chain_idx, running, last>>
           ELSE ExecuteReturn(o.err)
    /\ UNCHANGED <<plan, input_set>>

ExecuteNextChain ==
    /\ running
    /\ chain_idx < n_chains
    /\ instr_idx >= Len(Instructions)
    /\ chain_idx' = chain_idx + 1
    /\ instr_idx' = IF chain_idx + 1 < n_chains THEN 0 ELSE instr_idx
    /\ begun' = TRUE
    /\ UNCHANGED <<plan, data, input_set, temp, running, count, last>>

\* Past the last chain, execute() returns what reset_execution() returns.
ExecuteEnd == /\ running
              /\ chain_idx = n_chains
              /\ ExecuteReturn("Ok")
              /\ UNCHANGED <<plan, data, input_set, temp, count>>

Executing == ExecuteLimit \/ ExecuteInstruction \/ ExecuteNextChain \/ ExecuteEnd

-----------------------------------------------------------------------------
Init ==
    /\ plan \in Plans
    /\ chain_idx = 0 /\ instr_idx = 0
    /\ values = plan.values
    /\ tensors = plan.tensors
    /\ input_set = [i \in Ordinals |-> FALSE]
    /\ temp = FALSE
    /\ running = FALSE
    /\ count = 0
    /\ last = [call |-> "load", err |-> "Ok"]
    /\ begun = FALSE

Caller ==
    \/ \E i \in Ordinals, ev \in InputEValue : SetInput(i, ev)
    \/ \E S \in {Ordinals} \cup {{i} : i \in Ordinals} : GetInputs(S)
    \/ \E o \in Outputs, d \in Writable : SetOutputDataPtr(o, d)
    \/ Step \/ ResetExecution \/ Refused
    \/ ExecuteRefused \/ ExecuteBegin

Next == Caller \/ Executing

\* A thread inside execute() keeps running; what the caller does next is its
\* own affair.
Spec == Init /\ [][Next]_vars /\ WF_vars(Executing)

-----------------------------------------------------------------------------
(* What init does not check of a plan's jumps *)

Jumps(p, c) == {i \in DOMAIN p.chains[c] : p.chains[c][i].op = "JumpFalseCall"}

\* No jump leaves its chain other than by its end.
JumpsInside(p) == \A c \in DOMAIN p.chains : \A i \in Jumps(p, c) :
                      p.chains[c][i].dest <= Len(p.chains[c])

\* No jump of the first chain goes back to the first instruction.
NoJumpToStart(p) == \A i \in Jumps(p, 1) : p.chains[1][i].dest > 0

-----------------------------------------------------------------------------
(* Properties *)

TypeOK ==
    /\ plan \in Plans
    /\ chain_idx \in 0 .. n_chains
    /\ instr_idx \in Nat
    /\ values \in [0 .. plan.nv - 1 -> EValue(plan.nt)]
    /\ tensors \in [0 .. plan.nt - 1 -> Tensor]
    /\ input_set \in [Ordinals -> BOOLEAN]
    /\ temp \in BOOLEAN /\ running \in BOOLEAN /\ begun \in BOOLEAN
    /\ count \in 0 .. MaxInstructions
    /\ last.err \in Errors

\* Between calls the step state names an instruction that exists, an empty
\* chain or the end: a caller that steps can always go on, and Method::step's
\* equality test on the end of a chain cannot be jumped over.
Settled == ~running =>
    IF chain_idx = n_chains THEN instr_idx = 0
    ELSE instr_idx < Len(Instructions) \/ (instr_idx = 0 /\ Instructions = <<>>)

\* No instruction leaves memory in the temp allocator for a later one, on any
\* path out of execute_instruction (the platform allocator that load makes
\* when the caller gives none is never dropped).
TempReleased == ~temp

\* "Inputs can not be set mid execution": set_input takes a value over only when
\* no instruction of a run has completed.
InputsFrozen ==
    [][(\E i \in Ordinals, ev \in InputEValue : SetInput(i, ev)) => ~begun]_vars

\* execute() never starts in the middle of a stepped run.
ExecuteFromRest == [][ExecuteBegin => ~begun \/ chain_idx = n_chains]_vars

\* What holds of a step in which execute() returns.
Completed == running /\ ~running' =>
                 /\ AtStart'
                 /\ last'.err = "Ok" => chain_idx = n_chains

\* execute() returns Ok only when every chain has been run, and leaves the
\* method ready for set_input whichever way it returns.
ExecuteCompletes == [][Completed]_vars

\* The instruction limit makes every execute() call return, whatever the
\* jumps of the plan.
ExecuteReturns == running ~> ~running

\* The caller's view: MethodRun, with the step state as the phase of the run.
Run == INSTANCE MethodRun WITH
         phase <- IF running THEN "executing"
                  ELSE IF chain_idx = n_chains THEN "ended"
                  ELSE IF AtStart THEN "ready" ELSE "stepping",
         missing <- {i \in Ordinals : ~input_set[i]}

\* MethodExec implements MethodRun, its promise that execute() returns included.
ImplementsRun == Run!Spec
=============================================================================
