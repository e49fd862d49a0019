--------------------------- MODULE MethodExecProofs ---------------------------
(***************************************************************************)
(* Theorems about MethodExec, for every set of plans and every instruction *)
(* limit, and that MethodExec implements MethodRun.  What the emitter must  *)
(* guarantee of its jumps, which init does not check, is a hypothesis of    *)
(* the theorems that need it.                                              *)
(***************************************************************************)
EXTENDS MethodExec, TLAPS

-----------------------------------------------------------------------------
(* Types *)

LEMMA Element ==
  ASSUME NEW S, NEW seq \in Seq(S), NEW i \in 1 .. Len(seq)
  PROVE  seq[i] \in S
OBVIOUS

LEMMA PlanType ==
  ASSUME plan \in Plans
  PROVE  /\ plan.nv \in Nat /\ plan.nt \in Nat
         /\ plan.chains \in Seq(Seq(Instr(plan.nv))) /\ n_chains \in Nat \ {0}
         /\ plan.ndelegates \in Nat
         /\ plan.inputs \in Seq(0 .. plan.nv - 1)
         /\ plan.outputs \in Seq(0 .. plan.nv - 1)
         /\ plan.values \in [0 .. plan.nv - 1 -> EValue(plan.nt)]
         /\ plan.tensors \in [0 .. plan.nt - 1 -> Tensor]
<1>1. IsPlan(plan)
  BY PlansAssumption
<1>2. plan.chains \in Seq(Seq(Instr(plan.nv))) /\ plan.chains # <<>>
  BY <1>1 DEF IsPlan
<1>3. n_chains \in Nat \ {0}
  BY <1>2 DEF n_chains
<1> QED
  BY <1>1, <1>2, <1>3 DEF IsPlan

LEMMA InstructionsType ==
  ASSUME plan \in Plans, chain_idx \in 0 .. n_chains, chain_idx # n_chains
  PROVE  /\ Instructions \in Seq(Instr(plan.nv))
         /\ Len(Instructions) \in Nat
         /\ \A i \in Nat : i < Len(Instructions) =>
                Instructions[i + 1] \in Instr(plan.nv)
<1>1. plan.chains \in Seq(Seq(Instr(plan.nv))) /\ n_chains \in Nat
  BY PlanType
<1>2. chain_idx + 1 \in 1 .. Len(plan.chains)
  BY <1>1 DEF n_chains
<1>3. Instructions \in Seq(Instr(plan.nv))
  BY <1>1, <1>2 DEF Instructions
<1> QED
  BY <1>3

\* What an outcome of an instruction may be.
OutcomeOK(o) ==
    /\ o.err \in Errors
    /\ o.next \in Nat
    /\ o.values \in [0 .. plan.nv - 1 -> EValue(plan.nt)]
    /\ o.tensors \in [0 .. plan.nt - 1 -> Tensor]
    /\ o.early \in BOOLEAN /\ o.alloc \in BOOLEAN

LEMMA WritesType ==
  ASSUME TypeOK, NEW out \in 0 .. plan.nv - 1, NEW fn \in Behaviours
  PROVE  \A ts \in Writes(out, fn) : ts \in [0 .. plan.nt - 1 -> Tensor]
<1> DEFINE e == values[out]
           old == tensors[e.impl].data
<1>1. plan.nv \in Nat /\ plan.nt \in Nat
  BY PlanType DEF TypeOK
<1>2. e \in EValue(plan.nt)
  BY <1>1 DEF TypeOK
<1>3. CASE e.tag # "Tensor"
  BY <1>3 DEF Writes, TypeOK
<1>4. CASE e.tag = "Tensor"
  <2>1. e.impl \in 0 .. plan.nt - 1
    BY <1>2, <1>4 DEF EValue
  <2>2. old \in Data
    BY <2>1 DEF TypeOK, Tensor
  <2>3. \A d \in Data : [tensors EXCEPT ![e.impl].data = d] \in [0 .. plan.nt - 1 -> Tensor]
    BY <2>1 DEF TypeOK, Tensor
  <2>4. \A ts \in Writes(out, fn) : \E d \in Data : ts = [tensors EXCEPT ![e.impl].data = d]
    <3> DEFINE new == CASE old = "null" -> {"null"}
                        [] old # "null" /\ fn = "not" -> Writable \ {old}
                        [] old # "null" /\ fn = "id" -> {old}
                        [] old # "null" /\ fn = "any" -> Writable
    <3>1. new \subseteq Data
      BY <2>2 DEF Data, Writable, Behaviours
    <3>2. Writes(out, fn) = {[tensors EXCEPT ![e.impl].data = d] : d \in new}
      BY <1>4 DEF Writes
    <3> HIDE DEF new, e, old
    <3> QED
      BY <3>1, <3>2
  <2> QED
    BY <2>3, <2>4
<1> QED
  BY <1>3, <1>4

LEMMA OutcomeType ==
  ASSUME NEW err \in Errors, NEW next \in Nat,
         NEW vs \in [0 .. plan.nv - 1 -> EValue(plan.nt)],
         NEW ts \in [0 .. plan.nt - 1 -> Tensor]
  PROVE  OutcomeOK(Outcome(err, next, vs, ts))
BY DEF OutcomeOK, Outcome

LEMMA CallOutcomesType ==
  ASSUME TypeOK, NEW out \in 0 .. plan.nv - 1, NEW fn \in Behaviours
  PROVE  \A o \in CallOutcomes(out, fn) : OutcomeOK(o) /\ o.next = instr_idx + 1
<1> SUFFICES ASSUME NEW o \in CallOutcomes(out, fn)
             PROVE  OutcomeOK(o) /\ o.next = instr_idx + 1
  OBVIOUS
<1>1. PICK err \in {"Ok", "KernelFailed"}, ts \in Writes(out, fn) :
          o = [Outcome(err, Next1, values, ts) EXCEPT !.alloc = TRUE]
  BY DEF CallOutcomes
<1>2. ts \in [0 .. plan.nt - 1 -> Tensor]
  BY WritesType
<1>3. /\ o.err = err /\ o.next = instr_idx + 1 /\ o.values = values
      /\ o.tensors = ts /\ o.early = FALSE /\ o.alloc = TRUE
  BY <1>1 DEF Outcome, Next1
<1>4. err \in Errors /\ instr_idx + 1 \in Nat
      /\ values \in [0 .. plan.nv - 1 -> EValue(plan.nt)]
  BY DEF Errors, TypeOK
<1> QED
  BY <1>2, <1>3, <1>4 DEF OutcomeOK

LEMMA OutcomesType ==
  ASSUME TypeOK, chain_idx # n_chains
  PROVE  \A o \in InstrOutcomes : OutcomeOK(o)
<1>1. plan.nv \in Nat /\ plan.nt \in Nat
  BY PlanType DEF TypeOK
<1>4. /\ values \in [0 .. plan.nv - 1 -> EValue(plan.nt)]
      /\ tensors \in [0 .. plan.nt - 1 -> Tensor]
      /\ Next1 \in Nat
      /\ "Ok" \in Errors /\ "InvalidType" \in Errors
  BY DEF TypeOK, Next1, Errors
<1>2. CASE instr_idx >= Len(Instructions)
  BY <1>2 DEF InstrOutcomes, Early, Outcome, OutcomeOK, Errors, TypeOK
<1>3. CASE ~(instr_idx >= Len(Instructions))
  <2> DEFINE i == Instructions[instr_idx + 1]
  <2>1. i \in Instr(plan.nv)
    BY <1>3, InstructionsType DEF TypeOK
  <2>2. CASE i.op = "KernelCall"
    <3>1. i.out \in 0 .. plan.nv - 1 /\ i.fn \in Behaviours
      BY <2>1, <2>2 DEF Instr
    <3>2. InstrOutcomes = CallOutcomes(i.out, i.fn)
      BY <1>3, <2>2 DEF InstrOutcomes
    <3> QED
      BY <3>1, <3>2, CallOutcomesType
  <2>3. CASE i.op = "DelegateCall"
    <3>1. i.out \in 0 .. plan.nv - 1 /\ i.fn \in Behaviours
      BY <2>1, <2>3 DEF Instr
    <3>2. InstrOutcomes = {Early("Internal")} \/ InstrOutcomes = CallOutcomes(i.out, i.fn)
      BY <1>3, <2>3 DEF InstrOutcomes
    <3>3. OutcomeOK(Early("Internal"))
      BY DEF Early, Outcome, OutcomeOK, Errors, TypeOK
    <3> QED
      BY <3>1, <3>2, <3>3, CallOutcomesType
  <2>4. CASE i.op = "JumpFalseCall"
    <3>1. i.dest \in Nat
      BY <2>1, <2>4 DEF Instr
    <3>2. CondError(i.cond) \in Errors
      BY DEF CondError, Errors
    <3> SUFFICES ASSUME NEW o \in InstrOutcomes PROVE OutcomeOK(o)
      OBVIOUS
    <3>3. PICK next \in {i.dest, Next1} :
              o = Outcome(CondError(i.cond), next, values, tensors)
      BY <1>3, <2>4 DEF InstrOutcomes
    <3>4. next \in Nat
      BY <3>1, <1>4
    <3>5. OutcomeOK(Outcome(CondError(i.cond), next, values, tensors))
      BY <3>2, <3>4, <1>4, OutcomeType
    <3> QED
      BY <3>3, <3>5
  <2>5. CASE i.op = "MoveCall"
    <3>1. i.from \in 0 .. plan.nv - 1 /\ i.to \in 0 .. plan.nv - 1
      BY <2>1, <2>5 DEF Instr
    <3> DEFINE vs == [values EXCEPT ![i.to] = values[i.from]]
    <3>2. vs \in [0 .. plan.nv - 1 -> EValue(plan.nt)]
      BY <3>1 DEF TypeOK
    <3>3. InstrOutcomes = {Outcome("Ok", Next1, vs, tensors)}
      BY <1>3, <2>5 DEF InstrOutcomes
    <3> HIDE DEF vs
    <3>4. OutcomeOK(Outcome("Ok", Next1, vs, tensors))
      BY <3>2, <1>4, OutcomeType
    <3> QED
      BY <3>3, <3>4
  <2>6. CASE i.op = "FreeCall"
    <3>1. i.value \in 0 .. plan.nv - 1
      BY <2>1, <2>6 DEF Instr
    <3>2. CASE values[i.value].tag # "Tensor"
      <4>1. InstrOutcomes = {Outcome("InvalidType", Next1, values, tensors)}
        BY <1>3, <2>6, <3>2 DEF InstrOutcomes
      <4> QED
        BY <4>1, <1>4, OutcomeType
    <3>3. CASE values[i.value].tag = "Tensor"
      <4> DEFINE ts == [tensors EXCEPT ![values[i.value].impl].data = "null"]
      <4>1. values[i.value] \in EValue(plan.nt)
        BY <3>1 DEF TypeOK
      <4>2. values[i.value].impl \in 0 .. plan.nt - 1
        BY <4>1, <3>3 DEF EValue
      <4>3. ts \in [0 .. plan.nt - 1 -> Tensor]
        BY <4>2 DEF TypeOK, Tensor, Data
      <4>4. InstrOutcomes = {Outcome("Ok", Next1, values, ts)}
        BY <1>3, <2>6, <3>3 DEF InstrOutcomes
      <4> HIDE DEF ts
      <4> QED
        BY <4>3, <4>4, <1>4, OutcomeType
    <3> QED
      BY <3>2, <3>3
  <2> QED
    BY <2>1, <2>2, <2>3, <2>4, <2>5, <2>6 DEF Instr
<1> QED
  BY <1>2, <1>3
-----------------------------------------------------------------------------
(* Type correctness *)

\* The types of what a step can change; no step changes the plan.
LEMMA Retyped ==
  ASSUME TypeOK, plan' = plan,
         chain_idx' \in 0 .. n_chains, instr_idx' \in Nat,
         values' \in [0 .. plan.nv - 1 -> EValue(plan.nt)],
         tensors' \in [0 .. plan.nt - 1 -> Tensor],
         input_set' \in [Ordinals -> BOOLEAN],
         temp' \in BOOLEAN, running' \in BOOLEAN, begun' \in BOOLEAN,
         count' \in 0 .. MaxInstructions,
         last'.err \in Errors
  PROVE  TypeOK'
<1>1. n_chains' = n_chains /\ Ordinals' = Ordinals
  BY DEF n_chains, Ordinals
<1> QED
  BY <1>1 DEF TypeOK

\* An operand of the plan is a value; if it is a tensor, its TensorImpl exists.
LEMMA OperandType ==
  ASSUME TypeOK, NEW v \in 0 .. plan.nv - 1
  PROVE  /\ values[v] \in EValue(plan.nt)
         /\ values[v].tag = "Tensor" => values[v].impl \in 0 .. plan.nt - 1
<1>1. values[v] \in EValue(plan.nt)
  BY DEF TypeOK
<1> QED
  BY <1>1 DEF EValue

LEMMA SetInputType ==
  ASSUME TypeOK, NEW i \in Ordinals, NEW ev \in InputEValue, SetInput(i, ev)
  PROVE  TypeOK'
<1> DEFINE v == plan.inputs[i + 1]
           e == values[v]
<1>1. plan \in Plans
  BY DEF TypeOK
<1>2. e \in EValue(plan.nt)
  <2>1. plan.inputs[i + 1] \in 0 .. plan.nv - 1
    <3>1. plan.inputs \in Seq(0 .. plan.nv - 1) /\ Len(plan.inputs) \in Nat
      BY <1>1, PlanType
    <3>2. i + 1 \in 1 .. Len(plan.inputs)
      BY <3>1 DEF Ordinals
    <3> QED
      BY <3>1, <3>2, Element
  <2> QED
    BY <2>1 DEF TypeOK
<1>3. tensors' \in [0 .. plan.nt - 1 -> Tensor]
  <2>1. CASE UNCHANGED tensors
    BY <2>1 DEF TypeOK
  <2>2. CASE ~UNCHANGED tensors
    <3>1. InputError(v, ev) = "Ok" /\ StoreInput(v, ev)
      BY <2>2 DEF SetInput
    <3>2. e.tag = "Tensor" /\ tensors' = [tensors EXCEPT ![e.impl].data = ev.data]
      BY <3>1, <2>2 DEF StoreInput
    <3>3. e.impl \in 0 .. plan.nt - 1
      BY <3>2, <1>2 DEF EValue
    <3>4. ev.tag = "Tensor"
      BY <3>1, <3>2 DEF InputError
    <3>5. ev.data \in Data
      BY <3>4 DEF InputEValue
    <3> QED
      BY <3>2, <3>3, <3>5 DEF TypeOK, Tensor
  <2> QED
    BY <2>1, <2>2
<1>4. input_set' \in [Ordinals -> BOOLEAN]
  BY DEF SetInput, TypeOK
<1>5. last'.err \in Errors
  BY DEF SetInput, Returns, InputError, TensorError, Errors
<1> QED
  BY <1>1, <1>3, <1>4, <1>5 DEF SetInput, TypeOK, stepState, n_chains, Ordinals

LEMMA InstructionType ==
  ASSUME TypeOK, chain_idx # n_chains, NEW o \in InstrOutcomes, Commit(o)
  PROVE  /\ values' \in [0 .. plan.nv - 1 -> EValue(plan.nt)]
         /\ tensors' \in [0 .. plan.nt - 1 -> Tensor]
         /\ temp' \in BOOLEAN
         /\ o.err \in Errors
         /\ o.next \in Nat
         /\ Committed(o) \in Nat
BY OutcomesType DEF OutcomeOK, Commit, Committed, TypeOK

LEMMA ReturnType ==
  ASSUME TypeOK, NEW e \in Errors, ExecuteReturn(e)
  PROVE  /\ chain_idx' \in 0 .. n_chains /\ instr_idx' \in Nat
         /\ running' \in BOOLEAN /\ begun' \in BOOLEAN /\ last'.err \in Errors
<1>1. n_chains \in Nat
  BY PlanType DEF TypeOK
<1>2. last'.err = e
  BY DEF ExecuteReturn, Returns
<1>3. chain_idx' = 0 /\ instr_idx' = 0
  BY DEF ExecuteReturn
<1>4. running' \in BOOLEAN /\ begun' \in BOOLEAN
  BY DEF ExecuteReturn
<1> QED
  BY <1>1, <1>2, <1>3, <1>4

LEMMA TypeStep == TypeOK /\ [Next]_vars => TypeOK'
<1> SUFFICES ASSUME TypeOK, [Next]_vars PROVE TypeOK'
  OBVIOUS
<1> USE MaxInstructionsAssumption
<1>1. n_chains \in Nat \ {0}
  BY PlanType DEF TypeOK
<1>2. "Ok" \in Errors /\ "EndOfMethod" \in Errors /\ "InvalidState" \in Errors
      /\ "InvalidArgument" \in Errors /\ "InvalidProgram" \in Errors
  BY DEF Errors
<1>3. CASE \E i \in Ordinals, ev \in InputEValue : SetInput(i, ev)
  BY <1>3, SetInputType
<1>4. CASE \E S \in {Ordinals} \cup {{i} : i \in Ordinals} : GetInputs(S)
  BY <1>4, <1>2 DEF GetInputs, Returns, TypeOK, stepState, data, n_chains, Ordinals
<1>5. CASE \E o \in Outputs, d \in Writable : SetOutputDataPtr(o, d)
  <2> PICK o \in Outputs, d \in Writable : SetOutputDataPtr(o, d)
    BY <1>5
  <2> DEFINE e == values[plan.outputs[o + 1]]
  <2>1. plan.outputs[o + 1] \in 0 .. plan.nv - 1
    <3>1. plan.outputs \in Seq(0 .. plan.nv - 1) /\ Len(plan.outputs) \in Nat
      BY PlanType DEF TypeOK
    <3>2. o + 1 \in 1 .. Len(plan.outputs)
      BY <3>1 DEF Outputs
    <3> QED
      BY <3>1, <3>2, Element
  <2>2. e.impl \in 0 .. plan.nt - 1
    BY <2>1, OperandType DEF SetOutputDataPtr
  <2>3. tensors' \in [0 .. plan.nt - 1 -> Tensor]
    BY <2>2 DEF SetOutputDataPtr, TypeOK, Tensor, Writable, Data
  <2> QED
    BY <2>3, <1>2 DEF SetOutputDataPtr, Returns, TypeOK, stepState, n_chains, Ordinals
<1>6. CASE StepAtEnd
  BY <1>6, <1>2 DEF StepAtEnd, Returns, TypeOK, stepState, data, n_chains, Ordinals
<1>7. CASE StepEmptyChain
  BY <1>7, <1>2, <1>1 DEF StepEmptyChain, Returns, TypeOK, data, n_chains, Ordinals
<1>8. CASE StepInstruction
  <2> PICK o \in InstrOutcomes : /\ Commit(o) /\ StepCursor(o)
                                 /\ begun' = (begun \/ o.err = "Ok")
                                 /\ Returns("step", o.err)
    BY <1>8 DEF StepInstruction
  <2>1. chain_idx # n_chains
    BY <1>8, <1>1 DEF StepInstruction, TypeOK
  <2>2. chain_idx' \in 0 .. n_chains /\ instr_idx' \in Nat
    BY <2>1, <1>1, InstructionType DEF StepCursor, TypeOK
  <2> QED
    BY <1>8, <2>1, <2>2, InstructionType
    DEF StepInstruction, Returns, TypeOK, n_chains, Ordinals
<1>9. CASE ResetExecution
  <2>1. chain_idx' \in 0 .. n_chains /\ instr_idx' \in Nat
    BY <1>9, <1>1 DEF ResetExecution
  <2>2. begun' \in BOOLEAN
    BY <1>9 DEF ResetExecution
  <2> QED
    BY <1>9, <2>1, <2>2, <1>2, Retyped DEF ResetExecution, Returns, TypeOK, data
<1>10. CASE Refused
  BY <1>10, <1>2 DEF Refused, Returns, TypeOK, stepState, data, n_chains, Ordinals
<1>11. CASE ExecuteRefused
  BY <1>11, <1>2 DEF ExecuteRefused, Returns, TypeOK, stepState, data, n_chains, Ordinals
<1>12. CASE ExecuteBegin
  <2>1. chain_idx' \in 0 .. n_chains /\ instr_idx' \in Nat
        /\ count' \in 0 .. MaxInstructions
    BY <1>12, <1>1 DEF ExecuteBegin
  <2>2. begun' \in BOOLEAN /\ running' \in BOOLEAN /\ temp' \in BOOLEAN
    BY <1>12 DEF ExecuteBegin
  <2> QED
    BY <1>12, <2>1, <2>2, Retyped DEF ExecuteBegin, TypeOK, data
<1>13. CASE ExecuteLimit
  <2>1. PICK e \in Errors : ExecuteReturn(e)
    BY <1>13, <1>2 DEF ExecuteLimit
  <2> QED
    BY <1>13, <2>1, ReturnType, Retyped DEF ExecuteLimit, TypeOK, data
<1>14. CASE ExecuteInstruction
  <2> PICK o \in InstrOutcomes :
        /\ Commit(o)
        /\ IF o.err = "Ok"
           THEN /\ instr_idx' = o.next
                /\ begun' = TRUE
                /\ UNCHANGED <<chain_idx, running, last>>
           ELSE ExecuteReturn(o.err)
    BY <1>14 DEF ExecuteInstruction
  <2>1. chain_idx # n_chains
    BY <1>14, <1>1 DEF ExecuteInstruction, InChain, TypeOK
  <2>2. count' \in 0 .. MaxInstructions
    BY <1>14 DEF ExecuteInstruction, UnderLimit, Tick, TypeOK
  <2>3. o.err \in Errors /\ o.next \in Nat
    BY <2>1, InstructionType
  <2>4. chain_idx' \in 0 .. n_chains /\ instr_idx' \in Nat /\ running' \in BOOLEAN
        /\ begun' \in BOOLEAN /\ last'.err \in Errors
    <3>1. CASE o.err = "Ok"
      BY <3>1, <2>3 DEF TypeOK
    <3>2. CASE o.err # "Ok"
      BY <3>2, <2>3, ReturnType
    <3> QED
      BY <3>1, <3>2
  <2> QED
    BY <1>14, <2>1, <2>2, <2>4, InstructionType, Retyped DEF ExecuteInstruction, TypeOK
<1>15. CASE ExecuteNextChain
  BY <1>15, <1>1 DEF ExecuteNextChain, TypeOK, data, n_chains, Ordinals
<1>16. CASE ExecuteEnd
  <2>1. PICK e \in Errors : ExecuteReturn(e)
    BY <1>16, <1>2 DEF ExecuteEnd
  <2> QED
    BY <1>16, <2>1, ReturnType, Retyped DEF ExecuteEnd, TypeOK, data
<1>17. CASE UNCHANGED vars
  BY <1>17 DEF vars, TypeOK, n_chains, Ordinals
<1> QED
  BY <1>3, <1>4, <1>5, <1>6, <1>7, <1>8, <1>9, <1>10, <1>11, <1>12, <1>13, <1>14,
     <1>15, <1>16, <1>17 DEF Next, Caller, Step, Executing

LEMMA TypeInit == Init => TypeOK
<1> SUFFICES ASSUME Init PROVE TypeOK
  OBVIOUS
<1>1. plan \in Plans
  BY DEF Init
<1> QED
  <2>1. n_chains \in Nat /\ plan.values \in [0 .. plan.nv - 1 -> EValue(plan.nt)]
        /\ plan.tensors \in [0 .. plan.nt - 1 -> Tensor]
    BY <1>1, PlanType
  <2>2. /\ chain_idx \in 0 .. n_chains /\ instr_idx \in Nat
        /\ values \in [0 .. plan.nv - 1 -> EValue(plan.nt)]
        /\ tensors \in [0 .. plan.nt - 1 -> Tensor]
        /\ input_set \in [Ordinals -> BOOLEAN]
    BY <2>1 DEF Init
  <2>3. temp \in BOOLEAN /\ running \in BOOLEAN /\ begun \in BOOLEAN
    BY DEF Init
  <2>5. count \in 0 .. MaxInstructions
    BY MaxInstructionsAssumption DEF Init
  <2>4. last.err \in Errors
    BY DEF Init, Errors
  <2> QED
    BY <1>1, <2>2, <2>3, <2>4, <2>5 DEF TypeOK

\* Every variable keeps its type: in particular the cursor never leaves the
\* chains of the plan (chain_idx <= n_chains_) and execute() never counts past
\* the instruction limit.
THEOREM TypeCorrect == Spec => []TypeOK
<1> QED
  BY TypeInit, TypeStep, PTL DEF Spec

-----------------------------------------------------------------------------
(* Where an instruction may lead *)

LEMMA OutcomeNext ==
  ASSUME TypeOK, chain_idx # n_chains, NEW o \in InstrOutcomes, o.err = "Ok"
  PROVE  /\ instr_idx < Len(Instructions)
         /\ \/ o.next = instr_idx + 1
            \/ /\ Instructions[instr_idx + 1].op = "JumpFalseCall"
               /\ o.next = Instructions[instr_idx + 1].dest
<1> DEFINE i == Instructions[instr_idx + 1]
<1>1. Len(Instructions) \in Nat /\ instr_idx \in Nat
  BY InstructionsType DEF TypeOK
<1>2. ~(instr_idx >= Len(Instructions))
  BY DEF InstrOutcomes, Early, Outcome
<1>3. i \in Instr(plan.nv)
  BY <1>1, <1>2, InstructionsType DEF TypeOK
<1>4. CASE i.op = "KernelCall" \/ i.op = "DelegateCall"
  <2>1. i.out \in 0 .. plan.nv - 1 /\ i.fn \in Behaviours
    BY <1>3, <1>4 DEF Instr
  <2>2. o \in CallOutcomes(i.out, i.fn) \/ o = Early("Internal")
    BY <1>2, <1>4 DEF InstrOutcomes
  <2>3. o # Early("Internal")
    BY DEF Early, Outcome
  <2> QED
    BY <1>1, <1>2, <2>1, <2>2, <2>3, CallOutcomesType
<1>5. CASE i.op = "JumpFalseCall"
  <2>1. PICK next \in {i.dest, Next1} :
            o = Outcome(CondError(i.cond), next, values, tensors)
    BY <1>2, <1>5 DEF InstrOutcomes
  <2>2. o.next = next
    BY <2>1 DEF Outcome
  <2> QED
    BY <1>1, <1>2, <1>5, <2>2 DEF Next1
<1>6. CASE i.op = "MoveCall"
  <2>1. o = Outcome("Ok", Next1, [values EXCEPT ![i.to] = values[i.from]], tensors)
    BY <1>2, <1>6 DEF InstrOutcomes
  <2>2. o.next = Next1
    BY <2>1 DEF Outcome
  <2> QED
    BY <1>1, <1>2, <2>2 DEF Next1
<1>7. CASE i.op = "FreeCall"
  <2>1. PICK err \in {"Ok", "InvalidType"},
             ts \in {tensors, [tensors EXCEPT ![values[i.value].impl].data = "null"]} :
            o = Outcome(err, Next1, values, ts)
    BY <1>2, <1>7 DEF InstrOutcomes
  <2>2. o.next = Next1
    BY <2>1 DEF Outcome
  <2> QED
    BY <1>1, <1>2, <2>2 DEF Next1
<1> QED
  BY <1>3, <1>4, <1>5, <1>6, <1>7 DEF Instr

LEMMA NextInside ==
  ASSUME TypeOK, JumpsInside(plan), chain_idx # n_chains,
         NEW o \in InstrOutcomes, o.err = "Ok"
  PROVE  o.next \in 0 .. Len(Instructions)
<1>1. Len(Instructions) \in Nat /\ instr_idx \in Nat /\ n_chains \in Nat
  BY InstructionsType, PlanType DEF TypeOK
<1>2. o.next \in Nat
  BY OutcomesType DEF OutcomeOK
<1>3. CASE o.next = instr_idx + 1
  BY <1>1, <1>3, OutcomeNext
<1>4. CASE o.next # instr_idx + 1
  <2>1. instr_idx + 1 \in DOMAIN Instructions /\ chain_idx + 1 \in DOMAIN plan.chains
    <3>1. instr_idx < Len(Instructions)
      BY OutcomeNext
    <3>2. Instructions \in Seq(Instr(plan.nv)) /\ plan.chains \in Seq(Seq(Instr(plan.nv)))
      BY InstructionsType, PlanType DEF TypeOK
    <3>3. chain_idx + 1 \in 1 .. Len(plan.chains)
      BY <1>1 DEF TypeOK, n_chains
    <3> QED
      BY <1>1, <3>1, <3>2, <3>3
  <2>2. instr_idx + 1 \in Jumps(plan, chain_idx + 1)
    BY <1>4, <2>1, OutcomeNext DEF Jumps, Instructions
  <2>3. Instructions[instr_idx + 1].dest <= Len(Instructions)
    BY <2>1, <2>2 DEF JumpsInside, Instructions
  <2> QED
    BY <1>1, <1>2, <1>4, <2>3, OutcomeNext
<1> QED
  BY <1>3, <1>4

LEMMA NextNotStart ==
  ASSUME TypeOK, NoJumpToStart(plan), chain_idx # n_chains,
         NEW o \in InstrOutcomes, o.err = "Ok", chain_idx = 0
  PROVE  o.next # 0
<1>1. Len(Instructions) \in Nat /\ instr_idx \in Nat
  BY InstructionsType DEF TypeOK
<1>2. CASE o.next = instr_idx + 1
  BY <1>1, <1>2
<1>3. CASE o.next # instr_idx + 1
  <2>1. instr_idx + 1 \in DOMAIN Instructions
    <3>1. instr_idx < Len(Instructions)
      BY OutcomeNext
    <3>2. Instructions \in Seq(Instr(plan.nv))
      BY InstructionsType DEF TypeOK
    <3> QED
      BY <1>1, <3>1, <3>2
  <2>2. Instructions = plan.chains[1]
    BY DEF Instructions
  <2>3. instr_idx + 1 \in Jumps(plan, 1)
    BY <1>3, <2>1, <2>2, OutcomeNext DEF Jumps
  <2>4. Instructions[instr_idx + 1].dest > 0
    BY <2>2, <2>3 DEF NoJumpToStart
  <2> QED
    BY <1>3, <2>4, OutcomeNext
<1> QED
  BY <1>2, <1>3

-----------------------------------------------------------------------------
(* The step state between calls *)

\* The steps that move the cursor; every other one leaves it alone.
LEMMA CursorMoves ==
  ASSUME [Next]_vars
  PROVE  /\ plan' = plan
         /\ \/ UNCHANGED <<running, chain_idx, instr_idx, begun>>
            \/ StepEmptyChain \/ StepInstruction \/ ResetExecution
            \/ ExecuteBegin \/ ExecuteInstruction \/ ExecuteNextChain
            \/ \E e \in Errors : running /\ ExecuteReturn(e)
<1>1. CASE \/ \E i \in Ordinals, ev \in InputEValue : SetInput(i, ev)
           \/ \E S \in {Ordinals} \cup {{i} : i \in Ordinals} : GetInputs(S)
           \/ \E o \in Outputs, d \in Writable : SetOutputDataPtr(o, d)
  BY <1>1 DEF SetInput, GetInputs, SetOutputDataPtr, stepState
<1>2. CASE StepAtEnd \/ Refused \/ ExecuteRefused
  BY <1>2 DEF StepAtEnd, Refused, ExecuteRefused, stepState
<1>3. CASE UNCHANGED vars
  BY <1>3 DEF vars
<1>4. CASE ExecuteLimit \/ ExecuteEnd
  BY <1>4 DEF ExecuteLimit, ExecuteEnd, InChain, Errors
<1>5. CASE StepEmptyChain \/ StepInstruction \/ ResetExecution \/ ExecuteBegin
           \/ ExecuteInstruction \/ ExecuteNextChain
  BY <1>5 DEF StepEmptyChain, StepInstruction, ResetExecution, ExecuteBegin,
              ExecuteInstruction, ExecuteNextChain
<1> QED
  BY <1>1, <1>2, <1>3, <1>4, <1>5 DEF Next, Caller, Step, Executing

LEMMA SettledAtStart ==
  ASSUME TypeOK, plan' = plan, AtStart'
  PROVE  Settled'
<1>1. n_chains' = n_chains /\ n_chains \in Nat \ {0} /\ chain_idx' = 0 /\ instr_idx' = 0
  BY PlanType DEF TypeOK, n_chains, AtStart
<1>2. Instructions' = plan.chains[1]
  BY <1>1 DEF Instructions
<1>3. Instructions' \in Seq(Instr(plan.nv))
  BY <1>1, <1>2, PlanType DEF TypeOK, n_chains
<1>4. instr_idx' < Len(Instructions') \/ Instructions' = <<>>
  BY <1>1, <1>3
<1> QED
  BY <1>1, <1>4 DEF Settled

LEMMA SettledStep ==
  ASSUME \A p \in Plans : JumpsInside(p)
  PROVE  TypeOK /\ Settled /\ [Next]_vars => Settled'
<1> SUFFICES ASSUME TypeOK, Settled, [Next]_vars PROVE Settled'
  OBVIOUS
<1>1. /\ plan' = plan /\ n_chains' = n_chains /\ n_chains \in Nat \ {0}
      /\ chain_idx \in 0 .. n_chains /\ instr_idx \in Nat
      /\ JumpsInside(plan)
      /\ plan.chains \in Seq(Seq(Instr(plan.nv)))
  BY CursorMoves, PlanType DEF TypeOK, n_chains
<1>2. CASE UNCHANGED <<running, chain_idx, instr_idx, begun>>
  BY <1>1, <1>2 DEF Settled, Instructions
<1>3. ASSUME ~running, chain_idx # n_chains, chain_idx' = chain_idx + 1, instr_idx' = 0
      PROVE  Settled'
  <2>1. CASE chain_idx' = n_chains
    BY <1>1, <1>3, <2>1 DEF Settled
  <2>2. CASE chain_idx' # n_chains
    <3>1. Instructions' = plan.chains[chain_idx' + 1]
      BY <1>1 DEF Instructions
    <3>2. chain_idx' + 1 \in 1 .. Len(plan.chains)
      BY <1>1, <1>3, <2>2 DEF n_chains
    <3>3. Instructions' \in Seq(Instr(plan.nv))
      BY <1>1, <3>1, <3>2
    <3>4. instr_idx' < Len(Instructions') \/ Instructions' = <<>>
      BY <1>3, <3>3
    <3> QED
      BY <1>1, <1>3, <2>2, <3>4 DEF Settled
  <2> QED
    BY <2>1, <2>2
<1>4. CASE StepEmptyChain
  <2>1. ~running /\ chain_idx # n_chains /\ chain_idx' = chain_idx + 1
        /\ instr_idx' = instr_idx /\ Instructions = <<>>
    BY <1>1, <1>4 DEF StepEmptyChain
  <2>2. instr_idx = 0
    BY <1>1, <2>1 DEF Settled
  <2> QED
    BY <2>1, <2>2, <1>3
<1>5. CASE StepInstruction
  <2>1. ~running /\ running' = running /\ chain_idx # n_chains /\ Instructions # <<>>
    BY <1>1, <1>5 DEF StepInstruction
  <2>2. PICK o \in InstrOutcomes : StepCursor(o)
    BY <1>5 DEF StepInstruction
  <2>3. Len(Instructions) \in Nat /\ instr_idx < Len(Instructions)
    BY <1>1, <2>1, InstructionsType DEF Settled, TypeOK
  <2>4. CASE ChainDone(o)
    BY <2>1, <2>2, <2>4, <1>3 DEF StepCursor
  <2>5. CASE ~ChainDone(o)
    <3>1. chain_idx' = chain_idx /\ instr_idx' = Committed(o)
      BY <2>2, <2>5 DEF StepCursor
    <3>2. Committed(o) < Len(Instructions)
      <4>1. CASE o.err = "Ok"
        <5>1. o.next \in 0 .. Len(Instructions)
          BY <1>1, <2>1, <4>1, NextInside
        <5>2. Committed(o) = o.next /\ o.next # Len(Instructions)
          BY <2>5, <4>1 DEF ChainDone, Committed
        <5> QED
          BY <5>1, <5>2, <2>3
      <4>2. CASE o.err # "Ok"
        BY <2>3, <4>2 DEF Committed
      <4> QED
        BY <4>1, <4>2
    <3>3. Instructions' = Instructions
      BY <1>1, <3>1 DEF Instructions
    <3> QED
      BY <1>1, <2>1, <3>1, <3>2, <3>3 DEF Settled
  <2> QED
    BY <2>4, <2>5
<1>6. CASE ResetExecution \/ ExecuteBegin \/ \E e \in Errors : ExecuteReturn(e)
  <2>1. AtStart'
    BY <1>6 DEF ResetExecution, ExecuteBegin, ExecuteReturn, AtStart
  <2> QED
    BY <1>1, <2>1, SettledAtStart
<1>7. CASE ExecuteInstruction
  <2>1. running' \/ \E e \in Errors : ExecuteReturn(e)
    <3>1. PICK o \in InstrOutcomes :
            /\ Commit(o)
            /\ IF o.err = "Ok"
               THEN UNCHANGED <<chain_idx, running, last>>
               ELSE ExecuteReturn(o.err)
      BY <1>7 DEF ExecuteInstruction
    <3>2. o.err \in Errors /\ running
      <4>1. chain_idx # n_chains /\ running
        BY <1>1, <1>7 DEF ExecuteInstruction, InChain
      <4> QED
        BY <4>1, InstructionType, <3>1
    <3> QED
      BY <3>1, <3>2
  <2> QED
    BY <2>1, <1>6 DEF Settled
<1>8. CASE ExecuteNextChain
  BY <1>8 DEF ExecuteNextChain, Settled
<1> QED
  BY <1>2, <1>4, <1>5, <1>6, <1>7, <1>8, CursorMoves

\* Method::step tests the end of a chain for equality; with jumps that stay
\* inside their chain, the step state between calls never gets past it.
THEOREM StepStateSettled ==
  ASSUME \A p \in Plans : JumpsInside(p)
  PROVE  Spec => []Settled
<1>1. Init => Settled
  <2> SUFFICES ASSUME Init PROVE Settled
    OBVIOUS
  <2>1. chain_idx = 0 /\ instr_idx = 0 /\ n_chains \in Nat \ {0}
        /\ plan.chains \in Seq(Seq(Instr(plan.nv)))
    BY PlanType DEF Init
  <2>2. Instructions \in Seq(Instr(plan.nv))
    BY <2>1 DEF Instructions, n_chains
  <2>3. instr_idx < Len(Instructions) \/ Instructions = <<>>
    BY <2>1, <2>2
  <2> QED
    BY <2>1, <2>3 DEF Settled
<1>2. TypeOK /\ Settled /\ [Next]_vars => Settled'
  BY SettledStep
<1> QED
  BY <1>1, <1>2, TypeCorrect, PTL DEF Spec

-----------------------------------------------------------------------------
(* Leaving an instruction, leaving execute() *)

LEMMA EarlyWithoutAlloc ==
  ASSUME NEW o \in InstrOutcomes, chain_idx # n_chains, TypeOK
  PROVE  ~(o.early /\ o.alloc)
<1>1. CASE o = Early("Internal")
  BY <1>1 DEF Early, Outcome
<1>2. CASE \E out, fn : o \in CallOutcomes(out, fn)
  <2>1. PICK err, ts : o = [Outcome(err, Next1, values, ts) EXCEPT !.alloc = TRUE]
    BY <1>2 DEF CallOutcomes
  <2>2. o.early = FALSE
    BY <2>1 DEF Outcome
  <2> QED
    BY <2>2
<1>3. CASE \E err, next, vs, ts : o = Outcome(err, next, vs, ts)
  BY <1>3 DEF Outcome
<1>4. CASE instr_idx >= Len(Instructions)
  BY <1>1, <1>4 DEF InstrOutcomes
<1>5. CASE ~(instr_idx >= Len(Instructions))
  <2> DEFINE i == Instructions[instr_idx + 1]
  <2>1. i \in Instr(plan.nv)
    BY <1>5, InstructionsType DEF TypeOK
  <2>2. CASE i.op \in {"KernelCall", "DelegateCall"}
    BY <1>1, <1>2, <1>5, <2>2 DEF InstrOutcomes
  <2>3. CASE i.op \in {"JumpFalseCall", "MoveCall"}
    BY <1>3, <1>5, <2>3 DEF InstrOutcomes
  <2>4. CASE i.op = "FreeCall"
    BY <1>3, <1>5, <2>4 DEF InstrOutcomes
  <2> QED
    BY <2>1, <2>2, <2>3, <2>4 DEF Instr
<1> QED
  BY <1>4, <1>5

\* No path out of execute_instruction leaves memory in the temp allocator.
THEOREM TempAlwaysReleased == Spec => []TempReleased
<1>1. Init => TempReleased
  BY DEF Init, TempReleased
<1>2. ASSUME TypeOK, TempReleased, [Next]_vars PROVE TempReleased'
  <2>1. ASSUME NEW o \in InstrOutcomes, Commit(o), chain_idx # n_chains
        PROVE  TempReleased'
    BY <1>2, <2>1, EarlyWithoutAlloc DEF Commit, TempReleased
  <2>2. n_chains \in Nat /\ chain_idx \in 0 .. n_chains
    BY <1>2, PlanType DEF TypeOK
  <2>3. CASE StepInstruction
    BY <2>1, <2>2, <2>3 DEF StepInstruction
  <2>4. CASE ExecuteInstruction
    BY <2>1, <2>2, <2>4 DEF ExecuteInstruction, InChain
  <2>5. CASE UNCHANGED temp \/ temp' = FALSE
    BY <1>2, <2>5 DEF TempReleased
  <2>6. StepInstruction \/ ExecuteInstruction \/ UNCHANGED temp \/ temp' = FALSE
    BY <1>2 DEF Next, Caller, Executing, Step, SetInput, GetInputs, SetOutputDataPtr,
       StepAtEnd, StepEmptyChain, ResetExecution, Refused, ExecuteRefused, ExecuteBegin,
       ExecuteLimit, ExecuteNextChain, ExecuteEnd, vars
  <2> QED
    BY <2>3, <2>4, <2>5, <2>6
<1> QED
  BY <1>1, <1>2, TypeCorrect, PTL DEF Spec

\* execute() returns Ok only past the last chain, and on every path leaves the
\* cursor at the first instruction.
THEOREM ExecuteRunsToTheEnd == Spec => ExecuteCompletes
<1>1. ASSUME [Next]_vars, running, ~running'
      PROVE  AtStart' /\ (last'.err = "Ok" => chain_idx = n_chains)
  <2>1. ASSUME NEW e, ExecuteReturn(e), e = "Ok" => chain_idx = n_chains
        PROVE  AtStart' /\ (last'.err = "Ok" => chain_idx = n_chains)
    BY <2>1 DEF ExecuteReturn, AtStart, Returns
  <2>2. CASE ExecuteLimit
    BY <2>1, <2>2 DEF ExecuteLimit
  <2>3. CASE ExecuteEnd
    BY <2>1, <2>3 DEF ExecuteEnd
  <2>4. CASE ExecuteInstruction
    BY <1>1, <2>1, <2>4 DEF ExecuteInstruction
  <2>5. ExecuteLimit \/ ExecuteEnd \/ ExecuteInstruction
    BY <1>1 DEF Next, Caller, Executing, Step, SetInput, GetInputs, SetOutputDataPtr,
       StepAtEnd, StepEmptyChain, StepInstruction, ResetExecution, Refused,
       ExecuteRefused, ExecuteBegin, ExecuteNextChain, vars
  <2> QED
    BY <2>2, <2>3, <2>4, <2>5
<1>2. [Next]_vars => [Completed]_vars
  BY <1>1 DEF Completed
<1> QED
  BY <1>2, PTL DEF Spec, ExecuteCompletes

-----------------------------------------------------------------------------
(* What the caller may rely on: inputs are frozen during a run, execute()  *)
(* starts from rest, and MethodExec takes only the steps MethodRun allows. *)

\* The position alone says whether a run has begun: what makes set_input's
\* comparison of two indices a test for "mid execution".
Fresh == ~running /\ AtStart => ~begun

LEMMA InstructionLeaves ==
  ASSUME TypeOK, NoJumpToStart(plan), chain_idx # n_chains, StepInstruction
  PROVE  \/ UNCHANGED <<chain_idx, instr_idx, begun>>
         \/ ~AtStart'
<1>1. PICK o \in InstrOutcomes : StepCursor(o) /\ begun' = (begun \/ o.err = "Ok")
  BY DEF StepInstruction
<1>2. chain_idx \in Nat
  BY PlanType DEF TypeOK
<1>3. CASE o.err # "Ok"
  <2>1. begun' = begun
    BY <1>1, <1>3 DEF TypeOK
  <2> QED
    BY <1>1, <1>3, <2>1 DEF StepCursor, ChainDone, Committed
<1>4. CASE o.err = "Ok" /\ ChainDone(o)
  <2>1. chain_idx' = chain_idx + 1
    BY <1>1, <1>4 DEF StepCursor
  <2> QED
    BY <1>2, <2>1 DEF AtStart
<1>5. CASE o.err = "Ok" /\ ~ChainDone(o)
  <2>1. chain_idx' = chain_idx /\ instr_idx' = o.next
    BY <1>1, <1>5 DEF StepCursor, Committed
  <2>2. chain_idx = 0 => o.next # 0
    BY <1>5, NextNotStart
  <2> QED
    BY <2>1, <2>2 DEF AtStart
<1> QED
  BY <1>3, <1>4, <1>5

LEMMA FreshStep ==
  ASSUME \A p \in Plans : NoJumpToStart(p)
  PROVE  TypeOK /\ Fresh /\ [Next]_vars => Fresh'
<1> SUFFICES ASSUME TypeOK, Fresh, [Next]_vars PROVE Fresh'
  OBVIOUS
<1>1. n_chains \in Nat \ {0} /\ chain_idx \in 0 .. n_chains /\ NoJumpToStart(plan)
  BY PlanType DEF TypeOK
<1>2. CASE UNCHANGED <<running, chain_idx, instr_idx, begun>>
  BY <1>2 DEF Fresh, AtStart
<1>3. CASE StepEmptyChain
  <2>1. chain_idx' = chain_idx + 1
    BY <1>3 DEF StepEmptyChain
  <2> QED
    BY <1>1, <2>1 DEF Fresh, AtStart
<1>4. CASE StepInstruction
  <2>1. running' = running /\ chain_idx # n_chains
    BY <1>1, <1>4 DEF StepInstruction
  <2> QED
    BY <1>1, <1>4, <2>1, InstructionLeaves DEF Fresh, AtStart
<1>5. CASE ResetExecution \/ ExecuteBegin \/ \E e \in Errors : ExecuteReturn(e)
  BY <1>5 DEF ResetExecution, ExecuteBegin, ExecuteReturn, Fresh
<1>6. CASE ExecuteInstruction
  <2>1. running' \/ begun' = FALSE
    BY <1>6 DEF ExecuteInstruction, InChain, ExecuteReturn
  <2> QED
    BY <2>1 DEF Fresh
<1>7. CASE ExecuteNextChain
  BY <1>7 DEF ExecuteNextChain, Fresh
<1> QED
  BY <1>2, <1>3, <1>4, <1>5, <1>6, <1>7, CursorMoves

\* The start position (0, 0) is left by the first instruction of a run and not
\* reached again before the run is over.
THEOREM RunFresh ==
  ASSUME \A p \in Plans : NoJumpToStart(p)
  PROVE  Spec => []Fresh
<1>1. Init => Fresh
  BY DEF Init, Fresh
<1>2. TypeOK /\ Fresh /\ [Next]_vars => Fresh'
  BY FreshStep
<1> QED
  BY <1>1, <1>2, TypeCorrect, PTL DEF Spec

\* set_input and set_inputs take a value over only when no instruction of a run
\* has completed.
THEOREM InputsAreFrozen ==
  ASSUME \A p \in Plans : NoJumpToStart(p)
  PROVE  Spec => InputsFrozen
<1>1. Fresh => ((\E i \in Ordinals, ev \in InputEValue : SetInput(i, ev)) => ~begun)
  BY DEF Fresh, SetInput
<1> QED
  BY <1>1, RunFresh, PTL DEF InputsFrozen

\* execute() never starts in the middle of a stepped run.
THEOREM ExecuteStartsFromRest ==
  ASSUME \A p \in Plans : NoJumpToStart(p)
  PROVE  Spec => ExecuteFromRest
<1>1. TypeOK /\ Fresh => (ExecuteBegin => ~begun \/ chain_idx = n_chains)
  <2> SUFFICES ASSUME TypeOK, Fresh, ExecuteBegin
               PROVE  ~begun \/ chain_idx = n_chains
    OBVIOUS
  <2>1. ~running /\ (AtStart \/ ~(chain_idx < n_chains))
    BY DEF ExecuteBegin, in_progress
  <2>2. n_chains \in Nat /\ chain_idx \in 0 .. n_chains
    BY PlanType DEF TypeOK
  <2>3. CASE AtStart
    BY <2>1, <2>3 DEF Fresh
  <2>4. CASE ~AtStart
    BY <2>1, <2>2, <2>4
  <2> QED
    BY <2>3, <2>4
<1> QED
  BY <1>1, RunFresh, TypeCorrect, PTL DEF ExecuteFromRest
-----------------------------------------------------------------------------
(* MethodExec refines MethodRun *)

phaseBar == IF running THEN "executing"
            ELSE IF chain_idx = n_chains THEN "ended"
            ELSE IF AtStart THEN "ready" ELSE "stepping"
missingBar == {i \in Ordinals : ~input_set[i]}

LEMMA RefineStep ==
  ASSUME \A p \in Plans : NoJumpToStart(p)
  PROVE  TypeOK /\ [Next]_vars => [Run!Next]_Run!runVars
<1> SUFFICES ASSUME TypeOK, [Next]_vars
             PROVE  Run!Next \/ (phaseBar' = phaseBar /\ missingBar' = missingBar)
  BY DEF Run!runVars, phaseBar, missingBar
<1>1. /\ n_chains \in Nat \ {0} /\ chain_idx \in 0 .. n_chains
      /\ NoJumpToStart(plan)
      /\ plan' = plan /\ n_chains' = n_chains /\ Ordinals' = Ordinals
      /\ input_set \in [Ordinals -> BOOLEAN]
  BY PlanType, CursorMoves DEF TypeOK, n_chains, Ordinals
<1>2. ASSUME UNCHANGED <<running, chain_idx, instr_idx>> PROVE phaseBar' = phaseBar
  BY <1>1, <1>2 DEF phaseBar, AtStart
<1>3. ASSUME UNCHANGED input_set PROVE missingBar' = missingBar
  BY <1>1, <1>3 DEF missingBar
<1>4. ASSUME AtStart', ~running' PROVE phaseBar' = "ready"
  BY <1>1, <1>4 DEF phaseBar, AtStart
<1>0. ASSUME NEW S \in SUBSET missingBar, Run!Accept(S) \/ Run!Expose(S)
      PROVE  Run!Next
  <2>1. S \in SUBSET {i \in Ordinals : ~input_set[i]}
    BY DEF missingBar
  <2> QED
    BY <1>0, <2>1 DEF Run!Next
<1>5. CASE \E i \in Ordinals, ev \in InputEValue : SetInput(i, ev)
  <2> PICK i \in Ordinals, ev \in InputEValue : SetInput(i, ev)
    BY <1>5
  <2>1. phaseBar = "ready" /\ phaseBar' = phaseBar
    <3>1. ~running /\ chain_idx = 0 /\ AtStart /\ UNCHANGED <<running, chain_idx, instr_idx>>
      BY DEF SetInput, AtStart, stepState
    <3> QED
      BY <1>1, <1>2, <3>1 DEF phaseBar
  <2>2. CASE UNCHANGED input_set
    BY <1>3, <2>1, <2>2
  <2>3. CASE input_set' = [input_set EXCEPT ![i] = TRUE]
    <3> PICK T \in SUBSET missingBar : T = missingBar \cap {i}
      OBVIOUS
    <3>1. missingBar' = missingBar \ T
      BY <1>1, <2>3 DEF missingBar
    <3>2. Run!Accept(T)
      BY <2>1, <3>1 DEF Run!Accept, phaseBar, missingBar
    <3> QED
      BY <3>2, <1>0
  <2> QED
    BY <2>2, <2>3 DEF SetInput
<1>6. CASE \E S \in {Ordinals} \cup {{i} : i \in Ordinals} : GetInputs(S)
  <2> PICK S \in {Ordinals} \cup {{i} : i \in Ordinals} : GetInputs(S)
    BY <1>6
  <2>1. phaseBar # "executing" /\ phaseBar' = phaseBar
    <3>1. ~running /\ UNCHANGED <<running, chain_idx, instr_idx>>
      BY DEF GetInputs, stepState
    <3> QED
      BY <1>2, <3>1 DEF phaseBar
  <2>2. input_set' = [i \in Ordinals |-> i \in S \/ input_set[i]]
    BY DEF GetInputs
  <2> PICK T \in SUBSET missingBar : T = missingBar \cap S
    OBVIOUS
  <2>3. missingBar' = missingBar \ T
    BY <1>1, <2>2 DEF missingBar
  <2>4. Run!Expose(T)
    BY <2>1, <2>3 DEF Run!Expose, phaseBar, missingBar
  <2> QED
    BY <2>4, <1>0
<1>7. CASE \E o \in Outputs, d \in Writable : SetOutputDataPtr(o, d)
  BY <1>2, <1>3, <1>7 DEF SetOutputDataPtr, stepState
<1>8. CASE StepAtEnd \/ Refused \/ ExecuteRefused \/ UNCHANGED vars
  BY <1>2, <1>3, <1>8 DEF StepAtEnd, Refused, ExecuteRefused, stepState, vars
<1>9. ASSUME ~running, ~running', chain_idx # n_chains, ~AtStart',
             UNCHANGED input_set
      PROVE  Run!Next
  <2>1. phaseBar \in {"ready", "stepping"} /\ phaseBar' \in {"stepping", "ended"}
    BY <1>9 DEF phaseBar
  <2>2. missingBar' = missingBar
    BY <1>3, <1>9
  <2>3. Run!Advance
    BY <2>1, <2>2 DEF Run!Advance, phaseBar, missingBar
  <2> QED
    BY <2>3 DEF Run!Next
<1>10. CASE StepEmptyChain
  <2>1. ~running /\ ~running' /\ chain_idx # n_chains /\ UNCHANGED input_set
        /\ chain_idx' = chain_idx + 1
    BY <1>1, <1>10 DEF StepEmptyChain
  <2>2. ~AtStart'
    BY <1>1, <2>1 DEF AtStart
  <2> QED
    BY <1>9, <2>1, <2>2
<1>11. CASE StepInstruction
  <2>1. ~running /\ running' = running /\ chain_idx # n_chains /\ UNCHANGED input_set
    BY <1>1, <1>11 DEF StepInstruction
  <2>2. CASE ~AtStart'
    BY <1>9, <2>1, <2>2
  <2>3. CASE UNCHANGED <<chain_idx, instr_idx>>
    BY <1>2, <1>3, <2>1, <2>3
  <2> QED
    BY <1>1, <1>11, <2>1, <2>2, <2>3, InstructionLeaves
<1>12. CASE ResetExecution
  <2>1. ~running /\ ~running' /\ chain_idx = n_chains /\ AtStart' /\ UNCHANGED input_set
    BY <1>12 DEF ResetExecution, AtStart
  <2>2. phaseBar = "ended" /\ phaseBar' = "ready" /\ missingBar' = missingBar
    BY <1>3, <1>4, <2>1 DEF phaseBar
  <2>3. Run!Reset
    BY <2>2 DEF Run!Reset, phaseBar, missingBar
  <2> QED
    BY <2>3 DEF Run!Next
<1>13. CASE ExecuteBegin
  <2>1. ~running /\ running' /\ UNCHANGED input_set /\ AllInputsSet
        /\ (AtStart \/ ~(chain_idx < n_chains))
    BY <1>13 DEF ExecuteBegin, in_progress
  <2>2. phaseBar \in {"ready", "ended"}
    BY <1>1, <2>1 DEF phaseBar
  <2>3. missingBar = {}
    BY <2>1 DEF missingBar, AllInputsSet
  <2>4. phaseBar' = "executing" /\ missingBar' = missingBar
    BY <1>3, <2>1 DEF phaseBar
  <2>5. Run!Start
    BY <2>2, <2>3, <2>4 DEF Run!Start, phaseBar, missingBar
  <2> QED
    BY <2>5 DEF Run!Next
<1>14. ASSUME running, UNCHANGED input_set, NEW e, ExecuteReturn(e)
       PROVE  Run!Next
  <2>1. phaseBar = "executing" /\ missingBar' = missingBar
    BY <1>3, <1>14 DEF phaseBar
  <2>2. AtStart' /\ ~running'
    BY <1>14 DEF ExecuteReturn, AtStart
  <2>3. phaseBar' = "ready"
    BY <1>4, <2>2
  <2>4. Run!Finish
    BY <2>1, <2>3 DEF Run!Finish, phaseBar, missingBar
  <2> QED
    BY <2>4 DEF Run!Next
<1>15. CASE ExecuteLimit \/ ExecuteEnd
  <2>1. PICK e : running /\ UNCHANGED input_set /\ ExecuteReturn(e)
    BY <1>15 DEF ExecuteLimit, ExecuteEnd, InChain
  <2> QED
    BY <1>14, <2>1
<1>16. CASE ExecuteInstruction
  <2>1. running /\ UNCHANGED input_set
    BY <1>16 DEF ExecuteInstruction, InChain
  <2>2. (running' = running) \/ \E e : ExecuteReturn(e)
    BY <1>16 DEF ExecuteInstruction
  <2>3. CASE running' = running
    BY <1>3, <2>1, <2>3 DEF phaseBar
  <2> QED
    BY <1>14, <2>1, <2>2, <2>3
<1>17. CASE ExecuteNextChain
  <2>1. running /\ running' /\ UNCHANGED input_set
    BY <1>17 DEF ExecuteNextChain
  <2> QED
    BY <1>3, <2>1 DEF phaseBar
<1> QED
  BY <1>5, <1>6, <1>7, <1>8, <1>10, <1>11, <1>12, <1>13, <1>15, <1>16, <1>17
  DEF Next, Caller, Step, Executing

\* Every behaviour of MethodExec is, seen through the phase of the run and the
\* inputs still missing, one of MethodRun (its promise that execute() returns,
\* a liveness property, is left to TLC).
THEOREM RefinesRun ==
  ASSUME \A p \in Plans : NoJumpToStart(p)
  PROVE  Spec => Run!Init /\ [][Run!Next]_Run!runVars
<1>1. Init => Run!Init
  <2> SUFFICES ASSUME Init PROVE Run!Init
    OBVIOUS
  <2>1. ~running /\ AtStart /\ chain_idx # n_chains
    BY PlanType DEF Init, AtStart
  <2> QED
    BY <2>1 DEF Run!Init
<1>2. TypeOK /\ [Next]_vars => [Run!Next]_Run!runVars
  BY RefineStep
<1> QED
  BY <1>1, <1>2, TypeCorrect, PTL DEF Spec
=============================================================================
