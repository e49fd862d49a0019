------------------------------ MODULE MethodLoad ------------------------------
(***************************************************************************)
(* The life of a Method in runtime/executor/method.rs: load runs init over *)
(* the values, the delegates and the chains of an execution plan, any step *)
(* of which may fail; load's Err and the owner's drop both end in Drop,    *)
(* which must release what init acquired and touch nothing else.           *)
(*                                                                         *)
(* Arrays come from the method allocator and are not initialized: a slot is *)
(* "raw" until init writes it, and dropping a raw slot makes "garbage".     *)
(***************************************************************************)
EXTENDS Integers, Sequences, FiniteSets

CONSTANTS Plans      \* the execution plans to consider

\* values: an external constant is written as its key, any other value "plain".
IsPlan(p) == /\ p.values \in Seq(STRING)
             /\ p.ndelegates \in Nat
             /\ p.chains \in Seq(Seq({"KernelCall", "other"}))

ASSUME LoadPlansAssumption == \A p \in Plans : IsPlan(p)

VARIABLES plan,                 \* serialization_plan_
          external_data_map,    \* the caller passed a named data map
          pte_data_map,         \* what Program::get_named_data_map returns
          stage,                \* how far init or Drop has come
          cursor,               \* <<i, j>>: its loop indices
          external_constants, n_external_constants,
          values, n_value,
          segment, handle, n_delegate,       \* delegates_[i]
          merged_data_map,
          kernels,              \* the KernelCalls that were resolved ...
          attempted,            \* ... and those resolve_operator was called for
          num_instructions_missing_op, delayed_error,
          result                \* what load returned

constants == <<external_constants, n_external_constants>>
delegates == <<segment, handle, n_delegate>>
operators == <<kernels, attempted, num_instructions_missing_op, delayed_error>>
given == <<plan, external_data_map, pte_data_map>>
vars == <<given, stage, cursor, constants, values, n_value, delegates,
          merged_data_map, operators, result>>

-----------------------------------------------------------------------------
Slot == {"raw", "held", "freed", "garbage"}
Segment == Slot \cup {"released"}       \* freed by the backend itself

n_values == Len(plan.values)
External == {i \in 0 .. n_values - 1 : plan.values[i + 1] # "plain"}
max_external_constants == Cardinality(External)
KernelCalls ==
    UNION {{<<c, i>> : i \in {j \in 0 .. Len(plan.chains[c + 1]) - 1 :
                                 plan.chains[c + 1][j + 1] = "KernelCall"}} :
           c \in 0 .. Len(plan.chains) - 1}

\* The keys already resolved: get_data_by_key over the slots counted so far.
Resolved == {external_constants[i].key : i \in 0 .. n_external_constants - 1}

Go(s) == stage' = s /\ cursor' = <<0, 0>>

\* init returns an error: load drops the method on its way out.
Abandon(err) == Go("drop_values") /\ result' = err

\* Dropping a slot: FreeableBuffer::free and EValue's Drop do nothing the second
\* time, a raw slot is undefined.
Freed(s) == IF s \in {"raw", "garbage"} THEN "garbage" ELSE "freed"

-----------------------------------------------------------------------------
(* parse_values *)

AllocValues ==
    /\ stage = "alloc_values"
    /\ \/ Abandon("MemoryAllocationFailed") \/ Abandon("InvalidProgram")
       \/ External = {} /\ Go("values") /\ UNCHANGED result
       \/ External # {} /\ ~external_data_map /\ Abandon("InvalidState")
       \/ External # {} /\ external_data_map /\ Go("constants") /\ UNCHANGED result
    /\ UNCHANGED <<given, constants, values, n_value, delegates, merged_data_map, operators>>

Advance == cursor' = <<cursor[1] + 1, 0>> /\ UNCHANGED <<stage, result>>

\* One value of parse_external_constants.  The slot past the last counted one
\* gets its key before its buffer is known to be valid.
ParseConstant ==
    LET key == plan.values[cursor[1] + 1]
        n == n_external_constants
        slot == external_constants[n]
    IN  /\ stage = "constants"
        /\ cursor[1] < n_values
        /\ \/ /\ key = "plain" \/ key \in Resolved
              /\ Advance
              /\ UNCHANGED constants
           \/ /\ key # "plain" /\ key \notin Resolved
              /\ \/ /\ Abandon("InvalidExternalData")
                    /\ \E saved \in {slot.key, key} :
                         external_constants' = [external_constants EXCEPT ![n].key = saved]
                    /\ UNCHANGED n_external_constants
                 \/ /\ Advance
                    /\ external_constants' =
                         [external_constants EXCEPT ![n] = [key |-> key, buffer |-> "held"]]
                    /\ n_external_constants' = n + 1
        /\ UNCHANGED <<given, values, n_value, delegates, merged_data_map, operators>>

EndConstants == /\ stage = "constants"
                /\ cursor[1] = n_values
                /\ Go("values")
                /\ UNCHANGED <<given, constants, values, n_value, delegates,
                               merged_data_map, operators, result>>

\* One value; n_value_ counts it once it is known to be valid.
ParseValue ==
    /\ stage = "values"
    /\ cursor[1] < n_values
    /\ \/ /\ \E err \in {"MemoryAllocationFailed", "InvalidProgram"} : Abandon(err)
          /\ UNCHANGED <<values, n_value>>
       \/ /\ Advance
          /\ values' = [values EXCEPT ![cursor[1]] = "held"]
          /\ n_value' = cursor[1] + 1
    /\ UNCHANGED <<given, constants, delegates, merged_data_map, operators>>

EndValues == /\ stage = "values"
             /\ cursor[1] = n_values
             /\ Go("data_map")
             /\ UNCHANGED <<given, constants, values, n_value, delegates,
                            merged_data_map, operators, result>>

-----------------------------------------------------------------------------
(* Delegates *)

\* The array, and the data map that delegates are given: both maps merged when
\* there are two.  The merge rejects no key: it asks PteDataMap for layouts, and
\* PteDataMap answers NotImplemented, which counts as absent.
DelegateDataMap ==
    /\ stage = "data_map"
    /\ \/ Abandon("MemoryAllocationFailed") /\ UNCHANGED merged_data_map
       \/ pte_data_map = "error" /\ Abandon("InvalidProgram") /\ UNCHANGED merged_data_map
       \/ /\ pte_data_map = "Ok" /\ external_data_map
          /\ Go("delegates")
          /\ merged_data_map' = "held"
          /\ UNCHANGED result
       \/ /\ pte_data_map # "error" /\ (pte_data_map = "Ok" => ~external_data_map)
          /\ Go("delegates")
          /\ UNCHANGED <<merged_data_map, result>>
    /\ UNCHANGED <<given, constants, values, n_value, delegates, operators>>

\* BackendDelegate::init up to the loading of its data.
LoadProcessed ==
    LET i == cursor[1] IN
    /\ stage = "delegates"
    /\ i < plan.ndelegates
    /\ \/ \E err \in {"InvalidProgram", "NotFound", "Internal"} :
            Abandon(err) /\ UNCHANGED segment
       \/ /\ segment' = [segment EXCEPT ![i] = "held"]
          /\ stage' = "backend_init"
          /\ UNCHANGED <<cursor, result>>
    /\ UNCHANGED <<given, constants, values, n_value, handle, n_delegate,
                   merged_data_map, operators>>

\* Slip: the data of a backend that failed to initialize is kept.
FailedSegmentKept(s) == s

FailedSegment(s) == Freed(s)

\* Slip: the delegate is counted before its backend is initialized.
CountDelegateFirst(ok) == n_delegate' = cursor[1] + 1

\* Slip: the delegate is counted twice.
CountDelegateTwice(ok) == n_delegate' = IF ok THEN cursor[1] + 2 ELSE n_delegate

CountDelegate(ok) == n_delegate' = IF ok THEN cursor[1] + 1 ELSE n_delegate

\* The compile specs and the backend's init, which may free the data itself.
BackendInit ==
    LET i == cursor[1] IN
    /\ stage = "backend_init"
    /\ \/ /\ \E err \in {"MemoryAllocationFailed", "InitFailed"} : Abandon(err)
          /\ segment' = [segment EXCEPT ![i] = FailedSegment(@)]
          /\ CountDelegate(FALSE)
          /\ UNCHANGED handle
       \/ /\ \E s \in {"held", "released"} : segment' = [segment EXCEPT ![i] = s]
          /\ handle' = [handle EXCEPT ![i] = "held"]
          /\ CountDelegate(TRUE)
          /\ stage' = "delegates"
          /\ cursor' = <<i + 1, 0>>
          /\ UNCHANGED result
    /\ UNCHANGED <<given, constants, values, n_value, merged_data_map, operators>>

EndDelegates == /\ stage = "delegates"
                /\ cursor[1] = plan.ndelegates
                /\ IF plan.chains = <<>> THEN Abandon("InvalidProgram")
                                         ELSE Go("chains") /\ UNCHANGED result
                /\ UNCHANGED <<given, constants, values, n_value, delegates,
                               merged_data_map, operators>>

-----------------------------------------------------------------------------
(* Chains *)

InstrCount == Len(plan.chains[cursor[1] + 1])
NextInstr == cursor' = <<cursor[1], cursor[2] + 1>> /\ UNCHANGED <<stage, result>>
InLoop(op) == /\ stage = "chains"
              /\ cursor[1] < Len(plan.chains)
              /\ cursor[2] < InstrCount
              /\ plan.chains[cursor[1] + 1][cursor[2] + 1] = op

\* The chain's arrays, an operand out of range, a missing field, no memory.
ChainRejected == /\ stage = "chains"
                 /\ cursor[1] < Len(plan.chains)
                 /\ \E err \in {"MemoryAllocationFailed", "InvalidProgram"} : Abandon(err)
                 /\ UNCHANGED <<given, constants, values, n_value, delegates,
                                merged_data_map, operators>>

\* resolve_operator for one KernelCall, and what init makes of its error.  The
\* tensor metas it gathers are scratch memory of this call.
ResolveOperator ==
    /\ InLoop("KernelCall")
    /\ attempted' = attempted \cup {cursor}
    /\ \/ /\ kernels' = kernels \cup {cursor}                        \* Ok
          /\ delayed_error' = "Ok"
          /\ NextInstr
          /\ UNCHANGED num_instructions_missing_op
       \/ /\ num_instructions_missing_op' = num_instructions_missing_op + 1
          /\ NextInstr
          /\ UNCHANGED <<kernels, delayed_error>>
       \/ /\ Abandon("MemoryAllocationFailed")
          /\ UNCHANGED <<kernels, delayed_error, num_instructions_missing_op>>
       \/ /\ delayed_error' \in {"InvalidProgram", "Internal",     \* bad name
                                 "InvalidArgument"}             \* bad tensor meta
          /\ NextInstr
          /\ UNCHANGED <<kernels, num_instructions_missing_op>>
    /\ UNCHANGED <<given, constants, values, n_value, delegates, merged_data_map>>

OtherInstr == /\ InLoop("other")
              /\ NextInstr
              /\ UNCHANGED <<given, constants, values, n_value, delegates,
                             merged_data_map, operators>>

EndChain == /\ stage = "chains"
            /\ cursor[1] < Len(plan.chains)
            /\ cursor[2] = InstrCount
            /\ Advance
            /\ UNCHANGED <<given, constants, values, n_value, delegates,
                           merged_data_map, operators>>

\* Slip: only missing operators are looked for.
VerdictMissingOnly == Go("loaded") /\ result' = "Ok"

\* What delayed_error holds at the end decides.
Verdict == IF delayed_error # "Ok" THEN Abandon(delayed_error)
                                   ELSE Go("loaded") /\ result' = "Ok"

\* init_state_ becomes Initialized here and nowhere else.
EndInit == /\ stage = "chains"
           /\ cursor[1] = Len(plan.chains)
           /\ \/ num_instructions_missing_op # 0 /\ Abandon("OperatorMissing")
              \/ /\ num_instructions_missing_op = 0
                 /\ Verdict
           /\ UNCHANGED <<given, constants, values, n_value, delegates,
                          merged_data_map, operators>>

-----------------------------------------------------------------------------
(* Drop: the values, the delegates, the external constants, the merged map *)

\* The owner lets go of a loaded method.
BeginDrop == /\ stage = "loaded"
             /\ Go("drop_values")
             /\ UNCHANGED <<given, constants, values, n_value, delegates,
                            merged_data_map, operators, result>>

DropValues ==
    /\ stage = "drop_values"
    /\ values' = [i \in DOMAIN values |->
                     IF i < n_value THEN Freed(values[i]) ELSE values[i]]
    /\ Go("drop_delegates")
    /\ UNCHANGED <<given, constants, n_value, delegates, merged_data_map,
                   operators, result>>

\* Slip: the field segment_ is dropped before destroy is called.
SegmentFirst(i) == /\ segment' = [segment EXCEPT ![i] = Freed(@)]
                   /\ UNCHANGED handle

HandleFirst(i) == /\ handle' = [handle EXCEPT ![i] = Freed(@)]
                  /\ UNCHANGED segment

\* BackendDelegate's Drop: the backend destroys its handle ...
DestroyHandle ==
    /\ stage = "drop_delegates"
    /\ cursor[1] < n_delegate /\ cursor[2] = 0
    /\ HandleFirst(cursor[1])
    /\ cursor' = <<cursor[1], 1>>
    /\ UNCHANGED <<given, stage, constants, values, n_value, n_delegate,
                   merged_data_map, operators, result>>

\* ... and then the field segment_ is dropped.
DropSegment ==
    /\ stage = "drop_delegates"
    /\ cursor[1] < n_delegate /\ cursor[2] = 1
    /\ segment' = [segment EXCEPT ![cursor[1]] = Freed(@)]
    /\ Advance
    /\ UNCHANGED <<given, constants, values, n_value, handle, n_delegate,
                   merged_data_map, operators>>

EndDropDelegates == /\ stage = "drop_delegates"
                    /\ cursor[1] = n_delegate
                    /\ Go("drop_constants")
                    /\ UNCHANGED <<given, constants, values, n_value, delegates,
                                   merged_data_map, operators, result>>

DropConstants ==
    /\ stage = "drop_constants"
    /\ external_constants' =
         [i \in DOMAIN external_constants |->
             IF i < n_external_constants
             THEN [external_constants[i] EXCEPT !.buffer = Freed(@)]
             ELSE external_constants[i]]
    /\ Go("drop_map")
    /\ UNCHANGED <<given, n_external_constants, values, n_value, delegates,
                   merged_data_map, operators, result>>

DropMap == /\ stage = "drop_map"
           /\ merged_data_map' = IF merged_data_map = "raw" THEN "raw" ELSE "freed"
           /\ Go("gone")
           /\ UNCHANGED <<given, constants, values, n_value, delegates, operators, result>>

-----------------------------------------------------------------------------
Init ==
    /\ plan \in Plans
    /\ external_data_map \in BOOLEAN
    /\ pte_data_map \in {"Ok", "NotFound", "error"}
    /\ stage = "alloc_values" /\ cursor = <<0, 0>>
    /\ external_constants = [i \in 0 .. max_external_constants - 1 |->
                                [key |-> "none", buffer |-> "raw"]]
    /\ values = [i \in 0 .. n_values - 1 |-> "raw"]
    /\ segment = [i \in 0 .. plan.ndelegates - 1 |-> "raw"]
    /\ handle = [i \in 0 .. plan.ndelegates - 1 |-> "raw"]
    /\ n_external_constants = 0 /\ n_value = 0 /\ n_delegate = 0
    /\ merged_data_map = "raw"
    /\ kernels = {} /\ attempted = {}
    /\ num_instructions_missing_op = 0 /\ delayed_error = "Ok"
    /\ result = "none"

Loading == \/ AllocValues \/ ParseConstant \/ EndConstants \/ ParseValue \/ EndValues
           \/ DelegateDataMap \/ LoadProcessed \/ BackendInit \/ EndDelegates
           \/ ChainRejected \/ ResolveOperator \/ OtherInstr \/ EndChain \/ EndInit

Dropping == \/ DropValues \/ DestroyHandle \/ DropSegment \/ EndDropDelegates
            \/ DropConstants \/ DropMap

Next == Loading \/ BeginDrop \/ Dropping

Spec == Init /\ [][Next]_vars

-----------------------------------------------------------------------------
(* Properties *)

Stages == {"alloc_values", "constants", "values", "data_map", "delegates",
           "backend_init", "chains", "loaded", "drop_values", "drop_delegates",
           "drop_constants", "drop_map", "gone"}

\* The order in which init comes to instructions.
Precedes(k, j) == k[1] < j[1] \/ (k[1] = j[1] /\ k[2] < j[2])

TypeOK ==
    /\ plan \in Plans /\ stage \in Stages /\ cursor \in Nat \X Nat
    /\ \A i \in DOMAIN external_constants : external_constants[i].buffer \in Slot
    /\ values \in [0 .. n_values - 1 -> Slot]
    /\ segment \in [0 .. plan.ndelegates - 1 -> Segment]
    /\ handle \in [0 .. plan.ndelegates - 1 -> Slot]
    /\ n_external_constants \in 0 .. max_external_constants
    /\ n_value \in 0 .. n_values /\ n_delegate \in 0 .. plan.ndelegates
    /\ kernels \subseteq attempted /\ attempted \subseteq KernelCalls

\* However far init came, a method that is gone holds no value, no constant, no
\* delegate data, no backend handle and no merged map.
Reclaimed == stage = "gone" =>
    /\ merged_data_map # "held"
    /\ \A i \in DOMAIN values : values[i] # "held"
    /\ \A i \in DOMAIN segment : segment[i] \notin {"held", "released"} /\ handle[i] # "held"
    /\ \A i \in DOMAIN external_constants : external_constants[i].buffer # "held"

\* Drop touches only what init completed: a slot that init had not written, or a
\* delegate whose backend failed, is never destroyed.
NothingRawDropped ==
    /\ \A i \in DOMAIN values : values[i] # "garbage"
    /\ \A i \in DOMAIN segment : segment[i] # "garbage" /\ handle[i] # "garbage"
    /\ \A i \in DOMAIN external_constants : external_constants[i].buffer # "garbage"

\* What is alive finds what it points to: a backend handle its data ("it will
\* outlive the backend") and the data map it was given, an external tensor
\* the constant that holds its bytes.
Backed ==
    /\ \A i \in DOMAIN handle : handle[i] = "held" =>
          segment[i] \in {"held", "released"} /\ merged_data_map # "freed"
    /\ \A i \in External : values[i] = "held" =>
          \E n \in DOMAIN external_constants :
             external_constants[n] = [key |-> plan.values[i + 1], buffer |-> "held"]

\* What load reports.  Ok: every value and delegate is in place, no operator is
\* missing, and a kernel slot that was never written has a resolved KernelCall after it, whose Ok
\* overwrote delayed_error: that is the only failure that gets lost.
\* OperatorMissing: "Try resolving all operators before failing", every KernelCall
\* of every chain was tried.
VerdictSound ==
    /\ stage = "loaded" =>
          /\ n_value = n_values /\ n_delegate = plan.ndelegates
          /\ \A i \in DOMAIN values : values[i] = "held"
          /\ \A i \in DOMAIN handle : handle[i] = "held"
          /\ num_instructions_missing_op = 0
          /\ attempted = KernelCalls
          /\ \A k \in KernelCalls \ kernels : \E j \in kernels : Precedes(k, j)
    /\ result = "OperatorMissing" => attempted = KernelCalls
=============================================================================
