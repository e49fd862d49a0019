--------------------------- MODULE MethodLoadProofs ---------------------------
(***************************************************************************)
(* Theorems about MethodLoad, for every set of plans.  LoadInv has a part   *)
(* for each kind of thing init acquires; each part says, of each stage,    *)
(* what the counters n_value, n_delegate and n_external_constants count.   *)
(***************************************************************************)
EXTENDS MethodLoad, FiniteSetTheorems, TLAPS

\* What has been dropped already.
ValuesGone == {"drop_delegates", "drop_constants", "drop_map", "gone"}
DelegatesGone == {"drop_constants", "drop_map", "gone"}
ConstantsGone == {"drop_map", "gone"}
DropStages == {"drop_values"} \cup ValuesGone

\* What init has done already when it has not failed.
ValuesDone == {"data_map", "delegates", "backend_init", "chains", "loaded"}
DelegatesDone == {"chains", "loaded"}

-----------------------------------------------------------------------------
(* Types *)

\* What a slot of external_constants_ may be named: a key of the plan, or nothing yet.
Keys == STRING \cup {"none"}

Types ==
    /\ plan \in Plans /\ stage \in Stages /\ cursor \in Nat \X Nat
    /\ external_data_map \in BOOLEAN /\ pte_data_map \in {"Ok", "NotFound", "error"}
    /\ external_constants \in
          [0 .. max_external_constants - 1 -> [key : Keys, buffer : Slot]]
    /\ values \in [0 .. n_values - 1 -> Slot]
    /\ segment \in [0 .. plan.ndelegates - 1 -> Segment]
    /\ handle \in [0 .. plan.ndelegates - 1 -> Slot]
    /\ n_external_constants \in Nat /\ n_value \in Nat /\ n_delegate \in Nat
    /\ merged_data_map \in {"raw", "held", "freed"}
    /\ num_instructions_missing_op \in Nat
    /\ stage \notin DropStages \cup {"loaded"} => result = "none"

\* An execution plan has the shape IsPlan says; the parts of it that the proofs use.
LEMMA PlanShape ==
  ASSUME plan \in Plans
  PROVE  /\ n_values \in Nat /\ plan.ndelegates \in Nat
         /\ \A i \in 0 .. n_values - 1 : plan.values[i + 1] \in STRING
         /\ External \subseteq 0 .. n_values - 1
         /\ IsFiniteSet(External) /\ max_external_constants \in Nat
         /\ Len(plan.chains) \in Nat
         /\ \A c \in 1 .. Len(plan.chains) : Len(plan.chains[c]) \in Nat
<1>1. IsPlan(plan)
  BY LoadPlansAssumption
<1>2. n_values \in Nat /\ plan.ndelegates \in Nat
  BY <1>1 DEF IsPlan, n_values
<1>3. External \subseteq 0 .. n_values - 1
  BY DEF External
<1>4. IsFiniteSet(External)
  <2>1. IsFiniteSet(0 .. n_values - 1)
    BY <1>2, FS_Interval
  <2> QED
    BY <1>3, <2>1, FS_Subset
<1>5. Len(plan.chains) \in Nat /\ \A c \in 1 .. Len(plan.chains) : Len(plan.chains[c]) \in Nat
  BY <1>1 DEF IsPlan
<1>6. \A i \in 0 .. n_values - 1 : plan.values[i + 1] \in STRING
  BY <1>1 DEF IsPlan, n_values
<1> QED
  BY <1>2, <1>3, <1>4, <1>5, <1>6, FS_CardinalityType DEF max_external_constants

\* The plan is the one load was given.
LEMMA PlanKept ==
  ASSUME Next
  PROVE  plan' = plan
BY DEF given, Next, Loading, Dropping, AllocValues, ParseConstant, EndConstants, ParseValue,
   EndValues, DelegateDataMap, LoadProcessed, BackendInit, EndDelegates, ChainRejected,
   ResolveOperator, OtherInstr, EndChain, EndInit, BeginDrop, DropValues, DestroyHandle,
   DropSegment, EndDropDelegates, DropConstants, DropMap

\* Each step of init and Drop keeps the types.
LEMMA TypesStep ==
  ASSUME Types, Next
  PROVE  Types'
<1> USE DEF Types, Stages, given, constants, delegates, operators
<1>0. /\ n_values \in Nat /\ plan.ndelegates \in Nat /\ max_external_constants \in Nat
      /\ \A i \in 0 .. n_values - 1 : plan.values[i + 1] \in STRING
  BY PlanShape
<1>a. plan' = plan
  BY PlanKept
<1>b. n_values' = n_values /\ max_external_constants' = max_external_constants
  BY <1>a DEF n_values, max_external_constants, External
<1>1. CASE AllocValues
  BY <1>0, <1>a, <1>b, <1>1 DEF AllocValues, Abandon, Go, DropStages, ValuesGone
<1>2. CASE ParseConstant
  <2>1. external_constants' \in [0 .. max_external_constants - 1 -> [key : Keys, buffer : Slot]]
    <3> DEFINE n == n_external_constants
               key == plan.values[cursor[1] + 1]
    <3>1. key \in Keys
      BY <1>0, <1>2, SMTT(30) DEF ParseConstant, Keys
    <3>2. \/ external_constants' = external_constants
          \/ \E saved \in {external_constants[n].key, key} :
                external_constants' = [external_constants EXCEPT ![n].key = saved]
          \/ external_constants' =
                [external_constants EXCEPT ![n] = [key |-> key, buffer |-> "held"]]
      BY <1>2 DEF ParseConstant
    <3>3. CASE n \in 0 .. max_external_constants - 1
      BY <3>1, <3>2, <3>3 DEF Slot
    <3>4. CASE n \notin 0 .. max_external_constants - 1
      <4>1. \A v : [external_constants EXCEPT ![n] = v]
                     \in [0 .. max_external_constants - 1 -> [key : Keys, buffer : Slot]]
        BY <3>4
      <4> QED
        BY <3>2, <4>1
    <3> QED
      BY <3>3, <3>4
  <2> QED
    BY <1>0, <1>a, <1>b, <1>2, <2>1, SMTT(30) DEF ParseConstant, Abandon, Advance, Go, DropStages,
       ValuesGone
<1>3. CASE EndConstants
  BY <1>0, <1>a, <1>b, <1>3 DEF EndConstants, Go, DropStages, ValuesGone
<1>4. CASE ParseValue
  <2>1. values' \in [0 .. n_values - 1 -> Slot] /\ n_value' \in Nat
    BY <1>4 DEF ParseValue, Slot
  <2>2. stage' \in Stages /\ cursor' \in Nat \X Nat
        /\ (stage' \notin DropStages \cup {"loaded"} => result' = "none")
    BY <1>4 DEF ParseValue, Abandon, Advance, Go, DropStages, ValuesGone
  <2>3. UNCHANGED <<given, constants, delegates, merged_data_map, operators>>
    BY <1>4 DEF ParseValue
  <2> QED
    BY <1>a, <1>b, <2>1, <2>2, <2>3
<1>5. CASE EndValues
  BY <1>0, <1>a, <1>b, <1>5 DEF EndValues, Go, DropStages, ValuesGone
<1>6. CASE DelegateDataMap
  BY <1>0, <1>a, <1>b, <1>6 DEF DelegateDataMap, Abandon, Go, DropStages, ValuesGone
<1>7. CASE LoadProcessed
  BY <1>0, <1>a, <1>b, <1>7 DEF LoadProcessed, Abandon, Go, DropStages, ValuesGone,
     Segment, Slot
<1>8. CASE BackendInit
  <2>1. segment' \in [0 .. plan.ndelegates - 1 -> Segment]
        /\ handle' \in [0 .. plan.ndelegates - 1 -> Slot] /\ n_delegate' \in Nat
    <3>1. CASE \E err \in {"MemoryAllocationFailed", "InitFailed"} : Abandon(err)
               /\ segment' = [segment EXCEPT ![cursor[1]] = FailedSegment(@)]
               /\ UNCHANGED <<handle, n_delegate>>
      BY <3>1 DEF FailedSegment, Freed, Segment, Slot
    <3>2. CASE /\ \E d \in {"held", "released"} : segment' = [segment EXCEPT ![cursor[1]] = d]
               /\ handle' = [handle EXCEPT ![cursor[1]] = "held"]
               /\ n_delegate' = cursor[1] + 1
      <4>1. segment' \in [0 .. plan.ndelegates - 1 -> Segment]
        BY <3>2 DEF Segment, Slot
      <4>2. handle' \in [0 .. plan.ndelegates - 1 -> Slot]
        BY <3>2 DEF Slot
      <4>3. n_delegate' \in Nat
        BY <3>2
      <4> QED
        BY <4>1, <4>2, <4>3
    <3> QED
      BY <1>8, <3>1, <3>2 DEF BackendInit, CountDelegate
  <2>2. stage' \in Stages /\ cursor' \in Nat \X Nat
        /\ (stage' \notin DropStages \cup {"loaded"} => result' = "none")
    <3>1. CASE \E err \in {"MemoryAllocationFailed", "InitFailed"} : Abandon(err)
      BY <3>1 DEF Abandon, Go, DropStages
    <3>2. CASE stage' = "delegates" /\ cursor' = <<cursor[1] + 1, 0>> /\ UNCHANGED result
      BY <1>8, <3>2 DEF BackendInit, DropStages, ValuesGone
    <3> QED
      BY <1>8, <3>1, <3>2 DEF BackendInit
  <2>3. UNCHANGED <<given, constants, values, n_value, merged_data_map, operators>>
    BY <1>8 DEF BackendInit
  <2> QED
    BY <1>a, <1>b, <2>1, <2>2, <2>3
<1>9. CASE EndDelegates
  BY <1>0, <1>a, <1>b, <1>9 DEF EndDelegates, Abandon, Go, DropStages, ValuesGone
<1>10. CASE ChainRejected
  BY <1>0, <1>a, <1>b, <1>10 DEF ChainRejected, Abandon, Go, DropStages, ValuesGone
<1>11. CASE ResolveOperator
  <2>1. UNCHANGED <<given, constants, values, n_value, delegates, merged_data_map>>
    BY <1>11 DEF ResolveOperator
  <2>2. num_instructions_missing_op' \in Nat
    BY <1>11 DEF ResolveOperator
  <2>3. NextInstr \/ Abandon("MemoryAllocationFailed")
    BY <1>11 DEF ResolveOperator
  <2>4. stage' \in Stages /\ cursor' \in Nat \X Nat
        /\ (stage' \notin DropStages \cup {"loaded"} => result' = "none")
    BY <2>3 DEF NextInstr, Abandon, Go, DropStages
  <2> QED
    BY <1>a, <1>b, <2>1, <2>2, <2>4
<1>12. CASE OtherInstr
  BY <1>0, <1>a, <1>b, <1>12 DEF OtherInstr, InLoop, NextInstr, DropStages, ValuesGone
<1>13. CASE EndChain
  BY <1>0, <1>a, <1>b, <1>13 DEF EndChain, Advance, DropStages, ValuesGone
<1>14. CASE EndInit
  BY <1>0, <1>a, <1>b, <1>14 DEF EndInit, Verdict, Abandon, Go, DropStages, ValuesGone
<1>15. CASE BeginDrop
  BY <1>0, <1>a, <1>b, <1>15 DEF BeginDrop, Go, DropStages, ValuesGone
<1>16. CASE DropValues
  BY <1>0, <1>a, <1>b, <1>16 DEF DropValues, Freed, Go, DropStages, ValuesGone, Slot
<1>17. CASE DestroyHandle
  BY <1>0, <1>a, <1>b, <1>17 DEF DestroyHandle, HandleFirst, Freed, DropStages, ValuesGone, Slot
<1>18. CASE DropSegment
  <2>1. segment' \in [0 .. plan.ndelegates - 1 -> Segment]
    BY <1>18 DEF DropSegment, Freed, Segment, Slot
  <2>2. cursor' \in Nat \X Nat
    BY <1>18 DEF DropSegment, Advance
  <2> QED
    BY <1>a, <1>b, <1>18, <2>1, <2>2 DEF DropSegment, Advance, DropStages, ValuesGone
<1>19. CASE EndDropDelegates
  BY <1>0, <1>a, <1>b, <1>19 DEF EndDropDelegates, Go, DropStages, ValuesGone
<1>20. CASE DropConstants
  BY <1>0, <1>a, <1>b, <1>20 DEF DropConstants, Freed, Go, DropStages, ValuesGone, Slot
<1>21. CASE DropMap
  BY <1>0, <1>a, <1>b, <1>21 DEF DropMap, Go, DropStages, ValuesGone
<1> QED
  BY <1>1, <1>2, <1>3, <1>4, <1>5, <1>6, <1>7, <1>8, <1>9, <1>10, <1>11, <1>12, <1>13, <1>14,
     <1>15, <1>16, <1>17, <1>18, <1>19, <1>20, <1>21 DEF Next, Loading, Dropping

-----------------------------------------------------------------------------
(* Values *)

ValuesInv ==
    /\ n_value <= n_values
    /\ stage \in {"alloc_values", "constants"} => n_value = 0
    /\ stage = "values" => n_value = cursor[1]
    /\ stage \in ValuesDone => n_value = n_values
    /\ \A i \in 0 .. n_values - 1 :
          values[i] = IF i >= n_value THEN "raw"
                      ELSE IF stage \in ValuesGone THEN "freed" ELSE "held"

\* n_value_ counts the values that init has written, and Drop frees those.
LEMMA ValuesStep ==
  ASSUME Types, ValuesInv, Next
  PROVE  ValuesInv'
<1> USE DEF ValuesInv, Types, given, constants, delegates, operators, DropStages,
   ValuesGone, ValuesDone
<1>0. Types /\ Types' /\ plan' = plan /\ n_values' = n_values
  BY TypesStep, PlanKept DEF n_values
<1>1. CASE AllocValues
  BY <1>0, <1>1 DEF AllocValues, Abandon, Go
<1>2. CASE ParseConstant
  BY <1>0, <1>2 DEF ParseConstant, Abandon, Advance, Go
<1>3. CASE EndConstants
  BY <1>0, <1>3 DEF EndConstants, Go
<1>4. CASE ParseValue
  <2>1. CASE /\ \E err \in {"MemoryAllocationFailed", "InvalidProgram"} : Abandon(err)
             /\ UNCHANGED <<values, n_value>>
    BY <1>0, <1>4, <2>1 DEF ParseValue, Abandon, Go
  <2>2. CASE /\ Advance
             /\ values' = [values EXCEPT ![cursor[1]] = "held"]
             /\ n_value' = cursor[1] + 1
    <3>1. /\ n_value = cursor[1] /\ cursor[1] \in Nat /\ cursor[1] < n_values
          /\ n_values \in Nat /\ stage = "values"
      BY <1>0, <1>4, PlanShape DEF ParseValue
    <3>2. \A i \in 0 .. n_values - 1 :
             values'[i] = IF i >= n_value' THEN "raw" ELSE "held"
      BY <2>2, <3>1
    <3>3. stage' = "values" /\ cursor'[1] = n_value'
      BY <2>2, <3>1 DEF Advance
    <3> QED
      BY <1>0, <2>2, <3>1, <3>2, <3>3
  <2> QED
    BY <1>4, <2>1, <2>2 DEF ParseValue
<1>5. CASE EndValues
  BY <1>0, <1>5 DEF EndValues, Go
<1>6. CASE DelegateDataMap
  BY <1>0, <1>6 DEF DelegateDataMap, Abandon, Go
<1>7. CASE LoadProcessed
  BY <1>0, <1>7 DEF LoadProcessed, Abandon, Go
<1>8. CASE BackendInit
  BY <1>0, <1>8 DEF BackendInit, CountDelegate, FailedSegment, Freed, Abandon, Go
<1>9. CASE EndDelegates
  BY <1>0, <1>9 DEF EndDelegates, Abandon, Go
<1>10. CASE ChainRejected
  BY <1>0, <1>10 DEF ChainRejected, Abandon, Go
<1>11. CASE ResolveOperator
  BY <1>0, <1>11 DEF ResolveOperator, InLoop, NextInstr, Abandon, Go
<1>12. CASE OtherInstr
  BY <1>0, <1>12 DEF OtherInstr, InLoop, NextInstr
<1>13. CASE EndChain
  BY <1>0, <1>13 DEF EndChain, Advance
<1>14. CASE EndInit
  BY <1>0, <1>14 DEF EndInit, Verdict, Abandon, Go
<1>15. CASE BeginDrop
  BY <1>0, <1>15 DEF BeginDrop, Go
<1>16. CASE DropValues
  BY <1>0, <1>16 DEF DropValues, Freed, Go
<1>17. CASE DestroyHandle
  BY <1>0, <1>17 DEF DestroyHandle, HandleFirst, Freed
<1>18. CASE DropSegment
  BY <1>0, <1>18 DEF DropSegment, Advance, Freed
<1>19. CASE EndDropDelegates
  BY <1>0, <1>19 DEF EndDropDelegates, Go
<1>20. CASE DropConstants
  BY <1>0, <1>20 DEF DropConstants, Freed, Go
<1>21. CASE DropMap
  BY <1>0, <1>21 DEF DropMap, Go
<1> QED
  BY <1>1, <1>2, <1>3, <1>4, <1>5, <1>6, <1>7, <1>8, <1>9, <1>10, <1>11, <1>12, <1>13, <1>14,
     <1>15, <1>16, <1>17, <1>18, <1>19, <1>20, <1>21 DEF Next, Loading, Dropping

-----------------------------------------------------------------------------
(* Delegates *)

Destroyed(i) == stage \in DelegatesGone \/ (stage = "drop_delegates" /\ i < cursor[1])
HandleDestroyed(i) ==
    Destroyed(i) \/ (stage = "drop_delegates" /\ i = cursor[1] /\ cursor[2] = 1)

DelegatesInv ==
    /\ n_delegate <= plan.ndelegates
    /\ stage \in {"alloc_values", "constants", "values", "data_map"} => n_delegate = 0
    /\ stage \in {"delegates", "backend_init"} => n_delegate = cursor[1]
    /\ stage = "backend_init" => cursor[1] < plan.ndelegates
    /\ stage \in DelegatesDone => n_delegate = plan.ndelegates
    /\ stage = "drop_delegates" => cursor[1] <= n_delegate /\ cursor[2] \in {0, 1}
    /\ \A i \in 0 .. plan.ndelegates - 1 :
          /\ handle[i] = IF i >= n_delegate THEN "raw"
                         ELSE IF HandleDestroyed(i) THEN "freed" ELSE "held"
          /\ segment[i] \in IF i < n_delegate
                             THEN IF Destroyed(i) THEN {"freed"} ELSE {"held", "released"}
                             ELSE IF stage = "backend_init" /\ i = n_delegate THEN {"held"}
                             ELSE {"raw", "freed"}

\* n_delegate_ counts the delegates whose backend is initialized; the data of the one
\* that failed is freed at once, and Drop destroys each handle before its data.
LEMMA DelegatesStep ==
  ASSUME Types, DelegatesInv, Next
  PROVE  DelegatesInv'
<1> USE DEF DelegatesInv, Types, Destroyed, HandleDestroyed, DelegatesGone, DelegatesDone,
   given, constants, delegates, operators, DropStages, ValuesGone, ValuesDone
<1>0. Types /\ Types' /\ plan' = plan /\ n_values' = n_values
  BY TypesStep, PlanKept DEF n_values
<1>1. CASE AllocValues
  BY <1>0, <1>1 DEF AllocValues, Abandon, Go
<1>2. CASE ParseConstant
  BY <1>0, <1>2 DEF ParseConstant, Abandon, Advance, Go
<1>3. CASE EndConstants
  BY <1>0, <1>3 DEF EndConstants, Go
<1>4. CASE ParseValue
  BY <1>0, <1>4 DEF ParseValue, Abandon, Advance, Go
<1>5. CASE EndValues
  BY <1>0, <1>5 DEF EndValues, Go
<1>6. CASE DelegateDataMap
  BY <1>0, <1>6 DEF DelegateDataMap, Abandon, Go
<1>7. CASE LoadProcessed
  BY <1>0, <1>7 DEF LoadProcessed, Abandon, Go
<1>8. CASE BackendInit
  <2>1. /\ n_delegate = cursor[1] /\ cursor[1] \in Nat /\ cursor[1] < plan.ndelegates
        /\ plan.ndelegates \in Nat /\ stage = "backend_init"
    BY <1>8, PlanShape DEF BackendInit
  <2>2. CASE /\ \E err \in {"MemoryAllocationFailed", "InitFailed"} : Abandon(err)
             /\ segment' = [segment EXCEPT ![cursor[1]] = FailedSegment(@)]
             /\ UNCHANGED <<handle, n_delegate>>
    <3>1. \A i \in 0 .. plan.ndelegates - 1 :
             segment'[i] \in IF i < n_delegate THEN {"held", "released"} ELSE {"raw", "freed"}
      BY <2>1, <2>2 DEF FailedSegment, Freed
    <3>2. \A i \in 0 .. plan.ndelegates - 1 :
             handle'[i] = IF i >= n_delegate THEN "raw" ELSE "held"
      BY <2>1, <2>2
    <3> QED
      BY <1>0, <2>1, <2>2, <3>1, <3>2 DEF Abandon, Go
  <2>3. CASE /\ \E d \in {"held", "released"} : segment' = [segment EXCEPT ![cursor[1]] = d]
             /\ handle' = [handle EXCEPT ![cursor[1]] = "held"]
             /\ n_delegate' = cursor[1] + 1
             /\ stage' = "delegates" /\ cursor' = <<cursor[1] + 1, 0>>
    <3>1. \A i \in 0 .. plan.ndelegates - 1 :
             segment'[i] \in IF i < n_delegate' THEN {"held", "released"} ELSE {"raw", "freed"}
      BY <2>1, <2>3
    <3>2. \A i \in 0 .. plan.ndelegates - 1 :
             handle'[i] = IF i >= n_delegate' THEN "raw" ELSE "held"
      BY <2>1, <2>3
    <3> QED
      BY <1>0, <2>1, <2>3, <3>1, <3>2
  <2> QED
    BY <1>8, <2>2, <2>3 DEF BackendInit, CountDelegate
<1>9. CASE EndDelegates
  BY <1>0, <1>9 DEF EndDelegates, Abandon, Go
<1>10. CASE ChainRejected
  BY <1>0, <1>10 DEF ChainRejected, Abandon, Go
<1>11. CASE ResolveOperator
  BY <1>0, <1>11 DEF ResolveOperator, InLoop, NextInstr, Abandon, Go
<1>12. CASE OtherInstr
  BY <1>0, <1>12 DEF OtherInstr, InLoop, NextInstr
<1>13. CASE EndChain
  BY <1>0, <1>13 DEF EndChain, Advance
<1>14. CASE EndInit
  BY <1>0, <1>14 DEF EndInit, Verdict, Abandon, Go
<1>15. CASE BeginDrop
  BY <1>0, <1>15 DEF BeginDrop, Go
<1>16. CASE DropValues
  BY <1>0, <1>16 DEF DropValues, Freed, Go
<1>17. CASE DestroyHandle
  BY <1>0, <1>17 DEF DestroyHandle, HandleFirst, Freed
<1>18. CASE DropSegment
  BY <1>0, <1>18 DEF DropSegment, Advance, Freed
<1>19. CASE EndDropDelegates
  BY <1>0, <1>19 DEF EndDropDelegates, Go
<1>20. CASE DropConstants
  BY <1>0, <1>20 DEF DropConstants, Freed, Go
<1>21. CASE DropMap
  BY <1>0, <1>21 DEF DropMap, Go
<1> QED
  BY <1>1, <1>2, <1>3, <1>4, <1>5, <1>6, <1>7, <1>8, <1>9, <1>10, <1>11, <1>12, <1>13, <1>14,
     <1>15, <1>16, <1>17, <1>18, <1>19, <1>20, <1>21 DEF Next, Loading, Dropping

\* The merged map goes last.
MapInv ==
    /\ merged_data_map = "freed" => stage = "gone"
    /\ stage = "gone" => merged_data_map # "held"

\* Only the last step of Drop touches the merged data map.
LEMMA MapStep ==
  ASSUME Types, MapInv, Next
  PROVE  MapInv'
<1> USE DEF MapInv
<1>0. Types
  OBVIOUS
<1>1. CASE AllocValues
  BY <1>1 DEF AllocValues, Abandon, Go
<1>2. CASE ParseConstant
  BY <1>2 DEF ParseConstant, Abandon, Advance, Go
<1>3. CASE EndConstants
  BY <1>3 DEF EndConstants, Go
<1>4. CASE ParseValue
  BY <1>4 DEF ParseValue, Abandon, Advance, Go
<1>5. CASE EndValues
  BY <1>5 DEF EndValues, Go
<1>6. CASE DelegateDataMap
  BY <1>6 DEF DelegateDataMap, Abandon, Go
<1>7. CASE LoadProcessed
  BY <1>7 DEF LoadProcessed, Abandon, Go
<1>8. CASE BackendInit
  BY <1>8 DEF BackendInit, Abandon, Go
<1>9. CASE EndDelegates
  BY <1>9 DEF EndDelegates, Abandon, Go
<1>10. CASE ChainRejected
  BY <1>10 DEF ChainRejected, Abandon, Go
<1>11. CASE ResolveOperator
  BY <1>11 DEF ResolveOperator, InLoop, NextInstr, Abandon, Go
<1>12. CASE OtherInstr
  BY <1>12 DEF OtherInstr, InLoop, NextInstr
<1>13. CASE EndChain
  BY <1>13 DEF EndChain, Advance
<1>14. CASE EndInit
  BY <1>14 DEF EndInit, Verdict, Abandon, Go
<1>15. CASE BeginDrop
  BY <1>15 DEF BeginDrop, Go
<1>16. CASE DropValues
  BY <1>16 DEF DropValues, Go
<1>17. CASE DestroyHandle
  BY <1>17 DEF DestroyHandle
<1>18. CASE DropSegment
  BY <1>18 DEF DropSegment, Advance
<1>19. CASE EndDropDelegates
  BY <1>19 DEF EndDropDelegates, Go
<1>20. CASE DropConstants
  BY <1>20 DEF DropConstants, Go
<1>21. CASE DropMap
  BY <1>21 DEF DropMap, Go
<1> QED
  BY <1>1, <1>2, <1>3, <1>4, <1>5, <1>6, <1>7, <1>8, <1>9, <1>10, <1>11, <1>12, <1>13, <1>14,
     <1>15, <1>16, <1>17, <1>18, <1>19, <1>20, <1>21 DEF Next, Loading, Dropping

-----------------------------------------------------------------------------
(* External constants *)

ExternalBefore(c) == {i \in External : i < c}
ResolvedBefore(c) == \A i \in ExternalBefore(c) : plan.values[i + 1] \in Resolved

ConstantsInv ==
    /\ n_external_constants <= max_external_constants
    /\ stage = "alloc_values" => n_external_constants = 0
    /\ stage = "constants" =>
          /\ n_external_constants <= Cardinality(ExternalBefore(cursor[1]))
          /\ cursor[1] <= n_values
          /\ ResolvedBefore(cursor[1])
    /\ stage \in {"values"} \cup ValuesDone => ResolvedBefore(n_values)
    /\ stage = "drop_values" => n_value = 0 \/ ResolvedBefore(n_values)
    /\ \A i \in 0 .. max_external_constants - 1 :
          external_constants[i].buffer =
             IF i >= n_external_constants THEN "raw"
             ELSE IF stage \in ConstantsGone THEN "freed" ELSE "held"

\* The external values before each value, counted.
LEMMA ExternalBeforeCount ==
  ASSUME plan \in Plans, NEW c \in Nat
  PROVE  /\ Cardinality(ExternalBefore(c)) \in Nat
         /\ Cardinality(ExternalBefore(c)) <= max_external_constants
         /\ c \in External =>
               Cardinality(ExternalBefore(c + 1)) = Cardinality(ExternalBefore(c)) + 1
         /\ c \notin External => ExternalBefore(c + 1) = ExternalBefore(c)
<1>1. External \subseteq 0 .. n_values - 1 /\ IsFiniteSet(External) /\ n_values \in Nat
  BY PlanShape
<1>2. ExternalBefore(c) \subseteq External
  BY DEF ExternalBefore
<1>3. IsFiniteSet(ExternalBefore(c)) /\ Cardinality(ExternalBefore(c)) <= max_external_constants
  BY <1>1, <1>2, FS_Subset DEF max_external_constants
<1>4. c \notin ExternalBefore(c)
  BY DEF ExternalBefore
<1>a. \A i \in External : i < c + 1 <=> i < c \/ i = c
  BY <1>1
<1>5. c \in External => ExternalBefore(c + 1) = ExternalBefore(c) \cup {c}
  BY <1>a DEF ExternalBefore
<1>6. c \notin External => ExternalBefore(c + 1) = ExternalBefore(c)
  BY <1>a DEF ExternalBefore
<1> QED
  BY <1>3, <1>4, <1>5, <1>6, FS_AddElement, FS_CardinalityType

\* Every counted slot holds the constant of its key, each key of an external value that
\* was passed is in one, and there is a slot for each.
LEMMA ConstantsStep ==
  ASSUME Types, ValuesInv, ConstantsInv, Next
  PROVE  ConstantsInv'
<1> USE DEF ConstantsInv, Types, given, constants, delegates, operators, DropStages, ValuesGone,
            ConstantsGone, ValuesDone
<1>0. /\ plan' = plan /\ n_values' = n_values /\ External' = External
      /\ max_external_constants' = max_external_constants
      /\ n_values \in Nat /\ max_external_constants \in Nat
  BY PlanKept, PlanShape DEF n_values, External, max_external_constants
<1>a. UNCHANGED constants => (ResolvedBefore(n_values)' <=> ResolvedBefore(n_values))
  BY <1>0 DEF ResolvedBefore, ExternalBefore, Resolved
<1>b. ASSUME NEW c \in Nat
      PROVE  /\ ExternalBefore(c)' = ExternalBefore(c)
             /\ UNCHANGED constants => (ResolvedBefore(c)' <=> ResolvedBefore(c))
  <2>1. ExternalBefore(c)' = ExternalBefore(c)
    BY <1>0 DEF ExternalBefore
  <2>2. UNCHANGED constants => Resolved' = Resolved
    BY DEF Resolved
  <2> QED
    BY <1>0, <2>1, <2>2 DEF ResolvedBefore
<1>1. CASE AllocValues
  <2>1. CASE stage' = "constants"
    <3>1. cursor' = <<0, 0>> /\ UNCHANGED constants /\ n_external_constants = 0
      BY <1>1, <2>1 DEF AllocValues, Abandon, Go
    <3>2. ExternalBefore(0) = {} /\ ExternalBefore(0)' = {}
      BY <1>0, <1>b, PlanShape DEF ExternalBefore
    <3>3. cursor'[1] = 0
      BY <3>1
    <3>4. ExternalBefore(cursor[1])' = {}
      BY <3>2, <3>3 DEF ExternalBefore
    <3>5. Cardinality(ExternalBefore(cursor[1]))' = 0 /\ ResolvedBefore(cursor[1])'
      BY <3>4, FS_EmptySet DEF ResolvedBefore
    <3> QED
      BY <1>0, <1>1, <2>1, <3>1, <3>5 DEF AllocValues
  <2>2. CASE stage' = "values"
    <3>1. ResolvedBefore(n_values)'
      BY <1>0, <1>1, <2>2 DEF AllocValues, Abandon, Go, ResolvedBefore, ExternalBefore
    <3> QED
      BY <1>0, <1>1, <2>2, <3>1 DEF AllocValues
  <2>3. CASE stage' = "drop_values"
    <3>1. n_value' = 0
      BY <1>1 DEF AllocValues, ValuesInv
    <3> QED
      BY <1>0, <1>1, <2>3, <3>1 DEF AllocValues
  <2> QED
    BY <1>1, <2>1, <2>2, <2>3 DEF AllocValues, Abandon, Go
<1>2. CASE ParseConstant
  <2>0. PICK c \in Nat : c = cursor[1]
    OBVIOUS
  <2> DEFINE n == n_external_constants
             key == plan.values[c + 1]
  <2>1. /\ stage = "constants" /\ c \in Nat /\ c < n_values /\ n_value = 0
        /\ n_value' = n_value /\ n \in Nat
    BY <1>2, <2>0 DEF ParseConstant, ValuesInv
  <2>a. /\ Cardinality(ExternalBefore(c)) \in Nat
        /\ c \in External =>
              Cardinality(ExternalBefore(c + 1)) = Cardinality(ExternalBefore(c)) + 1
        /\ c \notin External => ExternalBefore(c + 1) = ExternalBefore(c)
    BY ExternalBeforeCount
  <2>b. Cardinality(ExternalBefore(c + 1)) <= max_external_constants
    <3>1. c + 1 \in Nat
      OBVIOUS
    <3> QED
      BY <3>1, ExternalBeforeCount
  <2>2. c \in External <=> key # "plain"
    BY <2>1, <1>0 DEF External
  <2>3. CASE (key = "plain" \/ key \in Resolved) /\ Advance /\ UNCHANGED constants
    <3>1. /\ Cardinality(ExternalBefore(c)) <= Cardinality(ExternalBefore(c + 1))
          /\ Cardinality(ExternalBefore(c)) \in Nat
          /\ Cardinality(ExternalBefore(c + 1)) \in Nat
      BY <2>a
    <3>2. ResolvedBefore(c + 1)
      BY <1>0, <2>0, <2>1, <2>2, <2>3, PlanShape DEF ResolvedBefore, ExternalBefore
    <3>3. ResolvedBefore(c + 1)'
      BY <1>b, <2>3, <3>2
    <3>4. cursor'[1] = c + 1 /\ stage' = "constants"
      BY <2>0, <2>1, <2>3 DEF Advance
    <3>5. ExternalBefore(cursor[1])' = ExternalBefore(c + 1)' /\ ResolvedBefore(cursor[1])'
      BY <3>3, <3>4 DEF ResolvedBefore, ExternalBefore
    <3>6. Cardinality(ExternalBefore(cursor[1]))' = Cardinality(ExternalBefore(c + 1))
      BY <1>b, <3>5
    <3> QED
      BY <1>0, <2>0, <2>1, <2>3, <3>1, <3>4, <3>5, <3>6
  <2>4. CASE /\ Abandon("InvalidExternalData") /\ n_external_constants' = n
             /\ \E saved \in {external_constants[n].key, key} :
                   external_constants' = [external_constants EXCEPT ![n].key = saved]
    <3>1. stage' = "drop_values"
      BY <2>4 DEF Abandon, Go
    <3>2. \A i \in 0 .. max_external_constants - 1 :
             external_constants'[i].buffer = external_constants[i].buffer
      BY <1>0, <2>1, <2>4
    <3> QED
      BY <1>0, <2>1, <2>4, <3>1, <3>2
  <2>5. CASE /\ key # "plain" /\ key \notin Resolved /\ Advance /\ n_external_constants' = n + 1
             /\ external_constants' =
                   [external_constants EXCEPT ![n] = [key |-> key, buffer |-> "held"]]
    <3>1. /\ Cardinality(ExternalBefore(c + 1)) = Cardinality(ExternalBefore(c)) + 1
          /\ Cardinality(ExternalBefore(c)) \in Nat
          /\ Cardinality(ExternalBefore(c + 1)) <= max_external_constants
      BY <2>2, <2>5, <2>a, <2>b
    <3>2. n + 1 <= max_external_constants
      BY <1>0, <2>0, <2>1, <3>1
    <3>3. cursor'[1] = c + 1 /\ stage' = "constants"
      BY <2>0, <2>1, <2>5 DEF Advance
    <3>4. Cardinality(ExternalBefore(cursor[1]))' = Cardinality(ExternalBefore(c + 1))
      BY <1>0, <3>3 DEF ExternalBefore
    <3>5. /\ external_constants'[n].key = key /\ external_constants'[n].buffer = "held"
          /\ \A i \in 0 .. max_external_constants - 1 :
                i # n => external_constants'[i] = external_constants[i]
      BY <1>0, <2>1, <2>5, <3>2
    <3>6. Resolved' = Resolved \cup {key}
      BY <1>0, <2>1, <2>5, <3>2, <3>5 DEF Resolved
    <3>7. ResolvedBefore(cursor[1])'
      BY <1>0, <2>0, <2>1, <3>3, <3>6, PlanShape, SMTT(30) DEF ResolvedBefore, ExternalBefore
    <3> QED
      BY <1>0, <2>0, <2>1, <2>5, <3>1, <3>2, <3>3, <3>4, <3>5, <3>7
  <2> QED
    BY <1>2, <2>0, <2>3, <2>4, <2>5 DEF ParseConstant
<1>3. CASE EndConstants
  <2>1. ResolvedBefore(n_values)'
    BY <1>0, <1>a, <1>3 DEF EndConstants, ResolvedBefore, ExternalBefore, Resolved
  <2> QED
    BY <1>0, <1>3, <2>1 DEF EndConstants, Go
<1>4. CASE ParseValue
  BY <1>0, <1>a, <1>4 DEF ParseValue, Abandon, Advance, Go
<1>5. CASE EndValues
  BY <1>0, <1>a, <1>5 DEF EndValues, Go
<1>6. CASE DelegateDataMap
  BY <1>0, <1>a, <1>6 DEF DelegateDataMap, Abandon, Go
<1>7. CASE LoadProcessed
  BY <1>0, <1>a, <1>7 DEF LoadProcessed, Abandon, Go
<1>8. CASE BackendInit
  BY <1>0, <1>a, <1>8 DEF BackendInit, CountDelegate, FailedSegment, Freed, Abandon, Go
<1>9. CASE EndDelegates
  BY <1>0, <1>a, <1>9 DEF EndDelegates, Abandon, Go
<1>10. CASE ChainRejected
  BY <1>0, <1>a, <1>10 DEF ChainRejected, Abandon, Go
<1>11. CASE ResolveOperator
  BY <1>0, <1>a, <1>11 DEF ResolveOperator, InLoop, NextInstr, Abandon, Go
<1>12. CASE OtherInstr
  BY <1>0, <1>a, <1>12 DEF OtherInstr, InLoop, NextInstr
<1>13. CASE EndChain
  BY <1>0, <1>a, <1>13 DEF EndChain, Advance
<1>14. CASE EndInit
  BY <1>0, <1>a, <1>14 DEF EndInit, Verdict, Abandon, Go
<1>15. CASE BeginDrop
  BY <1>0, <1>a, <1>15 DEF BeginDrop, Go
<1>16. CASE DropValues
  BY <1>0, <1>a, <1>16 DEF DropValues, Freed, Go
<1>17. CASE DestroyHandle
  BY <1>0, <1>a, <1>17 DEF DestroyHandle, HandleFirst, Freed
<1>18. CASE DropSegment
  BY <1>0, <1>a, <1>18 DEF DropSegment, Advance, Freed
<1>19. CASE EndDropDelegates
  BY <1>0, <1>a, <1>19 DEF EndDropDelegates, Go
<1>20. CASE DropConstants
  BY <1>0, <1>a, <1>20 DEF DropConstants, Freed, Go
<1>21. CASE DropMap
  BY <1>0, <1>a, <1>21 DEF DropMap, Go
<1> QED
  BY <1>1, <1>2, <1>3, <1>4, <1>5, <1>6, <1>7, <1>8, <1>9, <1>10, <1>11, <1>12, <1>13, <1>14,
     <1>15, <1>16, <1>17, <1>18, <1>19, <1>20, <1>21 DEF Next, Loading, Dropping

-----------------------------------------------------------------------------
(* Operators *)

BeforeChains == {"alloc_values", "constants", "values", "data_map", "delegates", "backend_init"}

OperatorsInv ==
    /\ kernels \subseteq attempted /\ attempted \subseteq KernelCalls
    /\ delayed_error \in {"Ok", "InvalidProgram", "Internal", "InvalidArgument"}
    /\ stage \in BeforeChains => attempted = {}
    /\ stage = "chains" =>
          /\ attempted = {k \in KernelCalls : Precedes(k, cursor)}
          /\ cursor[1] <= Len(plan.chains)
    /\ stage = "loaded" \/ result = "OperatorMissing" => attempted = KernelCalls
    /\ stage = "loaded" => delayed_error = "Ok" /\ num_instructions_missing_op = 0
    /\ /\ stage \in {"chains", "loaded"}
       /\ delayed_error = "Ok" /\ num_instructions_missing_op = 0
       => \A k \in attempted \ kernels : \E j \in kernels : Precedes(k, j)

\* KernelCalls are the positions of the KernelCall instructions.
LEMMA KernelCallPositions ==
  ASSUME NEW k
  PROVE  k \in KernelCalls <=>
            \E c \in 0 .. Len(plan.chains) - 1 :
               \E i \in 0 .. Len(plan.chains[c + 1]) - 1 :
                  k = <<c, i>> /\ plan.chains[c + 1][i + 1] = "KernelCall"
<1> DEFINE In(c) == {<<c, i>> : i \in {j \in 0 .. Len(plan.chains[c + 1]) - 1 :
                                         plan.chains[c + 1][j + 1] = "KernelCall"}}
<1>1. k \in KernelCalls <=> \E c \in 0 .. Len(plan.chains) - 1 : k \in In(c)
  BY Zenon DEF KernelCalls
<1>2. \A c : k \in In(c) <=>
        \E i \in 0 .. Len(plan.chains[c + 1]) - 1 :
           k = <<c, i>> /\ plan.chains[c + 1][i + 1] = "KernelCall"
  OBVIOUS
<1> HIDE DEF In
<1> QED
  BY <1>1, <1>2

\* init comes to the instructions of a chain in order, and to the chains in order.
LEMMA NextPosition ==
  ASSUME plan \in Plans, NEW c \in Nat, NEW i \in Nat, NEW k \in KernelCalls
  PROVE  /\ ~Precedes(k, <<0, 0>>)
         /\ Precedes(k, <<c, i + 1>>) <=> Precedes(k, <<c, i>>) \/ k = <<c, i>>
         /\ c < Len(plan.chains) /\ i = Len(plan.chains[c + 1]) =>
               (Precedes(k, <<c + 1, 0>>) <=> Precedes(k, <<c, i>>))
         /\ c = Len(plan.chains) => Precedes(k, <<c, i>>)
<1>1. Len(plan.chains) \in Nat /\ \A d \in 1 .. Len(plan.chains) : Len(plan.chains[d]) \in Nat
  BY PlanShape
<1>d. PICK d \in 0 .. Len(plan.chains) - 1 :
         \E j \in 0 .. Len(plan.chains[d + 1]) - 1 : k = <<d, j>>
  BY KernelCallPositions
<1>2. PICK j \in 0 .. Len(plan.chains[d + 1]) - 1 : k = <<d, j>>
  BY <1>d
<1>3. d \in Nat /\ j \in Nat /\ d < Len(plan.chains) /\ j < Len(plan.chains[d + 1])
  BY <1>1, <1>2
<1>4. \A e, m : Precedes(k, <<e, m>>) <=> d < e \/ (d = e /\ j < m)
  BY <1>2 DEF Precedes
<1>5. \A e, m : k = <<e, m>> <=> d = e /\ j = m
  BY <1>2
<1>6. ~Precedes(k, <<0, 0>>)
  BY <1>3, <1>4
<1>7. Precedes(k, <<c, i + 1>>) <=> Precedes(k, <<c, i>>) \/ k = <<c, i>>
  <2>1. Precedes(k, <<c, i + 1>>) <=> d < c \/ (d = c /\ j < i + 1)
    BY <1>4
  <2>2. Precedes(k, <<c, i>>) <=> d < c \/ (d = c /\ j < i)
    BY <1>4
  <2>3. k = <<c, i>> <=> d = c /\ j = i
    BY <1>5
  <2> QED
    BY <1>3, <2>1, <2>2, <2>3
<1>8. ASSUME c < Len(plan.chains), i = Len(plan.chains[c + 1])
      PROVE  Precedes(k, <<c + 1, 0>>) <=> Precedes(k, <<c, i>>)
  BY <1>3, <1>4, <1>8
<1>9. c = Len(plan.chains) => Precedes(k, <<c, i>>)
  BY <1>3, <1>4
<1> QED
  BY <1>6, <1>7, <1>8, <1>9

\* init comes to the instructions in order and asks for the operator of each KernelCall; a
\* failure is forgotten only when a later KernelCall is resolved.
LEMMA OperatorsStep ==
  ASSUME Types, OperatorsInv, Next
  PROVE  OperatorsInv'
<1> USE DEF OperatorsInv, Types, BeforeChains, given, constants, delegates, operators,
   DropStages, ValuesGone
<1>0. /\ plan' = plan /\ KernelCalls' = KernelCalls
      /\ Len(plan.chains) \in Nat /\ plan \in Plans
  BY PlanKept, PlanShape DEF KernelCalls
<1>a. \A k, p : Precedes(k, p)' <=> Precedes(k, p)
  OBVIOUS
<1>b. PICK c \in Nat, i \in Nat : cursor = <<c, i>>
  OBVIOUS
<1>1. CASE AllocValues
  BY <1>0, <1>1 DEF AllocValues, Abandon, Go
<1>2. CASE ParseConstant
  BY <1>0, <1>2 DEF ParseConstant, Abandon, Advance, Go
<1>3. CASE EndConstants
  BY <1>0, <1>3 DEF EndConstants, Go
<1>4. CASE ParseValue
  BY <1>0, <1>4 DEF ParseValue, Abandon, Advance, Go
<1>5. CASE EndValues
  BY <1>0, <1>5 DEF EndValues, Go
<1>6. CASE DelegateDataMap
  BY <1>0, <1>6 DEF DelegateDataMap, Abandon, Go
<1>7. CASE LoadProcessed
  BY <1>0, <1>7 DEF LoadProcessed, Abandon, Go
<1>8. CASE BackendInit
  BY <1>0, <1>8 DEF BackendInit, CountDelegate, FailedSegment, Freed, Abandon, Go
<1>9. CASE EndDelegates
  <2>1. CASE stage' = "chains" /\ cursor' = <<0, 0>> /\ UNCHANGED <<operators, result>>
    <3>1. {k \in KernelCalls : Precedes(k, <<0, 0>>)} = {}
      BY NextPosition
    <3>2. attempted' = {k \in KernelCalls' : Precedes(k, cursor')}
      BY <1>0, <1>9, <2>1, <3>1 DEF EndDelegates
    <3>3. result' = "none"
      BY <1>9, <2>1 DEF EndDelegates
    <3> QED
      BY <1>0, <1>9, <2>1, <3>2, <3>3 DEF EndDelegates, Precedes
  <2>2. CASE Abandon("InvalidProgram")
    BY <1>0, <1>9, <2>2 DEF EndDelegates, Abandon, Go
  <2> QED
    BY <1>9, <2>1, <2>2 DEF EndDelegates, Go
<1>10. CASE ChainRejected
  BY <1>0, <1>10 DEF ChainRejected, Abandon, Go
<1>11. CASE ResolveOperator
  <2>1. /\ stage = "chains" /\ c < Len(plan.chains) /\ i < Len(plan.chains[c + 1])
        /\ plan.chains[c + 1][i + 1] = "KernelCall" /\ cursor = <<c, i>>
        /\ result = "none" /\ attempted' = attempted \cup {cursor}
    BY <1>b, <1>11 DEF ResolveOperator, InLoop, InstrCount
  <2>2. cursor \in KernelCalls
    <3>1. c \in 0 .. Len(plan.chains) - 1 /\ i \in 0 .. Len(plan.chains[c + 1]) - 1
      BY <1>0, <1>b, <2>1, PlanShape, SMTT(30)
    <3>2. \E d \in 0 .. Len(plan.chains) - 1 : \E j \in 0 .. Len(plan.chains[d + 1]) - 1 :
             <<c, i>> = <<d, j>> /\ plan.chains[d + 1][j + 1] = "KernelCall"
      BY <2>1, <3>1, Zenon
    <3> QED
      BY <2>1, <3>2, KernelCallPositions, Zenon
  <2>3. attempted' \subseteq KernelCalls
    BY <2>1, <2>2
  <2>4. ASSUME NextInstr
        PROVE  /\ stage' = "chains" /\ result' = "none" /\ cursor' = <<c, i + 1>>
               /\ attempted' = {k \in KernelCalls : Precedes(k, <<c, i + 1>>)}
    <3>1. attempted' = {k \in KernelCalls : Precedes(k, <<c, i>>) \/ k = <<c, i>>}
      BY <2>1, <2>2
    <3>2. \A k \in KernelCalls :
             Precedes(k, <<c, i + 1>>) <=> Precedes(k, <<c, i>>) \/ k = <<c, i>>
      BY <1>0, NextPosition
    <3> QED
      <4>1. stage' = "chains" /\ result' = "none" /\ cursor' = <<c, i + 1>>
        BY <2>1, <2>4 DEF NextInstr
      <4>2. attempted' = {k \in KernelCalls : Precedes(k, <<c, i + 1>>)}
        BY <3>1, <3>2
      <4> QED
        BY <4>1, <4>2
  <2>5. CASE kernels' = kernels \cup {cursor} /\ delayed_error' = "Ok" /\ NextInstr
             /\ UNCHANGED num_instructions_missing_op
    <3>1. \A k \in attempted' \ kernels' : Precedes(k, cursor) /\ cursor \in kernels'
      BY <2>1, <2>5
    <3>2. kernels' \subseteq attempted'
      BY <2>1, <2>5
    <3> QED
      BY <1>0, <2>1, <2>3, <2>4, <2>5, <3>1, <3>2 DEF Precedes
  <2>6. CASE num_instructions_missing_op' = num_instructions_missing_op + 1 /\ NextInstr
             /\ UNCHANGED <<kernels, delayed_error>>
    BY <1>0, <2>1, <2>3, <2>4, <2>6 DEF Precedes
  <2>7. CASE Abandon("MemoryAllocationFailed")
             /\ UNCHANGED <<kernels, delayed_error, num_instructions_missing_op>>
    BY <1>0, <2>1, <2>3, <2>7 DEF Abandon, Go
  <2>8. CASE /\ delayed_error' \in {"InvalidProgram", "Internal", "InvalidArgument"}
             /\ NextInstr
             /\ UNCHANGED <<kernels, num_instructions_missing_op>>
    BY <1>0, <2>1, <2>3, <2>4, <2>8 DEF Precedes
  <2> QED
    BY <1>11, <2>5, <2>6, <2>7, <2>8 DEF ResolveOperator
<1>12. CASE OtherInstr
  <2>1. /\ stage = "chains" /\ plan.chains[c + 1][i + 1] = "other" /\ result = "none"
        /\ stage' = "chains" /\ cursor' = <<c, i + 1>> /\ UNCHANGED <<operators, result>>
        /\ c < Len(plan.chains)
    BY <1>b, <1>12 DEF OtherInstr, InLoop, NextInstr
  <2>2. <<c, i>> \notin KernelCalls
    BY <2>1, KernelCallPositions
  <2>3. \A k \in KernelCalls : Precedes(k, <<c, i + 1>>) <=> Precedes(k, <<c, i>>)
    BY <1>0, <2>2, NextPosition
  <2>4. attempted' = {k \in KernelCalls : Precedes(k, <<c, i + 1>>)}
    BY <1>b, <2>1, <2>3
  <2> QED
    BY <1>0, <2>1, <2>4 DEF Precedes
<1>13. CASE EndChain
  <2>1. /\ stage = "chains" /\ result = "none" /\ c < Len(plan.chains)
        /\ i = Len(plan.chains[c + 1])
        /\ stage' = "chains" /\ cursor' = <<c + 1, 0>> /\ UNCHANGED <<operators, result>>
    BY <1>b, <1>13 DEF EndChain, Advance, InstrCount
  <2>2. \A k \in KernelCalls : Precedes(k, <<c + 1, 0>>) <=> Precedes(k, <<c, i>>)
    BY <1>0, <2>1, NextPosition
  <2>3. attempted' = {k \in KernelCalls : Precedes(k, <<c + 1, 0>>)}
    BY <1>b, <2>1, <2>2
  <2> QED
    BY <1>0, <2>1, <2>3 DEF Precedes
<1>14. CASE EndInit
  <2>1. attempted = KernelCalls
    <3>1. stage = "chains" /\ c = Len(plan.chains)
      BY <1>b, <1>14 DEF EndInit
    <3>2. \A k \in KernelCalls : Precedes(k, <<c, i>>)
      BY <1>0, <3>1, NextPosition
    <3> QED
      BY <1>b, <3>1, <3>2
  <2> QED
    BY <1>0, <1>14, <2>1 DEF EndInit, Verdict, Abandon, Go, Precedes
<1>15. CASE BeginDrop
  BY <1>0, <1>15 DEF BeginDrop, Go
<1>16. CASE DropValues
  BY <1>0, <1>16 DEF DropValues, Freed, Go
<1>17. CASE DestroyHandle
  BY <1>0, <1>17 DEF DestroyHandle, HandleFirst, Freed
<1>18. CASE DropSegment
  BY <1>0, <1>18 DEF DropSegment, Advance, Freed
<1>19. CASE EndDropDelegates
  BY <1>0, <1>19 DEF EndDropDelegates, Go
<1>20. CASE DropConstants
  BY <1>0, <1>20 DEF DropConstants, Freed, Go
<1>21. CASE DropMap
  BY <1>0, <1>21 DEF DropMap, Go
<1> QED
  BY <1>1, <1>2, <1>3, <1>4, <1>5, <1>6, <1>7, <1>8, <1>9, <1>10, <1>11, <1>12, <1>13, <1>14,
     <1>15, <1>16, <1>17, <1>18, <1>19, <1>20, <1>21 DEF Next, Loading, Dropping

-----------------------------------------------------------------------------
(* The theorems *)

LoadInv ==
    Types /\ ValuesInv /\ DelegatesInv /\ MapInv /\ ConstantsInv /\ OperatorsInv

\* load begins with arrays that hold nothing.
LEMMA LoadInit == Init => LoadInv
<1> SUFFICES ASSUME Init PROVE LoadInv
  OBVIOUS
<1>1. /\ plan \in Plans /\ n_values \in Nat /\ plan.ndelegates \in Nat
      /\ max_external_constants \in Nat
  BY PlanShape DEF Init
<1>2. Types
  <2>1. external_constants \in
           [0 .. max_external_constants - 1 -> [key : Keys, buffer : Slot]]
    <3>1. [key |-> "none", buffer |-> "raw"] \in [key : Keys, buffer : Slot]
      BY DEF Slot, Keys
    <3> QED
      BY <3>1 DEF Init
  <2>2. /\ values \in [0 .. n_values - 1 -> Slot]
        /\ segment \in [0 .. plan.ndelegates - 1 -> Segment]
        /\ handle \in [0 .. plan.ndelegates - 1 -> Slot]
    BY DEF Init, Slot, Segment
  <2> QED
    BY <2>1, <2>2 DEF Init, Types, Stages
<1>3. ValuesInv
  BY <1>1 DEF Init, ValuesInv, ValuesDone
<1>4. DelegatesInv
  BY <1>1 DEF Init, DelegatesInv, DelegatesDone
<1>5. MapInv
  BY DEF Init, MapInv
<1>6. ConstantsInv
  BY <1>1 DEF Init, ConstantsInv, ValuesDone
<1>7. OperatorsInv
  BY DEF Init, OperatorsInv
<1> QED
  BY <1>2, <1>3, <1>4, <1>5, <1>6, <1>7 DEF LoadInv

\* Each step of load and Drop keeps the invariant.
LEMMA LoadStep ==
  ASSUME LoadInv, [Next]_vars
  PROVE  LoadInv'
<1>1. CASE Next
  BY <1>1, TypesStep, ValuesStep, DelegatesStep, MapStep, ConstantsStep, OperatorsStep DEF
     LoadInv
<1>2. CASE UNCHANGED vars
  <2> USE <1>2 DEF vars, given, constants, delegates, operators
  <2>1. /\ n_values' = n_values /\ max_external_constants' = max_external_constants
        /\ External' = External /\ KernelCalls' = KernelCalls /\ Resolved' = Resolved
    BY DEF n_values, max_external_constants, External, KernelCalls, Resolved
  <2>2. Types' /\ ValuesInv' /\ MapInv'
    BY <2>1 DEF LoadInv, Types, ValuesInv, MapInv
  <2>3. DelegatesInv'
    BY DEF LoadInv, DelegatesInv, Destroyed, HandleDestroyed
  <2>4. ConstantsInv'
    BY <2>1 DEF LoadInv, ConstantsInv, ResolvedBefore, ExternalBefore
  <2>5. OperatorsInv'
    BY <2>1 DEF LoadInv, OperatorsInv, Precedes
  <2> QED
    BY <2>2, <2>3, <2>4, <2>5 DEF LoadInv
<1> QED
  BY <1>1, <1>2

\* The invariant of load and Drop: what the counters count is held or dropped, nothing else.
THEOREM LoadCorrect == Spec => []LoadInv
<1> QED
  BY LoadInit, LoadStep, PTL DEF Spec

\* The state of a Method has its types, its counters stay within its arrays.
THEOREM LoadTypes == Spec => []TypeOK
<1>1. LoadInv => TypeOK
  BY PlanShape DEF LoadInv, Types, ValuesInv, DelegatesInv, ConstantsInv, OperatorsInv, TypeOK
<1> QED
  BY <1>1, LoadCorrect, PTL

\* A method that is gone holds nothing, however far init came.
THEOREM GoneReclaimed == Spec => []Reclaimed
<1>1. ASSUME LoadInv, stage = "gone" PROVE Reclaimed
  <2>1. \A i \in 0 .. n_values - 1 : values[i] # "held"
    BY <1>1 DEF LoadInv, ValuesInv, ValuesGone
  <2>2. \A i \in 0 .. plan.ndelegates - 1 :
           segment[i] \notin {"held", "released"} /\ handle[i] # "held"
    BY <1>1 DEF LoadInv, DelegatesInv, Destroyed, HandleDestroyed, DelegatesGone
  <2>3. \A i \in 0 .. max_external_constants - 1 : external_constants[i].buffer # "held"
    BY <1>1 DEF LoadInv, ConstantsInv, ConstantsGone
  <2> QED
    BY <1>1, <2>1, <2>2, <2>3 DEF LoadInv, Types, MapInv, Reclaimed
<1>2. LoadInv => Reclaimed
  BY <1>1 DEF Reclaimed
<1> QED
  BY <1>2, LoadCorrect, PTL

\* No slot is dropped that init had not written.
THEOREM RawNeverDropped == Spec => []NothingRawDropped
<1>1. ASSUME LoadInv PROVE NothingRawDropped
  <2>1. \A i \in 0 .. n_values - 1 : values[i] # "garbage"
    BY <1>1 DEF LoadInv, ValuesInv
  <2>2. \A i \in 0 .. plan.ndelegates - 1 : segment[i] # "garbage" /\ handle[i] # "garbage"
    BY <1>1 DEF LoadInv, DelegatesInv
  <2>3. \A i \in 0 .. max_external_constants - 1 : external_constants[i].buffer # "garbage"
    BY <1>1 DEF LoadInv, ConstantsInv
  <2> QED
    BY <1>1, <2>1, <2>2, <2>3 DEF LoadInv, Types, NothingRawDropped
<1> QED
  BY <1>1, LoadCorrect, PTL

\* A live handle has its data and its data map, an external tensor its constant.
THEOREM AliveIsBacked == Spec => []Backed
<1>1. ASSUME LoadInv PROVE Backed
  <2> USE <1>1 DEF LoadInv
  <2>1. ASSUME NEW i \in 0 .. plan.ndelegates - 1, handle[i] = "held"
        PROVE  segment[i] \in {"held", "released"} /\ merged_data_map # "freed"
    BY <2>1, PlanShape, SMTT(30) DEF Types, DelegatesInv, Destroyed, HandleDestroyed,
       DelegatesGone, MapInv
  <2>2. ASSUME NEW i \in External, values[i] = "held"
        PROVE  \E n \in 0 .. max_external_constants - 1 :
                  external_constants[n] = [key |-> plan.values[i + 1], buffer |-> "held"]
    <3>1. i \in 0 .. n_values - 1 /\ n_values \in Nat /\ max_external_constants \in Nat
      BY PlanShape DEF Types
    <3>2. i < n_value /\ stage \notin ValuesGone
      BY <2>2, <3>1 DEF Types, ValuesInv
    <3>3. n_value # 0
      BY <3>1, <3>2
    <3>4. stage \in {"values", "drop_values"} \cup ValuesDone
      BY <3>2, <3>3 DEF Types, Stages, ValuesInv, ValuesGone, ValuesDone
    <3>5. plan.values[i + 1] \in Resolved
      BY <3>1, <3>3, <3>4 DEF ConstantsInv, ResolvedBefore, ExternalBefore
    <3>6. PICK n \in 0 .. n_external_constants - 1 : external_constants[n].key = plan.values[i + 1]
      BY <3>5 DEF Resolved
    <3>7. n \in 0 .. max_external_constants - 1 /\ n < n_external_constants
      BY <3>1, <3>6 DEF Types, ConstantsInv
    <3>8. external_constants[n].buffer = "held"
      BY <3>2, <3>7 DEF Types, ConstantsInv, ConstantsGone, ValuesGone
    <3> QED
      BY <3>6, <3>7, <3>8 DEF Types
  <2> QED
    BY <2>1, <2>2 DEF Types, Backed
<1> QED
  BY <1>1, LoadCorrect, PTL

\* What load reports is so: Ok, everything is in place and a failed KernelCall is followed by
\* one that was resolved; OperatorMissing, every KernelCall was tried.
THEOREM VerdictIsSound == Spec => []VerdictSound
<1>1. ASSUME LoadInv PROVE VerdictSound
  <2> USE <1>1 DEF LoadInv
  <2>1. CASE stage = "loaded"
    <3>1. n_value = n_values /\ n_delegate = plan.ndelegates
      BY <2>1 DEF ValuesInv, DelegatesInv, ValuesDone, DelegatesDone
    <3>2. \A i \in 0 .. n_values - 1 : values[i] = "held"
      BY <2>1, <3>1, PlanShape DEF Types, ValuesInv, ValuesGone
    <3>3. \A i \in 0 .. plan.ndelegates - 1 : handle[i] = "held"
      BY <2>1, <3>1, PlanShape DEF Types, DelegatesInv, Destroyed, HandleDestroyed,
         DelegatesGone
    <3> QED
      BY <2>1, <3>1, <3>2, <3>3 DEF Types, OperatorsInv, VerdictSound
  <2>2. CASE stage # "loaded"
    BY <2>2 DEF OperatorsInv, VerdictSound
  <2> QED
    BY <2>1, <2>2
<1> QED
  BY <1>1, LoadCorrect, PTL

=============================================================================
