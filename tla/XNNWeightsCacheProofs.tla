------------------------- MODULE XNNWeightsCacheProofs -------------------------
(***************************************************************************)
(* Theorems about XNNWeightsCache, for any number of executors, graphs,    *)
(* constants and compilations, any of which may fail after any step.       *)
(***************************************************************************)
EXTENDS XNNWeightsCache, FiniteSetTheorems, TLAPS

-----------------------------------------------------------------------------
(* Types *)

\* The names of weights, and of weights with a bias.
Keys == Seq(STRING)

EntryType == [offset : Nat, ref_count : Nat, in_current_runtime : BOOLEAN, seed : Nat]

ExecType == [state : {"none", "defining", "packing", "ready"}, graph : Graphs \cup {<<>>},
             pos : Nat, uses : Seq(Int), names : SUBSET Keys]

CacheTypes == /\ metadata \in [DOMAIN metadata -> EntryType] /\ DOMAIN metadata \subseteq Keys
              /\ packed_data_ptrs \in Seq(Nat)
              /\ containers \in [DOMAIN containers -> Op] /\ DOMAIN containers \subseteq Nat \ {0}
              /\ unpacked \subseteq Executors \X Named /\ is_finalized \in BOOLEAN

ExecTypes == /\ exec \in [Executors -> ExecType]
             /\ \A e \in Executors :
                  /\ exec[e].pos <= Len(exec[e].graph)
                  /\ exec[e].graph \in Seq(Op)
                  /\ exec[e].state # "none" => exec[e].graph \in Graphs
                  /\ exec[e].state \in {"none", "defining"} => exec[e].uses = <<>>
                  /\ exec[e].state \in {"packing", "ready"} => Len(exec[e].uses) = exec[e].pos
                  /\ exec[e].state # "ready" => exec[e].names = {}
                  /\ exec[e].state = "ready" => exec[e].pos = Len(exec[e].graph)

Types == /\ CacheTypes /\ ExecTypes
         /\ compiles \in 0 .. MaxCompiles /\ failed \in BOOLEAN

\* The operator an executor is about to handle is one of its graph's.
LEMMA CurrentOpType ==
  ASSUME ExecTypes, NEW e \in Executors, ~AtLastOp(e)
  PROVE  /\ CurrentOp(e) \in Op
         /\ exec[e].pos + 1 \in 1 .. Len(exec[e].graph)
BY DEF ExecTypes, ExecType, CurrentOp, AtLastOp

LEMMA KeyType ==
  ASSUME NEW e, NEW op \in Op
  PROVE  Key(e, op) \in Keys
<1>1. op.kernel \in STRING /\ op.bias \in STRING
  BY DEF Op
<1>2. <<op.kernel>> \in Seq(STRING) /\ <<op.kernel, op.bias>> \in Seq(STRING)
  BY <1>1
<1> QED
  BY <1>2 DEF Key, Keys

\* What the state of an executor may be.
ExecOK(r) == /\ r \in ExecType /\ r.pos <= Len(r.graph) /\ r.graph \in Seq(Op)
             /\ r.state # "none" => r.graph \in Graphs
             /\ r.state \in {"none", "defining"} => r.uses = <<>>
             /\ r.state \in {"packing", "ready"} => Len(r.uses) = r.pos
             /\ r.state # "ready" => r.names = {}
             /\ r.state = "ready" => r.pos = Len(r.graph)

LEMMA ExecTypesIs == ExecTypes <=> exec \in [Executors -> ExecType] /\ \A e \in Executors : ExecOK(exec[e])
BY DEF ExecTypes, ExecOK

\* A step of one executor.
LEMMA ExecStep ==
  ASSUME ExecTypes, NEW e \in Executors, NEW r, ExecOK(r), exec' = [exec EXCEPT ![e] = r]
  PROVE  ExecTypes' /\ exec'[e] = r /\ \A x \in Executors \ {e} : exec'[x] = exec[x]
<1>1. exec \in [Executors -> ExecType] /\ r \in ExecType
  BY DEF ExecTypes, ExecOK
<1>2. exec'[e] = r /\ \A x \in Executors \ {e} : exec'[x] = exec[x]
  BY <1>1
<1>3. exec' \in [Executors -> ExecType] /\ \A x \in Executors : ExecOK(exec'[x])
  BY <1>1, <1>2, ExecTypesIs
<1> QED
  BY <1>2, <1>3 DEF ExecTypes, ExecOK

LEMMA NoExecutorOK == ExecOK(NoExecutor)
BY DEF ExecOK, NoExecutor, ExecType, Keys

\* An executor and its fields.
LEMMA ExecIs ==
  ASSUME ExecTypes, NEW e \in Executors
  PROVE  /\ ExecOK(exec[e])
         /\ exec[e] = [state |-> exec[e].state, graph |-> exec[e].graph, pos |-> exec[e].pos,
                       uses |-> exec[e].uses, names |-> exec[e].names]
BY ExecTypesIs DEF ExecType

\* Appending to the uses of an executor and moving on to the next operator.
LEMMA UsesStep ==
  ASSUME ExecTypes, NEW e \in Executors, ~AtLastOp(e), exec[e].state = "packing",
         NEW offset \in Int, Uses(e, offset)
  PROVE  /\ ExecTypes'
         /\ exec'[e] = [state |-> "packing", graph |-> exec[e].graph, pos |-> exec[e].pos + 1,
                        uses |-> Append(exec[e].uses, offset), names |-> {}]
         /\ \A x \in Executors \ {e} : exec'[x] = exec[x]
<1> DEFINE u == Append(exec[e].uses, offset)
           r == [state |-> "packing", graph |-> exec[e].graph, pos |-> exec[e].pos + 1,
                 uses |-> u, names |-> {}]
<1>1. exec \in [Executors -> ExecType] /\ exec[e] \in ExecType /\ ExecOK(exec[e])
  BY ExecTypesIs
<1>2. exec[e] = [state |-> "packing", graph |-> exec[e].graph, pos |-> exec[e].pos,
                 uses |-> exec[e].uses, names |-> {}]
  BY <1>1 DEF ExecOK, ExecType
<1>3. [[exec[e] EXCEPT !.pos = @ + 1] EXCEPT !.uses = Append(@, offset)] = r
  <2> DEFINE w == [exec[e] EXCEPT !.pos = @ + 1]
  <2>1. w = [state |-> "packing", graph |-> exec[e].graph, pos |-> exec[e].pos + 1,
             uses |-> exec[e].uses, names |-> {}]
    BY <1>2
  <2>2. w.uses = exec[e].uses
    BY <2>1
  <2>3. [w EXCEPT !.uses = u] = r
    <3> HIDE DEF u, w
    <3> QED
      BY <2>1, Z3
  <2>4. Append(w.uses, offset) = u
    BY <2>2
  <2> QED
    BY <2>3, <2>4
<1>4. exec' = [exec EXCEPT ![e] = r]
  BY <1>1, <1>3 DEF Uses
<1>5. ExecOK(r)
  <2>1. /\ exec[e].uses \in Seq(Int) /\ Append(exec[e].uses, offset) \in Seq(Int)
        /\ Len(Append(exec[e].uses, offset)) = exec[e].pos + 1
        /\ exec[e].pos \in Nat /\ exec[e].graph \in Graphs /\ exec[e].graph \in Seq(Op)
        /\ exec[e].pos + 1 <= Len(exec[e].graph)
    BY <1>1, CurrentOpType DEF ExecOK, ExecType
  <2> HIDE DEF r
  <2>2. /\ r.state = "packing" /\ r.graph = exec[e].graph /\ r.pos = exec[e].pos + 1
        /\ r.uses = Append(exec[e].uses, offset) /\ r.names = {} /\ r \in ExecType
    BY <2>1 DEF r, ExecType
  <2> QED
    BY <2>1, <2>2 DEF ExecOK
<1> QED
  BY <1>4, <1>5, ExecStep



\* What each step does to the executor that takes it.
LEMMA BeginStep ==
  ASSUME ExecTypes, NEW e \in Executors, NEW g \in Graphs, Begin(e, g)
  PROVE  /\ ExecTypes'
         /\ exec'[e] = [state |-> "defining", graph |-> g, pos |-> 0, uses |-> <<>>, names |-> {}]
         /\ \A x \in Executors \ {e} : exec'[x] = exec[x]
<1> DEFINE r == [state |-> "defining", graph |-> g, pos |-> 0, uses |-> <<>>, names |-> {}]
<1>1. [NoExecutor EXCEPT !.state = "defining", !.graph = g] = r
  <2> DEFINE nil == <<>>
             w == [NoExecutor EXCEPT !.state = "defining"]
  <2>1. /\ NoExecutor = [state |-> "none", graph |-> nil, pos |-> 0, uses |-> nil, names |-> {}]
        /\ r = [state |-> "defining", graph |-> g, pos |-> 0, uses |-> nil, names |-> {}]
    BY DEF NoExecutor
  <2> HIDE DEF nil, r
  <2>2. w = [state |-> "defining", graph |-> nil, pos |-> 0, uses |-> nil, names |-> {}]
    BY <2>1, Z3
  <2> HIDE DEF w
  <2>3. [w EXCEPT !.graph = g] = r
    BY <2>1, <2>2, Z3
  <2> QED
    BY <2>3 DEF w
<1>2. exec' = [exec EXCEPT ![e] = r]
  BY <1>1 DEF Begin
<1>3. ExecOK(r)
  BY GraphsAssumption DEF ExecOK, ExecType, Keys
<1> QED
  BY <1>2, <1>3, ExecStep

LEMMA DefineStep ==
  ASSUME ExecTypes, NEW e \in Executors, DefineTensors(e)
  PROVE  /\ ExecTypes'
         /\ exec'[e] = [state |-> "defining", graph |-> exec[e].graph, pos |-> exec[e].pos + 1,
                        uses |-> exec[e].uses, names |-> {}]
         /\ exec[e].uses = <<>> /\ \A x \in Executors \ {e} : exec'[x] = exec[x]
<1> DEFINE p == exec[e].pos + 1
           r == [state |-> "defining", graph |-> exec[e].graph, pos |-> p,
                 uses |-> exec[e].uses, names |-> {}]
<1>1. /\ ExecOK(exec[e]) /\ exec[e].state = "defining" /\ ~AtLastOp(e)
      /\ exec[e] = [state |-> "defining", graph |-> exec[e].graph, pos |-> exec[e].pos,
                    uses |-> exec[e].uses, names |-> {}]
  BY ExecIs DEF DefineTensors, ExecOK
<1>2. [exec[e] EXCEPT !.pos = exec[e].pos + 1] = r
  <2>1. [exec[e] EXCEPT !.pos = p] = r
    <3> HIDE DEF p
    <3> QED
      BY <1>1, Z3
  <2> QED
    BY <2>1
<1>3. exec' = [exec EXCEPT ![e] = r]
  BY <1>2 DEF DefineTensors, ExecTypes
<1>4. ExecOK(r)
  BY <1>1, CurrentOpType DEF ExecOK, ExecType
<1>5. exec[e].uses = <<>>
  BY <1>1 DEF ExecOK
<1> QED
  BY <1>3, <1>4, <1>5, ExecStep

LEMMA CreateStep ==
  ASSUME ExecTypes, NEW e \in Executors, CreateRuntime(e)
  PROVE  /\ ExecTypes'
         /\ exec'[e] = [state |-> "packing", graph |-> exec[e].graph, pos |-> 0,
                        uses |-> exec[e].uses, names |-> {}]
         /\ exec[e].uses = <<>> /\ \A x \in Executors \ {e} : exec'[x] = exec[x]
<1> DEFINE r == [state |-> "packing", graph |-> exec[e].graph, pos |-> 0,
                 uses |-> exec[e].uses, names |-> {}]
<1>1. /\ ExecOK(exec[e]) /\ exec[e].state = "defining"
      /\ exec[e] = [state |-> "defining", graph |-> exec[e].graph, pos |-> exec[e].pos,
                    uses |-> exec[e].uses, names |-> {}]
  BY ExecIs DEF CreateRuntime, ExecOK
<1>2. [[exec[e] EXCEPT !.state = "packing"] EXCEPT !.pos = 0] = r
  <2> DEFINE w == [exec[e] EXCEPT !.state = "packing"]
  <2>1. w = [state |-> "packing", graph |-> exec[e].graph, pos |-> exec[e].pos,
             uses |-> exec[e].uses, names |-> {}]
    BY <1>1, Z3
  <2> HIDE DEF w
  <2>2. [w EXCEPT !.pos = 0] = r
    BY <2>1, Z3
  <2> QED
    BY <2>2 DEF w
<1>3. exec' = [exec EXCEPT ![e] = r]
  BY <1>2 DEF CreateRuntime, ExecTypes
<1>4. ExecOK(r)
  BY <1>1 DEF ExecOK, ExecType
<1>5. exec[e].uses = <<>>
  BY <1>1 DEF ExecOK
<1> QED
  BY <1>3, <1>4, <1>5, ExecStep

LEMMA FinishStep ==
  ASSUME ExecTypes, DOMAIN metadata \subseteq Keys, NEW e \in Executors, Finish(e)
  PROVE  /\ ExecTypes'
         /\ exec'[e] = [state |-> "ready", graph |-> exec[e].graph, pos |-> exec[e].pos,
                        uses |-> exec[e].uses, names |-> InCurrentRuntime]
         /\ \A x \in Executors \ {e} : exec'[x] = exec[x]
<1> DEFINE r == [state |-> "ready", graph |-> exec[e].graph, pos |-> exec[e].pos,
                 uses |-> exec[e].uses, names |-> InCurrentRuntime]
<1>1. /\ ExecOK(exec[e]) /\ exec[e].state = "packing" /\ AtLastOp(e)
      /\ exec[e] = [state |-> "packing", graph |-> exec[e].graph, pos |-> exec[e].pos,
                    uses |-> exec[e].uses, names |-> exec[e].names]
  BY ExecIs DEF Finish
<1>2. [[exec[e] EXCEPT !.state = "ready"] EXCEPT !.names = InCurrentRuntime] = r
  <2> DEFINE w == [exec[e] EXCEPT !.state = "ready"]
  <2>1. w = [state |-> "ready", graph |-> exec[e].graph, pos |-> exec[e].pos,
             uses |-> exec[e].uses, names |-> exec[e].names]
    BY <1>1, Z3
  <2> HIDE DEF w
  <2>2. [w EXCEPT !.names = InCurrentRuntime] = r
    BY <2>1, Z3
  <2> QED
    BY <2>2 DEF w
<1>3. exec' = [exec EXCEPT ![e] = r]
  BY <1>2 DEF Finish, ExecTypes
<1>4. ExecOK(r)
  <2>1. InCurrentRuntime \in SUBSET Keys
    BY DEF InCurrentRuntime
  <2> QED
    BY <1>1, <2>1 DEF ExecOK, ExecType, AtLastOp
<1> QED
  BY <1>3, <1>4, ExecStep

LEMMA GoneStep ==
  ASSUME ExecTypes, NEW e \in Executors, CompileFails(e) \/ Destroy(e)
  PROVE  /\ ExecTypes' /\ exec'[e] = NoExecutor
         /\ \A x \in Executors \ {e} : exec'[x] = exec[x]
BY NoExecutorOK, ExecStep DEF CompileFails, Destroy

\* The types of the cache, step by step.
LEMMA PackMissTypes ==
  ASSUME CacheTypes, ExecTypes, NEW e \in Executors, PackMiss(e)
  PROVE  CacheTypes'
<1> DEFINE op == CurrentOp(e)
           k == Key(e, op)
           entry == [offset |-> NextOffset, ref_count |-> 0, in_current_runtime |-> TRUE, seed |-> op.seed]
<1>1. op \in Op /\ op.seed \in Nat /\ k \in Keys
  BY CurrentOpType, KeyType DEF PackMiss, Op
<1>2. entry \in EntryType
  BY <1>1 DEF CacheTypes, EntryType, NextOffset
<1>3. PICK ptr \in 1 .. Cardinality(DOMAIN containers) + 1 :
        /\ ptr \notin DOMAIN containers
        /\ containers' = [p \in DOMAIN containers \cup {ptr} |-> IF p = ptr THEN op ELSE containers[p]]
        /\ packed_data_ptrs' = Append(packed_data_ptrs, ptr)
  BY DEF PackMiss
<1>4. ptr \in Nat \ {0}
  OBVIOUS
<1>5. metadata' = IF Registered(e, op.kernel)
                  THEN [n \in DOMAIN metadata \cup {k} |-> IF n = k THEN entry ELSE metadata[n]]
                  ELSE metadata
  BY DEF PackMiss
<1> HIDE DEF op, k, entry
<1>6. metadata' \in [DOMAIN metadata' -> EntryType] /\ DOMAIN metadata' \subseteq Keys
  BY <1>1, <1>2, <1>5 DEF CacheTypes
<1>7. containers' \in [DOMAIN containers' -> Op] /\ DOMAIN containers' \subseteq Nat \ {0}
  BY <1>1, <1>3, <1>4 DEF CacheTypes
<1>8. packed_data_ptrs' \in Seq(Nat)
  BY <1>3, <1>4 DEF CacheTypes
<1> QED
  BY <1>6, <1>7, <1>8 DEF CacheTypes, PackMiss

\* delete_packed_data leaves some entries out and counts others down.
LEMMA DeleteTypes ==
  ASSUME CacheTypes, NEW names \in SUBSET DOMAIN metadata, NEW complete \in BOOLEAN,
         DeleteEntries(names, complete)
  PROVE  /\ metadata' \in [DOMAIN metadata' -> EntryType] /\ DOMAIN metadata' \subseteq Keys
         /\ packed_data_ptrs' \in Seq(Nat)
         /\ containers' \in [DOMAIN containers' -> Op] /\ DOMAIN containers' \subseteq Nat \ {0}
<1> DEFINE gone == Released(names)
           slots == {metadata[n].offset + 1 : n \in gone}
           ptrs == [i \in DOMAIN packed_data_ptrs |-> IF i \in slots THEN 0 ELSE packed_data_ptrs[i]]
           left == Remaining(gone)
<1>1. /\ containers' = [p \in DOMAIN containers \ {packed_data_ptrs[i] : i \in slots} |-> containers[p]]
      /\ metadata' = [n \in left |-> IF n \in names
                                     THEN [metadata[n] EXCEPT !.ref_count = Decremented(@)] ELSE metadata[n]]
      /\ packed_data_ptrs' = IF complete /\ left = {} THEN Unloaded(ptrs) ELSE ptrs
  BY DEF DeleteEntries
<1>2. left \subseteq DOMAIN metadata
  BY DEF Remaining
<1>3. ptrs \in Seq(Nat) /\ Unloaded(ptrs) \in Seq(Nat)
  <2>1. packed_data_ptrs \in Seq(Nat)
    BY DEF CacheTypes
  <2>2. packed_data_ptrs \in [1 .. Len(packed_data_ptrs) -> Nat]
        /\ DOMAIN packed_data_ptrs = 1 .. Len(packed_data_ptrs) /\ Len(packed_data_ptrs) \in Nat
    BY <2>1
  <2> HIDE DEF slots
  <2>3. ptrs \in [1 .. Len(packed_data_ptrs) -> Nat]
    BY <2>2
  <2> QED
    BY <2>2, <2>3 DEF Unloaded
<1> HIDE DEF gone, slots, ptrs, left
<1>4. ASSUME NEW n \in DOMAIN metadata
      PROVE  [metadata[n] EXCEPT !.ref_count = Decremented(@)] \in EntryType
  BY BoundsAssumption DEF CacheTypes, EntryType, Decremented
<1>5. metadata' \in [left -> EntryType]
  BY <1>1, <1>2, <1>4 DEF CacheTypes
<1>6. DOMAIN metadata' = left
  BY <1>1
<1> QED
  BY <1>1, <1>2, <1>3, <1>5, <1>6 DEF CacheTypes

\* delete_packed_data does nothing to the metadata, or deletes entries of some names.
LEMMA DeleteCases ==
  ASSUME NEW names, DeletePackedData(names)
  PROVE  \/ UNCHANGED <<metadata, packed_data_ptrs, containers>> /\ (names = {} \/ ~is_finalized)
         \/ /\ is_finalized
            /\ \E some \in SUBSET (names \cap DOMAIN metadata), complete \in BOOLEAN :
                 /\ DeleteEntries(some, complete)
                 /\ names \subseteq DOMAIN metadata => complete /\ some = names
BY DEF DeletePackedData

\* Counting a runtime in.
LEMMA CountedIs ==
  ASSUME NEW m \in EntryType
  PROVE  Counted(m) = [offset |-> m.offset, ref_count |-> m.ref_count + 1,
                       in_current_runtime |-> FALSE, seed |-> m.seed]
<1> DEFINE o == m.offset
           r == m.ref_count
           i == m.in_current_runtime
           s == m.seed
           c == r + 1
           w == [m EXCEPT !.ref_count = c]
<1>1. m = [offset |-> o, ref_count |-> r, in_current_runtime |-> i, seed |-> s]
  BY DEF EntryType
<1>2. w = [offset |-> o, ref_count |-> c, in_current_runtime |-> i, seed |-> s]
  <2> HIDE DEF o, r, i, s, c
  <2> QED
    BY <1>1, Z3
<1>3. [w EXCEPT !.in_current_runtime = FALSE]
        = [offset |-> o, ref_count |-> c, in_current_runtime |-> FALSE, seed |-> s]
  <2> HIDE DEF o, r, i, s, c, w
  <2>1. \A v : [w EXCEPT !.in_current_runtime = v]
                 = [offset |-> o, ref_count |-> c, in_current_runtime |-> v, seed |-> s]
    BY <1>2, Z3
  <2> QED
    BY <2>1
<1> QED
  BY <1>3 DEF Counted

LEMMA TypesNext == Types /\ [Next]_vars => Types'
<1> SUFFICES ASSUME Types, [Next]_vars PROVE Types'
  OBVIOUS
<1> USE DEF Types
<1>1. ASSUME NEW e \in Executors, NEW g \in Graphs, Begin(e, g) PROVE Types'
  <2>1. compiles' \in 0 .. MaxCompiles
    BY <1>1, BoundsAssumption DEF Begin
  <2> QED
    BY <1>1, <2>1, BeginStep DEF Begin, CacheTypes
<1>2. ASSUME NEW e \in Executors, DefineTensors(e) PROVE Types'
  <2>1. unpacked' \subseteq Executors \X Named
    BY <1>2 DEF DefineTensors, CacheTypes
  <2> QED
    BY <1>2, <2>1, DefineStep DEF DefineTensors, CacheTypes
<1>3. ASSUME NEW e \in Executors, CreateRuntime(e) PROVE Types'
  BY <1>3, CreateStep DEF CreateRuntime, CacheTypes, cache
<1>4. ASSUME NEW e \in Executors, PackHit(e) PROVE Types'
  <2> DEFINE k == Key(e, CurrentOp(e))
  <2>1. k \in DOMAIN metadata /\ metadata[k].offset \in Int
    BY <1>4 DEF PackHit, Hit, CacheTypes, EntryType
  <2>2. ExecTypes'
    BY <1>4, <2>1, UsesStep DEF PackHit
  <2>3. metadata' = [metadata EXCEPT ![k] = [@ EXCEPT !.in_current_runtime = TRUE]]
    BY <1>4 DEF PackHit, Mark, CacheTypes
  <2>4. [metadata[k] EXCEPT !.in_current_runtime = TRUE] \in EntryType
    BY <2>1 DEF CacheTypes, EntryType
  <2>5. metadata' \in [DOMAIN metadata' -> EntryType] /\ DOMAIN metadata' = DOMAIN metadata
    BY <2>1, <2>3, <2>4 DEF CacheTypes
  <2> QED
    BY <1>4, <2>2, <2>5 DEF PackHit, CacheTypes
<1>5. ASSUME NEW e \in Executors, PackMiss(e) PROVE Types'
  <2>1. NextOffset \in Int
    BY DEF NextOffset, CacheTypes
  <2> QED
    BY <1>5, <2>1, PackMissTypes, UsesStep DEF PackMiss
<1>6. ASSUME NEW e \in Executors, PackPrivate(e) PROVE Types'
  <2>1. Private \in Int
    BY DEF Private
  <2> QED
    BY <1>6, <2>1, UsesStep DEF PackPrivate, CacheTypes, cache
<1>7. ASSUME NEW e \in Executors, Finish(e) PROVE Types'
  <2>1. \A n \in DOMAIN metadata : Counted(metadata[n]) \in EntryType
    <3> SUFFICES ASSUME NEW n \in DOMAIN metadata PROVE Counted(metadata[n]) \in EntryType
      OBVIOUS
    <3>1. metadata[n] \in EntryType
      BY DEF CacheTypes
    <3>2. metadata[n].offset \in Nat /\ metadata[n].ref_count + 1 \in Nat /\ metadata[n].seed \in Nat
      BY <3>1 DEF EntryType
    <3>3. Counted(metadata[n]) = [offset |-> metadata[n].offset, ref_count |-> metadata[n].ref_count + 1,
                                  in_current_runtime |-> FALSE, seed |-> metadata[n].seed]
      BY <3>1, CountedIs
    <3> QED
      BY <3>2, <3>3 DEF EntryType
  <2>2. metadata' \in [DOMAIN metadata' -> EntryType] /\ DOMAIN metadata' = DOMAIN metadata
    BY <1>7, <2>1 DEF Finish, CacheTypes
  <2>3. ExecTypes'
    BY <1>7, FinishStep DEF CacheTypes
  <2> QED
    BY <1>7, <2>2, <2>3 DEF Finish, CacheTypes
<1>8. ASSUME NEW e \in Executors, CompileFails(e) PROVE Types'
  BY <1>8, GoneStep DEF CompileFails, CacheTypes, cache
<1>9. ASSUME NEW e \in Executors, Destroy(e) PROVE Types'
  <2>1. ExecTypes'
    BY <1>9, GoneStep
  <2>2. CacheTypes'
    <3>1. CASE UNCHANGED <<metadata, packed_data_ptrs, containers>>
      BY <1>9, <3>1 DEF Destroy, CacheTypes
    <3>2. ASSUME NEW some \in SUBSET DOMAIN metadata, NEW complete \in BOOLEAN,
                 DeleteEntries(some, complete)
          PROVE  CacheTypes'
      BY <1>9, <3>2, DeleteTypes DEF Destroy, CacheTypes
    <3> QED
      BY <1>9, <3>1, <3>2, DeleteCases DEF Destroy
  <2> QED
    BY <1>9, <2>1, <2>2 DEF Destroy
<1>10. CASE UNCHANGED vars
  BY <1>10 DEF vars, cache, CacheTypes, ExecTypes
<1> QED
  BY <1>1, <1>2, <1>3, <1>4, <1>5, <1>6, <1>7, <1>8, <1>9, <1>10 DEF Next

LEMMA TypesInit == Init => Types
<1> SUFFICES ASSUME Init PROVE Types
  OBVIOUS
<1>1. ExecTypes
  BY NoExecutorOK, ExecTypesIs DEF Init, ExecOK
<1>2. CacheTypes
  <2>1. DOMAIN <<>> = {} /\ <<>> \in Seq(Nat)
    OBVIOUS
  <2> DEFINE nil == <<>>
  <2>2. nil = [x \in {} |-> 0]
    OBVIOUS
  <2> HIDE DEF nil
  <2>3. \A S : nil \in [{} -> S]
    BY <2>2
  <2> QED
    BY <2>1, <2>3 DEF Init, CacheTypes, nil
<1> QED
  <2>1. compiles \in 0 .. MaxCompiles /\ failed \in BOOLEAN
    <3>1. 0 \in 0 .. MaxCompiles
      BY BoundsAssumption
    <3> QED
      BY <3>1 DEF Init
  <2> QED
    BY <1>1, <1>2, <2>1 DEF Types

-----------------------------------------------------------------------------
(* Slots *)

\* The pointer of an entry.
PtrOf(n) == packed_data_ptrs[metadata[n].offset + 1]

\* An entry has its slot to itself, its pointer has a buffer, and no two slots have
\* one pointer: so what a deletion frees belongs to the deleted entries.
EntriesOwn == \A n \in DOMAIN metadata :
    /\ metadata[n].offset < Len(packed_data_ptrs)
    /\ PtrOf(n) \in DOMAIN containers
    /\ containers[PtrOf(n)].seed = metadata[n].seed
    /\ n \in {<<containers[PtrOf(n)].kernel>>,
              <<containers[PtrOf(n)].kernel, containers[PtrOf(n)].bias>>}
OffsetsDiffer == \A m, n \in DOMAIN metadata : m # n => metadata[m].offset # metadata[n].offset
PtrsBacked == \A i \in 1 .. Len(packed_data_ptrs) :
    packed_data_ptrs[i] # 0 => packed_data_ptrs[i] \in DOMAIN containers
PtrsDiffer == \A i, j \in 1 .. Len(packed_data_ptrs) :
    i # j /\ packed_data_ptrs[i] = packed_data_ptrs[j] => packed_data_ptrs[i] = 0

SlotsInv == EntriesOwn /\ OffsetsDiffer /\ PtrsBacked /\ PtrsDiffer

\* What packing an operator does to slots and buffers.
LEMMA PackMissIs ==
  ASSUME Types, NEW e \in Executors, PackMiss(e)
  PROVE  LET L == Len(packed_data_ptrs)
             op == CurrentOp(e)
             ptr == packed_data_ptrs'[L + 1] IN
         /\ L \in Nat /\ Len(packed_data_ptrs') = L + 1
         /\ \A i \in 1 .. L : packed_data_ptrs'[i] = packed_data_ptrs[i]
         /\ ptr \notin DOMAIN containers /\ ptr \in Nat \ {0}
         /\ DOMAIN containers' = DOMAIN containers \cup {ptr} /\ containers'[ptr] = op
         /\ \A p \in DOMAIN containers : containers'[p] = containers[p]
<1> DEFINE L == Len(packed_data_ptrs)
           op == CurrentOp(e)
<1>1. PICK q \in 1 .. Cardinality(DOMAIN containers) + 1 :
        /\ q \notin DOMAIN containers
        /\ containers' = [p \in DOMAIN containers \cup {q} |-> IF p = q THEN op ELSE containers[p]]
        /\ packed_data_ptrs' = Append(packed_data_ptrs, q)
  BY DEF PackMiss
<1>2. packed_data_ptrs \in Seq(Nat) /\ q \in Nat \ {0}
  BY DEF Types, CacheTypes
<1>3. /\ L \in Nat /\ Len(packed_data_ptrs') = L + 1 /\ packed_data_ptrs'[L + 1] = q
      /\ \A i \in 1 .. L : packed_data_ptrs'[i] = packed_data_ptrs[i]
  BY <1>1, <1>2
<1> HIDE DEF L, op
<1> QED
  BY <1>1, <1>2, <1>3 DEF L, op

\* ... and to the metadata.
LEMMA PackMissEntry ==
  ASSUME Types, NEW e \in Executors, PackMiss(e)
  PROVE  LET op == CurrentOp(e)
             k == Key(e, op) IN
         \/ ~Registered(e, op.kernel) /\ metadata' = metadata
         \/ /\ Registered(e, op.kernel) /\ DOMAIN metadata' = DOMAIN metadata \cup {k}
            /\ metadata'[k] = [offset |-> Len(packed_data_ptrs), ref_count |-> 0,
                               in_current_runtime |-> TRUE, seed |-> op.seed]
            /\ \A n \in DOMAIN metadata \ {k} : metadata'[n] = metadata[n]
BY DEF PackMiss, NextOffset

LEMMA PackMissSlots ==
  ASSUME Types, SlotsInv, NEW e \in Executors, PackMiss(e)
  PROVE  SlotsInv'
<1> DEFINE L == Len(packed_data_ptrs)
           op == CurrentOp(e)
           k == Key(e, op)
           ptr == packed_data_ptrs'[L + 1]
           entry == [offset |-> L, ref_count |-> 0, in_current_runtime |-> TRUE, seed |-> op.seed]
<1>1. /\ L \in Nat /\ Len(packed_data_ptrs') = L + 1
      /\ \A i \in 1 .. L : packed_data_ptrs'[i] = packed_data_ptrs[i]
      /\ ptr \notin DOMAIN containers /\ ptr \in Nat \ {0}
      /\ DOMAIN containers' = DOMAIN containers \cup {ptr} /\ containers'[ptr] = op
      /\ \A p \in DOMAIN containers : containers'[p] = containers[p]
  BY PackMissIs
<1>2. \/ metadata' = metadata
      \/ /\ DOMAIN metadata' = DOMAIN metadata \cup {k} /\ metadata'[k] = entry
         /\ \A n \in DOMAIN metadata \ {k} : metadata'[n] = metadata[n]
  BY PackMissEntry
<1>3. k \in {<<op.kernel>>, <<op.kernel, op.bias>>}
  BY DEF Key
<1>4. \A n \in DOMAIN metadata : metadata[n].offset \in Nat /\ metadata[n].offset < L
  BY DEF Types, CacheTypes, EntryType, SlotsInv, EntriesOwn
<1>5. entry.offset = L /\ entry.seed = op.seed
  OBVIOUS
<1> HIDE DEF L, op, k, ptr, entry
<1>6. \A n \in DOMAIN metadata' :
         \/ n = k /\ metadata'[n] = entry
         \/ n \in DOMAIN metadata /\ metadata'[n] = metadata[n]
  BY <1>2
<1>7. EntriesOwn'
  <2> SUFFICES ASSUME NEW n \in DOMAIN metadata'
               PROVE  /\ metadata'[n].offset < Len(packed_data_ptrs')
                      /\ PtrOf(n)' \in DOMAIN containers'
                      /\ containers'[PtrOf(n)'].seed = metadata'[n].seed
                      /\ n \in {<<containers'[PtrOf(n)'].kernel>>,
                                <<containers'[PtrOf(n)'].kernel, containers'[PtrOf(n)'].bias>>}
    BY DEF EntriesOwn
  <2>1. CASE n = k /\ metadata'[n] = entry
    <3>1. PtrOf(n)' = ptr
      BY <1>5, <2>1 DEF PtrOf, ptr
    <3> QED
      BY <1>1, <1>3, <1>5, <2>1, <3>1
  <2>2. CASE n \in DOMAIN metadata /\ metadata'[n] = metadata[n]
    <3>1. PtrOf(n)' = PtrOf(n)
      BY <1>1, <1>4, <2>2 DEF PtrOf
    <3>2. /\ PtrOf(n) \in DOMAIN containers /\ containers[PtrOf(n)].seed = metadata[n].seed
          /\ n \in {<<containers[PtrOf(n)].kernel>>,
                    <<containers[PtrOf(n)].kernel, containers[PtrOf(n)].bias>>}
      BY <2>2 DEF SlotsInv, EntriesOwn
    <3>3. containers'[PtrOf(n)] = containers[PtrOf(n)] /\ PtrOf(n) \in DOMAIN containers'
      BY <1>1, <3>2
    <3>4. metadata'[n].offset < L + 1
      BY <1>1, <1>4, <2>2
    <3> QED
      BY <1>1, <2>2, <3>1, <3>2, <3>3, <3>4
  <2> QED
    BY <1>6, <2>1, <2>2
<1>8. OffsetsDiffer'
  <2>1. \A n \in DOMAIN metadata : metadata[n].offset # L
    BY <1>1, <1>4
  <2> QED
    BY <1>5, <1>6, <2>1 DEF SlotsInv, OffsetsDiffer
<1>9. PtrsBacked'
  <2> SUFFICES ASSUME NEW i \in 1 .. Len(packed_data_ptrs'), packed_data_ptrs'[i] # 0
               PROVE  packed_data_ptrs'[i] \in DOMAIN containers'
    BY DEF PtrsBacked
  <2>1. CASE i = L + 1
    BY <1>1, <2>1 DEF ptr
  <2>2. CASE i \in 1 .. L
    BY <1>1, <2>2 DEF SlotsInv, PtrsBacked, L
  <2> QED
    BY <1>1, <2>1, <2>2
<1>10. PtrsDiffer'
  <2> SUFFICES ASSUME NEW i \in 1 .. Len(packed_data_ptrs'), NEW j \in 1 .. Len(packed_data_ptrs'),
                      i # j, packed_data_ptrs'[i] = packed_data_ptrs'[j]
               PROVE  packed_data_ptrs'[i] = 0
    BY DEF PtrsDiffer
  <2>1. ASSUME NEW h \in 1 .. L PROVE packed_data_ptrs'[h] # ptr
    BY <1>1, <2>1 DEF SlotsInv, PtrsBacked, L
  <2>2. CASE i \in 1 .. L /\ j \in 1 .. L
    BY <1>1, <2>2 DEF SlotsInv, PtrsDiffer, L
  <2>3. CASE i = L + 1 /\ j \in 1 .. L
    BY <2>1, <2>3 DEF ptr
  <2>4. CASE j = L + 1 /\ i \in 1 .. L
    BY <2>1, <2>4 DEF ptr
  <2> QED
    BY <1>1, <2>2, <2>3, <2>4
<1> QED
  BY <1>7, <1>8, <1>9, <1>10 DEF SlotsInv

\* What is left after a deletion: entries and buffers, and unless all entries are gone
\* the slots.
EntriesDeleted(names) ==
    /\ DOMAIN metadata' = DOMAIN metadata \ Released(names) /\ Released(names) \subseteq names
    /\ \A n \in DOMAIN metadata' :
         /\ metadata'[n].offset = metadata[n].offset /\ metadata'[n].seed = metadata[n].seed
         /\ metadata'[n].in_current_runtime = metadata[n].in_current_runtime
         /\ n \in names => metadata'[n].ref_count = Decremented(metadata[n].ref_count)
         /\ n \notin names => metadata'[n].ref_count = metadata[n].ref_count
BuffersDeleted(names) ==
    /\ DOMAIN containers' = DOMAIN containers \ {PtrOf(n) : n \in Released(names)}
    /\ \A p \in DOMAIN containers' : containers'[p] = containers[p]
SlotsDeleted(names) ==
    /\ Len(packed_data_ptrs') = Len(packed_data_ptrs)
    /\ \A i \in 1 .. Len(packed_data_ptrs) :
         packed_data_ptrs'[i] = IF \E n \in Released(names) : i = metadata[n].offset + 1
                                THEN 0 ELSE packed_data_ptrs[i]

LEMMA DeleteIs ==
  ASSUME Types, SlotsInv, NEW names \in SUBSET DOMAIN metadata, NEW complete \in BOOLEAN,
         DeleteEntries(names, complete)
  PROVE  /\ EntriesDeleted(names) /\ BuffersDeleted(names)
         /\ \/ complete /\ DOMAIN metadata' = {} /\ packed_data_ptrs' = <<>>
            \/ ~(complete /\ DOMAIN metadata' = {}) /\ SlotsDeleted(names)
<1> DEFINE gone == Released(names)
           slots == {metadata[n].offset + 1 : n \in gone}
           ptrs == [i \in DOMAIN packed_data_ptrs |-> IF i \in slots THEN 0 ELSE packed_data_ptrs[i]]
           left == Remaining(gone)
           F(n) == [offset |-> metadata[n].offset,
                    ref_count |-> Decremented(metadata[n].ref_count),
                    in_current_runtime |-> metadata[n].in_current_runtime,
                    seed |-> metadata[n].seed]
<1>1. /\ containers' = [p \in DOMAIN containers \ {packed_data_ptrs[i] : i \in slots} |-> containers[p]]
      /\ metadata' = [n \in left |-> IF n \in names
                                     THEN [metadata[n] EXCEPT !.ref_count = Decremented(@)] ELSE metadata[n]]
      /\ packed_data_ptrs' = IF complete /\ left = {} THEN Unloaded(ptrs) ELSE ptrs
  BY DEF DeleteEntries
<1>2. left = DOMAIN metadata \ gone /\ gone \subseteq names
  BY DEF Remaining, Released
<1>3. ASSUME NEW n \in DOMAIN metadata
      PROVE  [metadata[n] EXCEPT !.ref_count = Decremented(@)] = F(n)
  <2> DEFINE o == metadata[n].offset
             r == metadata[n].ref_count
             i == metadata[n].in_current_runtime
             s == metadata[n].seed
             d == Decremented(r)
             m == metadata[n]
  <2>1. m = [offset |-> o, ref_count |-> r, in_current_runtime |-> i, seed |-> s]
    BY DEF Types, CacheTypes, EntryType
  <2>2. [m EXCEPT !.ref_count = d] = [offset |-> o, ref_count |-> d, in_current_runtime |-> i, seed |-> s]
    <3> HIDE DEF o, r, i, s, d, m
    <3> QED
      BY <2>1, Z3
  <2> QED
    BY <2>2
<1>4. {packed_data_ptrs[i] : i \in slots} = {PtrOf(n) : n \in gone}
  BY DEF PtrOf
<1>5. /\ DOMAIN packed_data_ptrs = 1 .. Len(packed_data_ptrs) /\ Len(packed_data_ptrs) \in Nat
  BY DEF Types, CacheTypes
<1>6. DOMAIN ptrs = 1 .. Len(packed_data_ptrs) /\ Len(ptrs) = Len(packed_data_ptrs)
  BY <1>5
<1>7. \A i \in 1 .. Len(packed_data_ptrs) :
        ptrs[i] = IF \E n \in gone : i = metadata[n].offset + 1 THEN 0 ELSE packed_data_ptrs[i]
  BY <1>5
<1> HIDE DEF gone, slots, ptrs, left, F
<1>8. DOMAIN metadata' = DOMAIN metadata \ gone
  BY <1>1, <1>2
<1>9. \A n \in DOMAIN metadata' : metadata'[n] = IF n \in names THEN F(n) ELSE metadata[n]
  BY <1>1, <1>2, <1>3, <1>8
<1>10. DOMAIN containers' = DOMAIN containers \ {PtrOf(n) : n \in gone}
       /\ \A p \in DOMAIN containers' : containers'[p] = containers[p]
  BY <1>1, <1>4
<1>11. \/ complete /\ DOMAIN metadata' = {} /\ packed_data_ptrs' = <<>>
       \/ ~(complete /\ DOMAIN metadata' = {}) /\ packed_data_ptrs' = ptrs
  BY <1>1, <1>2, <1>8 DEF Unloaded
<1>12. \A n \in DOMAIN metadata' :
         /\ metadata'[n].offset = metadata[n].offset /\ metadata'[n].seed = metadata[n].seed
         /\ metadata'[n].in_current_runtime = metadata[n].in_current_runtime
         /\ n \in names => metadata'[n].ref_count = Decremented(metadata[n].ref_count)
         /\ n \notin names => metadata'[n].ref_count = metadata[n].ref_count
  <2>1. \A n : /\ F(n).offset = metadata[n].offset /\ F(n).seed = metadata[n].seed
               /\ F(n).in_current_runtime = metadata[n].in_current_runtime
               /\ F(n).ref_count = Decremented(metadata[n].ref_count)
    BY DEF F
  <2> QED
    BY <1>9, <2>1
<1>13. EntriesDeleted(names) /\ BuffersDeleted(names)
  BY <1>2, <1>8, <1>10, <1>12 DEF EntriesDeleted, BuffersDeleted, gone
<1>14. packed_data_ptrs' = ptrs => SlotsDeleted(names)
  BY <1>6, <1>7 DEF SlotsDeleted, gone
<1> QED
  BY <1>11, <1>13, <1>14

\* An entry that is left keeps its slot, its pointer and its buffer.
LEMMA DeleteKeeps ==
  ASSUME Types, SlotsInv, NEW names \in SUBSET DOMAIN metadata, NEW complete \in BOOLEAN,
         DeleteEntries(names, complete), NEW n \in DOMAIN metadata'
  PROVE  /\ n \in DOMAIN metadata /\ metadata'[n].offset = metadata[n].offset
         /\ metadata'[n].seed = metadata[n].seed
         /\ Len(packed_data_ptrs') = Len(packed_data_ptrs) /\ PtrOf(n)' = PtrOf(n)
         /\ PtrOf(n) \in DOMAIN containers' /\ containers'[PtrOf(n)] = containers[PtrOf(n)]
<1> DEFINE gone == Released(names)
<1>0. EntriesDeleted(names) /\ BuffersDeleted(names) /\ SlotsDeleted(names)
  BY DeleteIs
<1>1. /\ n \in DOMAIN metadata \ gone /\ gone \subseteq DOMAIN metadata
      /\ metadata'[n].offset = metadata[n].offset /\ metadata'[n].seed = metadata[n].seed
  BY <1>0 DEF EntriesDeleted
<1>2. /\ Len(packed_data_ptrs') = Len(packed_data_ptrs)
      /\ \A i \in 1 .. Len(packed_data_ptrs) :
           packed_data_ptrs'[i] = IF \E m \in gone : i = metadata[m].offset + 1
                                  THEN 0 ELSE packed_data_ptrs[i]
      /\ DOMAIN containers' = DOMAIN containers \ {PtrOf(m) : m \in gone}
      /\ \A p \in DOMAIN containers' : containers'[p] = containers[p]
  BY <1>0 DEF BuffersDeleted, SlotsDeleted
<1> HIDE DEF gone
<1> DEFINE i == metadata[n].offset + 1
<1>3. /\ i \in 1 .. Len(packed_data_ptrs) /\ packed_data_ptrs[i] = PtrOf(n)
      /\ PtrOf(n) \in DOMAIN containers /\ PtrOf(n) # 0
  BY <1>1 DEF Types, CacheTypes, EntryType, SlotsInv, EntriesOwn, PtrOf
<1>4. ASSUME NEW m \in gone
      PROVE  i # metadata[m].offset + 1 /\ PtrOf(m) # PtrOf(n)
  <2> DEFINE j == metadata[m].offset + 1
  <2>1. /\ j \in 1 .. Len(packed_data_ptrs) /\ packed_data_ptrs[j] = PtrOf(m)
        /\ metadata[m].offset \in Nat /\ metadata[n].offset \in Nat
        /\ metadata[m].offset # metadata[n].offset
    BY <1>1 DEF Types, CacheTypes, EntryType, SlotsInv, EntriesOwn, OffsetsDiffer, PtrOf
  <2>2. i # j
    BY <2>1
  <2> HIDE DEF i, j
  <2>3. PtrOf(m) # PtrOf(n)
    BY <1>3, <2>1, <2>2 DEF SlotsInv, PtrsDiffer
  <2> QED
    BY <2>2, <2>3 DEF j
<1>5. PtrOf(n)' = PtrOf(n)
  <2>1. packed_data_ptrs'[i] = packed_data_ptrs[i]
    BY <1>2, <1>3, <1>4
  <2> QED
    BY <1>1, <1>3, <2>1 DEF PtrOf
<1>6. PtrOf(n) \in DOMAIN containers'
  BY <1>2, <1>3, <1>4
<1> QED
  BY <1>1, <1>2, <1>5, <1>6

LEMMA DeleteSlots ==
  ASSUME Types, SlotsInv, NEW names \in SUBSET DOMAIN metadata, NEW complete \in BOOLEAN,
         DeleteEntries(names, complete)
  PROVE  SlotsInv'
<1> DEFINE gone == Released(names)
<1>1. EntriesOwn'
  BY DeleteKeeps DEF SlotsInv, EntriesOwn
<1>2. OffsetsDiffer'
  BY DeleteKeeps DEF SlotsInv, OffsetsDiffer
<1>3. CASE complete /\ DOMAIN metadata' = {}
  <2>0. packed_data_ptrs' = <<>>
    BY <1>3, DeleteIs
  <2>1. Len(packed_data_ptrs') = 0
    BY <2>0
  <2> QED
    BY <1>1, <1>2, <2>1 DEF SlotsInv, PtrsBacked, PtrsDiffer
<1>4. CASE ~(complete /\ DOMAIN metadata' = {})
  <2>1. /\ Len(packed_data_ptrs') = Len(packed_data_ptrs)
        /\ \A i \in 1 .. Len(packed_data_ptrs) :
             packed_data_ptrs'[i] = IF \E m \in gone : i = metadata[m].offset + 1
                                    THEN 0 ELSE packed_data_ptrs[i]
        /\ DOMAIN containers' = DOMAIN containers \ {PtrOf(m) : m \in gone}
        /\ gone \subseteq DOMAIN metadata
    <3>1. EntriesDeleted(names) /\ BuffersDeleted(names) /\ SlotsDeleted(names)
      BY <1>4, DeleteIs
    <3> QED
      BY <3>1 DEF EntriesDeleted, BuffersDeleted, SlotsDeleted
  <2> HIDE DEF gone
  <2>2. PtrsBacked'
    <3> SUFFICES ASSUME NEW i \in 1 .. Len(packed_data_ptrs'), packed_data_ptrs'[i] # 0
                 PROVE  packed_data_ptrs'[i] \in DOMAIN containers'
      BY DEF PtrsBacked
    <3>1. /\ packed_data_ptrs'[i] = packed_data_ptrs[i] /\ packed_data_ptrs[i] \in DOMAIN containers
          /\ \A m \in gone : i # metadata[m].offset + 1
      BY <2>1 DEF SlotsInv, PtrsBacked
    <3>2. ASSUME NEW m \in gone PROVE PtrOf(m) # packed_data_ptrs[i]
      <4> DEFINE j == metadata[m].offset + 1
      <4>1. j \in 1 .. Len(packed_data_ptrs) /\ packed_data_ptrs[j] = PtrOf(m) /\ PtrOf(m) # 0
        BY <2>1 DEF Types, CacheTypes, EntryType, SlotsInv, EntriesOwn, PtrOf
      <4>2. i # j
        BY <3>1
      <4> HIDE DEF j
      <4> QED
        BY <2>1, <4>1, <4>2 DEF SlotsInv, PtrsDiffer
    <3> QED
      BY <2>1, <3>1, <3>2
  <2>3. PtrsDiffer'
    BY <2>1 DEF SlotsInv, PtrsDiffer
  <2> QED
    BY <1>1, <1>2, <2>2, <2>3 DEF SlotsInv
<1> QED
  BY <1>3, <1>4

\* A hit and a finish change flags and counts only.
LEMMA SameSlots ==
  ASSUME SlotsInv, UNCHANGED <<packed_data_ptrs, containers>>, DOMAIN metadata' = DOMAIN metadata,
         \A n \in DOMAIN metadata : /\ metadata'[n].offset = metadata[n].offset
                                    /\ metadata'[n].seed = metadata[n].seed
  PROVE  SlotsInv' /\ \A n \in DOMAIN metadata : PtrOf(n)' = PtrOf(n)
BY DEF SlotsInv, EntriesOwn, OffsetsDiffer, PtrsBacked, PtrsDiffer, PtrOf

LEMMA PackHitIs ==
  ASSUME Types, NEW e \in Executors, PackHit(e)
  PROVE  LET k == Key(e, CurrentOp(e)) IN
         /\ k \in DOMAIN metadata /\ DOMAIN metadata' = DOMAIN metadata
         /\ \A n \in DOMAIN metadata :
              /\ metadata'[n].offset = metadata[n].offset /\ metadata'[n].seed = metadata[n].seed
              /\ metadata'[n].ref_count = metadata[n].ref_count
              /\ metadata'[n].in_current_runtime = (n = k \/ metadata[n].in_current_runtime)
<1> DEFINE k == Key(e, CurrentOp(e))
<1>1. k \in DOMAIN metadata /\ metadata' = [metadata EXCEPT ![k] = [@ EXCEPT !.in_current_runtime = TRUE]]
  BY DEF PackHit, Hit, Mark, Types, CacheTypes
<1>2. metadata \in [DOMAIN metadata -> EntryType]
  BY DEF Types, CacheTypes
<1> HIDE DEF k
<1>3. \A n \in DOMAIN metadata : metadata[n].in_current_runtime \in BOOLEAN
  BY <1>2 DEF EntryType
<1>4. DOMAIN metadata' = DOMAIN metadata /\ \A n \in DOMAIN metadata \ {k} : metadata'[n] = metadata[n]
  BY <1>1, <1>2
<1>5. /\ metadata'[k].offset = metadata[k].offset /\ metadata'[k].seed = metadata[k].seed
      /\ metadata'[k].ref_count = metadata[k].ref_count /\ metadata'[k].in_current_runtime = TRUE
  BY <1>1, <1>2 DEF EntryType
<1> QED
  BY <1>1, <1>3, <1>4, <1>5 DEF k

LEMMA FinishIs ==
  ASSUME Types, NEW e \in Executors, Finish(e)
  PROVE  /\ DOMAIN metadata' = DOMAIN metadata
         /\ \A n \in DOMAIN metadata :
              /\ metadata'[n].offset = metadata[n].offset /\ metadata'[n].seed = metadata[n].seed
              /\ metadata'[n].ref_count = IF metadata[n].in_current_runtime
                                          THEN metadata[n].ref_count + 1 ELSE metadata[n].ref_count
              /\ metadata'[n].in_current_runtime = FALSE
<1>1. /\ DOMAIN metadata' = DOMAIN metadata
      /\ \A n \in DOMAIN metadata : metadata'[n] = IF metadata[n].in_current_runtime
                                                   THEN Counted(metadata[n]) ELSE metadata[n]
  BY DEF Finish, InCurrentRuntime
<1>2. ASSUME NEW n \in DOMAIN metadata
      PROVE  /\ metadata[n] \in EntryType /\ metadata[n].in_current_runtime \in BOOLEAN
             /\ Counted(metadata[n]) = [offset |-> metadata[n].offset,
                                        ref_count |-> metadata[n].ref_count + 1,
                                        in_current_runtime |-> FALSE, seed |-> metadata[n].seed]
  <2>1. metadata[n] \in EntryType
    BY DEF Types, CacheTypes
  <2> QED
    BY <2>1, CountedIs DEF EntryType
<1> QED
  BY <1>1, <1>2

LEMMA SlotsNext == Types /\ SlotsInv /\ [Next]_vars => SlotsInv'
<1> SUFFICES ASSUME Types, SlotsInv, [Next]_vars PROVE SlotsInv'
  OBVIOUS
<1>1. CASE UNCHANGED <<metadata, packed_data_ptrs, containers>>
  BY <1>1, SameSlots
<1>2. ASSUME NEW e \in Executors, PackHit(e) PROVE SlotsInv'
  BY <1>2, PackHitIs, SameSlots DEF PackHit
<1>3. ASSUME NEW e \in Executors, PackMiss(e) PROVE SlotsInv'
  BY <1>3, PackMissSlots
<1>4. ASSUME NEW e \in Executors, Finish(e) PROVE SlotsInv'
  BY <1>4, FinishIs, SameSlots DEF Finish
<1>5. ASSUME NEW e \in Executors, Destroy(e) PROVE SlotsInv'
  <2>1. ASSUME NEW some \in SUBSET DOMAIN metadata, NEW complete \in BOOLEAN,
               DeleteEntries(some, complete)
        PROVE  SlotsInv'
    BY <2>1, DeleteSlots
  <2> QED
    BY <1>1, <1>5, <2>1, DeleteCases DEF Destroy
<1> QED
  BY <1>1, <1>2, <1>3, <1>4, <1>5
     DEF Next, Begin, DefineTensors, CreateRuntime, PackPrivate, CompileFails, cache, vars

-----------------------------------------------------------------------------
(* Counts *)

\* One compilation at a time, and not into a finalized cache; an entry that nobody
\* has counted is one of the current compilation or of one that failed, so nothing
\* is deleted before the next finish counts it; counts count finishes.
CountsInv ==
    /\ \A e, x \in Executors : Compiling(e) /\ Compiling(x) => e = x
    /\ \A e \in Executors : Compiling(e) => ~is_finalized /\ compiles # 0
    /\ \A n \in DOMAIN metadata :
         /\ is_finalized => ~metadata[n].in_current_runtime
         /\ metadata[n].ref_count = 0 => metadata[n].in_current_runtime
         /\ metadata[n].ref_count <= compiles
         /\ ~Unlocked => metadata[n].ref_count < compiles

\* Who compiles after a step of e.
LEMMA CompilingStep ==
  ASSUME NEW e \in Executors, \A x \in Executors \ {e} : exec'[x] = exec[x]
  PROVE  /\ \A x \in Executors \ {e} : Compiling(x)' <=> Compiling(x)
         /\ Compiling(e)' <=> exec'[e].state \in {"defining", "packing"}
BY DEF Compiling

LEMMA CountsNext == Types /\ SlotsInv /\ CountsInv /\ [Next]_vars => CountsInv'
<1> SUFFICES ASSUME Types, SlotsInv, CountsInv, [Next]_vars PROVE CountsInv'
  OBVIOUS
<1>0. \A n \in DOMAIN metadata : metadata[n].ref_count \in Nat /\ metadata[n].in_current_runtime \in BOOLEAN
  BY DEF Types, CacheTypes, EntryType
<1>00. compiles \in Nat /\ MaxCompiles \in Nat /\ ExecTypes
  BY BoundsAssumption DEF Types
<1>1. ASSUME NEW e \in Executors, NEW g \in Graphs, Begin(e, g) PROVE CountsInv'
  <2>1. /\ compiles' = compiles + 1 /\ is_finalized' = FALSE /\ metadata' = metadata
        /\ \A x \in Executors : Compiling(x)' <=> x = e
    <3> DEFINE r == [state |-> "defining", graph |-> g, pos |-> 0, uses |-> <<>>, names |-> {}]
    <3>0. exec'[e] = r /\ \A x \in Executors \ {e} : exec'[x] = exec[x]
      BY <1>00, <1>1, BeginStep
    <3>1. exec'[e].state = "defining" /\ \A x \in Executors \ {e} : exec'[x] = exec[x]
      BY <3>0
    <3> QED
      BY <1>1, <3>1, CompilingStep DEF Begin, Unlocked
  <2> QED
    BY <1>0, <1>00, <2>1 DEF CountsInv
<1>2. ASSUME NEW e \in Executors, DefineTensors(e) PROVE CountsInv'
  <2>1. /\ UNCHANGED <<compiles, is_finalized, metadata>>
        /\ \A x \in Executors : Compiling(x)' <=> Compiling(x)
    BY <1>00, <1>2, DefineStep DEF DefineTensors, Compiling
  <2> QED
    BY <2>1 DEF CountsInv, Unlocked
<1>3. ASSUME NEW e \in Executors, CreateRuntime(e) PROVE CountsInv'
  <2>1. /\ UNCHANGED <<compiles, is_finalized, metadata>>
        /\ \A x \in Executors : Compiling(x)' <=> Compiling(x)
    <3> DEFINE r == [state |-> "packing", graph |-> exec[e].graph, pos |-> 0,
                      uses |-> exec[e].uses, names |-> {}]
    <3>0. exec'[e] = r /\ \A x \in Executors \ {e} : exec'[x] = exec[x]
      BY <1>00, <1>3, CreateStep
    <3>1. exec'[e].state = "packing" /\ \A x \in Executors \ {e} : exec'[x] = exec[x]
      BY <3>0
    <3>2. Compiling(e)
      BY <1>3 DEF CreateRuntime, Compiling
    <3> QED
      BY <1>3, <3>1, <3>2, CompilingStep DEF CreateRuntime, cache
  <2> QED
    BY <2>1 DEF CountsInv, Unlocked
<1>4. ASSUME NEW e \in Executors, NEW offset \in Int, Uses(e, offset),
             exec[e].state = "packing", ~AtLastOp(e), UNCHANGED <<compiles, is_finalized>>,
             \A n \in DOMAIN metadata' :
               \/ metadata'[n].ref_count = 0 /\ metadata'[n].in_current_runtime
               \/ /\ n \in DOMAIN metadata /\ metadata'[n].ref_count = metadata[n].ref_count
                  /\ metadata[n].in_current_runtime => metadata'[n].in_current_runtime
      PROVE  CountsInv'
  <2>1. \A x \in Executors : Compiling(x)' <=> Compiling(x)
    <3> DEFINE r == [state |-> "packing", graph |-> exec[e].graph, pos |-> exec[e].pos + 1,
                      uses |-> Append(exec[e].uses, offset), names |-> {}]
    <3>0. exec'[e] = r /\ \A x \in Executors \ {e} : exec'[x] = exec[x]
      BY <1>00, <1>4, UsesStep
    <3>1. exec'[e].state = "packing" /\ \A x \in Executors \ {e} : exec'[x] = exec[x]
      BY <3>0
    <3>2. Compiling(e)
      BY <1>4 DEF Compiling
    <3> QED
      BY <3>1, <3>2, CompilingStep
  <2>2. ~is_finalized /\ compiles # 0 /\ ~Unlocked
    BY <1>4 DEF CountsInv, Compiling, Unlocked
  <2> QED
    BY <1>0, <1>00, <1>4, <2>1, <2>2 DEF CountsInv, Unlocked
<1>5. ASSUME NEW e \in Executors, PackHit(e) PROVE CountsInv'
  <2>1. metadata[Key(e, CurrentOp(e))].offset \in Int
    BY <1>5, PackHitIs DEF Types, CacheTypes, EntryType
  <2> QED
    BY <1>0, <1>4, <1>5, <2>1, PackHitIs DEF PackHit
<1>6. ASSUME NEW e \in Executors, PackMiss(e) PROVE CountsInv'
  <2>1. NextOffset \in Int
    BY DEF NextOffset, Types, CacheTypes
  <2> QED
    BY <1>0, <1>4, <1>6, <2>1, PackMissEntry DEF PackMiss
<1>7. ASSUME NEW e \in Executors, PackPrivate(e) PROVE CountsInv'
  <2>1. Private \in Int
    BY DEF Private
  <2> QED
    BY <1>4, <1>7, <2>1 DEF PackPrivate, cache
<1>8. ASSUME NEW e \in Executors, Finish(e) PROVE CountsInv'
  <2>1. /\ UNCHANGED compiles /\ \A x \in Executors : ~Compiling(x)'
    <3> DEFINE r == [state |-> "ready", graph |-> exec[e].graph, pos |-> exec[e].pos,
                      uses |-> exec[e].uses, names |-> InCurrentRuntime]
    <3>0. exec'[e] = r /\ \A x \in Executors \ {e} : exec'[x] = exec[x]
      BY <1>00, <1>8, FinishStep DEF Types, CacheTypes
    <3>1. exec'[e].state = "ready" /\ \A x \in Executors \ {e} : exec'[x] = exec[x]
      BY <3>0
    <3>2. Compiling(e)
      BY <1>8 DEF Finish, Compiling
    <3> QED
      BY <1>8, <3>1, <3>2, CompilingStep DEF Finish, CountsInv
  <2>2. ~Unlocked
    BY <1>8 DEF Finish, Unlocked, Compiling
  <2> QED
    <3>1. /\ DOMAIN metadata' = DOMAIN metadata
          /\ \A n \in DOMAIN metadata :
               /\ metadata'[n].ref_count = IF metadata[n].in_current_runtime
                                           THEN metadata[n].ref_count + 1 ELSE metadata[n].ref_count
               /\ metadata'[n].in_current_runtime = FALSE
      BY <1>8, FinishIs
    <3>2. \A n \in DOMAIN metadata : /\ metadata[n].ref_count < compiles
                                     /\ metadata[n].ref_count = 0 => metadata[n].in_current_runtime
      BY <2>2 DEF CountsInv
    <3>3. \A n \in DOMAIN metadata : metadata'[n].ref_count # 0 /\ metadata'[n].ref_count <= compiles
      BY <1>0, <1>00, <3>1, <3>2
    <3> QED
      BY <2>1, <3>1, <3>3 DEF CountsInv, Unlocked
<1>9. ASSUME NEW e \in Executors, CompileFails(e) PROVE CountsInv'
  <2>1. \A x \in Executors : Compiling(x)' => Compiling(x)
    BY <1>00, <1>9, GoneStep DEF Compiling, NoExecutor
  <2>2. UNCHANGED <<compiles, is_finalized, metadata>>
    BY <1>9 DEF CompileFails, cache
  <2> QED
    BY <2>1, <2>2 DEF CountsInv, Unlocked
<1>10. ASSUME NEW e \in Executors, Destroy(e) PROVE CountsInv'
  <2>1. /\ UNCHANGED <<compiles, is_finalized>> /\ Unlocked
        /\ \A x \in Executors : ~Compiling(x)'
    BY <1>00, <1>10, GoneStep DEF Destroy, Compiling, Unlocked, NoExecutor
  <2>2. CASE UNCHANGED metadata
    BY <2>1, <2>2 DEF CountsInv, Unlocked
  <2>3. ASSUME is_finalized, NEW some \in SUBSET DOMAIN metadata, NEW complete \in BOOLEAN,
               DeleteEntries(some, complete)
        PROVE  CountsInv'
    <3>1. /\ DOMAIN metadata' = DOMAIN metadata \ Released(some)
          /\ \A n \in DOMAIN metadata' :
               /\ metadata'[n].in_current_runtime = metadata[n].in_current_runtime
               /\ n \in some => metadata'[n].ref_count = Decremented(metadata[n].ref_count)
               /\ n \notin some => metadata'[n].ref_count = metadata[n].ref_count
      <4>1. EntriesDeleted(some)
        BY <2>3, DeleteIs
      <4> QED
        BY <4>1 DEF EntriesDeleted
    <3>2. \A n \in DOMAIN metadata : metadata[n].ref_count # 0
      BY <2>3 DEF CountsInv
    <3>3. \A n \in DOMAIN metadata' :
             /\ n \in DOMAIN metadata /\ metadata'[n].ref_count # 0
             /\ metadata'[n].ref_count <= metadata[n].ref_count
      BY <1>0, <3>1, <3>2 DEF Released, Decremented
    <3>4. \A n \in DOMAIN metadata' : metadata'[n].ref_count \in Nat
      BY <1>0, <3>1, <3>2 DEF Decremented
    <3> QED
      BY <1>0, <1>00, <2>1, <3>1, <3>3, <3>4 DEF CountsInv, Unlocked
  <2> QED
    BY <1>10, <2>2, <2>3, DeleteCases DEF Destroy
<1>11. CASE UNCHANGED vars
  BY <1>11 DEF vars, cache, CountsInv, Unlocked, Compiling
<1> QED
  BY <1>1, <1>2, <1>3, <1>5, <1>6, <1>7, <1>8, <1>9, <1>10, <1>11 DEF Next

-----------------------------------------------------------------------------
(* Sharing: what holds if names say all that there is to know of packed weights *)

\* The constants an executor has defined are registered.
Defined(e) == IF exec[e].state = "packing" THEN 1 .. Len(exec[e].graph)
              ELSE IF exec[e].state = "defining" THEN 1 .. exec[e].pos ELSE {}
Loaded == \A e \in Executors : \A i \in Defined(e) :
    \A c \in {exec[e].graph[i].kernel, exec[e].graph[i].bias} \cap Named : <<e, c>> \in unpacked

\* The buffer of an entry was packed for an operator of that key.
EntryOps == \A n \in DOMAIN metadata :
    /\ containers[PtrOf(n)] \in GraphOps /\ containers[PtrOf(n)].packed
    /\ KeyOf(containers[PtrOf(n)]) = n

\* An offset that a runtime uses is the one of its operator's entry; the compilation
\* has marked the entry, and a finished runtime has its name.
UsesEntry(e, i) ==
    LET k == KeyOf(exec[e].graph[i]) IN
    /\ exec[e].graph[i].packed /\ k \in DOMAIN metadata /\ metadata[k].offset = exec[e].uses[i]
    /\ exec[e].state = "packing" => metadata[k].in_current_runtime
    /\ exec[e].state = "ready" => k \in exec[e].names
UsesEntries == \A e \in Executors : \A i \in Shared(e) : UsesEntry(e, i)

\* The runtimes that will count an entry down.
Namers(n) == {e \in Executors : exec[e].state = "ready" /\ n \in exec[e].names}
NamesKnown == \A e \in Executors : exec[e].state = "ready" => exec[e].names \subseteq DOMAIN metadata
NamesCounted == \A n \in DOMAIN metadata : metadata[n].ref_count >= Cardinality(Namers(n))

SharingInv == Loaded /\ EntryOps /\ UsesEntries /\ NamesKnown /\ NamesCounted

CacheInv == Types /\ SlotsInv /\ CountsInv

\* The operator an executor packs has the key its name determines.
LEMMA PackingKey ==
  ASSUME WellNamed, Types, Loaded, NEW e \in Executors, exec[e].state = "packing", ~AtLastOp(e)
  PROVE  LET op == CurrentOp(e) IN
         /\ op \in GraphOps /\ op \in Op /\ Key(e, op) = KeyOf(op)
         /\ op.packed => Registered(e, op.kernel)
<1> DEFINE i == exec[e].pos + 1
           op == exec[e].graph[i]
<1>1. /\ op \in Op /\ i \in 1 .. Len(exec[e].graph) /\ exec[e].graph \in Graphs
      /\ exec[e].graph \in Seq(Op)
  BY CurrentOpType DEF Types, ExecTypes, CurrentOp
<1>2. op \in GraphOps
  BY <1>1 DEF GraphOps
<1>3. \A c \in {op.kernel, op.bias} \cap Named : <<e, c>> \in unpacked
  BY <1>1 DEF Loaded, Defined
<1>4. unpacked \subseteq Executors \X Named
  BY DEF Types, CacheTypes
<1>5. Registered(e, op.bias) <=> op.bias \in Named
  BY <1>3, <1>4 DEF Registered
<1>6. op.packed => Registered(e, op.kernel)
  BY <1>2, <1>3 DEF WellNamed, Registered
<1> QED
  BY <1>1, <1>2, <1>5, <1>6 DEF Key, KeyOf, CurrentOp

\* The uses of an executor that takes no step, when its entries keep their offsets.
LEMMA UsesKept ==
  ASSUME UsesEntries, NEW x \in Executors, exec'[x] = exec[x],
         \A i \in Shared(x) : LET k == KeyOf(exec[x].graph[i]) IN
            /\ k \in DOMAIN metadata' /\ metadata'[k].offset = metadata[k].offset
            /\ exec[x].state = "packing" /\ metadata[k].in_current_runtime
                 => metadata'[k].in_current_runtime
  PROVE  \A i \in Shared(x)' : UsesEntry(x, i)'
BY DEF UsesEntries, UsesEntry, Shared

\* Entries keep their operators when their pointers and buffers stay.
LEMMA EntryOpsKept ==
  ASSUME EntryOps, NEW n \in DOMAIN metadata, PtrOf(n)' = PtrOf(n),
         containers'[PtrOf(n)] = containers[PtrOf(n)]
  PROVE  /\ containers'[PtrOf(n)'] \in GraphOps /\ containers'[PtrOf(n)'].packed
         /\ KeyOf(containers'[PtrOf(n)']) = n
BY DEF EntryOps

\* Namers after a step of e: the others stay.
LEMMA NamersStep ==
  ASSUME NEW e \in Executors, \A x \in Executors \ {e} : exec'[x] = exec[x], NEW n
  PROVE  /\ Namers(n)' \ {e} = Namers(n) \ {e}
         /\ e \in Namers(n)' <=> exec'[e].state = "ready" /\ n \in exec'[e].names
         /\ e \in Namers(n) <=> exec[e].state = "ready" /\ n \in exec[e].names
BY DEF Namers

LEMMA NamersFinite ==
  ASSUME NEW n
  PROVE  IsFiniteSet(Namers(n)) /\ Cardinality(Namers(n)) \in Nat
BY ExecutorsAssumption, FS_Subset, FS_CardinalityType DEF Namers

\* A step of e that leaves it neither ready before nor after changes no namers.
LEMMA NamersSame ==
  ASSUME NEW e \in Executors, \A x \in Executors \ {e} : exec'[x] = exec[x],
         exec[e].state # "ready", exec'[e].state # "ready", NEW n
  PROVE  Namers(n)' = Namers(n)
BY DEF Namers

\* A step on the way: the cache and the namers stay.
LEMMA QuietStep ==
  ASSUME SharingInv, NEW e \in Executors, \A x \in Executors \ {e} : exec'[x] = exec[x],
         UNCHANGED <<metadata, packed_data_ptrs, containers>>, Loaded',
         \A i \in Shared(e)' : UsesEntry(e, i)',
         exec[e].state # "ready", exec'[e].state # "ready"
  PROVE  SharingInv'
<1>1. EntryOps'
  BY DEF SharingInv, EntryOps, PtrOf
<1>2. UsesEntries'
  <2> SUFFICES ASSUME NEW x \in Executors \ {e} PROVE \A i \in Shared(x)' : UsesEntry(x, i)'
    BY DEF UsesEntries
  <2> QED
    BY DEF SharingInv, UsesEntries, UsesEntry, Shared
<1>3. NamesKnown'
  BY DEF SharingInv, NamesKnown
<1>4. NamesCounted'
  BY NamersSame DEF SharingInv, NamesCounted
<1> QED
  BY <1>1, <1>2, <1>3, <1>4 DEF SharingInv

\* Only the executor that steps defines anything, and what is loaded stays loaded.
LEMMA LoadedKept ==
  ASSUME Loaded, NEW e \in Executors, \A x \in Executors \ {e} : exec'[x] = exec[x],
         unpacked \subseteq unpacked',
         \A i \in Defined(e)' :
           \A c \in {exec'[e].graph[i].kernel, exec'[e].graph[i].bias} \cap Named : <<e, c>> \in unpacked'
  PROVE  Loaded'
BY DEF Loaded, Defined

LEMMA BeginShares ==
  ASSUME Types, SharingInv, NEW e \in Executors, NEW g \in Graphs, Begin(e, g)
  PROVE  SharingInv'
<1> DEFINE r == [state |-> "defining", graph |-> g, pos |-> 0, uses |-> <<>>, names |-> {}]
<1>1. exec'[e] = r /\ \A x \in Executors \ {e} : exec'[x] = exec[x]
  BY BeginStep DEF Types
<1>2. exec'[e].state = "defining" /\ exec'[e].pos = 0 /\ exec'[e].uses = <<>>
  BY <1>1
<1>3. exec[e].state = "none" /\ UNCHANGED <<metadata, packed_data_ptrs, containers, unpacked>>
  BY DEF Begin
<1>4. Defined(e)' = {} /\ Shared(e)' = {}
  BY <1>2 DEF Defined, Shared
<1>5. Loaded'
  BY <1>1, <1>3, <1>4, LoadedKept DEF SharingInv
<1> QED
  BY <1>1, <1>2, <1>3, <1>4, <1>5, QuietStep

LEMMA DefineShares ==
  ASSUME Types, SharingInv, NEW e \in Executors, DefineTensors(e)
  PROVE  SharingInv'
<1> DEFINE r == [state |-> "defining", graph |-> exec[e].graph, pos |-> exec[e].pos + 1,
                 uses |-> exec[e].uses, names |-> {}]
           op == CurrentOp(e)
<1>1. exec'[e] = r /\ exec[e].uses = <<>> /\ \A x \in Executors \ {e} : exec'[x] = exec[x]
  BY DefineStep DEF Types
<1>2. /\ exec'[e].state = "defining" /\ exec'[e].pos = exec[e].pos + 1
      /\ exec'[e].graph = exec[e].graph /\ exec'[e].uses = <<>>
  BY <1>1
<1>3. /\ exec[e].state = "defining" /\ UNCHANGED <<metadata, packed_data_ptrs, containers>>
      /\ unpacked' = unpacked \cup {<<e, c>> : c \in {op.kernel, op.bias} \cap Named}
  BY DEF DefineTensors
<1>4. Shared(e)' = {}
  BY <1>2 DEF Shared
<1>5. Loaded'
  <2>1. exec[e].pos \in Nat
    BY DEF Types, ExecTypes, ExecType
  <2>2. Defined(e)' = 1 .. exec[e].pos + 1 /\ Defined(e) = 1 .. exec[e].pos
    BY <1>2, <1>3 DEF Defined
  <2>3. \A i \in Defined(e)' : \A c \in {exec'[e].graph[i].kernel, exec'[e].graph[i].bias} \cap Named :
           <<e, c>> \in unpacked'
    <3> SUFFICES ASSUME NEW i \in 1 .. exec[e].pos + 1,
                        NEW c \in {exec[e].graph[i].kernel, exec[e].graph[i].bias} \cap Named
                 PROVE  <<e, c>> \in unpacked'
      BY <1>2, <2>2
    <3>1. CASE i = exec[e].pos + 1
      BY <1>3, <3>1 DEF CurrentOp
    <3>2. CASE i \in 1 .. exec[e].pos
      BY <1>3, <2>2, <3>2 DEF SharingInv, Loaded
    <3> QED
      BY <2>1, <3>1, <3>2
  <2> QED
    BY <1>1, <1>3, <2>3, LoadedKept DEF SharingInv
<1> QED
  BY <1>1, <1>2, <1>3, <1>4, <1>5, QuietStep

LEMMA CreateShares ==
  ASSUME Types, SharingInv, NEW e \in Executors, CreateRuntime(e)
  PROVE  SharingInv'
<1> DEFINE r == [state |-> "packing", graph |-> exec[e].graph, pos |-> 0,
                 uses |-> exec[e].uses, names |-> {}]
<1>1. exec'[e] = r /\ exec[e].uses = <<>> /\ \A x \in Executors \ {e} : exec'[x] = exec[x]
  BY CreateStep DEF Types
<1>2. /\ exec'[e].state = "packing" /\ exec'[e].graph = exec[e].graph /\ exec'[e].uses = <<>>
  BY <1>1
<1>3. /\ exec[e].state = "defining" /\ exec[e].pos = Len(exec[e].graph)
      /\ UNCHANGED <<metadata, packed_data_ptrs, containers, unpacked>>
  BY DEF CreateRuntime, AtLastOp, cache
<1>4. Shared(e)' = {}
  BY <1>2 DEF Shared
<1>5. Defined(e)' = Defined(e)
  BY <1>2, <1>3 DEF Defined
<1>6. Loaded'
  BY <1>1, <1>2, <1>3, <1>5, LoadedKept DEF SharingInv, Loaded
<1> QED
  BY <1>1, <1>2, <1>3, <1>4, <1>6, QuietStep

\* A step that adds a use: the earlier uses are the same, the new one is the last.
LEMMA UsesGrow ==
  ASSUME Types, NEW e \in Executors, exec[e].state = "packing", ~AtLastOp(e), NEW offset \in Int,
         Uses(e, offset)
  PROVE  LET i == exec[e].pos + 1 IN
         /\ exec'[e].state = "packing" /\ exec'[e].graph = exec[e].graph
         /\ exec'[e].graph[i] = CurrentOp(e) /\ exec'[e].uses[i] = offset
         /\ \A j \in Shared(e) : j \in Shared(e)' /\ exec'[e].uses[j] = exec[e].uses[j]
         /\ \A j \in Shared(e)' : j \in Shared(e) \/ (j = i /\ offset # Private)
         /\ offset # Private => i \in Shared(e)'
         /\ \A x \in Executors \ {e} : exec'[x] = exec[x]
<1> DEFINE u == Append(exec[e].uses, offset)
           r == [state |-> "packing", graph |-> exec[e].graph, pos |-> exec[e].pos + 1,
                 uses |-> u, names |-> {}]
<1>1. exec'[e] = r /\ \A x \in Executors \ {e} : exec'[x] = exec[x]
  BY UsesStep DEF Types
<1>2. exec'[e].state = "packing" /\ exec'[e].graph = exec[e].graph /\ exec'[e].uses = u
  <2> HIDE DEF u
  <2> QED
    BY <1>1
<1>3. exec[e].uses \in Seq(Int) /\ Len(exec[e].uses) = exec[e].pos /\ exec[e].pos \in Nat
  BY DEF Types, ExecTypes, ExecType
<1>4. /\ DOMAIN u = 1 .. exec[e].pos + 1 /\ DOMAIN exec[e].uses = 1 .. exec[e].pos
      /\ u[exec[e].pos + 1] = offset
      /\ \A j \in 1 .. exec[e].pos : u[j] = exec[e].uses[j]
  BY <1>3
<1> HIDE DEF u, r
<1>5. /\ \A j \in Shared(e) : j \in Shared(e)' /\ exec'[e].uses[j] = exec[e].uses[j]
      /\ \A j \in Shared(e)' : j \in Shared(e) \/ (j = exec[e].pos + 1 /\ offset # Private)
      /\ offset # Private => exec[e].pos + 1 \in Shared(e)'
  <2> DEFINE p == exec[e].pos
             v == exec[e].uses
  <2>1. /\ Shared(e) = {j \in 1 .. p : v[j] # Private}
        /\ Shared(e)' = {j \in 1 .. p + 1 : u[j] # Private}
    BY <1>2, <1>4 DEF Shared
  <2>2. p \in Nat /\ exec'[e].uses = u /\ u[p + 1] = offset /\ \A j \in 1 .. p : u[j] = v[j]
    BY <1>2, <1>3, <1>4
  <2> HIDE DEF p, v
  <2>3. \A j \in Shared(e) : j \in Shared(e)' /\ u[j] = v[j]
    BY <2>1, <2>2
  <2>4. \A j \in Shared(e)' : j \in Shared(e) \/ (j = p + 1 /\ offset # Private)
    <3>1. \A j \in 1 .. p + 1 : j \in 1 .. p \/ j = p + 1
      BY <2>2
    <3> QED
      BY <2>1, <2>2, <3>1
  <2>5. offset # Private => p + 1 \in Shared(e)'
    BY <2>1, <2>2
  <2> QED
    BY <2>2, <2>3, <2>4, <2>5 DEF p, v
<1> QED
  BY <1>1, <1>2, <1>4, <1>5 DEF CurrentOp

\* A step that packs an operator, whatever it uses.
LEMMA PackShares ==
  ASSUME Types, SharingInv, NEW e \in Executors, exec[e].state = "packing", ~AtLastOp(e),
         NEW offset \in Int, Uses(e, offset), UNCHANGED unpacked, EntryOps',
         \A n \in DOMAIN metadata :
           /\ n \in DOMAIN metadata' /\ metadata'[n].offset = metadata[n].offset
           /\ metadata'[n].ref_count = metadata[n].ref_count
           /\ metadata[n].in_current_runtime => metadata'[n].in_current_runtime,
         \A n \in DOMAIN metadata' \ DOMAIN metadata : metadata'[n].ref_count = 0 /\ Namers(n) = {},
         offset # Private =>
            LET op == CurrentOp(e)
                k == KeyOf(op) IN
            /\ op.packed /\ k \in DOMAIN metadata' /\ metadata'[k].offset = offset
            /\ metadata'[k].in_current_runtime
  PROVE  SharingInv'
<1> DEFINE i == exec[e].pos + 1
<1>1. /\ exec'[e].state = "packing" /\ exec'[e].graph = exec[e].graph
      /\ exec'[e].graph[i] = CurrentOp(e) /\ exec'[e].uses[i] = offset
      /\ \A j \in Shared(e) : j \in Shared(e)' /\ exec'[e].uses[j] = exec[e].uses[j]
      /\ \A j \in Shared(e)' : j \in Shared(e) \/ (j = i /\ offset # Private)
      /\ \A x \in Executors \ {e} : exec'[x] = exec[x]
  BY UsesGrow
<1> HIDE DEF i
<1>2. Loaded'
  <2>1. Defined(e)' = Defined(e)
    BY <1>1 DEF Defined
  <2> QED
    BY <1>1, <2>1, LoadedKept DEF SharingInv, Loaded
<1>3. UsesEntries'
  <2>1. ASSUME NEW x \in Executors \ {e}, NEW j \in Shared(x)' PROVE UsesEntry(x, j)'
    <3>1. \A h \in Shared(x) : KeyOf(exec[x].graph[h]) \in DOMAIN metadata
      BY DEF SharingInv, UsesEntries, UsesEntry
    <3> QED
      BY <1>1, <2>1, <3>1, UsesKept DEF SharingInv
  <2>2. ASSUME NEW j \in Shared(e)' PROVE UsesEntry(e, j)'
    <3>1. CASE j \in Shared(e)
      <4>1. UsesEntry(e, j)
        BY <3>1 DEF SharingInv, UsesEntries
      <4> QED
        BY <1>1, <3>1, <4>1 DEF UsesEntry
    <3>2. CASE j = i /\ offset # Private
      BY <1>1, <3>2 DEF UsesEntry
    <3> QED
      BY <1>1, <2>2, <3>1, <3>2
  <2> QED
    BY <2>1, <2>2 DEF UsesEntries
<1>4. \A n : Namers(n)' = Namers(n)
  BY <1>1, NamersSame
<1>5. NamesKnown'
  BY <1>1 DEF SharingInv, NamesKnown
<1>6. NamesCounted'
  <2>1. Cardinality({}) = 0
    BY FS_EmptySet
  <2> SUFFICES ASSUME NEW n \in DOMAIN metadata'
               PROVE  metadata'[n].ref_count >= Cardinality(Namers(n)')
    BY DEF NamesCounted
  <2>2. CASE n \in DOMAIN metadata
    BY <1>4, <2>2 DEF SharingInv, NamesCounted
  <2>3. CASE n \notin DOMAIN metadata
    <3>1. metadata'[n].ref_count = 0 /\ Namers(n)' = {}
      BY <1>4, <2>3
    <3> QED
      BY <2>1, <3>1
  <2> QED
    BY <2>2, <2>3
<1> QED
  BY <1>2, <1>3, <1>5, <1>6 DEF SharingInv

\* The three ways to pack an operator.
LEMMA PackHitShares ==
  ASSUME WellNamed, CacheInv, SharingInv, NEW e \in Executors, PackHit(e)
  PROVE  SharingInv'
<1> DEFINE op == CurrentOp(e)
           k == KeyOf(op)
           offset == metadata[k].offset
<1>1. Types /\ SlotsInv /\ exec[e].state = "packing" /\ ~AtLastOp(e) /\ op.packed
  BY DEF CacheInv, PackHit, ThroughCache
<1>2. Key(e, op) = k
  BY <1>1, PackingKey DEF SharingInv
<1>3. /\ k \in DOMAIN metadata /\ DOMAIN metadata' = DOMAIN metadata
      /\ \A n \in DOMAIN metadata :
           /\ metadata'[n].offset = metadata[n].offset /\ metadata'[n].seed = metadata[n].seed
           /\ metadata'[n].ref_count = metadata[n].ref_count
           /\ metadata'[n].in_current_runtime = (n = k \/ metadata[n].in_current_runtime)
  BY <1>1, <1>2, PackHitIs
<1>4. Uses(e, offset) /\ UNCHANGED <<packed_data_ptrs, containers, unpacked>> /\ offset \in Int
  BY <1>1, <1>2, <1>3 DEF PackHit, Types, CacheTypes, EntryType
<1>5. EntryOps'
  <2>1. \A n \in DOMAIN metadata : PtrOf(n)' = PtrOf(n)
    BY <1>1, <1>3, <1>4, SameSlots
  <2> QED
    BY <1>3, <1>4, <2>1 DEF SharingInv, EntryOps
<1>6. op.packed /\ k \in DOMAIN metadata' /\ metadata'[k].offset = offset
      /\ metadata'[k].in_current_runtime
  BY <1>1, <1>3
<1> HIDE DEF offset
<1>7. \A n \in DOMAIN metadata :
        /\ n \in DOMAIN metadata' /\ metadata'[n].offset = metadata[n].offset
        /\ metadata'[n].ref_count = metadata[n].ref_count
        /\ metadata[n].in_current_runtime => metadata'[n].in_current_runtime
  BY <1>3
<1>8. \A n \in DOMAIN metadata' \ DOMAIN metadata : metadata'[n].ref_count = 0 /\ Namers(n) = {}
  BY <1>3
<1> QED
  BY <1>1, <1>4, <1>5, <1>6, <1>7, <1>8, PackShares

LEMMA PackMissShares ==
  ASSUME WellNamed, CacheInv, SharingInv, NEW e \in Executors, PackMiss(e)
  PROVE  SharingInv' /\ KeyOf(CurrentOp(e)) \notin DOMAIN metadata
<1> DEFINE op == CurrentOp(e)
           k == KeyOf(op)
           L == Len(packed_data_ptrs)
           ptr == packed_data_ptrs'[L + 1]
<1>1. Types /\ SlotsInv /\ exec[e].state = "packing" /\ ~AtLastOp(e) /\ op.packed /\ ~Hit(e, op)
  BY DEF CacheInv, PackMiss, ThroughCache
<1>2. Key(e, op) = k /\ op \in GraphOps /\ Registered(e, op.kernel)
  BY <1>1, PackingKey DEF SharingInv
<1>3. k \notin DOMAIN metadata
  <2> SUFFICES ASSUME k \in DOMAIN metadata PROVE FALSE
    OBVIOUS
  <2>1. containers[PtrOf(k)] \in GraphOps /\ containers[PtrOf(k)].packed /\ KeyOf(containers[PtrOf(k)]) = k
    BY DEF SharingInv, EntryOps
  <2>2. containers[PtrOf(k)] = op
    BY <1>1, <1>2, <2>1 DEF WellNamed
  <2>3. metadata[k].seed = op.seed
    BY <1>1, <2>2 DEF SlotsInv, EntriesOwn
  <2> QED
    BY <1>1, <1>2, <2>3 DEF Hit
<1>4. /\ DOMAIN metadata' = DOMAIN metadata \cup {k}
      /\ metadata'[k] = [offset |-> L, ref_count |-> 0, in_current_runtime |-> TRUE, seed |-> op.seed]
      /\ \A n \in DOMAIN metadata \ {k} : metadata'[n] = metadata[n]
  BY <1>1, <1>2, PackMissEntry
<1>5. /\ metadata'[k].offset = L /\ metadata'[k].ref_count = 0 /\ metadata'[k].in_current_runtime
      /\ \A n \in DOMAIN metadata : n \in DOMAIN metadata' /\ metadata'[n] = metadata[n]
  BY <1>3, <1>4
<1>6. /\ L \in Nat /\ Len(packed_data_ptrs') = L + 1
      /\ \A i \in 1 .. L : packed_data_ptrs'[i] = packed_data_ptrs[i]
      /\ containers'[ptr] = op
      /\ \A p \in DOMAIN containers : containers'[p] = containers[p]
  BY <1>1, PackMissIs
<1>7. Uses(e, L) /\ UNCHANGED unpacked /\ L \in Int
  BY <1>6 DEF PackMiss, NextOffset
<1> HIDE DEF op, k, L, ptr
<1>8. EntryOps'
  <2> SUFFICES ASSUME NEW n \in DOMAIN metadata'
               PROVE  /\ containers'[PtrOf(n)'] \in GraphOps /\ containers'[PtrOf(n)'].packed
                      /\ KeyOf(containers'[PtrOf(n)']) = n
    BY DEF EntryOps
  <2>1. CASE n = k
    <3>1. PtrOf(n)' = ptr
      BY <1>5, <2>1 DEF PtrOf, ptr
    <3> QED
      BY <1>1, <1>2, <1>6, <2>1, <3>1 DEF k
  <2>2. CASE n # k
    <3>1. n \in DOMAIN metadata /\ metadata'[n] = metadata[n]
      BY <1>4, <2>2
    <3>2. metadata[n].offset \in Nat /\ metadata[n].offset < L /\ PtrOf(n) \in DOMAIN containers
      BY <1>1, <3>1 DEF Types, CacheTypes, EntryType, SlotsInv, EntriesOwn, L
    <3>3. PtrOf(n)' = PtrOf(n)
      BY <1>6, <3>1, <3>2 DEF PtrOf
    <3> QED
      BY <1>6, <3>1, <3>2, <3>3, EntryOpsKept DEF SharingInv
  <2> QED
    BY <2>1, <2>2
<1>9. \A n \in DOMAIN metadata' \ DOMAIN metadata : metadata'[n].ref_count = 0 /\ Namers(n) = {}
  <2>1. Namers(k) = {}
    BY <1>3 DEF SharingInv, NamesKnown, Namers
  <2> QED
    BY <1>4, <1>5, <2>1
<1>10. \A n \in DOMAIN metadata :
        /\ n \in DOMAIN metadata' /\ metadata'[n].offset = metadata[n].offset
        /\ metadata'[n].ref_count = metadata[n].ref_count
        /\ metadata[n].in_current_runtime => metadata'[n].in_current_runtime
  BY <1>5
<1>11. op.packed /\ k \in DOMAIN metadata' /\ metadata'[k].offset = L
       /\ metadata'[k].in_current_runtime
  BY <1>1, <1>4, <1>5
<1>12. SharingInv'
  BY <1>1, <1>7, <1>8, <1>9, <1>10, <1>11, PackShares DEF op, k
<1> QED
  BY <1>3, <1>12 DEF op, k

LEMMA PackPrivateShares ==
  ASSUME CacheInv, SharingInv, NEW e \in Executors, PackPrivate(e)
  PROVE  SharingInv'
<1>1. /\ Types /\ exec[e].state = "packing" /\ ~AtLastOp(e) /\ Uses(e, Private) /\ Private \in Int
      /\ UNCHANGED <<metadata, packed_data_ptrs, containers, unpacked>>
  BY DEF CacheInv, PackPrivate, Private, cache
<1>2. EntryOps'
  BY <1>1 DEF SharingInv, EntryOps, PtrOf
<1> QED
  BY <1>1, <1>2, PackShares

\* The names are those of the entries marked, and each of these is counted once more.
LEMMA FinishShares ==
  ASSUME CacheInv, SharingInv, NEW e \in Executors, Finish(e)
  PROVE  SharingInv'
<1> DEFINE r == [state |-> "ready", graph |-> exec[e].graph, pos |-> exec[e].pos,
                 uses |-> exec[e].uses, names |-> InCurrentRuntime]
<1>1. exec'[e] = r /\ \A x \in Executors \ {e} : exec'[x] = exec[x]
  BY FinishStep DEF CacheInv, Types, CacheTypes
<1>2. /\ exec'[e].state = "ready" /\ exec'[e].graph = exec[e].graph
      /\ exec'[e].uses = exec[e].uses /\ exec'[e].names = InCurrentRuntime
      /\ exec[e].state = "packing"
  BY <1>1 DEF Finish
<1>3. /\ DOMAIN metadata' = DOMAIN metadata
      /\ \A n \in DOMAIN metadata :
           /\ metadata'[n].offset = metadata[n].offset /\ metadata'[n].seed = metadata[n].seed
           /\ metadata'[n].ref_count = IF metadata[n].in_current_runtime
                                       THEN metadata[n].ref_count + 1 ELSE metadata[n].ref_count
           /\ metadata'[n].in_current_runtime = FALSE
  BY FinishIs DEF CacheInv
<1>4. UNCHANGED <<packed_data_ptrs, containers>> /\ unpacked' = {}
  BY DEF Finish
<1>5. \A x \in Executors \ {e} : exec[x].state \notin {"defining", "packing"}
  BY <1>2 DEF CacheInv, CountsInv, Compiling
<1>6. Loaded'
  <2>1. \A x \in Executors : Defined(x)' = {}
    BY <1>1, <1>2, <1>5 DEF Defined
  <2> QED
    BY <2>1 DEF Loaded
<1>7. EntryOps'
  <2>1. \A n \in DOMAIN metadata : PtrOf(n)' = PtrOf(n)
    BY <1>3, <1>4, SameSlots DEF CacheInv
  <2> QED
    BY <1>3, <1>4, <2>1 DEF SharingInv, EntryOps
<1>8. UsesEntries'
  <2>1. ASSUME NEW x \in Executors \ {e}, NEW i \in Shared(x)' PROVE UsesEntry(x, i)'
    <3>1. \A h \in Shared(x) : KeyOf(exec[x].graph[h]) \in DOMAIN metadata
      BY DEF SharingInv, UsesEntries, UsesEntry
    <3> QED
      BY <1>1, <1>3, <1>5, <2>1, <3>1, UsesKept DEF SharingInv
  <2>2. ASSUME NEW i \in Shared(e)' PROVE UsesEntry(e, i)'
    <3>1. i \in Shared(e)
      BY <1>2, <2>2 DEF Shared
    <3>2. UsesEntry(e, i)
      BY <3>1 DEF SharingInv, UsesEntries
    <3> QED
      BY <1>2, <1>3, <3>2 DEF UsesEntry, InCurrentRuntime
  <2> QED
    BY <2>1, <2>2 DEF UsesEntries
<1>9. NamesKnown'
  BY <1>1, <1>2, <1>3 DEF SharingInv, NamesKnown, InCurrentRuntime
<1>10. NamesCounted'
  <2> SUFFICES ASSUME NEW n \in DOMAIN metadata
               PROVE  metadata'[n].ref_count >= Cardinality(Namers(n)')
    BY <1>3 DEF NamesCounted
  <2>1. /\ metadata[n].ref_count >= Cardinality(Namers(n)) /\ metadata[n].ref_count \in Nat
        /\ metadata[n].in_current_runtime \in BOOLEAN
    BY DEF SharingInv, NamesCounted, CacheInv, Types, CacheTypes, EntryType
  <2>2. IsFiniteSet(Namers(n)) /\ Cardinality(Namers(n)) \in Nat /\ e \notin Namers(n)
    BY <1>2, NamersFinite DEF Namers
  <2>3. CASE metadata[n].in_current_runtime
    <3>1. Namers(n)' = Namers(n) \cup {e}
      BY <1>1, <1>2, <2>3 DEF Namers, InCurrentRuntime
    <3>2. Cardinality(Namers(n)') = Cardinality(Namers(n)) + 1
      BY <2>2, <3>1, FS_AddElement
    <3> QED
      BY <1>3, <2>1, <2>2, <2>3, <3>2
  <2>4. CASE ~metadata[n].in_current_runtime
    <3>1. Namers(n)' = Namers(n)
      BY <1>1, <1>2, <2>4 DEF Namers, InCurrentRuntime
    <3> QED
      BY <1>3, <2>1, <2>4, <3>1
  <2> QED
    BY <2>1, <2>3, <2>4
<1> QED
  BY <1>6, <1>7, <1>8, <1>9, <1>10 DEF SharingInv

\* A failed compilation leaves the cache as it is, marks and constants included.
LEMMA FailShares ==
  ASSUME CacheInv, SharingInv, NEW e \in Executors, CompileFails(e)
  PROVE  SharingInv'
<1>1. exec'[e] = NoExecutor /\ \A x \in Executors \ {e} : exec'[x] = exec[x]
  BY GoneStep DEF CacheInv, Types
<1>2. exec'[e].state = "none" /\ exec'[e].uses = <<>>
  BY <1>1 DEF NoExecutor
<1>3. UNCHANGED <<metadata, packed_data_ptrs, containers, unpacked>> /\ exec[e].state # "ready"
  BY DEF CompileFails, Compiling, cache
<1>4. Defined(e)' = {} /\ Shared(e)' = {}
  BY <1>2 DEF Defined, Shared
<1>5. Loaded'
  BY <1>1, <1>3, <1>4, LoadedKept DEF SharingInv
<1> QED
  BY <1>1, <1>2, <1>3, <1>4, <1>5, QuietStep

\* An entry that some other runtime names as well outlives the deletion.
LEMMA DeleteSpares ==
  ASSUME CacheInv, SharingInv, NEW e \in Executors, exec[e].state = "ready",
         EntriesDeleted(exec[e].names), NEW x \in Executors \ {e}, exec[x].state = "ready"
  PROVE  exec[x].names \subseteq DOMAIN metadata'
<1> SUFFICES ASSUME NEW n \in exec[x].names PROVE n \in DOMAIN metadata'
  OBVIOUS
<1>1. n \in DOMAIN metadata /\ metadata[n].ref_count \in Nat
  BY DEF SharingInv, NamesKnown, CacheInv, Types, CacheTypes, EntryType
<1>2. SUFFICES ASSUME n \in Released(exec[e].names) PROVE FALSE
  BY <1>1 DEF EntriesDeleted
<1>3. n \in exec[e].names /\ Decremented(metadata[n].ref_count) = 0
  BY <1>2 DEF Released
<1>4. metadata[n].ref_count <= 1
  BY <1>1, <1>3, BoundsAssumption DEF Decremented
<1>5. {e, x} \subseteq Namers(n)
  BY <1>3 DEF Namers
<1>6. IsFiniteSet(Namers(n)) /\ Cardinality(Namers(n)) \in Nat
  BY NamersFinite
<1>7. Cardinality({e, x}) = 2
  <2>1. IsFiniteSet({e}) /\ Cardinality({e}) = 1 /\ x \notin {e}
    BY FS_Singleton
  <2>2. Cardinality({e} \cup {x}) = 2
    <3>1. Cardinality({e} \cup {x}) = Cardinality({e}) + 1
      BY <2>1, FS_AddElement
    <3> QED
      BY <2>1, <3>1
  <2>3. {e} \cup {x} = {e, x}
    OBVIOUS
  <2> QED
    BY <2>2, <2>3
<1>8. Cardinality({e, x}) <= Cardinality(Namers(n))
  BY <1>5, <1>6, FS_Subset
<1> QED
  BY <1>1, <1>4, <1>6, <1>7, <1>8 DEF SharingInv, NamesCounted

\* What destroy does when names are known: nothing, or one deletion of all its names.
LEMMA DestroyCases ==
  ASSUME CacheInv, SharingInv, NEW e \in Executors, Destroy(e)
  PROVE  \/ /\ UNCHANGED <<metadata, packed_data_ptrs, containers>>
            /\ exec[e].names = {} \/ ~is_finalized
         \/ is_finalized /\ DeleteEntries(exec[e].names, TRUE)
<1>1. exec[e].names \subseteq DOMAIN metadata
  BY DEF Destroy, SharingInv, NamesKnown
<1> QED
  <2> DEFINE names == exec[e].names
  <2>1. DeletePackedData(names) /\ names \subseteq DOMAIN metadata
    BY <1>1 DEF Destroy
  <2> HIDE DEF names
  <2>2. CASE UNCHANGED <<metadata, packed_data_ptrs, containers>> /\ (names = {} \/ ~is_finalized)
    BY <2>2 DEF names
  <2>3. ASSUME is_finalized, NEW some \in SUBSET (names \cap DOMAIN metadata), NEW complete \in BOOLEAN,
               DeleteEntries(some, complete), complete /\ some = names
        PROVE  is_finalized /\ DeleteEntries(names, TRUE)
    <3>1. complete = TRUE /\ some = names
      BY <2>3
    <3> QED
      BY <2>3, <3>1
  <2>4. \/ UNCHANGED <<metadata, packed_data_ptrs, containers>> /\ (names = {} \/ ~is_finalized)
        \/ /\ is_finalized
           /\ \E some \in SUBSET (names \cap DOMAIN metadata), complete \in BOOLEAN :
                /\ DeleteEntries(some, complete)
                /\ names \subseteq DOMAIN metadata => complete /\ some = names
    BY <2>1, DeleteCases
  <2> QED
    BY <2>1, <2>2, <2>3, <2>4 DEF names

LEMMA DestroyShares ==
  ASSUME CacheInv, SharingInv, NEW e \in Executors, Destroy(e)
  PROVE  SharingInv'
<1>1. exec'[e] = NoExecutor /\ \A x \in Executors \ {e} : exec'[x] = exec[x]
  BY GoneStep DEF CacheInv, Types
<1>2. /\ exec'[e].state = "none" /\ exec'[e].uses = <<>> /\ exec[e].state = "ready"
      /\ UNCHANGED unpacked /\ \A x \in Executors : ~Compiling(x)
  BY <1>1 DEF NoExecutor, Destroy, Unlocked
<1>3. Defined(e)' = {} /\ Shared(e)' = {}
  BY <1>2 DEF Defined, Shared
<1>4. Loaded'
  BY <1>1, <1>2, <1>3, LoadedKept DEF SharingInv
<1>5. \A n : IsFiniteSet(Namers(n)) /\ Cardinality(Namers(n)) \in Nat /\ Cardinality(Namers(n)') \in Nat
  BY NamersFinite, ExecutorsAssumption, FS_Subset, FS_CardinalityType DEF Namers
<1>6. \A n : Namers(n)' = Namers(n) \ {e} /\ (e \in Namers(n) <=> n \in exec[e].names)
  BY <1>1, <1>2 DEF Namers
<1>7. CASE UNCHANGED <<metadata, packed_data_ptrs, containers>>
  <2>1. EntryOps'
    BY <1>7 DEF SharingInv, EntryOps, PtrOf
  <2>2. UsesEntries'
    BY <1>1, <1>3, <1>7 DEF SharingInv, UsesEntries, UsesEntry, Shared
  <2>3. NamesKnown'
    BY <1>1, <1>2, <1>7 DEF SharingInv, NamesKnown
  <2>4. NamesCounted'
    <3> SUFFICES ASSUME NEW n \in DOMAIN metadata
                 PROVE  metadata[n].ref_count >= Cardinality(Namers(n)')
      BY <1>7 DEF NamesCounted
    <3>1. Cardinality(Namers(n)') <= Cardinality(Namers(n))
      BY <1>5, <1>6, FS_Subset
    <3>2. metadata[n].ref_count >= Cardinality(Namers(n)) /\ metadata[n].ref_count \in Nat
      BY DEF SharingInv, NamesCounted, CacheInv, Types, CacheTypes, EntryType
    <3> QED
      BY <1>5, <3>1, <3>2
  <2> QED
    BY <1>4, <2>1, <2>2, <2>3, <2>4 DEF SharingInv
<1>8. CASE DeleteEntries(exec[e].names, TRUE)
  <2> DEFINE names == exec[e].names
  <2>1. names \in SUBSET DOMAIN metadata /\ Types /\ SlotsInv
    BY <1>2 DEF SharingInv, NamesKnown, CacheInv
  <2>2. EntriesDeleted(names)
    BY <1>8, <2>1, DeleteIs
  <2>3. \A n \in DOMAIN metadata' :
          /\ n \in DOMAIN metadata /\ metadata'[n].offset = metadata[n].offset
          /\ PtrOf(n)' = PtrOf(n) /\ containers'[PtrOf(n)] = containers[PtrOf(n)]
    BY <1>8, <2>1, DeleteKeeps
  <2>4. \A x \in Executors \ {e} : exec[x].state = "ready" => exec[x].names \subseteq DOMAIN metadata'
    BY <1>2, <2>2, DeleteSpares
  <2>5. EntryOps'
    BY <2>3 DEF SharingInv, EntryOps
  <2>6. UsesEntries'
    <3> SUFFICES ASSUME NEW x \in Executors \ {e} PROVE \A i \in Shared(x)' : UsesEntry(x, i)'
      BY <1>3 DEF UsesEntries
    <3>1. CASE exec[x].state = "ready"
      <4>1. ASSUME NEW i \in Shared(x)
            PROVE  LET k == KeyOf(exec[x].graph[i]) IN
                   /\ k \in DOMAIN metadata' /\ metadata'[k].offset = metadata[k].offset
                   /\ exec[x].state = "packing" /\ metadata[k].in_current_runtime
                        => metadata'[k].in_current_runtime
        <5>1. KeyOf(exec[x].graph[i]) \in exec[x].names
          BY <3>1 DEF SharingInv, UsesEntries, UsesEntry
        <5> QED
          BY <2>3, <2>4, <3>1, <5>1
      <4> QED
        BY <1>1, <4>1, UsesKept DEF SharingInv
    <3>2. CASE exec[x].state # "ready"
      <4>1. exec[x].uses = <<>> /\ exec'[x] = exec[x]
        BY <1>1, <1>2, <3>2, <2>1 DEF Types, ExecTypes, ExecType, Compiling
      <4>2. Shared(x)' = {}
        BY <4>1 DEF Shared
      <4> QED
        BY <4>2
    <3> QED
      BY <3>1, <3>2
  <2>7. NamesKnown'
    BY <1>1, <1>2, <2>4 DEF NamesKnown
  <2>8. NamesCounted'
    <3> SUFFICES ASSUME NEW n \in DOMAIN metadata'
                 PROVE  metadata'[n].ref_count >= Cardinality(Namers(n)')
      BY DEF NamesCounted
    <3>1. n \in DOMAIN metadata /\ metadata[n].ref_count >= Cardinality(Namers(n))
          /\ metadata[n].ref_count \in Nat
      BY <2>1, <2>3 DEF SharingInv, NamesCounted, Types, CacheTypes, EntryType
    <3>2. CASE n \in names
      <4>1. Cardinality(Namers(n)') = Cardinality(Namers(n)) - 1 /\ e \in Namers(n)
        BY <1>5, <1>6, <3>2, FS_RemoveElement
      <4>2. Cardinality(Namers(n)) # 0
        BY <1>5, <4>1, FS_EmptySet
      <4>3. metadata'[n].ref_count = metadata[n].ref_count - 1
        BY <1>5, <2>2, <3>1, <3>2, <4>2 DEF EntriesDeleted, Decremented
      <4> QED
        BY <1>5, <3>1, <4>1, <4>3
    <3>3. CASE n \notin names
      <4>1. Namers(n)' = Namers(n) /\ metadata'[n].ref_count = metadata[n].ref_count
        BY <1>6, <2>2, <3>3 DEF EntriesDeleted
      <4> QED
        BY <3>1, <4>1
    <3> QED
      BY <3>2, <3>3
  <2> QED
    BY <1>4, <2>5, <2>6, <2>7, <2>8 DEF SharingInv
<1> QED
  BY <1>7, <1>8, DestroyCases

LEMMA SharingNext == WellNamed /\ CacheInv /\ SharingInv /\ [Next]_vars => SharingInv'
<1> SUFFICES ASSUME WellNamed, CacheInv, SharingInv, [Next]_vars PROVE SharingInv'
  OBVIOUS
<1>1. Types
  BY DEF CacheInv
<1>2. CASE UNCHANGED vars
  BY <1>2 DEF vars, cache, SharingInv, Loaded, Defined, EntryOps, PtrOf, UsesEntries, UsesEntry,
              Shared, NamesKnown, NamesCounted, Namers
<1>3. CASE Next
  BY <1>1, <1>3, BeginShares, DefineShares, CreateShares, PackHitShares, PackMissShares,
     PackPrivateShares, FinishShares, FailShares, DestroyShares DEF Next
<1> QED
  BY <1>2, <1>3

-----------------------------------------------------------------------------
(* The accounts as long as no compilation fails *)

\* A mark is of an operator the current compilation has packed, a name of one that
\* the runtime uses; a count counts the names.
UsedBy(e, n) == \E i \in Shared(e) : KeyOf(exec[e].graph[i]) = n
MarksUsed == \A n \in DOMAIN metadata : metadata[n].in_current_runtime =>
                 \E e \in Executors : exec[e].state = "packing" /\ UsedBy(e, n)
NamesUsed == \A e \in Executors : \A n \in exec[e].names : UsedBy(e, n)
CountsExact == \A n \in DOMAIN metadata : metadata[n].ref_count = Cardinality(Namers(n))

\* Only entries keep buffers and slots, only a compilation keeps constants.
BuffersOfEntries == /\ DOMAIN containers = {PtrOf(n) : n \in DOMAIN metadata}
                    /\ DOMAIN metadata = {} => packed_data_ptrs = <<>>
ConstantsOfCompiling == Unlocked => unpacked = {}
ReadyFinalized == Unlocked => is_finalized \/ \A e \in Executors : exec[e].state # "ready"

Exact == MarksUsed /\ NamesUsed /\ CountsExact /\ BuffersOfEntries /\ ConstantsOfCompiling
         /\ ReadyFinalized
ExactInv == ~failed => Exact

\* Executors keep what they use when they take no step.
LEMMA UsedKept ==
  ASSUME NEW x, exec'[x] = exec[x], NEW n
  PROVE  UsedBy(x, n)' <=> UsedBy(x, n)
BY DEF UsedBy, Shared

\* The first steps of a compilation leave the accounts as they are.
LEMMA QuietExact ==
  ASSUME Exact, NEW e \in Executors, \A x \in Executors \ {e} : exec'[x] = exec[x],
         UNCHANGED <<metadata, packed_data_ptrs, containers>>,
         exec[e].state \in {"none", "defining"}, exec'[e].state \in {"defining", "packing"},
         exec'[e].names = {}
  PROVE  Exact'
<1>1. MarksUsed'
  BY UsedKept DEF Exact, MarksUsed
<1>2. NamesUsed'
  BY UsedKept DEF Exact, NamesUsed
<1>3. CountsExact'
  BY NamersSame DEF Exact, CountsExact
<1>4. BuffersOfEntries'
  BY DEF Exact, BuffersOfEntries, PtrOf
<1>5. ~Unlocked'
  BY DEF Unlocked, Compiling
<1> QED
  BY <1>1, <1>2, <1>3, <1>4, <1>5 DEF Exact, ConstantsOfCompiling, ReadyFinalized

\* Packing an operator: marks and counts.
LEMMA PackExact ==
  ASSUME Types, Exact, NEW e \in Executors, exec[e].state = "packing", ~AtLastOp(e),
         NEW offset \in Int, Uses(e, offset), BuffersOfEntries',
         \A n \in DOMAIN metadata' :
           \/ /\ n \in DOMAIN metadata /\ metadata'[n].ref_count = metadata[n].ref_count
              /\ metadata'[n].in_current_runtime => metadata[n].in_current_runtime
           \/ /\ n = KeyOf(CurrentOp(e)) /\ offset # Private
              /\ metadata'[n].ref_count = Cardinality(Namers(n))
  PROVE  Exact'
<1> DEFINE i == exec[e].pos + 1
<1>1. /\ exec'[e].state = "packing" /\ exec'[e].graph = exec[e].graph
      /\ exec'[e].graph[i] = CurrentOp(e)
      /\ \A j \in Shared(e) : j \in Shared(e)' /\ exec'[e].uses[j] = exec[e].uses[j]
      /\ offset # Private => i \in Shared(e)'
      /\ \A x \in Executors \ {e} : exec'[x] = exec[x]
  BY UsesGrow
<1> HIDE DEF i
<1>2. \A n : UsedBy(e, n) => UsedBy(e, n)'
  <2> SUFFICES ASSUME NEW n, UsedBy(e, n) PROVE UsedBy(e, n)'
    OBVIOUS
  <2>1. PICK j \in Shared(e) : KeyOf(exec[e].graph[j]) = n
    BY DEF UsedBy
  <2>2. j \in Shared(e)' /\ KeyOf(exec'[e].graph[j]) = n
    BY <1>1, <2>1
  <2> QED
    BY <2>2 DEF UsedBy, KeyOf
<1>3. \A n : n = KeyOf(CurrentOp(e)) /\ offset # Private => UsedBy(e, n)'
  <2> SUFFICES ASSUME NEW n, n = KeyOf(CurrentOp(e)), offset # Private PROVE UsedBy(e, n)'
    OBVIOUS
  <2>1. i \in Shared(e)' /\ KeyOf(exec'[e].graph[i]) = n
    BY <1>1
  <2> QED
    BY <2>1 DEF UsedBy, KeyOf
<1>4. MarksUsed'
  <2> SUFFICES ASSUME NEW n \in DOMAIN metadata', metadata'[n].in_current_runtime
               PROVE  \E x \in Executors : exec'[x].state = "packing" /\ UsedBy(x, n)'
    BY DEF MarksUsed
  <2>1. CASE n \in DOMAIN metadata /\ metadata[n].in_current_runtime
    <3>1. PICK x \in Executors : exec[x].state = "packing" /\ UsedBy(x, n)
      BY <2>1 DEF Exact, MarksUsed
    <3>2. CASE x = e
      BY <1>1, <1>2, <3>1, <3>2
    <3>3. CASE x # e
      BY <1>1, <3>1, <3>3, UsedKept
    <3> QED
      BY <3>2, <3>3
  <2>2. CASE n = KeyOf(CurrentOp(e)) /\ offset # Private
    BY <1>1, <1>3, <2>2
  <2> QED
    BY <2>1, <2>2
<1>5. NamesUsed'
  <2>1. exec'[e].names = {}
    BY <1>1, UsesStep DEF Types, ExecTypes
  <2> QED
    BY <1>1, <2>1, UsedKept DEF Exact, NamesUsed
<1>6. \A n : Namers(n)' = Namers(n)
  BY <1>1, NamersSame
<1>7. CountsExact'
  BY <1>6 DEF Exact, CountsExact
<1>8. ~Unlocked'
  BY <1>1 DEF Unlocked, Compiling
<1> QED
  BY <1>4, <1>5, <1>7, <1>8 DEF Exact, ConstantsOfCompiling, ReadyFinalized

LEMMA PackHitExact ==
  ASSUME WellNamed, CacheInv, SharingInv, Exact, NEW e \in Executors, PackHit(e)
  PROVE  Exact'
<1> DEFINE op == CurrentOp(e)
           k == KeyOf(op)
           offset == metadata[k].offset
<1>1. Types /\ SlotsInv /\ exec[e].state = "packing" /\ ~AtLastOp(e)
  BY DEF CacheInv, PackHit
<1>2. Key(e, op) = k
  BY <1>1, PackingKey DEF SharingInv
<1>3. /\ k \in DOMAIN metadata /\ DOMAIN metadata' = DOMAIN metadata
      /\ \A n \in DOMAIN metadata :
           /\ metadata'[n].offset = metadata[n].offset /\ metadata'[n].seed = metadata[n].seed
           /\ metadata'[n].ref_count = metadata[n].ref_count
           /\ metadata'[n].in_current_runtime = (n = k \/ metadata[n].in_current_runtime)
  BY <1>1, <1>2, PackHitIs
<1>4. Uses(e, offset) /\ UNCHANGED <<packed_data_ptrs, containers>> /\ offset \in Int /\ offset # Private
  BY <1>1, <1>2, <1>3 DEF PackHit, Types, CacheTypes, EntryType, Private
<1>5. BuffersOfEntries'
  <2>1. \A n \in DOMAIN metadata : PtrOf(n)' = PtrOf(n)
    BY <1>1, <1>3, <1>4, SameSlots
  <2> QED
    BY <1>3, <1>4, <2>1 DEF Exact, BuffersOfEntries
<1> HIDE DEF offset
<1>6. \A n \in DOMAIN metadata' :
        \/ /\ n \in DOMAIN metadata /\ metadata'[n].ref_count = metadata[n].ref_count
           /\ metadata'[n].in_current_runtime => metadata[n].in_current_runtime
        \/ /\ n = k /\ offset # Private /\ metadata'[n].ref_count = Cardinality(Namers(n))
  BY <1>3, <1>4 DEF Exact, CountsExact
<1> QED
  BY <1>1, <1>4, <1>5, <1>6, PackExact

LEMMA PackMissExact ==
  ASSUME WellNamed, CacheInv, SharingInv, Exact, NEW e \in Executors, PackMiss(e)
  PROVE  Exact'
<1> DEFINE op == CurrentOp(e)
           k == KeyOf(op)
           L == Len(packed_data_ptrs)
           ptr == packed_data_ptrs'[L + 1]
<1>1. Types /\ SlotsInv /\ exec[e].state = "packing" /\ ~AtLastOp(e) /\ op.packed
  BY DEF CacheInv, PackMiss, ThroughCache
<1>2. Key(e, op) = k /\ Registered(e, op.kernel)
  BY <1>1, PackingKey DEF SharingInv
<1>3. k \notin DOMAIN metadata
  BY PackMissShares
<1>4. /\ DOMAIN metadata' = DOMAIN metadata \cup {k}
      /\ metadata'[k] = [offset |-> L, ref_count |-> 0, in_current_runtime |-> TRUE, seed |-> op.seed]
      /\ \A n \in DOMAIN metadata \ {k} : metadata'[n] = metadata[n]
  BY <1>1, <1>2, PackMissEntry
<1>5. /\ metadata'[k].offset = L /\ metadata'[k].ref_count = 0
      /\ \A n \in DOMAIN metadata : metadata'[n] = metadata[n]
  BY <1>3, <1>4
<1>6. /\ L \in Nat /\ \A i \in 1 .. L : packed_data_ptrs'[i] = packed_data_ptrs[i]
      /\ DOMAIN containers' = DOMAIN containers \cup {ptr}
  BY <1>1, PackMissIs
<1>7. Uses(e, L) /\ L \in Int /\ L # Private
  BY <1>6 DEF PackMiss, NextOffset, Private
<1> HIDE DEF op, k, L, ptr
<1>8. \A n : n = k => PtrOf(n)' = ptr
  BY <1>5 DEF PtrOf, ptr
<1>9. \A n \in DOMAIN metadata : PtrOf(n)' = PtrOf(n)
  <2> SUFFICES ASSUME NEW n \in DOMAIN metadata PROVE PtrOf(n)' = PtrOf(n)
    OBVIOUS
  <2>1. metadata[n].offset \in Nat /\ metadata[n].offset < L
    BY <1>1 DEF Types, CacheTypes, EntryType, SlotsInv, EntriesOwn, L
  <2> QED
    BY <1>5, <1>6, <2>1 DEF PtrOf
<1>10. BuffersOfEntries'
  <2>1. DOMAIN containers = {PtrOf(n) : n \in DOMAIN metadata}
    BY DEF Exact, BuffersOfEntries
  <2>2. \A p \in DOMAIN containers' : \E n \in DOMAIN metadata' : PtrOf(n)' = p
    BY <1>4, <1>6, <1>8, <1>9, <2>1
  <2>3. \A n \in DOMAIN metadata' : PtrOf(n)' \in DOMAIN containers'
    BY <1>4, <1>6, <1>8, <1>9, <2>1
  <2>4. DOMAIN containers' = {PtrOf(n)' : n \in DOMAIN metadata'}
    BY <2>2, <2>3
  <2>5. DOMAIN metadata' # {}
    BY <1>4
  <2> QED
    BY <2>4, <2>5 DEF BuffersOfEntries
<1>11. Cardinality(Namers(k)) = 0
  <2>1. Namers(k) = {}
    BY <1>3 DEF SharingInv, NamesKnown, Namers
  <2> QED
    BY <2>1, FS_EmptySet
<1>12. \A n \in DOMAIN metadata' :
         \/ /\ n \in DOMAIN metadata /\ metadata'[n].ref_count = metadata[n].ref_count
            /\ metadata'[n].in_current_runtime => metadata[n].in_current_runtime
         \/ /\ n = k /\ L # Private /\ metadata'[n].ref_count = Cardinality(Namers(n))
  BY <1>4, <1>5, <1>7, <1>11
<1> QED
  BY <1>1, <1>7, <1>10, <1>12, PackExact DEF op, k

\* Finishing: marks become names, and every mark is counted once.
LEMMA FinishExact ==
  ASSUME CacheInv, SharingInv, Exact, NEW e \in Executors, Finish(e)
  PROVE  Exact'
<1> DEFINE r == [state |-> "ready", graph |-> exec[e].graph, pos |-> exec[e].pos,
                 uses |-> exec[e].uses, names |-> InCurrentRuntime]
<1>1. exec'[e] = r /\ \A x \in Executors \ {e} : exec'[x] = exec[x]
  BY FinishStep DEF CacheInv, Types, CacheTypes
<1>2. /\ exec'[e].state = "ready" /\ exec'[e].graph = exec[e].graph
      /\ exec'[e].uses = exec[e].uses /\ exec'[e].names = InCurrentRuntime
      /\ exec[e].state = "packing"
  BY <1>1 DEF Finish
<1>3. /\ DOMAIN metadata' = DOMAIN metadata
      /\ \A n \in DOMAIN metadata :
           /\ metadata'[n].offset = metadata[n].offset /\ metadata'[n].seed = metadata[n].seed
           /\ metadata'[n].ref_count = IF metadata[n].in_current_runtime
                                       THEN metadata[n].ref_count + 1 ELSE metadata[n].ref_count
           /\ metadata'[n].in_current_runtime = FALSE
  BY FinishIs DEF CacheInv
<1>4. UNCHANGED <<packed_data_ptrs, containers>> /\ unpacked' = {} /\ is_finalized'
  BY DEF Finish
<1>5. \A x \in Executors \ {e} : exec[x].state \notin {"defining", "packing"}
  BY <1>2 DEF CacheInv, CountsInv, Compiling
<1>6. MarksUsed'
  BY <1>3 DEF MarksUsed
<1>7. NamesUsed'
  <2>1. ASSUME NEW n \in InCurrentRuntime PROVE UsedBy(e, n)'
    <3>1. n \in DOMAIN metadata /\ metadata[n].in_current_runtime
      BY <2>1 DEF InCurrentRuntime
    <3>2. UsedBy(e, n)
      BY <1>5, <3>1 DEF Exact, MarksUsed
    <3> QED
      BY <1>2, <3>2 DEF UsedBy, Shared
  <2>2. ASSUME NEW x \in Executors \ {e}, NEW n \in exec'[x].names PROVE UsedBy(x, n)'
    BY <1>1, <2>2, UsedKept DEF Exact, NamesUsed
  <2> QED
    BY <1>2, <2>1, <2>2 DEF NamesUsed
<1>8. CountsExact'
  <2> SUFFICES ASSUME NEW n \in DOMAIN metadata
               PROVE  metadata'[n].ref_count = Cardinality(Namers(n)')
    BY <1>3 DEF CountsExact
  <2>1. /\ metadata[n].ref_count = Cardinality(Namers(n))
        /\ metadata[n].in_current_runtime \in BOOLEAN
    BY DEF Exact, CountsExact, CacheInv, Types, CacheTypes, EntryType
  <2>2. IsFiniteSet(Namers(n)) /\ Cardinality(Namers(n)) \in Nat /\ e \notin Namers(n)
    BY <1>2, NamersFinite DEF Namers
  <2>3. CASE metadata[n].in_current_runtime
    <3>1. Namers(n)' = Namers(n) \cup {e}
      BY <1>1, <1>2, <2>3 DEF Namers, InCurrentRuntime
    <3>2. Cardinality(Namers(n)') = Cardinality(Namers(n)) + 1
      BY <2>2, <3>1, FS_AddElement
    <3> QED
      BY <1>3, <2>1, <2>3, <3>2
  <2>4. CASE ~metadata[n].in_current_runtime
    <3>1. Namers(n)' = Namers(n)
      BY <1>1, <1>2, <2>4 DEF Namers, InCurrentRuntime
    <3> QED
      BY <1>3, <2>1, <2>4, <3>1
  <2> QED
    BY <2>1, <2>3, <2>4
<1>9. BuffersOfEntries'
  <2>1. \A n \in DOMAIN metadata : PtrOf(n)' = PtrOf(n)
    BY <1>3, <1>4, SameSlots DEF CacheInv
  <2> QED
    BY <1>3, <1>4, <2>1 DEF Exact, BuffersOfEntries
<1> QED
  BY <1>4, <1>6, <1>7, <1>8, <1>9 DEF Exact, ConstantsOfCompiling, ReadyFinalized

\* Destroying: the counts of its names go down, and a deletion frees exactly the
\* buffers of the entries it erases.
LEMMA DestroyExact ==
  ASSUME CacheInv, SharingInv, Exact, NEW e \in Executors, Destroy(e)
  PROVE  Exact'
<1>1. exec'[e] = NoExecutor /\ \A x \in Executors \ {e} : exec'[x] = exec[x]
  BY GoneStep DEF CacheInv, Types
<1>2. /\ exec'[e].state = "none" /\ exec'[e].names = {} /\ exec[e].state = "ready"
      /\ UNCHANGED <<unpacked, is_finalized>> /\ Unlocked
      /\ \A x \in Executors : exec[x].state \notin {"defining", "packing"}
  BY <1>1 DEF NoExecutor, Destroy, Unlocked, Compiling
<1>3. \A n : IsFiniteSet(Namers(n)) /\ Cardinality(Namers(n)) \in Nat
  BY NamersFinite
<1>4. \A n : Namers(n)' = Namers(n) \ {e} /\ (e \in Namers(n) <=> n \in exec[e].names)
  BY <1>1, <1>2 DEF Namers
<1>5. \A n \in DOMAIN metadata : ~metadata[n].in_current_runtime
  BY <1>2 DEF Exact, MarksUsed
<1>6. NamesUsed'
  BY <1>1, <1>2, UsedKept DEF Exact, NamesUsed
<1>7. is_finalized /\ ConstantsOfCompiling' /\ ReadyFinalized'
  BY <1>2 DEF Exact, ConstantsOfCompiling, ReadyFinalized
<1>8. CASE UNCHANGED <<metadata, packed_data_ptrs, containers>> /\ exec[e].names = {}
  <2>1. MarksUsed' /\ BuffersOfEntries'
    BY <1>5, <1>8 DEF MarksUsed, Exact, BuffersOfEntries, PtrOf
  <2>2. \A n : Namers(n)' = Namers(n)
    BY <1>4, <1>8
  <2>3. CountsExact'
    BY <1>8, <2>2 DEF Exact, CountsExact
  <2> QED
    BY <1>6, <1>7, <2>1, <2>3 DEF Exact
<1>9. CASE DeleteEntries(exec[e].names, TRUE)
  <2> DEFINE names == exec[e].names
             gone == Released(names)
  <2>1. names \in SUBSET DOMAIN metadata /\ Types /\ SlotsInv
    BY <1>2 DEF SharingInv, NamesKnown, CacheInv
  <2>2. /\ EntriesDeleted(names) /\ BuffersDeleted(names)
        /\ DOMAIN metadata' = {} => packed_data_ptrs' = <<>>
    BY <1>9, <2>1, DeleteIs
  <2>3. \A n \in DOMAIN metadata' : /\ n \in DOMAIN metadata /\ PtrOf(n)' = PtrOf(n)
                                    /\ PtrOf(n) \in DOMAIN containers'
    BY <1>9, <2>1, DeleteKeeps
  <2>4. MarksUsed'
    BY <1>5, <2>2, <2>3 DEF MarksUsed, EntriesDeleted
  <2>5. CountsExact'
    <3> SUFFICES ASSUME NEW n \in DOMAIN metadata'
                 PROVE  metadata'[n].ref_count = Cardinality(Namers(n)')
      BY DEF CountsExact
    <3>1. n \in DOMAIN metadata /\ metadata[n].ref_count = Cardinality(Namers(n))
      BY <2>3 DEF Exact, CountsExact
    <3>2. CASE n \in names
      <4>1. Cardinality(Namers(n)') = Cardinality(Namers(n)) - 1 /\ e \in Namers(n)
        BY <1>3, <1>4, <3>2, FS_RemoveElement
      <4>2. Cardinality(Namers(n)) # 0
        BY <1>3, <4>1, FS_EmptySet
      <4>3. metadata'[n].ref_count = metadata[n].ref_count - 1
        BY <1>3, <2>2, <3>1, <3>2, <4>2 DEF EntriesDeleted, Decremented
      <4> QED
        BY <3>1, <4>1, <4>3
    <3>3. CASE n \notin names
      <4>1. Namers(n)' = Namers(n) /\ metadata'[n].ref_count = metadata[n].ref_count
        BY <1>4, <2>2, <3>3 DEF EntriesDeleted
      <4> QED
        BY <3>1, <4>1
    <3> QED
      BY <3>2, <3>3
  <2>6. BuffersOfEntries'
    <3>1. /\ DOMAIN containers' = DOMAIN containers \ {PtrOf(n) : n \in gone}
          /\ DOMAIN metadata' = DOMAIN metadata \ gone
          /\ DOMAIN containers = {PtrOf(n) : n \in DOMAIN metadata}
      BY <2>2 DEF BuffersDeleted, EntriesDeleted, Exact, BuffersOfEntries
    <3> HIDE DEF gone
    <3>2. \A p \in DOMAIN containers' : \E n \in DOMAIN metadata' : PtrOf(n)' = p
      BY <2>3, <3>1
    <3>3. DOMAIN containers' = {PtrOf(n)' : n \in DOMAIN metadata'}
      BY <2>3, <3>2
    <3> QED
      BY <2>2, <3>3 DEF BuffersOfEntries
  <2> QED
    BY <1>6, <1>7, <2>4, <2>5, <2>6 DEF Exact
<1> QED
  BY <1>7, <1>8, <1>9, DestroyCases

LEMMA ExactNext == WellNamed /\ CacheInv /\ SharingInv /\ ExactInv /\ [Next]_vars => ExactInv'
<1> SUFFICES ASSUME WellNamed, CacheInv, SharingInv, ExactInv, [Next]_vars, ~failed'
             PROVE  Exact'
  BY DEF ExactInv
<1>1. Types
  BY DEF CacheInv
<1>2. CASE UNCHANGED vars
  <2>1. Exact
    BY <1>2 DEF vars, ExactInv
  <2> QED
    BY <1>2, <2>1 DEF vars, cache, Exact, MarksUsed, UsedBy, Shared, NamesUsed, CountsExact, Namers,
                      BuffersOfEntries, PtrOf, ConstantsOfCompiling, ReadyFinalized, Unlocked, Compiling
<1>3. ASSUME NEW e \in Executors, NEW g \in Graphs, Begin(e, g) PROVE Exact'
  <2> DEFINE r == [state |-> "defining", graph |-> g, pos |-> 0, uses |-> <<>>, names |-> {}]
  <2>1. exec'[e] = r /\ \A x \in Executors \ {e} : exec'[x] = exec[x]
    BY <1>1, <1>3, BeginStep DEF Types
  <2>2. exec'[e].state = "defining" /\ exec'[e].names = {}
    BY <2>1
  <2>3. /\ exec[e].state = "none" /\ UNCHANGED <<metadata, packed_data_ptrs, containers>> /\ Exact
    BY <1>3 DEF Begin, ExactInv
  <2> QED
    BY <2>1, <2>2, <2>3, QuietExact
<1>4. ASSUME NEW e \in Executors, DefineTensors(e) PROVE Exact'
  <2> DEFINE r == [state |-> "defining", graph |-> exec[e].graph, pos |-> exec[e].pos + 1,
                   uses |-> exec[e].uses, names |-> {}]
  <2>1. exec'[e] = r /\ \A x \in Executors \ {e} : exec'[x] = exec[x]
    BY <1>1, <1>4, DefineStep DEF Types
  <2>2. exec'[e].state = "defining" /\ exec'[e].names = {}
    BY <2>1
  <2>3. /\ exec[e].state = "defining" /\ UNCHANGED <<metadata, packed_data_ptrs, containers>> /\ Exact
    BY <1>4 DEF DefineTensors, ExactInv
  <2> QED
    BY <2>1, <2>2, <2>3, QuietExact
<1>5. ASSUME NEW e \in Executors, CreateRuntime(e) PROVE Exact'
  <2> DEFINE r == [state |-> "packing", graph |-> exec[e].graph, pos |-> 0,
                   uses |-> exec[e].uses, names |-> {}]
  <2>1. exec'[e] = r /\ \A x \in Executors \ {e} : exec'[x] = exec[x]
    BY <1>1, <1>5, CreateStep DEF Types
  <2>2. exec'[e].state = "packing" /\ exec'[e].names = {}
    BY <2>1
  <2>3. /\ exec[e].state = "defining" /\ UNCHANGED <<metadata, packed_data_ptrs, containers>> /\ Exact
    BY <1>5 DEF CreateRuntime, ExactInv, cache
  <2> QED
    BY <2>1, <2>2, <2>3, QuietExact
<1>6. ASSUME NEW e \in Executors, PackHit(e) PROVE Exact'
  BY <1>6, PackHitExact DEF PackHit, ExactInv
<1>7. ASSUME NEW e \in Executors, PackMiss(e) PROVE Exact'
  BY <1>7, PackMissExact DEF PackMiss, ExactInv
<1>8. ASSUME NEW e \in Executors, PackPrivate(e) PROVE Exact'
  <2>1. /\ exec[e].state = "packing" /\ ~AtLastOp(e) /\ Uses(e, Private) /\ Private \in Int
        /\ UNCHANGED <<metadata, packed_data_ptrs, containers>> /\ Exact
    BY <1>8 DEF PackPrivate, Private, cache, ExactInv
  <2>2. BuffersOfEntries'
    BY <2>1 DEF Exact, BuffersOfEntries, PtrOf
  <2> QED
    BY <1>1, <2>1, <2>2, PackExact
<1>9. ASSUME NEW e \in Executors, Finish(e) PROVE Exact'
  BY <1>9, FinishExact DEF Finish, ExactInv
<1>10. ASSUME NEW e \in Executors, CompileFails(e) PROVE Exact'
  BY <1>10 DEF CompileFails
<1>11. ASSUME NEW e \in Executors, Destroy(e) PROVE Exact'
  BY <1>11, DestroyExact DEF Destroy, ExactInv
<1> QED
  BY <1>2, <1>3, <1>4, <1>5, <1>6, <1>7, <1>8, <1>9, <1>10, <1>11 DEF Next

-----------------------------------------------------------------------------
(* The start *)

LEMMA CacheInit == Init => SlotsInv /\ CountsInv /\ SharingInv /\ ExactInv
<1> SUFFICES ASSUME Init PROVE SlotsInv /\ CountsInv /\ SharingInv /\ ExactInv
  OBVIOUS
<1> DEFINE nil == <<>>
<1>1. DOMAIN nil = {} /\ Len(nil) = 0
  OBVIOUS
<1>2. /\ metadata = nil /\ packed_data_ptrs = nil /\ containers = nil /\ unpacked = {}
      /\ exec = [e \in Executors |-> NoExecutor]
  BY DEF Init
<1>3. \A e \in Executors : /\ exec[e].state = "none" /\ exec[e].names = {}
                           /\ exec[e].uses = nil
  BY <1>2 DEF NoExecutor
<1>4. packed_data_ptrs = <<>>
  BY DEF Init
<1> HIDE DEF nil
<1>5. DOMAIN metadata = {} /\ DOMAIN containers = {} /\ Len(packed_data_ptrs) = 0
  BY <1>1, <1>2
<1>6. \A e \in Executors : Shared(e) = {} /\ Defined(e) = {} /\ ~Compiling(e)
  BY <1>1, <1>3 DEF Shared, Defined, Compiling
<1>7. SlotsInv
  BY <1>5 DEF SlotsInv, EntriesOwn, OffsetsDiffer, PtrsBacked, PtrsDiffer
<1>8. CountsInv
  BY <1>5, <1>6 DEF CountsInv
<1>9. SharingInv
  BY <1>3, <1>5, <1>6
     DEF SharingInv, Loaded, EntryOps, UsesEntries, NamesKnown, NamesCounted
<1>10. Exact
  <2>1. {PtrOf(n) : n \in DOMAIN metadata} = {}
    BY <1>5
  <2> QED
    BY <1>2, <1>3, <1>4, <1>5, <2>1
       DEF Exact, MarksUsed, NamesUsed, CountsExact, BuffersOfEntries, ConstantsOfCompiling, ReadyFinalized
<1> QED
  BY <1>7, <1>8, <1>9, <1>10 DEF ExactInv

-----------------------------------------------------------------------------
(* Theorems *)

LEMMA CacheInvHolds == Spec => []CacheInv
<1>1. Init => CacheInv
  BY TypesInit, CacheInit DEF CacheInv
<1>2. CacheInv /\ [Next]_vars => CacheInv'
  BY TypesNext, SlotsNext, CountsNext DEF CacheInv
<1> QED
  BY <1>1, <1>2, PTL DEF Spec

LEMMA SharingHolds ==
  ASSUME WellNamed
  PROVE  Spec => [](CacheInv /\ SharingInv /\ ExactInv)
<1>1. Init => CacheInv /\ SharingInv /\ ExactInv
  BY TypesInit, CacheInit DEF CacheInv
<1>2. CacheInv /\ SharingInv /\ ExactInv /\ [Next]_vars => (CacheInv /\ SharingInv /\ ExactInv)'
  BY TypesNext, SlotsNext, CountsNext, SharingNext, ExactNext DEF CacheInv
<1> QED
  BY <1>1, <1>2, PTL DEF Spec

\* All variables keep their types if no more is compiled than a count can count:
\* offsets are those of slots that exist and counts do not wrap around.
THEOREM CacheTypesHold ==
  ASSUME MaxCompiles <= MaxRefCount
  PROVE  Spec => []TypeOK
<1>1. CacheInv => TypeOK
  <2> SUFFICES ASSUME CacheInv PROVE TypeOK
    OBVIOUS
  <2>1. Types /\ EntriesOwn
    BY DEF CacheInv, SlotsInv
  <2>2. ASSUME NEW n \in DOMAIN metadata
        PROVE  metadata[n] \in Entry /\ metadata[n].offset < Len(packed_data_ptrs)
    <3>1. metadata[n] \in EntryType /\ metadata[n].offset < Len(packed_data_ptrs)
      BY <2>1 DEF Types, CacheTypes, EntriesOwn
    <3>2. metadata[n].ref_count <= compiles /\ compiles \in 0 .. MaxCompiles
      BY DEF CacheInv, CountsInv, Types
    <3>3. metadata[n].ref_count \in 0 .. MaxRefCount
      BY <3>1, <3>2, BoundsAssumption DEF EntryType
    <3> QED
      BY <3>1, <3>3 DEF EntryType, Entry
  <2>3. \A e \in Executors :
          /\ exec[e].state \in {"none", "defining", "packing", "ready"}
          /\ exec[e].graph \in Graphs \cup {<<>>}
          /\ exec[e].pos \in 0 .. Len(exec[e].graph)
    BY <2>1 DEF Types, ExecTypes, ExecType
  <2> QED
    BY <2>1, <2>2, <2>3 DEF TypeOK, Types, CacheTypes
<1> QED
  BY <1>1, CacheInvHolds, PTL

\* Whatever is compiled, fails or is destroyed, an entry of the cache finds the bytes
\* packed for its own key and seed.
THEOREM EntriesOwnTheirSlots == Spec => []EntriesOwnSlots
<1>1. CacheInv => EntriesOwnSlots
  BY DEF CacheInv, SlotsInv, EntriesOwn, EntriesOwnSlots, PtrOf
<1> QED
  BY <1>1, CacheInvHolds, PTL

\* No count wraps around: delete_packed_data decrements what was counted before.
THEOREM CountsDoNotWrap == Spec => []CountsNeverWrap
<1>1. CacheInv => CountsNeverWrap
  BY DEF CacheInv, CountsInv, CountsNeverWrap
<1> QED
  BY <1>1, CacheInvHolds, PTL

\* A runtime's use of the cache: where it points, and under which name.
LEMMA UseOf ==
  ASSUME CacheInv, SharingInv, NEW e \in Executors, NEW i \in Shared(e)
  PROVE  LET k == KeyOf(exec[e].graph[i]) IN
         /\ exec[e].graph[i] \in GraphOps /\ exec[e].graph[i].packed
         /\ k \in DOMAIN metadata /\ metadata[k].offset = exec[e].uses[i]
         /\ exec[e].state = "ready" => k \in exec[e].names
<1>1. UsesEntry(e, i)
  BY DEF SharingInv, UsesEntries
<1>2. exec[e].graph[i] \in GraphOps
  <2>1. /\ exec[e].uses \in Seq(Int) /\ exec[e].pos <= Len(exec[e].graph) /\ exec[e].pos \in Nat
        /\ exec[e].graph \in Seq(Op)
        /\ exec[e].state # "none" => exec[e].graph \in Graphs
        /\ exec[e].state \in {"packing", "ready"} => Len(exec[e].uses) = exec[e].pos
        /\ exec[e].state \in {"none", "defining", "packing", "ready"}
    BY DEF CacheInv, Types, ExecTypes, ExecType
  <2>2. i \in DOMAIN exec[e].uses
    BY DEF Shared
  <2>3. exec[e].state \in {"packing", "ready"}
    <3>1. exec[e].uses # <<>>
      BY <2>2
    <3>2. exec[e].state \notin {"none", "defining"}
      BY <3>1 DEF CacheInv, Types, ExecTypes
    <3> QED
      BY <2>1, <3>2
  <2>4. i \in DOMAIN exec[e].graph /\ exec[e].graph \in Graphs
    <3> DEFINE g == exec[e].graph
               u == exec[e].uses
    <3>1. u \in Seq(Int) /\ g \in Seq(Op) /\ Len(u) <= Len(g) /\ i \in DOMAIN u
      BY <2>1, <2>2, <2>3
    <3>2. g \in Graphs
      BY <2>1, <2>3
    <3> HIDE DEF g, u
    <3>3. i \in DOMAIN g
      BY <3>1
    <3> QED
      BY <3>2, <3>3 DEF g
  <2> QED
    BY <2>4 DEF GraphOps
<1> QED
  BY <1>1, <1>2 DEF UsesEntry

\* Every runtime finds the packed weights of its operators for as long as it lives.
THEOREM PackedStaysAlive ==
  ASSUME WellNamed
  PROVE  Spec => []PackedAlive
<1>1. CacheInv /\ SharingInv => PackedAlive
  <2> SUFFICES ASSUME CacheInv, SharingInv, NEW e \in Executors, NEW i \in Shared(e)
               PROVE  Holds(exec[e].uses[i], exec[e].graph[i])
    BY DEF PackedAlive
  <2> DEFINE k == KeyOf(exec[e].graph[i])
  <2>1. /\ exec[e].graph[i] \in GraphOps /\ exec[e].graph[i].packed
        /\ k \in DOMAIN metadata /\ metadata[k].offset = exec[e].uses[i]
    BY UseOf
  <2>2. metadata[k].offset < Len(packed_data_ptrs) /\ PtrOf(k) \in DOMAIN containers
    BY <2>1 DEF CacheInv, SlotsInv, EntriesOwn
  <2>3. containers[PtrOf(k)] = exec[e].graph[i]
    BY <2>1 DEF SharingInv, EntryOps, WellNamed
  <2> QED
    BY <2>1, <2>2, <2>3 DEF Holds, PtrOf
<1> QED
  BY <1>1, SharingHolds, PTL

\* A runtime's entries are among its names.
LEMMA EntriesNamed ==
  ASSUME CacheInv, SharingInv, NEW e \in Executors, exec[e].state = "ready"
  PROVE  EntriesOf(e) \subseteq exec[e].names
<1> SUFFICES ASSUME NEW n \in DOMAIN metadata, NEW i \in Shared(e),
                    exec[e].uses[i] = metadata[n].offset
             PROVE  n \in exec[e].names
  BY DEF EntriesOf
<1> DEFINE k == KeyOf(exec[e].graph[i])
<1>1. k \in DOMAIN metadata /\ metadata[k].offset = metadata[n].offset /\ k \in exec[e].names
  BY UseOf
<1>2. k = n
  BY <1>1 DEF CacheInv, SlotsInv, OffsetsDiffer
<1> QED
  BY <1>1, <1>2

\* A count covers the runtimes that use the entry, and each of them counts itself out.
THEOREM CountsCoverUsers ==
  ASSUME WellNamed
  PROVE  Spec => []RefCountCovers
<1>1. CacheInv /\ SharingInv => RefCountCovers
  <2> SUFFICES ASSUME CacheInv, SharingInv PROVE RefCountCovers
    OBVIOUS
  <2>1. ASSUME NEW n \in DOMAIN metadata
        PROVE  metadata[n].ref_count >= Cardinality(Users(n))
    <3>1. Users(n) \subseteq Namers(n)
      BY EntriesNamed DEF Users, Ready, Namers
    <3>2. /\ IsFiniteSet(Namers(n)) /\ Cardinality(Namers(n)) \in Nat
      BY NamersFinite
    <3>3. /\ Cardinality(Users(n)) <= Cardinality(Namers(n)) /\ Cardinality(Users(n)) \in Nat
      BY <3>1, <3>2, FS_Subset, FS_CardinalityType
    <3>4. metadata[n].ref_count >= Cardinality(Namers(n)) /\ metadata[n].ref_count \in Nat
      BY DEF SharingInv, NamesCounted, CacheInv, Types, CacheTypes, EntryType
    <3> QED
      BY <3>2, <3>3, <3>4
  <2>2. \A e \in Ready : EntriesOf(e) \subseteq exec[e].names /\ exec[e].names \subseteq DOMAIN metadata
    BY EntriesNamed DEF Ready, SharingInv, NamesKnown
  <2> QED
    BY <2>1, <2>2 DEF RefCountCovers
<1> QED
  BY <1>1, SharingHolds, PTL

\* Without failures the counts are exact, and the last destroy leaves nothing.
THEOREM BalanceHolds ==
  ASSUME WellNamed
  PROVE  Spec => []BalancedWithoutFailure
<1>1. CacheInv /\ SharingInv /\ ExactInv => BalancedWithoutFailure
  <2> SUFFICES ASSUME CacheInv, SharingInv, Exact
               PROVE  /\ RefCountExact
                      /\ (\A e \in Executors : exec[e].state = "none") =>
                            DOMAIN containers = {} /\ packed_data_ptrs = <<>> /\ unpacked = {}
    BY DEF ExactInv, BalancedWithoutFailure
  <2>1. ASSUME NEW n \in DOMAIN metadata
        PROVE  metadata[n].ref_count = Cardinality(Users(n))
    <3>1. Users(n) \subseteq Namers(n)
      BY EntriesNamed DEF Users, Ready, Namers
    <3>2. ASSUME NEW e \in Namers(n) PROVE e \in Users(n)
      <4>1. e \in Executors /\ exec[e].state = "ready" /\ n \in exec[e].names
        BY <3>2 DEF Namers
      <4>2. PICK i \in Shared(e) : KeyOf(exec[e].graph[i]) = n
        BY <4>1 DEF Exact, NamesUsed, UsedBy
      <4>3. metadata[n].offset = exec[e].uses[i]
        BY <4>1, <4>2, UseOf
      <4> QED
        BY <4>1, <4>3 DEF Users, Ready, EntriesOf
    <3>3. Users(n) = Namers(n)
      BY <3>1, <3>2
    <3> QED
      BY <3>3 DEF Exact, CountsExact
  <2>2. ASSUME \A e \in Executors : exec[e].state = "none"
        PROVE  DOMAIN containers = {} /\ packed_data_ptrs = <<>> /\ unpacked = {}
    <3>1. \A n : Namers(n) = {}
      BY <2>2 DEF Namers
    <3>2. DOMAIN metadata = {}
      <4> SUFFICES ASSUME NEW n \in DOMAIN metadata PROVE FALSE
        OBVIOUS
      <4>1. metadata[n].ref_count = 0
        BY <3>1, FS_EmptySet DEF Exact, CountsExact
      <4>2. metadata[n].in_current_runtime
        BY <4>1 DEF CacheInv, CountsInv
      <4> QED
        BY <2>2, <4>2 DEF Exact, MarksUsed
    <3>3. Unlocked
      BY <2>2 DEF Unlocked, Compiling
    <3>4. {PtrOf(n) : n \in DOMAIN metadata} = {}
      BY <3>2
    <3> QED
      BY <3>2, <3>3, <3>4 DEF Exact, BuffersOfEntries, ConstantsOfCompiling
  <2> QED
    BY <2>1, <2>2 DEF RefCountExact
<1> QED
  BY <1>1, SharingHolds, PTL
=============================================================================
