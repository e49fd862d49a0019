---------------------------- MODULE XNNWeightsCache ----------------------------
(***************************************************************************)
(* One heap-backed XNNWeightsCache (no packed_cache_path) of the XNNPACK   *)
(* backend and the executors that share it.  XnnpackBackend::init compiles *)
(* a graph while it holds the cache's mutex: the named constants are       *)
(* loaded, XNNPACK packs the weights of each operator through the cache's  *)
(* provider callbacks, and finalize_for_runtime counts the runtime in.     *)
(* destroy counts it out.  A compilation may fail after any of its steps.  *)
(*                                                                         *)
(* A packed buffer is represented by the operator it was packed for.       *)
(***************************************************************************)
EXTENDS Integers, Sequences, FiniteSets

CONSTANTS Executors,      \* the delegate handles that exist at a time
          Named,          \* the constants that have a named_key
          Graphs,         \* the graphs to compile
          MaxRefCount,    \* usize::MAX
          MaxCompiles     \* bound on the compilations of a behaviour

\* bias is "none" where there is none; packed tells the operators that pack
\* their weights from those that read a constant through its pointer.
Op == [kernel : STRING, bias : STRING, seed : Nat, packed : BOOLEAN]

ASSUME ExecutorsAssumption == IsFiniteSet(Executors)
ASSUME GraphsAssumption == Graphs \subseteq Seq(Op)
ASSUME BoundsAssumption == MaxRefCount \in Nat \ {0} /\ MaxCompiles \in Nat

VARIABLES metadata,           \* name_to_packed_data_metadata_
          packed_data_ptrs,   \* packed_data_ptrs_, 0 for null
          containers,         \* packed_pointer_to_container_: pointer -> bytes
          unpacked,           \* unpacked_data_ with its names: <<executor, constant>>
          is_finalized,       \* is_finalized_
          exec,               \* the executors and their XNNPACK runtimes
          compiles,           \* bound counter
          failed              \* history: a compilation has failed

cache == <<metadata, packed_data_ptrs, containers, unpacked, is_finalized>>
vars == <<cache, exec, compiles, failed>>

-----------------------------------------------------------------------------
(* The compiling executor holds the mutex from init's lock to init's return;  *)
(* execute and destroy hold it for all they do to the cache.                  *)

NoExecutor == [state |-> "none", graph |-> <<>>, pos |-> 0, uses |-> <<>>, names |-> {}]

Compiling(e) == exec[e].state \in {"defining", "packing"}
Unlocked == \A e \in Executors : ~Compiling(e)
Ready == {e \in Executors : exec[e].state = "ready"}

CurrentOp(e) == exec[e].graph[exec[e].pos + 1]
AtLastOp(e) == exec[e].pos = Len(exec[e].graph)

\* "private": the runtime does not ask the cache for this operator.
Private == -1
Uses(e, offset) == exec' = [exec EXCEPT ![e].pos = @ + 1, ![e].uses = Append(@, offset)]

\* Is the pointer of constant c, as e loaded it, in unpacked_data_to_name_?
Registered(e, c) == <<e, c>> \in unpacked

\* weight_bias_name: the name of the weights, and of the bias if it has one.
Key(e, op) == IF Registered(e, op.bias) THEN <<op.kernel, op.bias>> ELSE <<op.kernel>>

-----------------------------------------------------------------------------
(* XnnpackBackend::init *)

\* initialize_for_runtime, with the lock just taken.
Begin(e, g) ==
    /\ Unlocked
    /\ exec[e].state = "none"
    /\ compiles < MaxCompiles
    /\ compiles' = compiles + 1
    /\ is_finalized' = FALSE
    /\ exec' = [exec EXCEPT ![e] = [NoExecutor EXCEPT !.state = "defining", !.graph = g]]
    /\ UNCHANGED <<metadata, packed_data_ptrs, containers, unpacked, failed>>

\* defineTensor of the constants of one operator: load_unpacked_data for those
\* with a name.
DefineTensors(e) ==
    LET op == CurrentOp(e) IN
    /\ exec[e].state = "defining"
    /\ ~AtLastOp(e)
    /\ unpacked' = unpacked \cup {<<e, c>> : c \in {op.kernel, op.bias} \cap Named}
    /\ exec' = [exec EXCEPT ![e].pos = @ + 1]
    /\ UNCHANGED <<metadata, packed_data_ptrs, containers, is_finalized, compiles, failed>>

\* xnn_create_runtime_v4 starts to create the operators.
CreateRuntime(e) ==
    /\ exec[e].state = "defining"
    /\ AtLastOp(e)
    /\ exec' = [exec EXCEPT ![e].state = "packing", ![e].pos = 0]
    /\ UNCHANGED <<cache, compiles, failed>>

\* The provider is passed to XNNPACK only if some data is unpacked: data that a
\* failed compilation left behind counts as well.
ThroughCache(op) == op.packed /\ unpacked # {}

\* look_up: a seed mismatch is a miss.
Hit(e, op) == /\ Registered(e, op.kernel)
              /\ Key(e, op) \in DOMAIN metadata
              /\ metadata[Key(e, op)].seed = op.seed

\* Slip: a hit does not mark the entry for the current runtime.
MarkNone(k) == UNCHANGED metadata

Mark(k) == metadata' = [metadata EXCEPT ![k].in_current_runtime = TRUE]

PackHit(e) ==
    LET op == CurrentOp(e) IN
    /\ exec[e].state = "packing" /\ ~AtLastOp(e)
    /\ ThroughCache(op) /\ Hit(e, op)
    /\ Mark(Key(e, op))
    /\ Uses(e, metadata[Key(e, op)].offset)
    /\ UNCHANGED <<packed_data_ptrs, containers, unpacked, is_finalized, compiles, failed>>

\* Slip: the offset is taken after the pointer was pushed.
NextOffsetLate == Len(packed_data_ptrs) + 1

NextOffset == Len(packed_data_ptrs)

\* reserve_space_heap, the packing, and look_up_or_insert, which misses again:
\* the entry replaces one of another seed; without a name there is no entry.
PackMiss(e) ==
    LET op == CurrentOp(e)
        entry == [offset |-> NextOffset, ref_count |-> 0,
                  in_current_runtime |-> TRUE, seed |-> op.seed]
        k == Key(e, op)
    IN  /\ exec[e].state = "packing" /\ ~AtLastOp(e)
        /\ ThroughCache(op) /\ ~Hit(e, op)
        /\ \E ptr \in 1 .. Cardinality(DOMAIN containers) + 1 :
             /\ ptr \notin DOMAIN containers
             /\ containers' = [p \in DOMAIN containers \cup {ptr} |->
                                 IF p = ptr THEN op ELSE containers[p]]
             /\ packed_data_ptrs' = Append(packed_data_ptrs, ptr)
        /\ metadata' = IF Registered(e, op.kernel)
                       THEN [n \in DOMAIN metadata \cup {k} |->
                               IF n = k THEN entry ELSE metadata[n]]
                       ELSE metadata
        /\ Uses(e, NextOffset)
        /\ UNCHANGED <<unpacked, is_finalized, compiles, failed>>

\* XNNPACK packs into memory of its own, or keeps the pointer it was given.
PackPrivate(e) ==
    /\ exec[e].state = "packing" /\ ~AtLastOp(e)
    /\ ~ThroughCache(CurrentOp(e))
    /\ Uses(e, Private)
    /\ UNCHANGED <<cache, compiles, failed>>

InCurrentRuntime == {n \in DOMAIN metadata : metadata[n].in_current_runtime}

\* Slip: only a new entry is counted.
CountedOnce(m) == [m EXCEPT !.ref_count = 1, !.in_current_runtime = FALSE]

\* Slip: the flag is cleared, the runtime not counted.
CountedNot(m) == [m EXCEPT !.in_current_runtime = FALSE]

Counted(m) == [m EXCEPT !.ref_count = @ + 1, !.in_current_runtime = FALSE]

\* finalize_for_runtime, then the executor is given its names and the cache.
Finish(e) ==
    /\ exec[e].state = "packing" /\ AtLastOp(e)
    /\ is_finalized' = TRUE
    /\ unpacked' = {}
    /\ metadata' = [n \in DOMAIN metadata |->
                      IF n \in InCurrentRuntime THEN Counted(metadata[n]) ELSE metadata[n]]
    /\ exec' = [exec EXCEPT ![e].state = "ready", ![e].names = InCurrentRuntime]
    /\ UNCHANGED <<packed_data_ptrs, containers, compiles, failed>>

\* compileModel returns an error and the executor is dropped; nothing is done
\* to the cache.
CompileFails(e) ==
    /\ Compiling(e)
    /\ exec' = [exec EXCEPT ![e] = NoExecutor]
    /\ failed' = TRUE
    /\ UNCHANGED <<cache, compiles>>

-----------------------------------------------------------------------------
(* XnnpackBackend::destroy *)

\* wrapping_sub(1)
Decremented(r) == IF r = 0 THEN MaxRefCount ELSE r - 1

Released(names) == {n \in names : Decremented(metadata[n].ref_count) = 0}

\* Slip: full_unload keeps the pointers.
UnloadedKeepingPtrs(ptrs) == ptrs

\* full_unload of a heap-backed cache.
Unloaded(ptrs) == <<>>

\* Slip: a released entry is not erased.
RemainingAll(gone) == DOMAIN metadata

Remaining(gone) == DOMAIN metadata \ gone

\* The loop of delete_packed_data over some names that all have an entry.
DeleteEntries(names, complete) ==
    LET gone == Released(names)
        slots == {metadata[n].offset + 1 : n \in gone}
        ptrs == [i \in DOMAIN packed_data_ptrs |->
                   IF i \in slots THEN 0 ELSE packed_data_ptrs[i]]
        left == Remaining(gone)
    IN  /\ containers' = [p \in DOMAIN containers \ {packed_data_ptrs[i] : i \in slots} |->
                            containers[p]]
        /\ metadata' = [n \in left |->
                          IF n \in names
                          THEN [metadata[n] EXCEPT !.ref_count = Decremented(@)]
                          ELSE metadata[n]]
        /\ packed_data_ptrs' = IF complete /\ left = {} THEN Unloaded(ptrs) ELSE ptrs

\* An executor without names, and a cache that is not finalized, skip the
\* deletion; a name without an entry ends it, whatever names came before.
DeletePackedData(names) ==
    LET known == names \cap DOMAIN metadata IN
    \/ names = {} /\ UNCHANGED <<metadata, packed_data_ptrs, containers>>
    \/ names # {} /\ ~is_finalized /\ UNCHANGED <<metadata, packed_data_ptrs, containers>>
    \/ /\ names # {} /\ is_finalized
       /\ \/ known = names /\ DeleteEntries(names, TRUE)
          \/ known # names /\ \E some \in SUBSET known : DeleteEntries(some, FALSE)

Destroy(e) ==
    /\ Unlocked
    /\ exec[e].state = "ready"
    /\ DeletePackedData(exec[e].names)
    /\ exec' = [exec EXCEPT ![e] = NoExecutor]
    /\ UNCHANGED <<unpacked, is_finalized, compiles, failed>>

-----------------------------------------------------------------------------
Init ==
    /\ metadata = <<>> /\ packed_data_ptrs = <<>> /\ containers = <<>>
    /\ unpacked = {}
    /\ is_finalized = FALSE
    /\ exec = [e \in Executors |-> NoExecutor]
    /\ compiles = 0
    /\ failed = FALSE

Next == \E e \in Executors :
          \/ \E g \in Graphs : Begin(e, g)
          \/ DefineTensors(e) \/ CreateRuntime(e)
          \/ PackHit(e) \/ PackMiss(e) \/ PackPrivate(e)
          \/ Finish(e) \/ CompileFails(e) \/ Destroy(e)

Spec == Init /\ [][Next]_vars

-----------------------------------------------------------------------------
(* Properties *)

GraphOps == UNION {{g[i] : i \in DOMAIN g} : g \in Graphs}

\* The key of an operator whose named constants are all loaded.
KeyOf(op) == IF op.bias \in Named THEN <<op.kernel, op.bias>> ELSE <<op.kernel>>

\* The graphs the sharing properties are about: packed weights have names, and
\* operators with the same names are the same operator.
WellNamed ==
    /\ \A op \in GraphOps : op.packed => op.kernel \in Named
    /\ \A a, b \in GraphOps : a.packed /\ b.packed /\ KeyOf(a) = KeyOf(b) => a = b

Entry == [offset : Nat, ref_count : 0 .. MaxRefCount,
          in_current_runtime : BOOLEAN, seed : Nat]

TypeOK ==
    /\ \A n \in DOMAIN metadata : /\ metadata[n] \in Entry
                                  /\ metadata[n].offset < Len(packed_data_ptrs)
    /\ packed_data_ptrs \in Seq(Nat)
    /\ \A p \in DOMAIN containers : p \in Nat \ {0} /\ containers[p] \in Op
    /\ unpacked \subseteq Executors \X Named
    /\ is_finalized \in BOOLEAN /\ failed \in BOOLEAN
    /\ compiles \in 0 .. MaxCompiles
    /\ \A e \in Executors :
         /\ exec[e].state \in {"none", "defining", "packing", "ready"}
         /\ exec[e].graph \in Graphs \cup {<<>>}
         /\ exec[e].pos \in 0 .. Len(exec[e].graph)

\* What offset_to_addr(offset) finds is the packed data of operator op.
Holds(offset, op) ==
    /\ offset < Len(packed_data_ptrs)
    /\ packed_data_ptrs[offset + 1] \in DOMAIN containers
    /\ containers[packed_data_ptrs[offset + 1]] = op

\* The operators of e that were packed through the cache, with their offsets.
Shared(e) == {i \in DOMAIN exec[e].uses : exec[e].uses[i] # Private}

\* Every runtime that exists, finished or not, finds the packed weights of its
\* own operators behind the offsets it was given, whatever other executors
\* were compiled, failed to compile or were destroyed since.
PackedAlive == \A e \in Executors : \A i \in Shared(e) :
                   Holds(exec[e].uses[i], exec[e].graph[i])

\* The entries behind the offsets that e's runtime uses.
EntriesOf(e) == {n \in DOMAIN metadata : \E i \in Shared(e) :
                     exec[e].uses[i] = metadata[n].offset}
Users(n) == {e \in Ready : n \in EntriesOf(e)}

\* An entry is counted at least once for every runtime that uses it, and every
\* such runtime will count itself out: delete_packed_data cannot free the
\* weights of a runtime that is still alive.
RefCountCovers ==
    /\ \A n \in DOMAIN metadata : metadata[n].ref_count >= Cardinality(Users(n))
    /\ \A e \in Ready : EntriesOf(e) \subseteq exec[e].names
    /\ \A e \in Ready : exec[e].names \subseteq DOMAIN metadata

\* "Count number of xnn_runtime_t this packed data is used in".
RefCountExact == Unlocked =>
    \A n \in DOMAIN metadata : metadata[n].ref_count = Cardinality(Users(n))

\* As long as no compilation fails, the count is exact, and when the last executor
\* is destroyed nothing is kept: no packed buffer, no slot, no unpacked constant.
BalancedWithoutFailure == ~failed =>
    /\ RefCountExact
    /\ (\A e \in Executors : exec[e].state = "none") =>
          DOMAIN containers = {} /\ packed_data_ptrs = <<>> /\ unpacked = {}

\* An entry finds the bytes that were packed for its own key and seed, even when
\* compilations fail, entries are replaced and names are missing: no other
\* executor's deletion frees them or reuses their slot.
EntriesOwnSlots == \A n \in DOMAIN metadata :
    LET ptr == packed_data_ptrs[metadata[n].offset + 1]
        op == containers[ptr]
    IN  /\ ptr \in DOMAIN containers
        /\ op.seed = metadata[n].seed
        /\ n \in {<<op.kernel>>, <<op.kernel, op.bias>>}

\* "the code assumes counts are positive when this is called": no sequence of
\* failures and deletions makes a count wrap around.
CountsNeverWrap == \A n \in DOMAIN metadata : metadata[n].ref_count <= compiles

\* "xnnpack.h requires static tensor data to outlive the Subgraph AND any Runtime
\* created from it": a constant read by pointer stays loaded.
StaticDataAlive == \A e \in Ready : \A i \in DOMAIN exec[e].graph :
    LET op == exec[e].graph[i]
    IN  ~op.packed /\ op.kernel \in Named => Registered(e, op.kernel)
=============================================================================
