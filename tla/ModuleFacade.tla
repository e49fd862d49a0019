----------------------------- MODULE ModuleFacade -----------------------------
(***************************************************************************)
(* extension/module: Module objects that load a program and its methods on *)
(* demand, give each method its planned memory, private or in arenas the   *)
(* methods of a module share, and take the methods' own structures from    *)
(* one memory allocator.  Modules can share a Program (from_program).      *)
(*                                                                         *)
(* A Module is used by one thread: every call is one step, with every      *)
(* failure the code can return.  What a Method does is in MethodRun and    *)
(* MethodExec; here it is memory that must be there.  Data files are left  *)
(* out: FlatTensorDataMap::load is a stub that panics.                     *)
(***************************************************************************)
EXTENDS MemoryAllocator, Functions

CONSTANTS Modules,
          Methods,        \* the names in the program
          PlannedSizes,   \* of each method: its non_const_buffer_sizes
          Requests,       \* of each method: what loading it allocates
          DeviceMethods,  \* methods with a planned buffer that is not on the CPU
          Sharing,        \* modules with share_memory_arenas
          CallerSizes,    \* spans of a HierarchicalAllocator the caller passes
          Base, Capacity, \* the buffer of a module's MemoryAllocator
          Heap,           \* heap blocks, named by their addresses
          None

ASSUME MethodsAssumption ==
    /\ PlannedSizes \in [Methods -> Seq(Addresses)]
    /\ \A f \in Methods : Len(PlannedSizes[f]) \in Addresses
    /\ Requests \in [Methods -> Seq([size : Nat, alignment : Nat \ {0}])]
    /\ CallerSizes \in Seq(Nat)
    /\ DeviceMethods \subseteq Methods /\ Sharing \subseteq Modules
ASSUME BufferAssumption ==
    Base \in Addresses /\ Capacity \in Nat /\ Base + Capacity \in Addresses
ASSUME HeapAssumption == Heap \subseteq Nat \ {0} /\ None \notin Nat \cup Modules

VARIABLES phase,     \* none, live or dropped
          loader,    \* data_loader_ is there
          program,   \* program_: the Program a module loaded, by that module
          clones,    \* Programs the caller holds an Rc of: program()
          arenas,    \* shared_arenas_
          methods,   \* methods_
          heap,      \* the size of each heap block, or None
          cur        \* cur_ of each module's MemoryAllocator
vars == <<phase, loader, program, clones, arenas, methods, heap, cur>>

End == Base + Capacity
Spans == Seq([block : Heap \cup {None}, size : Nat])

\* MethodHolder: the blocks of its planned_buffers, the planned spans, and what
\* the Method took from the memory allocator.
NoHolder == [loaded |-> FALSE, buffers |-> {}, spans |-> <<>>, pieces |-> {}]
IsLoaded(m, f) == methods[m][f].loaded

-----------------------------------------------------------------------------
(* The heap. *)

Free == {b \in Heap : heap[b] = None}

\* A block for each of the allocations in S, and no room for them.
Full(S) == \A at \in [S -> Free] : ~IsInjective(at)
Place(S) == CHOOSE at \in [S -> Free] : IsInjective(at)

-----------------------------------------------------------------------------
(* new, program, drop *)

New(m) ==
    /\ phase[m] = "none"
    /\ phase' = [phase EXCEPT ![m] = "live"]
    /\ UNCHANGED <<loader, program, clones, arenas, methods, heap, cur>>

NewFromProgram(m, p) ==
    /\ phase[m] = "none" /\ p \in clones
    /\ phase' = [phase EXCEPT ![m] = "live"]
    /\ program' = [program EXCEPT ![m] = p]
    /\ UNCHANGED <<loader, clones, arenas, methods, heap, cur>>

TakeProgram(m) ==
    /\ phase[m] = "live" /\ program[m] # None
    /\ clones' = clones \cup {program[m]}
    /\ UNCHANGED <<phase, loader, program, arenas, methods, heap, cur>>

ReleaseProgram(p) ==
    /\ p \in clones
    /\ clones' = clones \ {p}
    /\ UNCHANGED <<phase, loader, program, arenas, methods, heap, cur>>

Blocks(spans) == {spans[i].block : i \in DOMAIN spans}
Released(S) == [b \in Heap |-> IF b \in S THEN None ELSE heap[b]]

OwnedWithArenas(m, f) == Blocks(methods[m][f].spans)
Owned(m, f) == methods[m][f].buffers

Drop(m) ==
    /\ phase[m] = "live"
    /\ phase' = [phase EXCEPT ![m] = "dropped"]
    /\ loader' = [loader EXCEPT ![m] = FALSE]
    /\ program' = [program EXCEPT ![m] = None]
    /\ heap' = Released(Blocks(arenas[m]) \cup UNION {Owned(m, f) : f \in Methods})
    /\ arenas' = [arenas EXCEPT ![m] = <<>>]
    /\ methods' = [methods EXCEPT ![m] = [f \in Methods |-> NoHolder]]
    /\ UNCHANGED <<clones, cur>>

-----------------------------------------------------------------------------
(* load *)

LoadInternalAgain(m, ok) ==
    \/ ~ok /\ UNCHANGED <<loader, program>>
    \/ ok /\ loader' = [loader EXCEPT ![m] = TRUE] /\ program' = [program EXCEPT ![m] = m]

\* load_internal, up to where it stops.  A loader that was made stays for the
\* next try.
LoadInternal(m, ok) ==
    IF program[m] # None THEN ok /\ UNCHANGED <<loader, program>>
    ELSE \/ ~ok /\ UNCHANGED <<loader, program>>
         \/ ~ok /\ loader' = [loader EXCEPT ![m] = TRUE] /\ UNCHANGED program
         \/ ok /\ loader' = [loader EXCEPT ![m] = TRUE] /\ program' = [program EXCEPT ![m] = m]

Load(m) ==
    /\ phase[m] = "live"
    /\ \E ok \in BOOLEAN : LoadInternal(m, ok)
    /\ UNCHANGED <<phase, clones, arenas, methods, heap, cur>>

-----------------------------------------------------------------------------
(* Planned memory *)

\* get_max_mem_planned_buffer_sizes, the first two.
MaxBuffers == {Len(PlannedSizes[f]) : f \in Methods}
SizesAt(i) == {PlannedSizes[f][i] : f \in {g \in Methods : i \in DOMAIN PlannedSizes[g]}}
Largest(S) == CHOOSE x \in S : \A y \in S : y <= x
ArenaCountAll == Largest(MaxBuffers)
ArenaCount == LET n == Largest(MaxBuffers) IN IF n > 2 THEN 2 ELSE n
ArenaSizes == [i \in 1 .. ArenaCount |-> Largest(SizesAt(i))]

\* The arenas of a module that shares, made for its first method.
NewArenas(m) == m \in Sharing /\ arenas[m] = <<>>
NewArenasNeeded(m) == IF NewArenas(m) THEN ArenaCount ELSE 0

\* make_planned_memory(_with_shared_arenas, _with_devices): the first spans are
\* the arenas, the others buffers of the holder.
SharedBuffers(m) == IF m \in Sharing THEN ArenaCount ELSE 0
IsShared(m, i) == i <= SharedBuffers(m)
OwnBuffers(m, f) == {i \in DOMAIN PlannedSizes[f] : ~IsShared(m, i)}

PlannedSpans(m, f, as, at) ==
    [i \in DOMAIN PlannedSizes[f] |->
        IF IsShared(m, i) THEN as[i] ELSE [block |-> at[i], size |-> PlannedSizes[f][i]]]

CallerSpans == [i \in DOMAIN CallerSizes |-> [block |-> None, size |-> CallerSizes[i]]]

\* HierarchicalAllocator.get_offset_address gives every tensor its place.
Covers(spans, f) == \A i \in DOMAIN PlannedSizes[f] :
                        i \in DOMAIN spans /\ PlannedSizes[f][i] <= spans[i].size

-----------------------------------------------------------------------------
Piece(c, r) == [start |-> StartOf(c, r), end |-> StartOf(c, r) + r.size,
                alignment |-> r.alignment]

(* load_method.  Method::load stops after any of its allocations, at the   *)
(* latest at one that does not fit; what it took is not given back.        *)

MethodLoads(m, f, spans, own) ==
    \E n \in 0 .. Len(Requests[f]) :
        LET rs == SubSeq(Requests[f], 1, n)
            at == CursorAfter(cur[m], rs)
            ok == n = Len(Requests[f]) /\ Covers(spans, f)
        IN /\ AllFit(cur[m], End, rs)
           /\ cur' = [cur EXCEPT ![m] = at[n]]
           /\ \/ UNCHANGED methods
              \/ /\ ok
                 /\ methods' = [methods EXCEPT ![m][f] =
                       [loaded |-> TRUE, buffers |-> own, spans |-> spans,
                        pieces |-> {Piece(at[k - 1], rs[k]) : k \in 1 .. n}]]

\* The blocks of a holder that is dropped go back to the heap.
KeptAlways(m, f, own) == own
Kept(m, f, own) == IF methods'[m][f].loaded THEN own ELSE {}

\* planned_memory is null: the module plans.
WithPlannedMemory(m, f) ==
    LET needed == 1 .. NewArenasNeeded(m)
        own == OwnBuffers(m, f)
        at == Place(needed \cup own)
        size(i) == IF i \in needed THEN ArenaSizes[i] ELSE PlannedSizes[f][i]
        as == IF NewArenas(m)
              THEN [i \in needed |-> [block |-> at[i], size |-> size(i)]]
              ELSE arenas[m]
        allocated == needed \cup Kept(m, f, own)
    IN /\ ~(f \in DeviceMethods /\ m \in Sharing)
       /\ ~Full(needed \cup own)
       /\ arenas' = [arenas EXCEPT ![m] = as]
       /\ MethodLoads(m, f, PlannedSpans(m, f, as, at), {at[i] : i \in own})
       /\ heap' = [b \in Heap |-> IF \E i \in allocated : at[i] = b
                                  THEN size(CHOOSE i \in allocated : at[i] = b)
                                  ELSE heap[b]]

\* The caller's HierarchicalAllocator.
WithCallersMemory(m, f) ==
    /\ MethodLoads(m, f, CallerSpans, {})
    /\ UNCHANGED <<arenas, heap>>

LoadMethodFails(m, f) ==
    /\ phase[m] = "live" /\ ~IsLoaded(m, f)
    /\ \/ LoadInternal(m, FALSE)
       \/ LoadInternal(m, TRUE)  \* no such method, or NotSupported
    /\ UNCHANGED <<phase, clones, arenas, methods, heap, cur>>

LoadMethod(m, f) ==
    /\ phase[m] = "live" /\ ~IsLoaded(m, f)
    /\ LoadInternal(m, TRUE)
    /\ WithPlannedMemory(m, f) \/ WithCallersMemory(m, f)
    /\ UNCHANGED <<phase, clones>>

UnloadedReset(m) == [cur EXCEPT ![m] = Base]
\* What the Method took from the memory allocator stays taken.
Unloaded(m) == cur

UnloadMethod(m, f) ==
    /\ phase[m] = "live" /\ IsLoaded(m, f)
    /\ heap' = Released(Owned(m, f))
    /\ methods' = [methods EXCEPT ![m][f] = NoHolder]
    /\ cur' = Unloaded(m)
    /\ UNCHANGED <<phase, loader, program, clones, arenas>>

-----------------------------------------------------------------------------
Init ==
    /\ phase = [m \in Modules |-> "none"]
    /\ loader = [m \in Modules |-> FALSE]
    /\ program = [m \in Modules |-> None]
    /\ clones = {}
    /\ arenas = [m \in Modules |-> <<>>]
    /\ methods = [m \in Modules |-> [f \in Methods |-> NoHolder]]
    /\ heap = [b \in Heap |-> None]
    /\ cur = [m \in Modules |-> Base]

Next == \E m \in Modules :
    \/ New(m) \/ TakeProgram(m) \/ Drop(m) \/ Load(m)
    \/ \E p \in Modules : NewFromProgram(m, p)
    \/ ReleaseProgram(m)
    \/ \E f \in Methods : LoadMethod(m, f) \/ LoadMethodFails(m, f) \/ UnloadMethod(m, f)

Spec == Init /\ [][Next]_vars

-----------------------------------------------------------------------------
(* Properties *)

Pieces == [start : Addresses, end : Addresses, alignment : Nat \ {0}]

\* Types of the state of Module.
TypeOK ==
    /\ phase \in [Modules -> {"none", "live", "dropped"}]
    /\ loader \in [Modules -> BOOLEAN]
    /\ program \in [Modules -> Modules \cup {None}]
    /\ clones \subseteq Modules
    /\ arenas \in [Modules -> Spans]
    /\ \A m \in Modules, f \in Methods : LET h == methods[m][f] IN
        /\ h.loaded \in BOOLEAN /\ h.buffers \subseteq Heap
        /\ h.spans \in Spans /\ h.pieces \subseteq Pieces
    /\ heap \in [Heap -> Nat \cup {None}]
    /\ cur \in [Modules -> Base .. End]

\* A loaded method has all the planned memory it asks for, in blocks that are
\* still allocated and that its holder or its module owns, and the arenas serve
\* every method that plans on the CPU, not only the one they were made for:
\* load_method and get_max_mem_planned_buffer_sizes, whatever is loaded, fails to
\* load or is unloaded around it.
SpansBacked ==
    \A m \in Modules, f \in Methods : LET h == methods[m][f] IN
        /\ IsLoaded(m, f) =>
            /\ Covers(h.spans, f)
            /\ \A i \in DOMAIN h.spans : LET s == h.spans[i] IN
                s.block # None => /\ heap[s.block] = s.size
                                  /\ s.block \in h.buffers \cup Blocks(arenas[m])
        /\ \A i \in DOMAIN arenas[m] \cap DOMAIN PlannedSizes[f] :
              PlannedSizes[f][i] <= arenas[m][i].size

\* Two methods only meet in the first two planned buffers, at the same index, and
\* in a module with share_memory_arenas: any other memory one method plans into is
\* never written by another.
Apart ==
    \A m, n \in Modules, f, g \in Methods :
        IsLoaded(m, f) /\ IsLoaded(n, g) /\ <<m, f>> # <<n, g>> =>
            \A i \in DOMAIN methods[m][f].spans, j \in DOMAIN methods[n][g].spans :
                LET b == methods[m][f].spans[i].block IN
                b # None /\ b = methods[n][g].spans[j].block
                => m = n /\ m \in Sharing /\ i = j /\ i <= 2

\* What the methods of a module took from its MemoryAllocator is aligned, inside
\* the caller's buffer, apart, and not given out again while they are loaded.
PiecesApart ==
    \A m \in Modules, f, g \in Methods :
        \A p \in methods[m][f].pieces, q \in methods[m][g].pieces :
            /\ Base <= p.start /\ p.end <= cur[m] /\ cur[m] <= End
            /\ p.start % p.alignment = 0
            /\ f # g => p.end <= q.start \/ q.end <= p.start

\* A load_method that fails, an unload_method and the drop of a Module give back
\* every block: nothing stays allocated that no method and no arena names.
NoHeapLeak ==
    \A b \in Heap : heap[b] # None =>
        \E m \in Modules : \/ b \in Blocks(arenas[m])
                            \/ \E f \in Methods : b \in methods[m][f].buffers

\* The Program and the arenas that loaded methods point into are never replaced
\* while the Module lives: load_internal and load_method only ever fill them in.
Stays == [][\A m \in Modules : phase[m] = "live" /\ phase'[m] = "live" =>
                /\ program[m] # None => program'[m] = program[m]
                /\ arenas[m] # <<>> => arenas'[m] = arenas[m]]_vars

\* The data loader of a Program lives as long as the Program: what program()
\* promises of the Rc it hands out.
LoaderAlive ==
    \A p \in Modules : p \in clones \/ (\E m \in Modules : program[m] = p) => loader[p]
=============================================================================
