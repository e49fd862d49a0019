# A TLA+ verification project for executorch-rs

executorch-rs is a Rust port of ExecuTorch, the on-device inference runtime.
This directory holds TLA+ modules that model its stateful core, TLC
configurations that check them on small instances, and proofs that TLAPS
checks for every value of the constants.

Paths below are relative to `src/crates/executorch/src/`.
`PROJECT.json` lists the runs, the mutants that show what each property can
catch, the source lines behind each definition, the findings and the hazards.

    tlc -workers 4 -config MethodExec.cfg MCMethodExec     # a run
    tlapm MethodExecProofs.tla                             # a proof

## 1. Inventory

| Component | State it keeps | Operations | Hard behaviour |
|---|---|---|---|
| Method, execution (`runtime/executor/method.rs`) | `step_state_`, `values_`, the tensors they name, `input_set_`, the temp allocator | `set_input(s)`, input accessors, `set_output_data_ptr`, `step`, `execute`, `reset_execution` | jumps, failure in the middle of a run, two entry points for one job, aliased tensors |
| Method, loading (`method.rs`, `runtime/core/freeable_buffer.rs`) | arrays of uninitialized memory with three counters, the external constants, the delegates | `load`/`init`, `BackendDelegate::init`, `resolve_operator`, `Drop` | an error at any step; Drop must know how far `init` came |
| XNNPACK weights cache (`backends/xnnpack/runtime/XNNWeightsCache.rs`) | name -> entry with a count, packed pointers by offset, containers, unpacked constants, and with a path: a file, its lock, its mappings | `initialize_for_runtime`, `load_unpacked_data`, the provider callbacks `look_up`, `reserve_space`, `look_up_or_insert`, `offset_to_addr`; `finalize_for_runtime`, `delete_packed_data`, `save_packed_index`, `load_packed_cache` | sharing between executors, failed compilations, replacement of entries, several processes on one file, crashes |
| XNNPACK cache manager (`XNNWeightsCacheManager.rs`) | `Weak` caches by path | `get_or_create`, `save_all` | upgrade of a `Weak` racing the last drop |
| XNNPACK workspaces (`XNNWorkspace.rs`, `XNNWorkspaceManager.rs`) | one workspace per program, global, or private | `get_or_create_workspace`, `acquire` | lock order, disabled locking |
| XNNPACK backend, executor, compiler (`XNNPACKBackend.rs`, `XNNExecutor.rs`, `XNNCompiler.rs`) | delegate handles, each with Arcs of a cache and a workspace | `init`, `execute`, `destroy`, `set_option` | two mutexes, guards that outlive their borrow, Arcs dropped last by a call |
| Program and data maps (`runtime/executor/program.rs`, `pte_data_map.rs`, `merged_data_map.rs`) | a flatbuffer and its segments | `load`, `load_method`, `get_data` | offset arithmetic, two maps with one key |
| Module (`extension/module/module.rs`) | lazily loaded program, loaded methods, shared arenas | `load`, `load_method`, `unload_method`, `execute` | retry after a failed load, order of destruction |
| Registries (`runtime/kernel/operator_registry.rs`, `runtime/backend/interface.rs`) | fixed-size global tables | register, look up | the limit, duplicates, fallback |
| Allocators (`runtime/core/memory_allocator.rs`, `hierarchical_allocator.rs`, ...) | a cursor in a buffer | `allocate`, `reset` | alignment, overflow |
| Mmap data loader (`extension/data_loader/mmap_data_loader.rs`) and freeable buffers | a descriptor; each buffer an address and a size | `from`, `load`, `load_into`; `from_move`, `free`, drop | page arithmetic, who owns which page, buffers that outlive the loader |
| Other data loaders | a file or a block | `load`, `load_into` | bounds |
| Kernels, schema, tracer, platform layer | none that the runtime depends on | | |

How they interact.  A caller loads a `Program` through a `DataLoader`, asks it
for a `Method`, whose `init` initializes one backend delegate for each delegate
of the plan, and runs it.  The XNNPACK backend's `init` takes the mutex of a
weights cache shared by all delegates with one cache path, compiles the graph
while XNNPACK calls back into the cache, and counts the new runtime in; its
`execute` takes the cache's mutex, then the workspace's; `destroy` counts the
runtime out.  With a path, caches of several processes share one file, guarded
by `flock`.

What makes them correct:

* execution: inputs do not change during a run; a run that fails leaves the
  method reusable (`execute`) or where it was (`step`); both entry points
  compute the same; `execute` returns whatever the jumps.
* loading: whatever the step that fails, Drop releases all that was acquired,
  touches nothing that was not, and nothing is released before what points to it.
* weights cache: a runtime finds its own packed weights as long as it lives, and
  when the last one goes nothing is kept; a saved file is never read as
  something other than what was packed.
* backend: no lock order leads to a deadlock; XNNPACK and a cache are entered by
  one call at a time; delegates share what they asked to share; a mutex that is
  held is in a live object.
* module and allocators: a loaded method's memory is there, large enough, aligned
  and apart from that of others; what fails to load leaves nothing behind.
* data loader: a live buffer reads its bytes of the file; its release returns its
  pages and no others.
* data maps, registries: a look-up finds what was put in.

## 2. Plan

Done:

1. `MethodExec`, the abstract `MethodRun` it implements, and `MethodLockstep`,
   which composes two instances; `MethodExecProofs`, `MethodLockstepProofs`.
2. `MethodLoad`; `MethodLoadProofs`.
3. `XNNWeightsCache` (no file) and `XNNWeightsCacheFile` (with a file, and several
   processes); `XNNWeightsCacheProofs`, `XNNWeightsCacheFileProofs`.
4. `XnnBackend`: the backend, both managers, the locks and the Arcs between
   threads; `XnnBackendProofs`.
5. `ModuleFacade` with `MemoryAllocator`; `ModuleFacadeProofs`.
6. `MmapDataLoader`; `MmapDataLoaderProofs`.

What would come next: the data maps and the registries as look-up tables with a
reference definition, and the hazards that `PROJECT.json` lists without a property.

## 3. The modules

### MethodRun, MethodExec

`MethodExec` is the half of `Method` that runs.  Its variables have the names
of the fields (`chain_idx` and `instr_idx` are `step_state_`), plus `running`,
which tells whether an `execute()` call is on the stack, `last`, the last call
that returned with its error, and the history variable `begun`: an instruction
of the current run has completed.  A plan (chains, inputs, outputs, values,
tensors) is chosen in `Init`.  Each call is one action, except `execute()`,
which takes one step per instruction.  `InstrOutcomes` gives, for each kind of
instruction, the error, the next instruction and the effect on the values;
kernels and delegates may be deterministic (`"not"`, `"id"`) or do what they
like and fail (`"any"`).

Tensors carry what the control depends on: the dtype, whether the plan gives
them memory, and whether their data is null, true or false.  A `MoveCall`
copies an `EValue`, and both copies name one tensor.  The metadata that
`set_input` and `set_output_data_ptr` consult is the plan's (`Described`,
`MemoryPlanned`), not the moved value's.  Shapes are reduced to "fits", "numel
overflows" and "exceeds the bound"; strings, doubles and ints are left out, as
the test on them is the one on `Bool`.

`MethodRun` is the caller's view: a phase (ready, stepping, executing, ended)
and the set of inputs not provided yet.  `MethodExec` implements it under the
mapping `Run`, its fairness included.

### MethodLockstep

Two instances of `MethodExec` with one plan, one run by `execute()`, the other
by `step()` until `EndOfMethod`.  They must agree on values, data and error.
That is asked of plans whose kernels compute (`Deterministic`) and whose jumps
stay in their chains, and of runs that are not cut off by the instruction limit:
where `execute()` gives up, `step()` goes on.

### MethodLoad

`load`, `init`, `parse_values`, `parse_external_constants`,
`BackendDelegate::init`, `resolve_operator` and both `Drop`s.  A slot of an
array is "raw" until it is written; dropping a raw slot makes "garbage".  At
each step at which the code can return an error there is a disjunct that does.
The parser of a single tensor is reduced to the errors it returns; the tensor
metas that `resolve_operator` gathers are scratch memory of that call and are
left out.  `attempted` and `kernels` are the KernelCalls that were asked for and
those that were resolved.

### XNNWeightsCache

A cache without a file and the executors that share it.  `Begin`,
`DefineTensors`, `CreateRuntime`, `PackHit`, `PackMiss`, `PackPrivate` and
`Finish` are the steps of `XnnpackBackend::init`, which holds the cache's mutex;
`CompileFails` may come after any of them; `Destroy` is `destroy`.  A packed
buffer is represented by the operator it was packed for, so a stale offset
shows.  Names that the code concatenates are kept as sequences; pointers that
are free may be used again.  XNNPACK calls `look_up_or_insert` only after a
miss of `look_up` with the same key, in the same critical section, so the
branch that compares the bytes of a hit is not reached and not modelled.

### XNNWeightsCacheFile

The processes that have a cache for one path, and the file.  The file is a
sequence of pages: a packed weight, an index with its footer, or bytes that are
neither; `durable` says which of them are on the disk.  `Begin`, `Load`,
`LoadFails`, `Reopen` and `OpenFresh` are the ways through
`initialize_for_runtime`, with a step wherever it does not hold the lock;
`PackHit`, `PackInFile` and `PackOnHeap` are the callbacks; `Finish` is
`finalize_for_runtime` with its flush and `Save`, which is also `SaveAll`;
`Destroy` is `delete_packed_data` with `full_unload`.  A call that can fail has
a disjunct in which it does, and keeps what the code keeps: a file that
`ftruncate` has grown stays grown, a lock that is given up is free for others.
`Crash` may come at any step.  Only the holder of the lock writes, so what one
call does to the file is one step.

Abstractions: a packed weight takes one page and an index another, so that
`packed_file_used_` is a number of pages; every weight has a name;
`load_packed_cache` reads its records from the mapping after it has given up the
lock, and the model reads them in the same step; `msync` does what it says; an
address is used once, so a heap block never inherits the `ptr_to_file_offset_`
of a region that was unmapped.  There is no power failure as a step:
`IndexAfterData` says of the disk what one would need.

### XnnBackend

`XnnpackBackend` under concurrent calls.  A thread is in one call at a time; `pc`
says where.  `init` goes through `BeginInit` (options, executor, workspace),
`GetCache`, `LockCache`, `WorkOnCache` (`initialize_for_runtime`, which may get the
`flock`), `LockWorkspace` and `Compiled` or `Deleted`, in which a failing
`reserve_space` may give the `flock` up, as `full_unload` may when `destroy` works on
the cache (`MayClose`); `execute` and `destroy`
start in `BeginUse` with Arcs of what the executor holds and go through the same
locks; `UnlockWorkspace`, `UnlockCache`, `DropArcs` and `Close` are the drops of the
locals in the reverse order of their declarations, the last one the Drop of a
cache whose last Arc the call had.  `set_option(save_weight_cache_on_disk)` is
`BeginSave`, `NextToSave`, `LockCache`, `SaveIndex` and `DropSaved`: `save_all`.
A section under a manager's own mutex calls nothing that blocks and is one step.

Reference counts are not variables: `CacheHolders` and `WorkspaceHolders` are the
executors and the calls that have an Arc, and a `Weak` can be upgraded exactly if
there is one.  Addresses are numbers and a new object takes the lowest free one,
so an address comes back and a stale `Weak` or guard would meet another object.
A delegate is used by one call at a time, as `Method` requires (`Unused`).
What a cache packs is in `XNNWeightsCache`, what it writes in
`XNNWeightsCacheFile`; here it is its mutex, its file lock and its life.

### MemoryAllocator, ModuleFacade

`MemoryAllocator` is the arithmetic of `allocate` in the width of usize
(`AddressSpace`): alignment and padding wrap, the comparisons do not.
`ModuleFacade` extends it with `Module`: `New`, `NewFromProgram`, `Drop`,
`TakeProgram` (`program()`, with `ReleaseProgram` for the caller's Rc), `Load`,
`LoadMethod`, `LoadMethodFails` and `UnloadMethod`.  `LoadInternal` is what each of
them does first.  `LoadMethod` plans memory as the code does (buffers of the
holder, or the first two in the arenas that the first method of a sharing module
makes, or the caller's allocator) and lets the Method take its pieces from the
module's allocator, up to any of them when it fails.  A heap block is an address
and a size; which free addresses the buffers get is left open (`Place`).  What a
Method does with its memory is in `MethodExec`.

### MmapDataLoader

The loader, its `FreeableBuffer`s, and a page table that stands for the operating
system: which file page each page of the address space maps.  `Load`,
`LoadInto`, `FreeBuffer`, `DropBuffer`, `MoveBuffer`, `Open` and `DropLoader` are the
operations; `RangeStart`, `RangeSize`, `MapSize` and `Munmapped` are the page
arithmetic in bytes.  `origin` is a history variable: the offset a buffer came
from.  `LockFails` is the failed `mlock`, whose `munmap` leaves out a page.

## 4. Runs

| Run | What it asks | Bounds, and why they are enough |
|---|---|---|
| `method_exec` | the safety properties of `MethodExec`, `ExecuteReturns`, and the refinement of `MethodRun` | five plans: a branch, three chains with an empty one and a delegate index out of range, a loop, a freed alias, a Float condition; an instruction limit that the loop exceeds |
| `method_lockstep` | `Agree`, `StepReachesEnd` | all plans of one or two chains over nine bodies, which have every kind of instruction and every way to fail |
| `method_load` | reclamation, order of release, what `load` reports | three plans with shared constants, two delegates, two chains; an error at every step |
| `weights_cache` | weights stay alive, counts cover the users, nothing left over | three executors, four compilations, graphs that share a layer: two sharers and one that comes after a failure |
| `weights_cache_mixed` | entries own their slots, counts do not wrap | the same with two seeds, inline weights and constants read by pointer |
| `weights_cache_file` | what the file's index names, what memory holds, what gets saved | one process, restarted any number of times; two weights, one handle at a time, four pages: two rounds of packing and saving; a fifth page and a second handle were tried and show the same |
| `xnn_backend` | sharing, mutual exclusion, life of locked objects, every call returns | two threads, two delegates, four calls; a cache under a path, shared between a workspace with a lock and one without, and delegates without a cache; the global slot, a program's and none; three addresses for caches and for workspaces, more than live at once, so that `Lowest` always has one. With the empty path, whose cache has no file and so no lock to ask for, as a fourth request, there are three times as many states and the same result |
| `module_facade` | planned memory, the module's allocator, the heap | two modules, one that shares; two methods with three planned buffers, one on a device; an allocator of ten bytes near the end of an address space of 64, which a few loads fill up to the wrap-around; ten heap blocks, one less than everything at once would take |
| `mmap_loader` | what buffers read and which pages they own | a file of three pages, the last one not full, pages of two bytes, every offset and size; five pages of address space and three buffers |

Three runs are expected to find a violation; `PROJECT.json` quotes for each one the
text the code departs from:

* `weights_cache_static`: a named constant that is read by pointer is freed when
  the compilation ends.
* `xnn_backend_provider`: the provider of a cache is wired while the cache is a
  local of `get_or_create`, and then moved; the context XNNPACK calls back with is
  the address of a dead local.
* `module_loader`: `program()` hands out a Program whose data loader stays with
  the Module and goes with it.

The passing runs exclude further departures by their instances or by a hypothesis.
No property that passes catches these; each can be seen by changing what is named:

* `set_input` recognises the start of a run by the position (0, 0), which a jump back
  to the first instruction reaches again: `Plans <- LoopPlans` in `MethodExec`
  violates `InputsFrozen`.
* A jump past the end of a chain is the end for `execute()` and an error for ever for
  `step()`: a plan with such a jump violates `Agree`.
* A KernelCall whose resolution failed is forgotten if a later one resolves, and the
  method is handed out with an unwritten kernel slot.  `VerdictSound` allows for it
  in what it says of the kernels when load returns Ok, and says that
  nothing else is forgotten.
* After a failed compilation the next `destroy` counts nothing down: `RefCountExact`
  as an invariant is violated, and `BalancedWithoutFailure` ends at the first failure.
* An entry replaced because of its seed forgets who was counted on it, and the destroy
  of the older runtime frees the newer one's weights; and `full_unload` clears the
  slots of weights without a name.  `TwoSeeds` and `InlineLayer` in
  `MCXNNWeightsCache` violate `PackedAlive`.
* With two processes on the file `MemoryIntact` is violated.  A process whose
  `reserve_space` fails gives up the lock but keeps its mappings, and the next process
  empties the file below them; and without a failed call on its own mapping, a
  process that found no index empties the file that another one has loaded and not
  locked yet.
* `full_unload` and `reset_for_fresh_write` clear `mmap_regions_` and keep
  `mmap_regions_at_last_save_`, so the first regions of the next fresh write count as
  saved.  It takes a failed call and a second handle, which keeps an entry alive while
  an index of nothing is written; `SavedWhenFinished` without its last premise shows
  it with two handles.
* A failed `mlock` leaves a page mapped; `PagesOwned` is complete only as long as
  there has been none.
* A failing `step()` leaves the method in progress (one of two texts says that it
  resets the step state); `MethodRun` promises what the code does.

Deadlock is not checked in the modules whose behaviours really end (a method
that is gone, a bound on calls or compilations that is used up, modules that are
dropped); `MethodExec`, `XNNWeightsCacheFile` and `MmapDataLoader` check it.  In
`XnnBackend` a deadlock between calls would violate `CallsReturn`.

Fairness.  `MethodExec` assumes weak fairness of the steps of an `execute()`
call that is on the stack: the code is sequential and the thread runs.  It
assumes nothing of the caller.  `MethodLockstep` assumes in addition that the
caller goes on stepping, as the text it checks says the caller does.
`XnnBackend` assumes weak fairness of `Continue(t)` for each thread: a thread in a
call that is not blocked keeps running.  It assumes nothing about the order in
which a mutex is granted, and nothing about `Begin(t)`; that `CallsReturn` holds
without strong fairness rests on `MaxCalls`: a thread can be overtaken at a mutex
only as often as there are calls left.

## 5. Proofs

TLAPS 1.4.5, all leaves checked.

Every invariant and every safety property of steps that a passing run checks is
the subject of a theorem.

* `MethodExecProofs`: `TypeCorrect` (for all plans and limits);
  `StepStateSettled` (if no jump leaves its chain); `TempAlwaysReleased`;
  `ExecuteRunsToTheEnd`; `InputsAreFrozen`, `ExecuteStartsFromRest` and
  `RefinesRun` (if no jump of the first chain goes to its first instruction).
* `MethodLockstepProofs`: `StepAndExecuteAgree`, for every set of deterministic
  plans whose jumps stay in their chains and every run not cut off by the limit.
* `MethodLoadProofs`: `LoadTypes`, `GoneReclaimed`, `RawNeverDropped`,
  `AliveIsBacked` and `VerdictIsSound`, for every set of plans.
* `XNNWeightsCacheProofs`: `CacheTypesHold`, `EntriesOwnTheirSlots` and
  `CountsDoNotWrap` for all graphs; `PackedStaysAlive`, `CountsCoverUsers` and
  `BalanceHolds` for graphs whose names say what is packed; for any number of
  executors and compilations.
* `XNNWeightsCacheFileProofs`: `IndexNamesSyncedData` and `FinishedMeansIndexed`, for
  any number of processes at one file at once; `IndexNamesItsData`, when the
  processes run one at a time; `PointersKeepTheirBytes` and
  `PagesAndPointersInRange`, when in addition a name stands for one weight.
* `XnnBackendProofs`: `TypeCorrect`, `CallsExclude`, `LocksStayAlive`,
  `PathsHaveOneCache` and `WorkspacesSharedAsAsked`, for any number of threads,
  delegates, objects, paths and slots.
* `ModuleFacadeProofs`: `TypesOfModule`, `PlannedMemoryIsThere`,
  `MethodsShareOnlyArenas`, `MethodsKeepTheirPieces`, `NoBlockIsLost` and
  `ProgramAndArenasStay`, from the inductive invariant of `Memory`, for any modules,
  methods, planned sizes, requests, buffer and address space.
* `MmapDataLoaderProofs`: `LoaderTypes`, `LoaderMaps` and `LoaderOwns`, for every
  page size, file size, address space and set of buffers.

### MethodExec and MethodRun

Assumptions: `PlansAssumption` (what `init` has checked of a plan) and
`MaxInstructionsAssumption`; the hypotheses on jumps, `JumpsInside` and
`NoJumpToStart`, are in the theorems, since `init` does not check them.  Without
`NoJumpToStart` the theorems are false, as `LoopPlans` shows; without
`JumpsInside` a jump past the end leaves `step()` where `Settled` forbids it.

The argument.  `TypeOK` is inductive with the range lemmas on instruction
outcomes.  `Settled` speaks of the moments between calls and is inductive as
it stands, given that the next position computed by an instruction stays in its
chain.  `InputsFrozen` is not: that set_input sees the position (0, 0) says
nothing of what has run.  The strengthening `Fresh` says that at this position
no instruction of the run has completed; it is preserved because the cursor,
once moved, does not come back to (0, 0) except by a reset, which also ends the
run.  `RefinesRun` uses `Fresh` and `TypeOK` and treats one action at a time.

### MethodLockstep

Assumption: `LockstepAssumption` (plans as `init` accepts them and a positive
limit).  The hypothesis `Deterministic` is in the theorem, with `JumpsInside`: with
a kernel that may fail the two runs need not do the same, and a jump past the end of
a chain ends `execute()` but not `step()`.  The run `method_lockstep` satisfies both
(`LockstepHypothesis`) and never meets the limit.

The argument.  A configuration is where `step()` may stand between two calls, with
the values and tensors it finds there.  In each one an instruction has exactly one
outcome (`OneOutcome`), so a configuration is an end, a failure with one error, or
goes on to one other (`After`).  `LockstepInv` says that there is a path of
configurations from the start with both runs on it: `b` stands at one of them, and
`a` too, or in the gap at the end of a chain before it, where `execute()` takes a
step of its own (`ACursor`).  The run that is ahead makes the path longer, the other
one finds its next configuration on it (`PathGoesOn`).  Two runs that are over both
stand where the path cannot go on, which is its last configuration.

### MethodLoad

Assumption: `LoadPlansAssumption`, the shape of an execution plan.  No safety
property is inductive, since each speaks of one moment.  `LoadInv` says for every
stage of `init` and of Drop what the three counters count: the slots below
`n_value`, `n_delegate` and `n_external_constants` are held until the stage at which
Drop has passed them and freed from then on, the others are raw (`ValuesInv`,
`DelegatesInv`, `ConstantsInv`).  The delegate that failed is the exception: it is
not counted and its data is freed at once.  `ConstantsInv` also says that the
keys of all external values before the cursor have been resolved, which needs the
counter to stay below the number of external values: `ExternalBeforeCount`.
`OperatorsInv` says that in the stage "chains" the operators asked for are those
before the cursor in the order of `Precedes`, and that without an error pending
each unresolved one is followed by a resolved one.  Each part is proved action
by action, the later ones from `Types` and `ValuesInv`.

### XNNWeightsCache

Assumptions: a finite set of executors (`ExecutorsAssumption`), graphs are
sequences of operators (`GraphsAssumption`), and the bounds are numbers;
`CacheTypesHold` also needs that no more is compiled than a count can count.
The hypothesis `WellNamed` is in the theorems it belongs to: packed weights have
names, and operators with the same names are the same operator.  Nothing in the
code enforces it, and without it `PackedAlive` is false, as the graphs `TwoSeeds` and
`InlineLayer` show.  The graphs of the run `weights_cache` satisfy it
(`SharedLayerIsWellNamed`).

The argument goes in four layers, each preserved given those before it.

* `SlotsInv`, for all graphs: an entry has an offset of its own, its pointer has a
  buffer packed for its name and seed, and no two slots hold one pointer unless
  it is null.  Hence `EntriesOwnSlots`: a deletion nulls and frees what belongs
  to the deleted entries, and a pointer is used again only when no slot has it.
* `CountsInv`, for all graphs: one executor compiles at a time and the cache is not
  finalized then; an entry with count 0 is marked, and in a finalized cache
  nothing is marked, so `delete_packed_data`, which runs on a finalized cache
  only, never decrements 0.  Counts are at most the number of compilations.
* `SharingInv`, if `WellNamed`: the buffer of an entry was packed for an operator of
  its key; each offset that a runtime uses is that of its operator's entry, which
  is marked while the runtime is built and among its names when it is ready;
  the names of a ready runtime have entries, counted at least once for each
  runtime that has the name.  Hence `PackedAlive` and `RefCountCovers`: two
  runtimes that name an entry make its count 2, and the first destroy leaves it.
  Failed compilations only leave marks, which a later finish counts once too
  often, never too rarely.
* `ExactInv`, as long as nothing failed: every mark is of an operator that the
  current compilation packed, every name of one the runtime uses, counts are
  exact, the buffers are those of the entries, and only a compilation keeps
  constants.  Hence `BalancedWithoutFailure`.

### XNNWeightsCacheFile

Assumptions: finitely many handles (`HandlesAssumption`; the cache is in the memory
of a process), weights have a name and a seed (`WeightsAssumption`), and numbers for
the size of the disk and of a count (`DiskAssumption`).  Calls may fail and
processes may die at any step in all theorems.

* `Types`, for all processes: what the state of a process says about its mappings,
  its lock and its position in the file, and that an index on a page names pages
  before its own.  It gives `IndexAfterData`, for `finalize_for_runtime` writes the
  index after an `msync` of the regions it lists.
* `SavedInv`, for all processes: what is mapped and not indexed raises
  `mmap_regions_` above the count at the last save, in a process in which no call has
  failed; a finalized one has nothing unsaved.  It gives `SavedWhenFinished`.
* `FileInv`, under `OneAtATime`: every index in the file, also one that is no longer
  at its end, names the data of its weights, and every pointer that an index may
  list points to its data below `packed_file_used_`.  It gives `IndexSound`.
* `NamesInv`, if also `NamesTellWeights`: a slot is that of the entry of its weight;
  what a ready runtime uses has an entry, counted once for each runtime that has the
  name.  With it a `full_unload` or the deletion of an entry leaves what living
  runtimes point to, which is `MemoryIntact`; and `durable` stays within the file
  (`DurableInFile`), the last conjunct of `TypeOK`.

The hypotheses are needed.  With two processes, one whose `reserve_space` fails gives
up the lock and keeps its entries; the other one may then empty the file, and when
the first reopens it, it writes an index of entries whose pages are gone.  With two
weights under one name the entry is replaced below the runtime that was counted on
it, as with `TwoSeeds`.  The run `weights_cache_file` satisfies
both: it has one process, and `TwoNames` is checked on it.

### XnnBackend

Assumptions: addresses are numbers, `None` is none of the objects
(`NoneAssumption`), what an init may ask for (`RequestsAssumption`), and a natural
bound on the calls.  `BackendInv` has six parts, each preserved given those before
it:

* `ControlInv`: where a thread is in its call determines which Arcs and which
  delegate it has, and a delegate is in one call.
* `CacheGuards` and `WorkspaceGuards`: a mutex is held exactly by the thread whose
  place says so.  Half of `LocksAlive` follows, for who is there has the Arc, and
  `Exclusive` for what has a lock.
* `SharingInv`: a slot names a workspace with a lock, and no two slots name the same
  one; executors and calls that
  make one for a slot have the workspace the slot names as long as it is alive; a
  workspace without a lock has one executor and one call.  Hence `SharedAsAsked`,
  and the rest of `Exclusive`.
* `CachesInv`: `cacheOf` names, for each path, a cache of that path, and every cache
  that somebody holds is the one its path names, unless its holder is about to
  close it.  Hence `OneCachePerPath`: an upgrade fails only when nobody holds
  the old cache, so no delegate can be left with it.
* `FileLockOwned`: the other half of `LocksAlive`.

### ModuleFacade and MemoryAllocator

Assumptions: planned sizes and their number are addresses, requests have a size
and a positive alignment (`MethodsAssumption`), the allocator's buffer lies in
the address space (`BufferAssumption`), heap addresses are positive and `None` is
something else (`HeapAssumption`), and the address space is not empty
(`AddressSpaceAssumption`).

First the allocator.  `allocate` adds with wrap-around and compares the results, so
that a request may pass the comparison only because a sum has wrapped.  The
lemmas show that a request that succeeds leaves the cursor inside the buffer and not
below where it was, and that its piece is aligned and lies between the two
(`CursorClimbs` for a sequence of requests).  Hence `PiecesApart`: what a method
has lies below the cursor, what the next one gets above it; `Module` never resets
the allocator.

Then the planned memory.  No property is inductive alone.  `MemoryInv` says that a
module that is not live has no arenas and no holders (`Resting`), that the arenas are
as large as the largest plan of the methods (`ArenasMade`), that a loaded holder has
for each planned buffer a span of its own, of an arena, or of the caller's (`HolderOK`),
that no block has two owners (`OwnersApart`) and none has no owner (`NoHeapLeak`).
Each way through `load_method` is a lemma on what it does to one holder, and the
failures and drops are those that give the blocks of a holder back.

### MmapDataLoader

Assumptions: the page size is positive (`SizesAssumption`), pages are numbered
from 1 and `None` is no number (`PagesAssumption`).  The arithmetic comes first:
`PageShift` (adding whole pages to an address shifts its page and keeps its place
in it), `RangeSizeIs` (`get_overlapping_pages` covers exactly the pages between
the first and the last byte), `MapSizeIs` (cutting the range at the end of the
file drops no page) and `TouchedIs`.  `BuffersMapped` is not inductive, since a
free unmaps pages it computes from the address of the data and not from the
offset of the file.  `LoaderInv` adds `LiveHold`: the data starts where its
origin starts in a page, and its pages map consecutive pages of the file.  With
it `FreedTableIs` shows that a free takes exactly the pages of the data, and
`PagesOwned` that these are nobody else's.  The mlock failure unmaps too little and
is covered: `TableOnly` needs only that no buffer's page is touched.

### What is left to TLC

Liveness (`ExecuteReturns`, `StepReachesEnd`, `CallsReturn`, the fairness half of
`ImplementsRun`) is out of the prover's reach.  So are the expected violations.
`MethodLockstep` has no type invariant of its own: those of its two instances are
`MethodExec`'s.  With two processes at one file at once, `IndexSound` and
`MemoryIntact` are false as stated above.

## 6. Not modelled

The status and the reason for each component are in `PROJECT.json`.  In short:
kernels, 118000 lines of numeric code without control state; generated schema
code; the event tracer, which nothing depends on; the platform layer.  These and
the tests are most of the repository, so the share of its lines that the
modules stand for stays small: the modules cover its stateful core.

Data maps and registries are tables filled once and searched; what other parts
see of them is in `MethodLoad` (a key is found, missing or an error).  The graph
compiler and the tensor parser are sequential translations whose effect on
shared state is in `XNNWeightsCache` and `MethodLoad`.  Within the modelled
components, sizes and contents of tensors, data files of a Module (their load is a
stub), devices other than the CPU and the reading back of backend options are
left out.
