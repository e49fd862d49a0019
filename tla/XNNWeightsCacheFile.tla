-------------------------- MODULE XNNWeightsCacheFile --------------------------
(***************************************************************************)
(* XNNWeightsCache with a packed_cache_path: every process has one cache   *)
(* for the path, and all of them share the file.  A cache maps the file's  *)
(* index if there is one, appends the weights it packs to the file as long *)
(* as it holds the exclusive flock, and appends a new index when a         *)
(* compilation ends.  Calls may fail and processes may die; durable says   *)
(* what a power failure would leave.                                       *)
(*                                                                         *)
(* The file is a sequence of pages: a packed weight, an index (records and *)
(* footer) or bytes that are neither.  Only the holder of the lock writes, *)
(* so what one call does to the file is one step.                          *)
(***************************************************************************)
EXTENDS Integers, Sequences, FiniteSets

CONSTANTS Processes,
          Handles,       \* the delegate handles of a process
          Weights,       \* records [name, seed]: the weights models have
          DiskPages,     \* the pages the disk has room for
          MaxRefs        \* bound on the count of an entry

ASSUME HandlesAssumption == IsFiniteSet(Handles)
ASSUME WeightsAssumption == Weights \subseteq [name : STRING, seed : Nat]
ASSUME DiskAssumption == DiskPages \in Nat /\ MaxRefs \in Nat

VARIABLES file,        \* the pages of the file
          durable,     \* those of them that are on the disk
          state,       \* what each process is doing
          fd,          \* packed_file_fd_ is open, and its exclusive lock held
          used,        \* packed_file_used_, in whole pages
          metadata,    \* name_to_packed_data_metadata_, with its pointer
          slots,       \* the pointers in packed_data_ptrs_
          indexed,     \* the pointers in ptr_to_file_offset_
          regions,     \* mmap_regions_.len()
          last_save,   \* mmap_regions_at_last_save_
          finalized,   \* is_finalized_
          packed,      \* the pointers the runtime under construction was given
          runtimes,    \* handle -> its pointers and packed_data_names
          trouble      \* history: a call on the file of the process has failed

disk == <<file, durable>>
cache == <<metadata, slots, indexed, regions, last_save, used>>
session == <<finalized, packed, runtimes>>
vars == <<disk, state, fd, cache, session, trouble>>

-----------------------------------------------------------------------------
(* Pages and pointers *)

Data(w) == [tag |-> "data", weight |-> w]
Index(records) == [tag |-> "index", records |-> records]
Blank == [tag |-> "blank"]

\* Memory with packed bytes: on the heap, in a region mapped for them alone, or
\* in the mapping of the loaded file.
Pointer == [kind : {"heap", "region", "map"}, page : Nat, weight : Weights]
Heap(w) == [kind |-> "heap", page |-> 0, weight |-> w]
Region(k, w) == [kind |-> "region", page |-> k, weight |-> w]
Mapped(k, w) == [kind |-> "map", page |-> k, weight |-> w]

\* ftruncate: the file has n pages, with what is left of the old ones.
Resized(n) == [i \in 1 .. n |-> IF i <= Len(file) THEN file[i] ELSE Blank]

\* load_packed_cache accepts the file: its last bytes are a footer, and the index
\* before it is not empty.
Loadable(f) == /\ f # <<>>
               /\ f[Len(f)].tag = "index"
               /\ f[Len(f)].records # {}

Footer(f) == f[Len(f)].records

NoRuntime == [state |-> "none", uses |-> {}, names |-> {}]

-----------------------------------------------------------------------------
(* initialize_for_runtime.  Others hold a shared lock while they load, and    *)
(* open may fail by itself: open_locked may always fail.                      *)

Free(p) == \A q \in Processes \ {p} : ~fd[q]
OpenLocked(p) == \E ok \in {Free(p), FALSE} : fd' = [fd EXCEPT ![p] = ok]

Enter(p, s) == state' = [state EXCEPT ![p] = s]
Compile(p) == Enter(p, "compiling")

Begin(p) ==
    /\ state[p] = "idle"
    /\ \A n \in DOMAIN metadata[p] : metadata[p][n].refs < MaxRefs
    /\ finalized' = [finalized EXCEPT ![p] = FALSE]
    /\ packed' = [packed EXCEPT ![p] = {}]
    /\ \/ /\ fd[p]
          /\ Compile(p)
          /\ UNCHANGED fd
       \/ /\ ~fd[p] /\ DOMAIN metadata[p] # {}
          /\ OpenLocked(p)
          /\ Compile(p)
       \/ /\ ~fd[p] /\ DOMAIN metadata[p] = {}
          /\ Enter(p, "loading")
          /\ UNCHANGED fd
    /\ UNCHANGED <<disk, cache, runtimes, trouble>>

Loaded(r) == [seed |-> r.seed, refs |-> 0, current |-> FALSE, from_load |-> TRUE,
              ptr |-> Mapped(r.page, [name |-> r.name, seed |-> r.seed])]

\* load_packed_cache, under a shared lock that it gives up when it returns.
Load(p) ==
    /\ state[p] = "loading"
    /\ Free(p) /\ Loadable(file)
    /\ LET entries == {Loaded(r) : r \in Footer(file)} IN
        /\ metadata' = [metadata EXCEPT ![p] =
              [n \in {e.ptr.weight.name : e \in entries} |->
                  CHOOSE e \in entries : e.ptr.weight.name = n]]
        /\ slots' = [slots EXCEPT ![p] = @ \cup {e.ptr : e \in entries}]
        /\ indexed' = [indexed EXCEPT ![p] = @ \cup {e.ptr : e \in entries}]
    /\ used' = [used EXCEPT ![p] = Len(file)]
    /\ regions' = [regions EXCEPT ![p] = @ + 1]
    /\ last_save' = [last_save EXCEPT ![p] = regions[p] + 1]
    /\ Enter(p, "loaded")
    /\ UNCHANGED <<disk, fd, session, trouble>>

\* No file, no footer, a writer that holds the lock, or any call that fails.
LoadFails(p) == /\ state[p] = "loading"
                /\ Enter(p, "fresh")
                /\ UNCHANGED <<disk, fd, cache, session, trouble>>

Reopen(p) == /\ state[p] = "loaded"
             /\ OpenLocked(p)
             /\ Compile(p)
             /\ UNCHANGED <<disk, cache, session, trouble>>

\* A fresh write: once the lock is held the file is emptied, whatever it holds.
OpenFresh(p) ==
    /\ state[p] = "fresh"
    /\ Compile(p)
    /\ \/ fd' = [fd EXCEPT ![p] = FALSE] /\ UNCHANGED <<disk, cache>>
       \/ /\ Free(p)
          /\ fd' = [fd EXCEPT ![p] = TRUE]
          /\ file' = <<>> /\ durable' = {}
          /\ used' = [used EXCEPT ![p] = 0]
          /\ regions' = [regions EXCEPT ![p] = 0]
          /\ indexed' = [indexed EXCEPT ![p] = {}]
          /\ UNCHANGED <<metadata, slots, last_save>>
    /\ UNCHANGED <<session, trouble>>

-----------------------------------------------------------------------------
(* xnn_create_runtime and its callbacks *)

Entry(w, ptr) == [seed |-> w.seed, refs |-> 0, current |-> TRUE, from_load |-> FALSE,
                  ptr |-> ptr]

\* look_up
Hit(p, w) == w.name \in DOMAIN metadata[p] /\ metadata[p][w.name].seed = w.seed

PackHit(p, w) ==
    /\ state[p] = "compiling" /\ Hit(p, w)
    /\ metadata' = [metadata EXCEPT ![p][w.name].current = TRUE]
    /\ packed' = [packed EXCEPT ![p] = @ \cup {metadata[p][w.name].ptr}]
    /\ UNCHANGED <<disk, state, fd, slots, indexed, regions, last_save, used,
                   finalized, runtimes, trouble>>

\* Slip: the new pointer gets no slot of packed_data_ptrs_.
InsertUnslotted(p, w, ptr) ==
    /\ metadata' = [metadata EXCEPT ![p] =
          [n \in DOMAIN @ \cup {w.name} |-> IF n = w.name THEN Entry(w, ptr) ELSE @[n]]]
    /\ packed' = [packed EXCEPT ![p] = @ \cup {ptr}]
    /\ UNCHANGED slots

\* look_up_or_insert
Insert(p, w, ptr) ==
    /\ metadata' = [metadata EXCEPT ![p] =
          [n \in DOMAIN @ \cup {w.name} |-> IF n = w.name THEN Entry(w, ptr) ELSE @[n]]]
    /\ slots' = [slots EXCEPT ![p] = @ \cup {ptr}]
    /\ packed' = [packed EXCEPT ![p] = @ \cup {ptr}]

\* Slip: the new region starts where the last one did.
NextPageOverlaps(p) == IF used[p] = 0 THEN 1 ELSE used[p]

\* packed_file_used_ rounded up to a page: what comes after the last index.
NextPage(p) == used[p] + 1

\* reserve_space in the file, then the packing.
PackInFile(p, w) ==
    LET k == NextPage(p) IN
    /\ state[p] = "compiling" /\ ~Hit(p, w)
    /\ fd[p] /\ k <= DiskPages
    /\ file' = [Resized(k) EXCEPT ![k] = Data(w)]
    /\ durable' = durable \cap (1 .. k - 1)
    /\ used' = [used EXCEPT ![p] = k]
    /\ regions' = [regions EXCEPT ![p] = @ + 1]
    /\ indexed' = [indexed EXCEPT ![p] = @ \cup {Region(k, w)}]
    /\ Insert(p, w, Region(k, w))
    /\ UNCHANGED <<state, fd, last_save, finalized, runtimes, trouble>>

\* reserve_space_heap; when ftruncate or mmap fails the file is given up, and the
\* lock with it.
PackOnHeap(p, w) ==
    /\ state[p] = "compiling" /\ ~Hit(p, w)
    /\ \/ UNCHANGED disk
       \/ /\ fd[p] /\ NextPage(p) <= DiskPages
          /\ file' = Resized(NextPage(p))
          /\ durable' = durable \cap (1 .. used[p])
    /\ fd' = [fd EXCEPT ![p] = FALSE]
    /\ trouble' = [trouble EXCEPT ![p] = TRUE]
    /\ Insert(p, w, Heap(w))
    /\ UNCHANGED <<state, indexed, regions, last_save, used, finalized, runtimes>>

-----------------------------------------------------------------------------
(* finalize_for_runtime and save_packed_index *)

Records(p, m) == {[name |-> n, seed |-> m[n].seed, page |-> m[n].ptr.page] :
                     n \in {x \in DOMAIN m : m[x].ptr \in indexed[p]}}

\* save_packed_index of p's cache with entries m, when the pages in flushed are
\* on the disk: nothing to do, ftruncate fails, pwrite fails, or the index is
\* written, with an fsync that may fail.
Save(p, m, flushed) ==
    LET k == used[p] + 1
        new == [Resized(k) EXCEPT ![k] = Index(Records(p, m))]
        Failing == /\ metadata' = [metadata EXCEPT ![p] = m]
                   /\ trouble' = [trouble EXCEPT ![p] = TRUE]
                   /\ UNCHANGED <<used, last_save>>
    IN
    \/ /\ ~fd[p] \/ (regions[p] = last_save[p] /\ last_save[p] > 0)
       /\ metadata' = [metadata EXCEPT ![p] = m]
       /\ durable' = flushed
       /\ UNCHANGED <<file, used, last_save, trouble>>
    \/ /\ fd[p] /\ ~(regions[p] = last_save[p] /\ last_save[p] > 0)
       /\ \/ Failing /\ durable' = flushed /\ UNCHANGED file
          \/ /\ k <= DiskPages
             /\ Failing
             /\ file' = [Resized(k) EXCEPT ![k] = Blank]
             /\ durable' = flushed \cap (1 .. k - 1)
          \/ /\ k <= DiskPages
             /\ file' = new
             /\ durable' \in {flushed \cap (1 .. k - 1), 1 .. k}
             /\ metadata' = [metadata EXCEPT ![p] =
                   [n \in DOMAIN m |-> IF m[n].ptr \in indexed[p]
                                       THEN [m[n] EXCEPT !.from_load = TRUE] ELSE m[n]]]
             /\ used' = [used EXCEPT ![p] = k]
             /\ last_save' = [last_save EXCEPT ![p] = regions[p]]
             /\ UNCHANGED trouble

\* Slip: the new regions are not flushed before the index is written.
SyncedNot(p) == durable

\* msync of the regions that are still mapped, the mapping of the loaded file
\* among them.
Synced(p) == durable \cup {ptr.page : ptr \in {x \in slots[p] : x.kind # "heap"}}

\* Slip: finalize_for_runtime leaves the saving to save_all.
SavesNever(p) == FALSE

\* There are regions that no index names.
Saves(p) == regions[p] > last_save[p]

Finish(p, h) ==
    LET current == {n \in DOMAIN metadata[p] : metadata[p][n].current}
        m == [n \in DOMAIN metadata[p] |->
                 IF n \in current
                 THEN [metadata[p][n] EXCEPT !.refs = @ + 1, !.current = FALSE]
                 ELSE metadata[p][n]]
    IN  /\ state[p] = "compiling"
        /\ runtimes[p][h] = NoRuntime
        /\ finalized' = [finalized EXCEPT ![p] = TRUE]
        /\ runtimes' = [runtimes EXCEPT ![p][h] =
              [state |-> "ready", uses |-> packed[p], names |-> current]]
        /\ packed' = [packed EXCEPT ![p] = {}]
        /\ Enter(p, "idle")
        /\ IF Saves(p) THEN Save(p, m, Synced(p))
           ELSE /\ metadata' = [metadata EXCEPT ![p] = m]
                /\ durable' = Synced(p)
                /\ UNCHANGED <<file, used, last_save, trouble>>
        /\ UNCHANGED <<fd, slots, indexed, regions>>

\* The compilation fails, and nothing is done to the cache.
CompileFails(p) ==
    /\ state[p] = "compiling"
    /\ Enter(p, "idle")
    /\ packed' = [packed EXCEPT ![p] = {}]
    /\ UNCHANGED <<disk, fd, cache, finalized, runtimes, trouble>>

\* XNNWeightsCacheManager::save_all
SaveAll(p) == /\ state[p] = "idle"
              /\ Save(p, metadata[p], durable)
              /\ UNCHANGED <<state, fd, slots, indexed, regions, session>>

-----------------------------------------------------------------------------
(* delete_packed_data *)

\* Entries that are in the file's index are kept for the next runtime.
Deletable(e) == ~e.from_load

\* full_unload: the regions are unmapped, the file and its lock given up.
FullUnload(p) == /\ slots' = [slots EXCEPT ![p] = {}]
                 /\ indexed' = [indexed EXCEPT ![p] = {}]
                 /\ regions' = [regions EXCEPT ![p] = 0]
                 /\ fd' = [fd EXCEPT ![p] = FALSE]

\* The loop over names that all have an entry; complete if no name is missing.
DeleteEntries(p, names, complete) ==
    LET m == metadata[p]
        Left(n) == IF m[n].refs = 0 THEN MaxRefs ELSE m[n].refs - 1
        gone == {n \in names : Left(n) = 0 /\ Deletable(m[n])}
        left == DOMAIN m \ gone
    IN  /\ metadata' = [metadata EXCEPT ![p] =
              [n \in left |-> IF n \notin names THEN m[n]
                              ELSE [m[n] EXCEPT !.refs = Left(n),
                                                !.current = @ /\ Left(n) > 0]]]
        /\ IF complete /\ left = {} THEN FullUnload(p)
           ELSE /\ slots' = [slots EXCEPT ![p] = @ \ {m[n].ptr : n \in gone}]
                /\ UNCHANGED <<indexed, regions, fd>>

Destroy(p, h) ==
    LET names == runtimes[p][h].names
        known == names \cap DOMAIN metadata[p]
    IN  /\ state[p] = "idle"
        /\ runtimes[p][h].state = "ready"
        /\ runtimes' = [runtimes EXCEPT ![p][h] = NoRuntime]
        /\ \/ /\ names = {} \/ ~finalized[p]
              /\ UNCHANGED <<metadata, slots, indexed, regions, fd>>
           \/ /\ names # {} /\ finalized[p]
              /\ \/ known = names /\ DeleteEntries(p, names, TRUE)
                 \/ known # names /\ \E some \in SUBSET known : DeleteEntries(p, some, FALSE)
        /\ UNCHANGED <<disk, state, last_save, used, finalized, packed, trouble>>

-----------------------------------------------------------------------------
(* Processes *)

\* A new process, with a new cache for the path.
Start(p) == /\ state[p] = "down"
            /\ Enter(p, "idle")
            /\ UNCHANGED <<disk, fd, cache, session, trouble>>

\* The process is killed, or drops the last handle and with it the cache: the
\* file keeps the pages it wrote.
Crash(p) ==
    LET Reset(f, v) == [f EXCEPT ![p] = v] IN
    /\ state[p] # "down"
    /\ Enter(p, "down")
    /\ fd' = Reset(fd, FALSE)
    /\ used' = Reset(used, 0)
    /\ metadata' = Reset(metadata, <<>>)
    /\ slots' = Reset(slots, {})
    /\ indexed' = Reset(indexed, {})
    /\ regions' = Reset(regions, 0)
    /\ last_save' = Reset(last_save, 0)
    /\ finalized' = Reset(finalized, FALSE)
    /\ packed' = Reset(packed, {})
    /\ runtimes' = Reset(runtimes, [h \in Handles |-> NoRuntime])
    /\ trouble' = Reset(trouble, FALSE)
    /\ UNCHANGED disk

Init ==
    /\ file = <<>> /\ durable = {}
    /\ state = [p \in Processes |-> "down"]
    /\ fd = [p \in Processes |-> FALSE]
    /\ used = [p \in Processes |-> 0]
    /\ metadata = [p \in Processes |-> <<>>]
    /\ slots = [p \in Processes |-> {}]
    /\ indexed = [p \in Processes |-> {}]
    /\ regions = [p \in Processes |-> 0]
    /\ last_save = [p \in Processes |-> 0]
    /\ finalized = [p \in Processes |-> FALSE]
    /\ packed = [p \in Processes |-> {}]
    /\ runtimes = [p \in Processes |-> [h \in Handles |-> NoRuntime]]
    /\ trouble = [p \in Processes |-> FALSE]

Next == \E p \in Processes :
    \/ Start(p) \/ Crash(p)
    \/ Begin(p) \/ Load(p) \/ LoadFails(p) \/ Reopen(p) \/ OpenFresh(p)
    \/ \E w \in Weights : PackHit(p, w) \/ PackInFile(p, w) \/ PackOnHeap(p, w)
    \/ CompileFails(p) \/ SaveAll(p)
    \/ \E h \in Handles : Finish(p, h) \/ Destroy(p, h)

Spec == Init /\ [][Next]_vars

-----------------------------------------------------------------------------
(* Properties *)

\* No two processes have the file at the same time.
OneAtATime == \A p, q \in Processes : state[p] # "down" /\ state[q] # "down" => p = q

\* A name stands for one weight: no model comes with other data or another seed.
NamesTellWeights == \A v, w \in Weights : v.name = w.name => v = w

TypeOK ==
    /\ Len(file) <= DiskPages /\ durable \subseteq DOMAIN file
    /\ state \in [Processes -> {"down", "idle", "loading", "loaded", "fresh", "compiling"}]
    /\ \A p \in Processes :
         /\ used[p] \in 0 .. DiskPages
         /\ slots[p] \subseteq Pointer /\ indexed[p] \subseteq Pointer
         /\ packed[p] \subseteq slots[p]
         /\ \A n \in DOMAIN metadata[p] : metadata[p][n].ptr \in slots[p]

\* The bytes behind a pointer are those packed for its weight.
Intact(ptr) == \/ ptr.kind = "heap"
               \/ ptr.page <= Len(file) /\ file[ptr.page] = Data(ptr.weight)

\* Whoever loads the file, whenever, finds behind every record of its index the
\* weight of that name and seed: no crash and no failing call leaves an index
\* that names other data.
IndexSound == Loadable(file) =>
    \A r \in Footer(file) : file[r.page] = Data([name |-> r.name, seed |-> r.seed])

\* The index that a compilation writes names only data that is on the disk
\* already, whatever happened to the regions before: if the power fails the index
\* may be missing, but it cannot survive its data.  (save_all gives no such
\* promise: it does not flush what a failed compilation packed.)
IndexAfterData ==
    [][\A p \in Processes : \A h \in Handles :
          Finish(p, h) /\ file' # file /\ Loadable(file')
             => {r.page : r \in Footer(file')} \subseteq durable']_vars

\* A fresh write does not pass O_TRUNC "so a concurrent holder's existing mmap
\* stays valid": an entry that a process has in memory finds its own bytes, and so
\* does a runtime as long as it lives: they are neither unmapped nor overwritten.
MemoryIntact ==
    /\ \A p \in Processes : \A n \in DOMAIN metadata[p] : Intact(metadata[p][n].ptr)
    /\ \A p \in Processes : \A h \in Handles :
          \A ptr \in runtimes[p][h].uses : ptr \in slots[p] /\ Intact(ptr)

\* The entries of p that are in the file and in no index yet.
Unsaved(p) == {n \in DOMAIN metadata[p] :
                  metadata[p][n].ptr.kind = "region" /\ ~metadata[p][n].from_load}

\* The file ends with an index of all that p has in it.
AllIndexed(p) == Loadable(file) /\ Records(p, metadata[p]) = Footer(file)

\* "Auto-trigger save_packed_index when this compile session added new packed
\* entries to the file": a compilation that leaves entries of no index ends with
\* an index of everything, in a process that has had the file and its lock and
\* saw no call on it fail.  After a failure it need not: regions that were never
\* saved can be counted in mmap_regions_at_last_save_, which outlives them.
SavedWhenFinished ==
    [][\A p \in Processes : \A h \in Handles :
          Finish(p, h) /\ fd[p] /\ Unsaved(p) # {} /\ ~trouble'[p]
             => AllIndexed(p)']_vars
=============================================================================
