----------------------- MODULE XNNWeightsCacheFileProofs -----------------------
(***************************************************************************)
(* Theorems about XNNWeightsCacheFile, for any number of processes,        *)
(* handles, weights and pages, with calls that fail and processes that     *)
(* die after any step.                                                     *)
(***************************************************************************)
EXTENDS XNNWeightsCacheFile, FiniteSetTheorems, TLAPS

-----------------------------------------------------------------------------
(* Types *)

EntryType == [seed : Nat, refs : Nat, current : BOOLEAN, from_load : BOOLEAN, ptr : Pointer]
RuntimeType == [state : {"none", "ready"}, uses : SUBSET Pointer, names : SUBSET STRING]
WeightOf(r) == [name |-> r.name, seed |-> r.seed]

\* An index names each weight once, and only pages before its own.
IndexOK(records, i) ==
    /\ \A r \in records : r.page \in 1 .. i - 1 /\ WeightOf(r) \in Weights
    /\ \A r, s \in records : r.name = s.name => r = s
PageOK(page, i) == \/ page = Blank
                   \/ \E w \in Weights : page = Data(w)
                   \/ page.tag = "index" /\ IndexOK(page.records, i)
FileOK(f) == /\ Len(f) \in 0 .. DiskPages /\ f = [i \in 1 .. Len(f) |-> f[i]]
             /\ \A i \in 1 .. Len(f) : PageOK(f[i], i)

States == {"down", "idle", "loading", "loaded", "fresh", "compiling"}

\* Every process has all of its variables.
Shape == /\ state \in [Processes -> States]
         /\ DOMAIN fd = Processes /\ DOMAIN used = Processes /\ DOMAIN metadata = Processes
         /\ DOMAIN slots = Processes /\ DOMAIN indexed = Processes
         /\ DOMAIN regions = Processes /\ DOMAIN last_save = Processes
         /\ DOMAIN finalized = Processes /\ DOMAIN packed = Processes
         /\ DOMAIN runtimes = Processes /\ DOMAIN trouble = Processes

\* Every entry has its own weight behind a pointer that has a slot and, unless it
\* is on the heap, a page that was given out.
EntriesFit(m, ptrs, offsets, pages) ==
    /\ m \in [DOMAIN m -> EntryType] /\ DOMAIN m \subseteq STRING
    /\ \A n \in DOMAIN m :
         /\ m[n].ptr.weight = [name |-> n, seed |-> m[n].seed]
         /\ m[n].ptr \in ptrs
         /\ m[n].ptr.kind # "heap" => m[n].ptr \in offsets /\ m[n].ptr.page \in 1 .. pages

SessionTypes(p) == /\ fd[p] \in BOOLEAN /\ finalized[p] \in BOOLEAN /\ trouble[p] \in BOOLEAN
                   /\ packed[p] \subseteq Pointer /\ runtimes[p] \in [Handles -> RuntimeType]
CacheTypes(p) == /\ used[p] \in 0 .. DiskPages
                 /\ slots[p] \subseteq Pointer /\ indexed[p] \subseteq Pointer
                 /\ \A ptr \in indexed[p] : ptr.kind # "heap"
                 /\ regions[p] \in Nat /\ last_save[p] \in Nat
                 /\ EntriesFit(metadata[p], slots[p], indexed[p], used[p])

\* A process that is down has nothing, one that has just started to load has no
\* entries, and only an idle one can be finalized.
StageOK(p) ==
    /\ state[p] \in {"down", "loading", "fresh"} => DOMAIN metadata[p] = {}
    /\ state[p] = "loaded" => \A n \in DOMAIN metadata[p] : metadata[p][n].ptr.kind = "map"
    /\ finalized[p] => state[p] = "idle"
    /\ state[p] # "compiling" => packed[p] = {}
    /\ state[p] = "down" => indexed[p] = {} /\ used[p] = 0

ProcessOK(p) == SessionTypes(p) /\ CacheTypes(p) /\ StageOK(p)
Types == FileOK(file) /\ Shape /\ \A p \in Processes : ProcessOK(p)

\* What a step leaves as it is.
DiskStays == file' = file /\ durable' = durable
CacheStays(p) == /\ metadata'[p] = metadata[p] /\ slots'[p] = slots[p] /\ indexed'[p] = indexed[p]
                 /\ regions'[p] = regions[p] /\ last_save'[p] = last_save[p] /\ used'[p] = used[p]
SessionStays(p) == finalized'[p] = finalized[p] /\ packed'[p] = packed[p] /\ runtimes'[p] = runtimes[p]
Stays(p) == /\ CacheStays(p) /\ SessionStays(p)
            /\ state'[p] = state[p] /\ fd'[p] = fd[p] /\ trouble'[p] = trouble[p]

\* A step of p.
Step(p) == Shape' /\ \A q \in Processes \ {p} : Stays(q)

-----------------------------------------------------------------------------
(* What each step does *)

LEMMA StartIs ==
  ASSUME Shape, NEW p \in Processes, Start(p)
  PROVE  /\ Step(p) /\ DiskStays /\ CacheStays(p) /\ SessionStays(p)
         /\ state[p] = "down" /\ state'[p] = "idle" /\ fd'[p] = fd[p] /\ trouble'[p] = trouble[p]
BY DEF Start, Enter, Shape, States, Step, Stays, DiskStays, CacheStays, SessionStays,
       disk, cache, session

LEMMA CrashIs ==
  ASSUME Shape, NEW p \in Processes, Crash(p)
  PROVE  /\ Step(p) /\ DiskStays
         /\ state'[p] = "down" /\ fd'[p] = FALSE /\ used'[p] = 0
         /\ metadata'[p] = <<>> /\ slots'[p] = {} /\ indexed'[p] = {}
         /\ regions'[p] = 0 /\ last_save'[p] = 0 /\ finalized'[p] = FALSE /\ packed'[p] = {}
         /\ runtimes'[p] = [h \in Handles |-> NoRuntime] /\ trouble'[p] = FALSE
<1> DEFINE nil == <<>>
           none == [h \in Handles |-> NoRuntime]
<1>1. metadata' = [metadata EXCEPT ![p] = nil] /\ runtimes' = [runtimes EXCEPT ![p] = none]
  BY DEF Crash
<1> HIDE DEF nil, none
<1>2. metadata'[p] = nil /\ runtimes'[p] = none
  BY <1>1 DEF Shape
<1>3. /\ DiskStays /\ state'[p] = "down" /\ fd'[p] = FALSE /\ used'[p] = 0
      /\ slots'[p] = {} /\ indexed'[p] = {} /\ regions'[p] = 0 /\ last_save'[p] = 0
      /\ finalized'[p] = FALSE /\ packed'[p] = {} /\ trouble'[p] = FALSE
  BY DEF Crash, Enter, Shape, DiskStays, disk
<1>4. Shape'
  BY <1>1 DEF Crash, Enter, Shape, States
<1>5. ASSUME NEW q \in Processes \ {p} PROVE Stays(q)
  BY <1>1 DEF Crash, Enter, Shape, Stays, CacheStays, SessionStays
<1> QED
  BY <1>2, <1>3, <1>4, <1>5 DEF Step, nil, none

LEMMA OpenLockedIs ==
  ASSUME Shape, NEW p \in Processes, OpenLocked(p)
  PROVE  /\ fd'[p] \in BOOLEAN /\ DOMAIN fd' = Processes
         /\ \A q \in Processes \ {p} : fd'[q] = fd[q]
BY DEF OpenLocked, Free, Shape

LEMMA BeginIs ==
  ASSUME Shape, NEW p \in Processes, fd[p] \in BOOLEAN, Begin(p)
  PROVE  /\ Step(p) /\ DiskStays /\ CacheStays(p)
         /\ state[p] = "idle"
         /\ finalized'[p] = FALSE /\ packed'[p] = {} /\ runtimes'[p] = runtimes[p]
         /\ trouble'[p] = trouble[p]
         /\ state'[p] \in {"compiling", "loading"}
         /\ state'[p] = "loading" => DOMAIN metadata[p] = {}
         /\ fd'[p] \in BOOLEAN /\ (fd[p] => fd'[p])
<1>1. /\ finalized'[p] = FALSE /\ packed'[p] = {} /\ runtimes' = runtimes
      /\ trouble' = trouble /\ state[p] = "idle"
      /\ DiskStays /\ \A q \in Processes : CacheStays(q)
  BY DEF Begin, Shape, DiskStays, CacheStays, disk, cache
<1>2. ASSUME NEW s \in {"compiling", "loading"}, Enter(p, s),
             UNCHANGED fd \/ (~fd[p] /\ OpenLocked(p))
      PROVE  /\ Step(p) /\ state'[p] = s
             /\ fd'[p] \in BOOLEAN /\ (fd[p] => fd'[p])
  <2>1. /\ DOMAIN fd' = Processes /\ \A q \in Processes \ {p} : fd'[q] = fd[q]
        /\ fd'[p] \in BOOLEAN /\ (fd[p] => fd'[p])
    BY <1>2, OpenLockedIs DEF Shape
  <2>2. /\ state' = [state EXCEPT ![p] = s] /\ s \in States
        /\ state'[p] = s /\ \A q \in Processes \ {p} : state'[q] = state[q]
    BY <1>2 DEF Enter, Shape, States
  <2>3. Shape'
    BY <2>1, <2>2 DEF Begin, Shape, cache
  <2>4. ASSUME NEW q \in Processes \ {p} PROVE Stays(q)
    BY <1>1, <2>1, <2>2 DEF Begin, Shape, Stays, SessionStays
  <2> QED
    BY <2>1, <2>2, <2>3, <2>4 DEF Step
<1>3. \/ Enter(p, "compiling") /\ UNCHANGED fd
      \/ Enter(p, "compiling") /\ (~fd[p] /\ OpenLocked(p))
      \/ Enter(p, "loading") /\ UNCHANGED fd /\ DOMAIN metadata[p] = {}
  BY DEF Begin, Compile
<1>4. CASE Enter(p, "compiling") /\ UNCHANGED fd
  <2>1. Step(p) /\ state'[p] = "compiling" /\ fd'[p] \in BOOLEAN /\ (fd[p] => fd'[p])
    BY <1>2, <1>4
  <2> QED
    BY <1>1, <2>1
<1>5. CASE Enter(p, "compiling") /\ (~fd[p] /\ OpenLocked(p))
  <2>1. Step(p) /\ state'[p] = "compiling" /\ fd'[p] \in BOOLEAN /\ (fd[p] => fd'[p])
    BY <1>2, <1>5
  <2> QED
    BY <1>1, <2>1
<1>6. CASE Enter(p, "loading") /\ UNCHANGED fd /\ DOMAIN metadata[p] = {}
  <2>1. Step(p) /\ state'[p] = "loading" /\ fd'[p] \in BOOLEAN /\ (fd[p] => fd'[p])
    BY <1>2, <1>6
  <2> QED
    BY <1>1, <1>6, <2>1
<1> QED
  BY <1>3, <1>4, <1>5, <1>6

LEMMA LoadIs ==
  ASSUME Shape, NEW p \in Processes, Load(p)
  PROVE  LET entries == {Loaded(r) : r \in Footer(file)} IN
         /\ Step(p) /\ DiskStays /\ SessionStays(p)
         /\ Loadable(file) /\ state[p] = "loading" /\ state'[p] = "loaded"
         /\ fd'[p] = fd[p] /\ trouble'[p] = trouble[p]
         /\ metadata'[p] = [n \in {e.ptr.weight.name : e \in entries} |->
                               CHOOSE e \in entries : e.ptr.weight.name = n]
         /\ slots'[p] = slots[p] \cup {e.ptr : e \in entries}
         /\ indexed'[p] = indexed[p] \cup {e.ptr : e \in entries}
         /\ used'[p] = Len(file)
         /\ regions'[p] = regions[p] + 1 /\ last_save'[p] = regions[p] + 1
<1> DEFINE entries == {Loaded(r) : r \in Footer(file)}
           m == [n \in {e.ptr.weight.name : e \in entries} |->
                    CHOOSE e \in entries : e.ptr.weight.name = n]
           ptrs == {e.ptr : e \in entries}
           k == Len(file)
<1>1. /\ metadata' = [metadata EXCEPT ![p] = m]
      /\ slots' = [slots EXCEPT ![p] = slots[p] \cup ptrs]
      /\ indexed' = [indexed EXCEPT ![p] = indexed[p] \cup ptrs]
      /\ used' = [used EXCEPT ![p] = k]
      /\ regions' = [regions EXCEPT ![p] = regions[p] + 1]
      /\ last_save' = [last_save EXCEPT ![p] = regions[p] + 1]
      /\ state' = [state EXCEPT ![p] = "loaded"]
      /\ Loadable(file) /\ state[p] = "loading"
      /\ DiskStays /\ fd' = fd /\ trouble' = trouble
      /\ finalized' = finalized /\ packed' = packed /\ runtimes' = runtimes
  BY DEF Load, Enter, Shape, DiskStays, disk, session
<1> HIDE DEF m, ptrs, k
<1>2. Step(p)
  BY <1>1 DEF Step, Shape, States, Stays, CacheStays, SessionStays
<1>3. /\ metadata'[p] = m /\ slots'[p] = slots[p] \cup ptrs /\ indexed'[p] = indexed[p] \cup ptrs
      /\ used'[p] = k /\ regions'[p] = regions[p] + 1 /\ last_save'[p] = regions[p] + 1
      /\ state'[p] = "loaded" /\ fd'[p] = fd[p] /\ trouble'[p] = trouble[p] /\ SessionStays(p)
  BY <1>1 DEF Shape, SessionStays
<1> QED
  BY <1>1, <1>2, <1>3 DEF m, ptrs, k

LEMMA LoadFailsIs ==
  ASSUME Shape, NEW p \in Processes, LoadFails(p)
  PROVE  /\ Step(p) /\ DiskStays /\ CacheStays(p) /\ SessionStays(p)
         /\ state[p] = "loading" /\ state'[p] = "fresh" /\ fd'[p] = fd[p] /\ trouble'[p] = trouble[p]
BY DEF LoadFails, Enter, Shape, States, Step, Stays, DiskStays, CacheStays, SessionStays,
       disk, cache, session

LEMMA ReopenIs ==
  ASSUME Shape, NEW p \in Processes, Reopen(p)
  PROVE  /\ Step(p) /\ DiskStays /\ CacheStays(p) /\ SessionStays(p)
         /\ state[p] = "loaded" /\ state'[p] = "compiling"
         /\ fd'[p] \in BOOLEAN /\ trouble'[p] = trouble[p]
<1>1. fd'[p] \in BOOLEAN /\ DOMAIN fd' = Processes /\ \A q \in Processes \ {p} : fd'[q] = fd[q]
  BY OpenLockedIs DEF Reopen
<1> QED
  BY <1>1 DEF Reopen, Compile, Enter, Shape, States, Step, Stays, DiskStays, CacheStays,
              SessionStays, disk, cache, session

LEMMA OpenFreshIs ==
  ASSUME Shape, NEW p \in Processes, OpenFresh(p)
  PROVE  /\ Step(p) /\ SessionStays(p)
         /\ state[p] = "fresh" /\ state'[p] = "compiling" /\ trouble'[p] = trouble[p]
         /\ metadata'[p] = metadata[p] /\ slots'[p] = slots[p] /\ last_save'[p] = last_save[p]
         /\ \/ DiskStays /\ CacheStays(p) /\ fd'[p] = FALSE
            \/ /\ file' = <<>> /\ durable' = {} /\ fd'[p] = TRUE
               /\ used'[p] = 0 /\ regions'[p] = 0 /\ indexed'[p] = {}
<1> DEFINE nil == <<>>
<1>1. /\ state' = [state EXCEPT ![p] = "compiling"] /\ state[p] = "fresh" /\ trouble' = trouble
      /\ finalized' = finalized /\ packed' = packed /\ runtimes' = runtimes
      /\ metadata' = metadata /\ slots' = slots /\ last_save' = last_save
  BY DEF OpenFresh, Compile, Enter, session, cache
<1>2. \/ fd' = [fd EXCEPT ![p] = FALSE] /\ file' = file /\ durable' = durable
         /\ used' = used /\ regions' = regions /\ indexed' = indexed
      \/ fd' = [fd EXCEPT ![p] = TRUE] /\ file' = nil /\ durable' = {}
         /\ used' = [used EXCEPT ![p] = 0] /\ regions' = [regions EXCEPT ![p] = 0]
         /\ indexed' = [indexed EXCEPT ![p] = {}]
  BY DEF OpenFresh, disk, cache
<1> HIDE DEF nil
<1>3. Step(p)
  BY <1>1, <1>2 DEF Step, Shape, States, Stays, CacheStays, SessionStays
<1>4. /\ SessionStays(p) /\ state'[p] = "compiling" /\ trouble'[p] = trouble[p]
      /\ metadata'[p] = metadata[p] /\ slots'[p] = slots[p] /\ last_save'[p] = last_save[p]
  BY <1>1 DEF Shape, SessionStays
<1>5. \/ DiskStays /\ CacheStays(p) /\ fd'[p] = FALSE
      \/ /\ file' = nil /\ durable' = {} /\ fd'[p] = TRUE
         /\ used'[p] = 0 /\ regions'[p] = 0 /\ indexed'[p] = {}
  BY <1>1, <1>2 DEF Shape, DiskStays, CacheStays
<1> QED
  BY <1>1, <1>3, <1>4, <1>5 DEF nil

LEMMA PackHitIs ==
  ASSUME Shape, NEW p \in Processes, NEW w \in Weights, PackHit(p, w)
  PROVE  /\ Step(p) /\ DiskStays
         /\ state[p] = "compiling" /\ Hit(p, w)
         /\ state'[p] = state[p] /\ fd'[p] = fd[p] /\ trouble'[p] = trouble[p]
         /\ metadata'[p] = [metadata[p] EXCEPT ![w.name] = [@ EXCEPT !.current = TRUE]]
         /\ packed'[p] = packed[p] \cup {metadata[p][w.name].ptr}
         /\ slots'[p] = slots[p] /\ indexed'[p] = indexed[p] /\ regions'[p] = regions[p]
         /\ last_save'[p] = last_save[p] /\ used'[p] = used[p]
         /\ finalized'[p] = finalized[p] /\ runtimes'[p] = runtimes[p]
<1> DEFINE m == [metadata[p] EXCEPT ![w.name] = [@ EXCEPT !.current = TRUE]]
<1>1. /\ metadata' = [metadata EXCEPT ![p] = m]
      /\ packed' = [packed EXCEPT ![p] = packed[p] \cup {metadata[p][w.name].ptr}]
      /\ file' = file /\ durable' = durable /\ state' = state /\ fd' = fd /\ slots' = slots
      /\ indexed' = indexed /\ regions' = regions /\ last_save' = last_save /\ used' = used
      /\ finalized' = finalized /\ runtimes' = runtimes /\ trouble' = trouble
      /\ state[p] = "compiling" /\ Hit(p, w)
  BY DEF PackHit, Shape, disk
<1> HIDE DEF m
<1>2. Step(p)
  BY <1>1 DEF Step, Shape, States, Stays, CacheStays, SessionStays
<1> QED
  BY <1>1, <1>2 DEF Shape, DiskStays, m

\* The entries after w was packed to ptr.
WithEntry(m, w, ptr) == [n \in DOMAIN m \cup {w.name} |-> IF n = w.name THEN Entry(w, ptr) ELSE m[n]]

LEMMA InsertIs ==
  ASSUME Shape, NEW p \in Processes, NEW w, NEW ptr, Insert(p, w, ptr)
  PROVE  /\ DOMAIN metadata' = Processes /\ DOMAIN slots' = Processes /\ DOMAIN packed' = Processes
         /\ \A q \in Processes \ {p} : /\ metadata'[q] = metadata[q] /\ slots'[q] = slots[q]
                                       /\ packed'[q] = packed[q]
         /\ metadata'[p] = WithEntry(metadata[p], w, ptr)
         /\ slots'[p] = slots[p] \cup {ptr} /\ packed'[p] = packed[p] \cup {ptr}
<1> DEFINE m == WithEntry(metadata[p], w, ptr)
<1>1. /\ metadata' = [metadata EXCEPT ![p] = m] /\ slots' = [slots EXCEPT ![p] = slots[p] \cup {ptr}]
      /\ packed' = [packed EXCEPT ![p] = packed[p] \cup {ptr}]
  BY DEF Insert, Shape, WithEntry
<1> HIDE DEF m
<1> QED
  BY <1>1 DEF Shape, m

LEMMA PackInFileIs ==
  ASSUME Shape, NEW p \in Processes, NEW w \in Weights, PackInFile(p, w)
  PROVE  LET k == used[p] + 1 IN
         /\ Step(p)
         /\ state[p] = "compiling" /\ ~Hit(p, w) /\ fd[p] /\ k <= DiskPages
         /\ file' = [Resized(k) EXCEPT ![k] = Data(w)] /\ durable' = durable \cap (1 .. k - 1)
         /\ state'[p] = state[p] /\ fd'[p] = fd[p] /\ trouble'[p] = trouble[p]
         /\ metadata'[p] = WithEntry(metadata[p], w, Region(k, w))
         /\ slots'[p] = slots[p] \cup {Region(k, w)} /\ packed'[p] = packed[p] \cup {Region(k, w)}
         /\ indexed'[p] = indexed[p] \cup {Region(k, w)}
         /\ used'[p] = k /\ regions'[p] = regions[p] + 1 /\ last_save'[p] = last_save[p]
         /\ finalized'[p] = finalized[p] /\ runtimes'[p] = runtimes[p]
<1> DEFINE k == used[p] + 1
           ptr == Region(k, w)
<1>1. /\ Insert(p, w, ptr) /\ used' = [used EXCEPT ![p] = k]
      /\ regions' = [regions EXCEPT ![p] = regions[p] + 1]
      /\ indexed' = [indexed EXCEPT ![p] = indexed[p] \cup {ptr}]
      /\ state' = state /\ fd' = fd /\ last_save' = last_save /\ finalized' = finalized
      /\ runtimes' = runtimes /\ trouble' = trouble
  BY DEF PackInFile, NextPage, Shape
<1>2. /\ state[p] = "compiling" /\ ~Hit(p, w) /\ fd[p] /\ k <= DiskPages
      /\ file' = [Resized(k) EXCEPT ![k] = Data(w)] /\ durable' = durable \cap (1 .. k - 1)
  BY DEF PackInFile, NextPage
<1> HIDE DEF k, ptr
<1>3. /\ DOMAIN metadata' = Processes /\ DOMAIN slots' = Processes /\ DOMAIN packed' = Processes
      /\ \A q \in Processes \ {p} : /\ metadata'[q] = metadata[q] /\ slots'[q] = slots[q]
                                    /\ packed'[q] = packed[q]
      /\ metadata'[p] = WithEntry(metadata[p], w, ptr)
      /\ slots'[p] = slots[p] \cup {ptr} /\ packed'[p] = packed[p] \cup {ptr}
  BY <1>1, InsertIs
<1>4. Step(p)
  BY <1>1, <1>3 DEF Step, Shape, States, Stays, CacheStays, SessionStays
<1>5. /\ state'[p] = state[p] /\ fd'[p] = fd[p] /\ trouble'[p] = trouble[p]
      /\ indexed'[p] = indexed[p] \cup {ptr}
      /\ used'[p] = k /\ regions'[p] = regions[p] + 1 /\ last_save'[p] = last_save[p]
      /\ finalized'[p] = finalized[p] /\ runtimes'[p] = runtimes[p]
  BY <1>1 DEF Shape
<1> QED
  BY <1>2, <1>3, <1>4, <1>5 DEF k, ptr

LEMMA PackOnHeapIs ==
  ASSUME Shape, NEW p \in Processes, NEW w \in Weights, PackOnHeap(p, w)
  PROVE  LET k == used[p] + 1 IN
         /\ Step(p)
         /\ state[p] = "compiling" /\ ~Hit(p, w)
         /\ \/ DiskStays
            \/ /\ fd[p] /\ k <= DiskPages
               /\ file' = Resized(k) /\ durable' = durable \cap (1 .. used[p])
         /\ state'[p] = state[p] /\ fd'[p] = FALSE /\ trouble'[p] = TRUE
         /\ metadata'[p] = WithEntry(metadata[p], w, Heap(w))
         /\ slots'[p] = slots[p] \cup {Heap(w)} /\ packed'[p] = packed[p] \cup {Heap(w)}
         /\ indexed'[p] = indexed[p] /\ used'[p] = used[p]
         /\ regions'[p] = regions[p] /\ last_save'[p] = last_save[p]
         /\ finalized'[p] = finalized[p] /\ runtimes'[p] = runtimes[p]
<1> DEFINE k == used[p] + 1
           ptr == Heap(w)
<1>1. /\ Insert(p, w, ptr) /\ fd' = [fd EXCEPT ![p] = FALSE] /\ trouble' = [trouble EXCEPT ![p] = TRUE]
      /\ state' = state /\ indexed' = indexed /\ regions' = regions /\ last_save' = last_save
      /\ used' = used /\ finalized' = finalized /\ runtimes' = runtimes
  BY DEF PackOnHeap
<1>2. /\ state[p] = "compiling" /\ ~Hit(p, w)
      /\ \/ DiskStays
         \/ /\ fd[p] /\ k <= DiskPages
            /\ file' = Resized(k) /\ durable' = durable \cap (1 .. used[p])
  BY DEF PackOnHeap, NextPage, DiskStays, disk
<1> HIDE DEF k, ptr
<1>3. /\ DOMAIN metadata' = Processes /\ DOMAIN slots' = Processes /\ DOMAIN packed' = Processes
      /\ \A q \in Processes \ {p} : /\ metadata'[q] = metadata[q] /\ slots'[q] = slots[q]
                                    /\ packed'[q] = packed[q]
      /\ metadata'[p] = WithEntry(metadata[p], w, ptr)
      /\ slots'[p] = slots[p] \cup {ptr} /\ packed'[p] = packed[p] \cup {ptr}
  BY <1>1, InsertIs
<1>4. Step(p)
  BY <1>1, <1>3 DEF Step, Shape, States, Stays, CacheStays, SessionStays
<1>5. /\ state'[p] = state[p] /\ fd'[p] = FALSE /\ trouble'[p] = TRUE
      /\ indexed'[p] = indexed[p] /\ used'[p] = used[p]
      /\ regions'[p] = regions[p] /\ last_save'[p] = last_save[p]
      /\ finalized'[p] = finalized[p] /\ runtimes'[p] = runtimes[p]
  BY <1>1 DEF Shape
<1> QED
  BY <1>2, <1>3, <1>4, <1>5 DEF k, ptr

\* save_packed_index has nothing to do, fails, or writes the index.
NoIndex(p, m, flushed) ==
    /\ ~(fd[p] /\ regions[p] > last_save[p])
    /\ file' = file /\ durable' = flushed /\ metadata'[p] = m
    /\ used'[p] = used[p] /\ last_save'[p] = last_save[p] /\ trouble'[p] = trouble[p]
IndexFails(p, m, flushed) ==
    /\ fd[p] /\ trouble'[p] = TRUE /\ metadata'[p] = m
    /\ used'[p] = used[p] /\ last_save'[p] = last_save[p]
    /\ \/ file' = file /\ durable' = flushed
       \/ /\ used[p] + 1 <= DiskPages
          /\ file' = [Resized(used[p] + 1) EXCEPT ![used[p] + 1] = Blank]
          /\ durable' = flushed \cap (1 .. used[p])
WithIndex(p, m) == [n \in DOMAIN m |-> IF m[n].ptr \in indexed[p]
                                       THEN [m[n] EXCEPT !.from_load = TRUE] ELSE m[n]]
IndexWritten(p, m, flushed) ==
    /\ fd[p] /\ used[p] + 1 <= DiskPages
    /\ file' = [Resized(used[p] + 1) EXCEPT ![used[p] + 1] = Index(Records(p, m))]
    /\ durable' \in {flushed \cap (1 .. used[p]), 1 .. used[p] + 1}
    /\ metadata'[p] = WithIndex(p, m)
    /\ used'[p] = used[p] + 1 /\ last_save'[p] = regions[p] /\ trouble'[p] = trouble[p]
Saving(p, m, flushed) ==
    NoIndex(p, m, flushed) \/ IndexFails(p, m, flushed) \/ IndexWritten(p, m, flushed)

\* What a call of save_packed_index leaves alone in the other processes.
SaveStays(q) == /\ metadata'[q] = metadata[q] /\ used'[q] = used[q]
                /\ last_save'[q] = last_save[q] /\ trouble'[q] = trouble[q]
SaveShape == /\ DOMAIN metadata' = Processes /\ DOMAIN used' = Processes
             /\ DOMAIN last_save' = Processes /\ DOMAIN trouble' = Processes

LEMMA SaveIs ==
  ASSUME Shape, NEW p \in Processes, CacheTypes(p), NEW m, NEW flushed, Save(p, m, flushed)
  PROVE  Saving(p, m, flushed) /\ SaveShape /\ \A q \in Processes \ {p} : SaveStays(q)
<1> DEFINE k == used[p] + 1
           new == [Resized(k) EXCEPT ![k] = Index(Records(p, m))]
           blank == [Resized(k) EXCEPT ![k] = Blank]
           marked == WithIndex(p, m)
<1>1. /\ regions[p] \in Nat /\ last_save[p] \in Nat /\ used[p] \in Nat /\ k - 1 = used[p]
  BY DiskAssumption DEF CacheTypes
<1>2. \/ /\ ~fd[p] \/ (regions[p] = last_save[p] /\ last_save[p] > 0)
         /\ metadata' = [metadata EXCEPT ![p] = m] /\ durable' = flushed
         /\ file' = file /\ used' = used /\ last_save' = last_save /\ trouble' = trouble
      \/ /\ fd[p] /\ metadata' = [metadata EXCEPT ![p] = m]
         /\ trouble' = [trouble EXCEPT ![p] = TRUE] /\ used' = used /\ last_save' = last_save
         /\ \/ durable' = flushed /\ file' = file
            \/ k <= DiskPages /\ file' = blank /\ durable' = flushed \cap (1 .. k - 1)
      \/ /\ fd[p] /\ k <= DiskPages
         /\ file' = new /\ durable' \in {flushed \cap (1 .. k - 1), 1 .. k}
         /\ metadata' = [metadata EXCEPT ![p] = marked]
         /\ used' = [used EXCEPT ![p] = k] /\ last_save' = [last_save EXCEPT ![p] = regions[p]]
         /\ trouble' = trouble
  BY DEF Save, WithIndex
<1> HIDE DEF k, new, blank, marked
<1>3. SaveShape /\ \A q \in Processes \ {p} : SaveStays(q)
  BY <1>2 DEF Shape, SaveShape, SaveStays
<1>4. \/ /\ ~fd[p] \/ (regions[p] = last_save[p] /\ last_save[p] > 0)
         /\ metadata'[p] = m /\ durable' = flushed
         /\ file' = file /\ used'[p] = used[p] /\ last_save'[p] = last_save[p]
         /\ trouble'[p] = trouble[p]
      \/ /\ fd[p] /\ metadata'[p] = m /\ trouble'[p] = TRUE
         /\ used'[p] = used[p] /\ last_save'[p] = last_save[p]
         /\ \/ durable' = flushed /\ file' = file
            \/ k <= DiskPages /\ file' = blank /\ durable' = flushed \cap (1 .. used[p])
      \/ /\ fd[p] /\ k <= DiskPages
         /\ file' = new /\ durable' \in {flushed \cap (1 .. used[p]), 1 .. k}
         /\ metadata'[p] = marked
         /\ used'[p] = k /\ last_save'[p] = regions[p] /\ trouble'[p] = trouble[p]
  BY <1>1, <1>2 DEF Shape
<1>5. Saving(p, m, flushed)
  BY <1>1, <1>4 DEF Saving, NoIndex, IndexFails, IndexWritten, k, new, blank, marked
<1> QED
  BY <1>3, <1>5

\* The entries when the runtime under construction is counted in.
Current(p) == {n \in DOMAIN metadata[p] : metadata[p][n].current}
CountedIn(p) == [n \in DOMAIN metadata[p] |->
                    IF n \in Current(p)
                    THEN [metadata[p][n] EXCEPT !.refs = @ + 1, !.current = FALSE]
                    ELSE metadata[p][n]]

LEMMA FinishIs ==
  ASSUME Shape, NEW p \in Processes, CacheTypes(p), NEW h \in Handles, Finish(p, h)
  PROVE  /\ Step(p)
         /\ Saving(p, CountedIn(p), Synced(p))
         /\ state[p] = "compiling" /\ state'[p] = "idle" /\ fd'[p] = fd[p]
         /\ runtimes[p][h] = NoRuntime
         /\ runtimes'[p] = [runtimes[p] EXCEPT ![h] =
               [state |-> "ready", uses |-> packed[p], names |-> Current(p)]]
         /\ finalized'[p] = TRUE /\ packed'[p] = {}
         /\ slots'[p] = slots[p] /\ indexed'[p] = indexed[p] /\ regions'[p] = regions[p]
<1> DEFINE r == [runtimes[p] EXCEPT ![h] =
                    [state |-> "ready", uses |-> packed[p], names |-> Current(p)]]
           m == CountedIn(p)
           flushed == Synced(p)
<1>1. /\ state[p] = "compiling" /\ runtimes[p][h] = NoRuntime
      /\ finalized' = [finalized EXCEPT ![p] = TRUE] /\ packed' = [packed EXCEPT ![p] = {}]
      /\ runtimes' = [runtimes EXCEPT ![p] = r] /\ state' = [state EXCEPT ![p] = "idle"]
      /\ fd' = fd /\ slots' = slots /\ indexed' = indexed /\ regions' = regions
  BY DEF Finish, Enter, Shape, Current
<1>2. \/ Save(p, m, flushed)
      \/ /\ ~(regions[p] > last_save[p])
         /\ metadata' = [metadata EXCEPT ![p] = m] /\ durable' = flushed
         /\ file' = file /\ used' = used /\ last_save' = last_save /\ trouble' = trouble
  BY DEF Finish, Saves, CountedIn, Current
<1> HIDE DEF r, m, flushed
<1>3. Saving(p, m, flushed) /\ SaveShape /\ \A q \in Processes \ {p} : SaveStays(q)
  <2>1. CASE Save(p, m, flushed)
    BY <2>1, SaveIs
  <2>2. CASE /\ ~(regions[p] > last_save[p])
             /\ metadata' = [metadata EXCEPT ![p] = m] /\ durable' = flushed
             /\ file' = file /\ used' = used /\ last_save' = last_save /\ trouble' = trouble
    BY <2>2 DEF Shape, SaveShape, SaveStays, Saving, NoIndex
  <2> QED
    BY <1>2, <2>1, <2>2
<1>4. Step(p)
  BY <1>1, <1>3 DEF Step, Shape, States, Stays, CacheStays, SessionStays, SaveShape, SaveStays
<1>5. /\ state'[p] = "idle" /\ fd'[p] = fd[p] /\ runtimes'[p] = r
      /\ finalized'[p] = TRUE /\ packed'[p] = {}
      /\ slots'[p] = slots[p] /\ indexed'[p] = indexed[p] /\ regions'[p] = regions[p]
  BY <1>1 DEF Shape
<1> QED
  BY <1>1, <1>3, <1>4, <1>5 DEF r, m, flushed

LEMMA CompileFailsIs ==
  ASSUME Shape, NEW p \in Processes, CompileFails(p)
  PROVE  /\ Step(p) /\ DiskStays /\ CacheStays(p)
         /\ state[p] = "compiling" /\ state'[p] = "idle" /\ fd'[p] = fd[p]
         /\ packed'[p] = {} /\ finalized'[p] = finalized[p] /\ runtimes'[p] = runtimes[p]
         /\ trouble'[p] = trouble[p]
BY DEF CompileFails, Enter, Shape, States, Step, Stays, DiskStays, CacheStays, SessionStays,
       disk, cache

LEMMA SaveAllIs ==
  ASSUME Shape, NEW p \in Processes, CacheTypes(p), SaveAll(p)
  PROVE  /\ Step(p) /\ Saving(p, metadata[p], durable) /\ SessionStays(p)
         /\ state[p] = "idle" /\ state'[p] = state[p] /\ fd'[p] = fd[p]
         /\ slots'[p] = slots[p] /\ indexed'[p] = indexed[p] /\ regions'[p] = regions[p]
<1>1. /\ Save(p, metadata[p], durable) /\ state[p] = "idle"
      /\ state' = state /\ fd' = fd /\ slots' = slots /\ indexed' = indexed /\ regions' = regions
      /\ finalized' = finalized /\ packed' = packed /\ runtimes' = runtimes
  BY DEF SaveAll, session
<1>2. Saving(p, metadata[p], durable) /\ SaveShape /\ \A q \in Processes \ {p} : SaveStays(q)
  BY <1>1, SaveIs
<1>3. Step(p)
  BY <1>1, <1>2 DEF Step, Shape, States, Stays, CacheStays, SessionStays, SaveShape, SaveStays
<1> QED
  BY <1>1, <1>2, <1>3 DEF SessionStays

\* delete_packed_data of some names: the count of an entry, the entries that go and
\* those that stay.
CountLeft(p, n) == IF metadata[p][n].refs = 0 THEN MaxRefs ELSE metadata[p][n].refs - 1
Gone(p, names) == {n \in names : CountLeft(p, n) = 0 /\ Deletable(metadata[p][n])}
Kept(p, names) == DOMAIN metadata[p] \ Gone(p, names)
CountedDown(p, n) == [metadata[p][n] EXCEPT !.refs = CountLeft(p, n),
                                            !.current = @ /\ CountLeft(p, n) > 0]
Deleting(p, names, complete) ==
    /\ metadata'[p] = [n \in Kept(p, names) |->
                          IF n \notin names THEN metadata[p][n] ELSE CountedDown(p, n)]
    /\ \/ /\ complete /\ Kept(p, names) = {}
          /\ slots'[p] = {} /\ indexed'[p] = {} /\ regions'[p] = 0 /\ fd'[p] = FALSE
       \/ /\ slots'[p] = slots[p] \ {metadata[p][n].ptr : n \in Gone(p, names)}
          /\ indexed'[p] = indexed[p] /\ regions'[p] = regions[p] /\ fd'[p] = fd[p]
DeleteStays(q) == /\ metadata'[q] = metadata[q] /\ slots'[q] = slots[q] /\ indexed'[q] = indexed[q]
                  /\ regions'[q] = regions[q] /\ fd'[q] = fd[q]
DeleteShape == /\ DOMAIN metadata' = Processes /\ DOMAIN slots' = Processes
               /\ DOMAIN indexed' = Processes /\ DOMAIN regions' = Processes /\ DOMAIN fd' = Processes

LEMMA DeleteIs ==
  ASSUME Shape, NEW p \in Processes, NEW names, NEW complete \in BOOLEAN,
         DeleteEntries(p, names, complete)
  PROVE  Deleting(p, names, complete) /\ DeleteShape /\ \A q \in Processes \ {p} : DeleteStays(q)
<1> DEFINE m == [n \in Kept(p, names) |->
                    IF n \notin names THEN metadata[p][n] ELSE CountedDown(p, n)]
           ptrs == slots[p] \ {metadata[p][n].ptr : n \in Gone(p, names)}
           all == complete /\ Kept(p, names) = {}
<1>1. /\ metadata' = [metadata EXCEPT ![p] = m]
      /\ IF all THEN FullUnload(p)
         ELSE slots' = [slots EXCEPT ![p] = ptrs] /\ UNCHANGED <<indexed, regions, fd>>
  BY DEF DeleteEntries, Kept, Gone, CountedDown, CountLeft, Shape
<1>2. \/ /\ all /\ slots' = [slots EXCEPT ![p] = {}] /\ indexed' = [indexed EXCEPT ![p] = {}]
         /\ regions' = [regions EXCEPT ![p] = 0] /\ fd' = [fd EXCEPT ![p] = FALSE]
      \/ /\ slots' = [slots EXCEPT ![p] = ptrs]
         /\ indexed' = indexed /\ regions' = regions /\ fd' = fd
  BY <1>1 DEF FullUnload
<1> HIDE DEF m, ptrs, all
<1>3. DeleteShape /\ \A q \in Processes \ {p} : DeleteStays(q)
  BY <1>1, <1>2 DEF Shape, DeleteShape, DeleteStays
<1>4. /\ metadata'[p] = m
      /\ \/ /\ all /\ slots'[p] = {} /\ indexed'[p] = {} /\ regions'[p] = 0 /\ fd'[p] = FALSE
         \/ /\ slots'[p] = ptrs
            /\ indexed'[p] = indexed[p] /\ regions'[p] = regions[p] /\ fd'[p] = fd[p]
  BY <1>1, <1>2 DEF Shape
<1> QED
  BY <1>3, <1>4 DEF Deleting, m, ptrs, all

LEMMA DestroyIs ==
  ASSUME Shape, NEW p \in Processes, NEW h \in Handles, Destroy(p, h)
  PROVE  LET names == runtimes[p][h].names
             known == names \cap DOMAIN metadata[p] IN
         /\ Step(p) /\ DiskStays
         /\ state[p] = "idle" /\ state'[p] = state[p] /\ runtimes[p][h].state = "ready"
         /\ runtimes'[p] = [runtimes[p] EXCEPT ![h] = NoRuntime]
         /\ last_save'[p] = last_save[p] /\ used'[p] = used[p] /\ trouble'[p] = trouble[p]
         /\ finalized'[p] = finalized[p] /\ packed'[p] = packed[p]
         /\ \/ (names = {} \/ ~finalized[p]) /\ CacheStays(p) /\ fd'[p] = fd[p]
            \/ /\ finalized[p] /\ names # {}
               /\ \E some \in SUBSET known, complete \in BOOLEAN :
                     /\ complete => some = names
                     /\ known = names => complete
                     /\ Deleting(p, some, complete)
<1> DEFINE names == runtimes[p][h].names
           known == names \cap DOMAIN metadata[p]
           r == [runtimes[p] EXCEPT ![h] = NoRuntime]
<1>1. /\ state[p] = "idle" /\ runtimes[p][h].state = "ready"
      /\ runtimes' = [runtimes EXCEPT ![p] = r]
      /\ DiskStays /\ state' = state /\ last_save' = last_save /\ used' = used
      /\ finalized' = finalized /\ packed' = packed /\ trouble' = trouble
  BY DEF Destroy, Shape, DiskStays, disk
<1>2. \/ /\ names = {} \/ ~finalized[p]
         /\ metadata' = metadata /\ slots' = slots /\ indexed' = indexed
         /\ regions' = regions /\ fd' = fd
      \/ /\ names # {} /\ finalized[p]
         /\ \/ known = names /\ DeleteEntries(p, names, TRUE)
            \/ known # names /\ \E some \in SUBSET known : DeleteEntries(p, some, FALSE)
  BY DEF Destroy
<1> HIDE DEF names, known, r
<1>3. /\ DeleteShape /\ \A q \in Processes \ {p} : DeleteStays(q)
      /\ \/ (names = {} \/ ~finalized[p]) /\ DeleteStays(p)
         \/ /\ finalized[p] /\ names # {}
            /\ \E some \in SUBSET known, complete \in BOOLEAN :
                  /\ complete => some = names
                  /\ known = names => complete
                  /\ Deleting(p, some, complete)
  <2>1. CASE /\ names = {} \/ ~finalized[p]
             /\ metadata' = metadata /\ slots' = slots /\ indexed' = indexed
             /\ regions' = regions /\ fd' = fd
    BY <2>1 DEF DeleteShape, DeleteStays, Shape
  <2>2. CASE names # {} /\ finalized[p] /\ known = names /\ DeleteEntries(p, names, TRUE)
    <3>1. Deleting(p, names, TRUE) /\ DeleteShape /\ \A q \in Processes \ {p} : DeleteStays(q)
      BY <2>2, DeleteIs
    <3> QED
      BY <2>2, <3>1
  <2>3. ASSUME names # {}, finalized[p], known # names, NEW some \in SUBSET known,
               DeleteEntries(p, some, FALSE)
        PROVE  /\ Deleting(p, some, FALSE) /\ DeleteShape
               /\ \A q \in Processes \ {p} : DeleteStays(q)
    BY <2>3, DeleteIs
  <2>4. CASE /\ names # {} /\ finalized[p] /\ known # names
             /\ \E some \in SUBSET known : DeleteEntries(p, some, FALSE)
    BY <2>3, <2>4
  <2> QED
    BY <1>2, <2>1, <2>2, <2>4
<1>4. Step(p)
  BY <1>1, <1>3 DEF Step, Shape, States, Stays, CacheStays, SessionStays, DeleteShape, DeleteStays
<1>5. /\ state'[p] = state[p] /\ runtimes'[p] = r /\ last_save'[p] = last_save[p]
      /\ used'[p] = used[p] /\ trouble'[p] = trouble[p]
      /\ finalized'[p] = finalized[p] /\ packed'[p] = packed[p]
  BY <1>1 DEF Shape
<1>6. DeleteStays(p) => CacheStays(p) /\ fd'[p] = fd[p]
  BY <1>5 DEF DeleteStays, CacheStays
<1> QED
  BY <1>1, <1>3, <1>4, <1>5, <1>6 DEF names, known, r

-----------------------------------------------------------------------------
(* Files *)

LEMMA ResizedIs ==
  ASSUME NEW k \in Nat
  PROVE  /\ DOMAIN Resized(k) = 1 .. k /\ Len(Resized(k)) = k
         /\ Resized(k) = [i \in 1 .. k |-> Resized(k)[i]]
         /\ \A i \in 1 .. k : Resized(k)[i] = IF i <= Len(file) THEN file[i] ELSE Blank
<1> DEFINE g == [i \in 1 .. k |-> IF i <= Len(file) THEN file[i] ELSE Blank]
<1>1. /\ DOMAIN g = 1 .. k /\ g = [i \in 1 .. k |-> g[i]]
      /\ \A i \in 1 .. k : g[i] = IF i <= Len(file) THEN file[i] ELSE Blank
  OBVIOUS
<1>2. Len(g) = k
  OBVIOUS
<1> HIDE DEF g
<1>3. Resized(k) = g
  BY DEF Resized, g
<1> QED
  BY <1>1, <1>2, <1>3

LEMMA WrittenIs ==
  ASSUME NEW u \in Nat, NEW x
  PROVE  LET f == [Resized(u + 1) EXCEPT ![u + 1] = x] IN
         /\ DOMAIN f = 1 .. u + 1 /\ Len(f) = u + 1 /\ f[u + 1] = x
         /\ f = [i \in 1 .. u + 1 |-> f[i]]
         /\ \A i \in 1 .. u : f[i] = IF i <= Len(file) THEN file[i] ELSE Blank
<1> DEFINE k == u + 1
           f == [Resized(k) EXCEPT ![k] = x]
           g == [i \in 1 .. k |-> f[i]]
<1>1. k \in Nat /\ k \in 1 .. k /\ \A i \in 1 .. u : i \in 1 .. k /\ i # k
  OBVIOUS
<1> HIDE DEF k
<1>2. /\ DOMAIN Resized(k) = 1 .. k
      /\ \A i \in 1 .. k : Resized(k)[i] = IF i <= Len(file) THEN file[i] ELSE Blank
  BY <1>1, ResizedIs
<1>3. /\ f = g /\ DOMAIN f = 1 .. k /\ f[k] = x
      /\ \A i \in 1 .. u : f[i] = IF i <= Len(file) THEN file[i] ELSE Blank
  BY <1>1, <1>2
<1>4. Len(g) = k
  BY <1>1
<1>5. f = [i \in 1 .. k |-> f[i]]
  BY <1>3
<1> HIDE DEF f, g
<1>6. Len(f) = k
  BY <1>3, <1>4
<1> QED
  BY <1>3, <1>5, <1>6 DEF f, k

\* Pages move to the new file with their numbers.
LEMMA ResizedOK ==
  ASSUME FileOK(file), NEW k \in 0 .. DiskPages
  PROVE  FileOK(Resized(k))
<1>1. k \in Nat
  BY DiskAssumption
<1>2. /\ DOMAIN Resized(k) = 1 .. k /\ Len(Resized(k)) = k
      /\ Resized(k) = [i \in 1 .. k |-> Resized(k)[i]]
      /\ \A i \in 1 .. k : Resized(k)[i] = IF i <= Len(file) THEN file[i] ELSE Blank
  BY <1>1, ResizedIs
<1>3. ASSUME NEW i \in 1 .. k PROVE PageOK(Resized(k)[i], i)
  <2>1. CASE i <= Len(file)
    <3>1. i \in 1 .. Len(file) /\ Resized(k)[i] = file[i]
      BY <1>2, <2>1 DEF FileOK
    <3> QED
      BY <3>1 DEF FileOK
  <2>2. CASE ~(i <= Len(file))
    BY <1>2, <2>2 DEF PageOK
  <2> QED
    BY <2>1, <2>2
<1> HIDE DEF Resized
<1>4. Len(Resized(k)) \in 0 .. DiskPages
      /\ Resized(k) = [i \in 1 .. Len(Resized(k)) |-> Resized(k)[i]]
  BY <1>2
<1> QED
  BY <1>2, <1>3, <1>4 DEF FileOK

LEMMA WrittenOK ==
  ASSUME FileOK(file), NEW u \in Nat, u + 1 <= DiskPages, NEW x, PageOK(x, u + 1)
  PROVE  FileOK([Resized(u + 1) EXCEPT ![u + 1] = x])
<1> DEFINE f == [Resized(u + 1) EXCEPT ![u + 1] = x]
<1>1. /\ Len(f) = u + 1 /\ f[u + 1] = x
      /\ \A i \in 1 .. u : f[i] = IF i <= Len(file) THEN file[i] ELSE Blank
  BY WrittenIs
<1>6. f = [i \in 1 .. u + 1 |-> f[i]]
  BY WrittenIs
<1> HIDE DEF f
<1>2. ASSUME NEW i \in 1 .. u + 1 PROVE PageOK(f[i], i)
  <2>1. CASE i = u + 1
    BY <1>1, <2>1
  <2>2. CASE i # u + 1 /\ i <= Len(file)
    <3>1. i \in 1 .. Len(file) /\ f[i] = file[i]
      BY <1>1, <2>2 DEF FileOK
    <3> QED
      BY <3>1 DEF FileOK
  <2>3. CASE i # u + 1 /\ ~(i <= Len(file))
    <3>1. i \in 1 .. u /\ f[i] = Blank
      BY <1>1, <2>3
    <3> QED
      BY <3>1 DEF PageOK
  <2> QED
    BY <2>1, <2>2, <2>3
<1>3. Len(f) \in 0 .. DiskPages /\ f = [i \in 1 .. Len(f) |-> f[i]]
  BY <1>1, <1>6, DiskAssumption
<1>4. FileOK(f)
  BY <1>1, <1>2, <1>3 DEF FileOK
<1> QED
  BY <1>4 DEF f

\* The index of a file that can be loaded.
LEMMA FooterIs ==
  ASSUME FileOK(file), Loadable(file)
  PROVE  /\ Len(file) \in 1 .. DiskPages /\ Footer(file) # {} /\ IndexOK(Footer(file), Len(file))
         /\ file[Len(file)].tag = "index" /\ Footer(file) = file[Len(file)].records
<1> DEFINE nil == <<>>
           k == Len(file)
<1>1. /\ file # nil /\ file[k].tag = "index" /\ file[k].records # {}
      /\ k \in 0 .. DiskPages /\ DOMAIN file = 1 .. k
  BY DEF FileOK, Loadable
<1>2. file[k] # Blank /\ \A w \in Weights : file[k] # Data(w)
  BY <1>1 DEF Blank, Data
<1>3. k # 0
  <2>1. CASE k = 0
    <3>1. PageOK(file[k], k) \/ k \notin 1 .. k
      BY DEF FileOK
    <3> QED
      BY <1>1, <2>1, <3>1
  <2> QED
    BY <2>1
<1>4. k \in 1 .. k
  BY <1>1, <1>3, DiskAssumption
<1>5. PageOK(file[k], k)
  BY <1>4 DEF FileOK
<1>6. IndexOK(file[k].records, k)
  BY <1>2, <1>5 DEF PageOK
<1> QED
  BY <1>1, <1>3, <1>6, DiskAssumption DEF Footer

-----------------------------------------------------------------------------
(* Entries *)

\* What changes in an entry and what does not.
LEMMA EntryUpdates ==
  ASSUME NEW e \in EntryType, NEW c \in Nat, NEW b \in BOOLEAN
  PROVE  /\ [e EXCEPT !.refs = c, !.current = b]
              = [seed |-> e.seed, refs |-> c, current |-> b, from_load |-> e.from_load, ptr |-> e.ptr]
         /\ [e EXCEPT !.current = b]
              = [seed |-> e.seed, refs |-> e.refs, current |-> b, from_load |-> e.from_load, ptr |-> e.ptr]
         /\ [e EXCEPT !.from_load = b]
              = [seed |-> e.seed, refs |-> e.refs, current |-> e.current, from_load |-> b, ptr |-> e.ptr]
<1> DEFINE s == e.seed
           r == e.refs
           v == e.current
           l == e.from_load
           t == e.ptr
           w == [e EXCEPT !.refs = c]
<1>1. e = [seed |-> s, refs |-> r, current |-> v, from_load |-> l, ptr |-> t]
  BY DEF EntryType
<1> HIDE DEF s, r, v, l, t
<1>2. w = [seed |-> s, refs |-> c, current |-> v, from_load |-> l, ptr |-> t]
  BY <1>1, Z3
<1>3. [e EXCEPT !.current = b] = [seed |-> s, refs |-> r, current |-> b, from_load |-> l, ptr |-> t]
  BY <1>1, Z3
<1>4. [e EXCEPT !.from_load = b] = [seed |-> s, refs |-> r, current |-> v, from_load |-> b, ptr |-> t]
  BY <1>1, Z3
<1> HIDE DEF w
<1>5. [w EXCEPT !.current = b] = [seed |-> s, refs |-> c, current |-> b, from_load |-> l, ptr |-> t]
  BY <1>2, Z3
<1>6. [e EXCEPT !.refs = c, !.current = b] = [w EXCEPT !.current = b]
  BY DEF w
<1> QED
  BY <1>3, <1>4, <1>5, <1>6 DEF s, r, v, l, t

\* An entry of the same weight, with the same pointer.
Alike(d, e) == d \in EntryType /\ d.seed = e.seed /\ d.ptr = e.ptr

LEMMA UpdatesAlike ==
  ASSUME NEW e \in EntryType, NEW c \in Nat, NEW b \in BOOLEAN
  PROVE  /\ Alike([e EXCEPT !.refs = c, !.current = b], e)
         /\ Alike([e EXCEPT !.current = b], e)
         /\ Alike([e EXCEPT !.from_load = b], e)
         /\ Alike(e, e)
<1> DEFINE x == [seed |-> e.seed, refs |-> c, current |-> b, from_load |-> e.from_load, ptr |-> e.ptr]
           y == [seed |-> e.seed, refs |-> e.refs, current |-> b, from_load |-> e.from_load, ptr |-> e.ptr]
           z == [seed |-> e.seed, refs |-> e.refs, current |-> e.current, from_load |-> b, ptr |-> e.ptr]
<1>1. /\ e.seed \in Nat /\ e.refs \in Nat /\ e.current \in BOOLEAN /\ e.from_load \in BOOLEAN
      /\ e.ptr \in Pointer
  BY DEF EntryType
<1>2. Alike(x, e) /\ Alike(y, e) /\ Alike(z, e)
  BY <1>1 DEF Alike, EntryType
<1>3. Alike(e, e)
  BY DEF Alike
<1> QED
  BY <1>2, <1>3, EntryUpdates

\* Entries that stay, or change in nothing but counts and marks, still fit.
LEMMA FitAlike ==
  ASSUME NEW m, NEW ptrs, NEW offsets, NEW pages \in Nat, EntriesFit(m, ptrs, offsets, pages),
         NEW g, g = [n \in DOMAIN g |-> g[n]], DOMAIN g \subseteq DOMAIN m,
         \A n \in DOMAIN g : Alike(g[n], m[n]),
         NEW ptrs2, \A n \in DOMAIN g : m[n].ptr \in ptrs2,
         NEW offsets2, DOMAIN g = {} \/ offsets \subseteq offsets2,
         NEW pages2 \in Nat, pages <= pages2
  PROVE  EntriesFit(g, ptrs2, offsets2, pages2)
<1>1. DOMAIN g \subseteq STRING /\ g \in [DOMAIN g -> EntryType]
  BY DEF EntriesFit, Alike
<1>2. ASSUME NEW n \in DOMAIN g
      PROVE  /\ g[n].ptr.weight = [name |-> n, seed |-> g[n].seed]
             /\ g[n].ptr \in ptrs2
             /\ g[n].ptr.kind # "heap" => g[n].ptr \in offsets2 /\ g[n].ptr.page \in 1 .. pages2
  <2>1. /\ m[n].ptr.weight = [name |-> n, seed |-> m[n].seed]
        /\ m[n].ptr.kind # "heap" => m[n].ptr \in offsets /\ m[n].ptr.page \in 1 .. pages
    BY DEF EntriesFit
  <2>2. g[n].seed = m[n].seed /\ g[n].ptr = m[n].ptr
    BY DEF Alike
  <2> QED
    BY <2>1, <2>2
<1> QED
  BY <1>1, <1>2 DEF EntriesFit

LEMMA FitStays ==
  ASSUME NEW m, NEW ptrs, NEW offsets, NEW pages \in Nat, EntriesFit(m, ptrs, offsets, pages),
         NEW ptrs2, ptrs \subseteq ptrs2, NEW offsets2, offsets \subseteq offsets2,
         NEW pages2 \in Nat, pages <= pages2
  PROVE  EntriesFit(m, ptrs2, offsets2, pages2)
BY DEF EntriesFit

LEMMA FitEmpty ==
  ASSUME NEW m, NEW ptrs, NEW offsets, NEW pages \in Nat, EntriesFit(m, ptrs, offsets, pages),
         DOMAIN m = {}, NEW ptrs2, NEW offsets2, NEW pages2 \in Nat
  PROVE  EntriesFit(m, ptrs2, offsets2, pages2)
BY DEF EntriesFit

LEMMA PointersAre ==
  ASSUME NEW w \in Weights, NEW k \in Nat
  PROVE  /\ Heap(w) \in Pointer /\ Region(k, w) \in Pointer /\ Mapped(k, w) \in Pointer
         /\ w.name \in STRING /\ w.seed \in Nat /\ w = [name |-> w.name, seed |-> w.seed]
BY WeightsAssumption DEF Heap, Region, Mapped, Pointer

LEMMA EntryIs ==
  ASSUME NEW w \in Weights, NEW ptr \in Pointer
  PROVE  /\ Entry(w, ptr) \in EntryType /\ Entry(w, ptr).seed = w.seed /\ Entry(w, ptr).ptr = ptr
         /\ Entry(w, ptr).refs = 0 /\ Entry(w, ptr).current = TRUE /\ Entry(w, ptr).from_load = FALSE
<1>1. w.seed \in Nat
  BY WeightsAssumption
<1> QED
  BY <1>1 DEF Entry, EntryType

LEMMA FitWith ==
  ASSUME NEW m, NEW ptrs, NEW offsets, NEW pages \in Nat, EntriesFit(m, ptrs, offsets, pages),
         NEW w \in Weights, NEW ptr \in Pointer, ptr.weight = w,
         NEW offsets2, offsets \subseteq offsets2, NEW pages2 \in Nat, pages <= pages2,
         ptr.kind # "heap" => ptr \in offsets2 /\ ptr.page \in 1 .. pages2
  PROVE  /\ EntriesFit(WithEntry(m, w, ptr), ptrs \cup {ptr}, offsets2, pages2)
         /\ DOMAIN WithEntry(m, w, ptr) = DOMAIN m \cup {w.name}
         /\ WithEntry(m, w, ptr)[w.name] = Entry(w, ptr)
         /\ \A n \in DOMAIN m \ {w.name} : WithEntry(m, w, ptr)[n] = m[n]
<1> DEFINE g == WithEntry(m, w, ptr)
<1>1. /\ Entry(w, ptr) \in EntryType /\ Entry(w, ptr).seed = w.seed /\ Entry(w, ptr).ptr = ptr
      /\ w.name \in STRING /\ w = [name |-> w.name, seed |-> w.seed]
  BY EntryIs, PointersAre
<1>2. /\ DOMAIN g = DOMAIN m \cup {w.name} /\ g[w.name] = Entry(w, ptr)
      /\ \A n \in DOMAIN m \ {w.name} : g[n] = m[n]
  BY DEF WithEntry
<1>3. g \in [DOMAIN g -> EntryType] /\ DOMAIN g \subseteq STRING
  BY <1>1 DEF WithEntry, EntriesFit
<1> HIDE DEF g
<1>4. ASSUME NEW n \in DOMAIN g
      PROVE  /\ g[n].ptr.weight = [name |-> n, seed |-> g[n].seed]
             /\ g[n].ptr \in ptrs \cup {ptr}
             /\ g[n].ptr.kind # "heap" => g[n].ptr \in offsets2 /\ g[n].ptr.page \in 1 .. pages2
  <2>1. CASE n = w.name
    BY <1>1, <1>2, <2>1
  <2>2. CASE n # w.name
    <3>1. n \in DOMAIN m /\ g[n] = m[n]
      BY <1>2, <2>2
    <3> QED
      BY <3>1 DEF EntriesFit
  <2> QED
    BY <2>1, <2>2
<1>5. EntriesFit(g, ptrs \cup {ptr}, offsets2, pages2)
  BY <1>3, <1>4 DEF EntriesFit
<1> QED
  BY <1>2, <1>5 DEF g

\* The entries of a file that is loaded.
LEMMA LoadedAre ==
  ASSUME FileOK(file), Loadable(file)
  PROVE  LET entries == {Loaded(r) : r \in Footer(file)}
             m == [n \in {e.ptr.weight.name : e \in entries} |->
                      CHOOSE e \in entries : e.ptr.weight.name = n] IN
         /\ \A e \in entries : \E r \in Footer(file) :
              /\ e.ptr = Mapped(r.page, WeightOf(r)) /\ e.seed = r.seed /\ e \in EntryType
              /\ e.from_load = TRUE /\ e.current = FALSE /\ e.refs = 0
              /\ WeightOf(r) \in Weights /\ r.page \in 1 .. Len(file)
         /\ \A e \in entries : e.ptr.weight.name \in DOMAIN m /\ m[e.ptr.weight.name] = e
         /\ \A n \in DOMAIN m : n \in STRING /\ m[n] \in entries /\ m[n].ptr.weight.name = n
         /\ m \in [DOMAIN m -> EntryType] /\ DOMAIN m # {}
<1> DEFINE entries == {Loaded(r) : r \in Footer(file)}
           m == [n \in {e.ptr.weight.name : e \in entries} |->
                    CHOOSE e \in entries : e.ptr.weight.name = n]
<1>1. Footer(file) # {} /\ IndexOK(Footer(file), Len(file)) /\ Len(file) \in Nat
  BY FooterIs, DiskAssumption
<1>2. ASSUME NEW r \in Footer(file)
      PROVE  LET e == Loaded(r) IN
             /\ e.ptr = Mapped(r.page, WeightOf(r)) /\ e.seed = r.seed /\ e \in EntryType
             /\ e.from_load = TRUE /\ e.current = FALSE /\ e.refs = 0
             /\ WeightOf(r) \in Weights /\ r.page \in 1 .. Len(file)
             /\ e.ptr.weight = WeightOf(r) /\ e.ptr.weight.name = r.name /\ r.name \in STRING
  <2>1. WeightOf(r) \in Weights /\ r.page \in 1 .. Len(file) - 1
    BY <1>1 DEF IndexOK
  <2>2. r.name \in STRING /\ r.seed \in Nat
    BY <2>1, WeightsAssumption DEF WeightOf
  <2>3. Mapped(r.page, WeightOf(r)) \in Pointer
    BY <1>1, <2>1, PointersAre
  <2>4. Loaded(r) = [seed |-> r.seed, refs |-> 0, current |-> FALSE, from_load |-> TRUE,
                     ptr |-> Mapped(r.page, WeightOf(r))]
    BY DEF Loaded, WeightOf
  <2>5. Mapped(r.page, WeightOf(r)).weight = WeightOf(r) /\ WeightOf(r).name = r.name
    BY DEF Mapped, WeightOf
  <2>6. Loaded(r) \in EntryType
    BY <2>2, <2>3, <2>4 DEF EntryType
  <2> QED
    BY <1>1, <2>1, <2>2, <2>4, <2>5, <2>6
<1>3. ASSUME NEW d \in entries, NEW e \in entries, d.ptr.weight.name = e.ptr.weight.name
      PROVE  d = e
  <2>1. PICK r, s \in Footer(file) : d = Loaded(r) /\ e = Loaded(s)
    OBVIOUS
  <2>2. r.name = s.name
    BY <1>2, <1>3, <2>1
  <2>3. r = s
    BY <1>1, <2>2 DEF IndexOK
  <2> QED
    BY <2>1, <2>3
<1>4. ASSUME NEW n \in DOMAIN m
      PROVE  m[n] \in entries /\ m[n].ptr.weight.name = n
  <2>1. \E e \in entries : e.ptr.weight.name = n
    OBVIOUS
  <2> HIDE DEF entries
  <2> QED
    BY <2>1
<1>5. ASSUME NEW e \in entries PROVE e.ptr.weight.name \in DOMAIN m /\ m[e.ptr.weight.name] = e
  <2>1. e.ptr.weight.name \in DOMAIN m
    OBVIOUS
  <2>2. m[e.ptr.weight.name] \in entries /\ m[e.ptr.weight.name].ptr.weight.name = e.ptr.weight.name
    BY <1>4, <2>1
  <2> HIDE DEF m, entries
  <2> QED
    BY <1>3, <2>1, <2>2
<1>6. \A e \in entries : e \in EntryType /\ e.ptr.weight.name \in STRING
  <2> TAKE e \in entries
  <2>1. PICK r \in Footer(file) : e = Loaded(r)
    OBVIOUS
  <2> QED
    BY <1>2, <2>1
<1>7. DOMAIN m = {e.ptr.weight.name : e \in entries} /\ entries # {}
  BY <1>1
<1>8. m \in [DOMAIN m -> EntryType]
  <2>1. m = [n \in DOMAIN m |-> m[n]]
    OBVIOUS
  <2> HIDE DEF m, entries
  <2> QED
    BY <1>4, <1>6, <2>1
<1>9. \A n \in DOMAIN m : n \in STRING
  <2> HIDE DEF m, entries
  <2> QED
    BY <1>4, <1>6
<1>10. DOMAIN m # {}
  BY <1>7
<1>11. \A e \in entries : \E r \in Footer(file) :
              /\ e.ptr = Mapped(r.page, WeightOf(r)) /\ e.seed = r.seed /\ e \in EntryType
              /\ e.from_load = TRUE /\ e.current = FALSE /\ e.refs = 0
              /\ WeightOf(r) \in Weights /\ r.page \in 1 .. Len(file)
  <2> TAKE e \in entries
  <2>1. PICK r \in Footer(file) : e = Loaded(r)
    OBVIOUS
  <2> WITNESS r \in Footer(file)
  <2> QED
    BY <1>2, <2>1
<1> HIDE DEF m, entries
<1> QED
  BY <1>4, <1>5, <1>8, <1>9, <1>10, <1>11 DEF m, entries

-----------------------------------------------------------------------------
(* Types, step by step.  First a process that another one leaves alone. *)

LEMMA NoRuntimeType == NoRuntime \in RuntimeType
BY DEF NoRuntime, RuntimeType

LEMMA OthersOK ==
  ASSUME Types, NEW p \in Processes, Step(p), FileOK(file'), ProcessOK(p)'
  PROVE  Types'
<1>1. ASSUME NEW q \in Processes \ {p} PROVE ProcessOK(q)'
  BY DEF Types, Step, Stays, CacheStays, SessionStays, ProcessOK, SessionTypes, CacheTypes, StageOK
<1> QED
  BY <1>1 DEF Types, Step

LEMMA StageIn ==
  ASSUME Types, NEW p \in Processes
  PROVE  /\ ProcessOK(p) /\ SessionTypes(p) /\ CacheTypes(p) /\ StageOK(p)
         /\ Shape /\ FileOK(file) /\ used[p] \in Nat /\ fd[p] \in BOOLEAN
         /\ EntriesFit(metadata[p], slots[p], indexed[p], used[p])
BY DiskAssumption DEF Types, ProcessOK, CacheTypes, SessionTypes

LEMMA StartOK ==
  ASSUME Types, NEW p \in Processes, Start(p)
  PROVE  Types'
<1>1. /\ Step(p) /\ DiskStays /\ CacheStays(p) /\ SessionStays(p)
      /\ state[p] = "down" /\ state'[p] = "idle" /\ fd'[p] = fd[p] /\ trouble'[p] = trouble[p]
  BY StageIn, StartIs
<1>2. ProcessOK(p)'
  BY <1>1, StageIn DEF CacheStays, SessionStays, ProcessOK, SessionTypes, CacheTypes, StageOK
<1> QED
  BY <1>1, <1>2, StageIn, OthersOK DEF DiskStays

LEMMA CrashOK ==
  ASSUME Types, NEW p \in Processes, Crash(p)
  PROVE  Types'
<1> DEFINE nil == <<>>
<1>1. /\ Step(p) /\ DiskStays
      /\ state'[p] = "down" /\ fd'[p] = FALSE /\ used'[p] = 0
      /\ metadata'[p] = nil /\ slots'[p] = {} /\ indexed'[p] = {}
      /\ regions'[p] = 0 /\ last_save'[p] = 0 /\ finalized'[p] = FALSE /\ packed'[p] = {}
      /\ runtimes'[p] = [h \in Handles |-> NoRuntime] /\ trouble'[p] = FALSE
  BY StageIn, CrashIs
<1>2. DOMAIN nil = {} /\ nil = [n \in {} |-> 0]
  OBVIOUS
<1> HIDE DEF nil
<1>3. EntriesFit(nil, {}, {}, 0)
  BY <1>2 DEF EntriesFit
<1>4. ProcessOK(p)'
  <2>1. SessionTypes(p)'
    BY <1>1, NoRuntimeType DEF SessionTypes
  <2>2. CacheTypes(p)'
    BY <1>1, <1>3, DiskAssumption DEF CacheTypes
  <2>3. StageOK(p)'
    BY <1>1, <1>2 DEF StageOK
  <2> QED
    BY <2>1, <2>2, <2>3 DEF ProcessOK
<1> QED
  BY <1>1, <1>4, StageIn, OthersOK DEF DiskStays

LEMMA BeginOK ==
  ASSUME Types, NEW p \in Processes, Begin(p)
  PROVE  Types'
<1>1. /\ Step(p) /\ DiskStays /\ CacheStays(p)
      /\ state[p] = "idle"
      /\ finalized'[p] = FALSE /\ packed'[p] = {} /\ runtimes'[p] = runtimes[p]
      /\ trouble'[p] = trouble[p]
      /\ state'[p] \in {"compiling", "loading"}
      /\ state'[p] = "loading" => DOMAIN metadata[p] = {}
      /\ fd'[p] \in BOOLEAN
  BY StageIn, BeginIs
<1>2. ProcessOK(p)'
  BY <1>1, StageIn DEF CacheStays, ProcessOK, SessionTypes, CacheTypes, StageOK
<1> QED
  BY <1>1, <1>2, StageIn, OthersOK DEF DiskStays

LEMMA LoadFailsOK ==
  ASSUME Types, NEW p \in Processes, LoadFails(p)
  PROVE  Types'
<1>1. /\ Step(p) /\ DiskStays /\ CacheStays(p) /\ SessionStays(p)
      /\ state[p] = "loading" /\ state'[p] = "fresh" /\ fd'[p] = fd[p] /\ trouble'[p] = trouble[p]
  BY StageIn, LoadFailsIs
<1>2. ProcessOK(p)'
  BY <1>1, StageIn DEF CacheStays, SessionStays, ProcessOK, SessionTypes, CacheTypes, StageOK
<1> QED
  BY <1>1, <1>2, StageIn, OthersOK DEF DiskStays

LEMMA ReopenOK ==
  ASSUME Types, NEW p \in Processes, Reopen(p)
  PROVE  Types'
<1>1. /\ Step(p) /\ DiskStays /\ CacheStays(p) /\ SessionStays(p)
      /\ state[p] = "loaded" /\ state'[p] = "compiling"
      /\ fd'[p] \in BOOLEAN /\ trouble'[p] = trouble[p]
  BY StageIn, ReopenIs
<1>2. ProcessOK(p)'
  BY <1>1, StageIn DEF CacheStays, SessionStays, ProcessOK, SessionTypes, CacheTypes, StageOK
<1> QED
  BY <1>1, <1>2, StageIn, OthersOK DEF DiskStays

LEMMA CompileFailsOK ==
  ASSUME Types, NEW p \in Processes, CompileFails(p)
  PROVE  Types'
<1>1. /\ Step(p) /\ DiskStays /\ CacheStays(p)
      /\ state[p] = "compiling" /\ state'[p] = "idle" /\ fd'[p] = fd[p]
      /\ packed'[p] = {} /\ finalized'[p] = finalized[p] /\ runtimes'[p] = runtimes[p]
      /\ trouble'[p] = trouble[p]
  BY StageIn, CompileFailsIs
<1>2. ProcessOK(p)'
  BY <1>1, StageIn DEF CacheStays, ProcessOK, SessionTypes, CacheTypes, StageOK
<1> QED
  BY <1>1, <1>2, StageIn, OthersOK DEF DiskStays

LEMMA LoadOK ==
  ASSUME Types, NEW p \in Processes, Load(p)
  PROVE  Types'
<1> DEFINE entries == {Loaded(r) : r \in Footer(file)}
           m == [n \in {e.ptr.weight.name : e \in entries} |->
                    CHOOSE e \in entries : e.ptr.weight.name = n]
           ptrs == {e.ptr : e \in entries}
<1>1. /\ Step(p) /\ DiskStays /\ SessionStays(p)
      /\ Loadable(file) /\ state[p] = "loading" /\ state'[p] = "loaded"
      /\ fd'[p] = fd[p] /\ trouble'[p] = trouble[p]
      /\ metadata'[p] = m
      /\ slots'[p] = slots[p] \cup ptrs /\ indexed'[p] = indexed[p] \cup ptrs
      /\ used'[p] = Len(file)
      /\ regions'[p] = regions[p] + 1 /\ last_save'[p] = regions[p] + 1
  BY StageIn, LoadIs
<1>2. FileOK(file) /\ Loadable(file)
  BY <1>1, StageIn
<1>3. /\ \A e \in entries : \E r \in Footer(file) :
              /\ e.ptr = Mapped(r.page, WeightOf(r)) /\ e.seed = r.seed /\ e \in EntryType
              /\ e.from_load = TRUE /\ e.current = FALSE /\ e.refs = 0
              /\ WeightOf(r) \in Weights /\ r.page \in 1 .. Len(file)
      /\ \A n \in DOMAIN m : n \in STRING /\ m[n] \in entries /\ m[n].ptr.weight.name = n
      /\ m \in [DOMAIN m -> EntryType] /\ DOMAIN m # {}
  BY <1>2, LoadedAre
<1>4. Len(file) \in 0 .. DiskPages /\ Len(file) \in Nat
  BY <1>2, DiskAssumption DEF FileOK
<1>5. ptrs = {e.ptr : e \in entries}
  OBVIOUS
<1> HIDE DEF entries, m, ptrs
<1>6. ASSUME NEW e \in entries
      PROVE  /\ e \in EntryType /\ e.ptr \in Pointer /\ e.ptr.kind = "map" /\ e.ptr.page \in 1 .. Len(file)
             /\ e.ptr.weight = [name |-> e.ptr.weight.name, seed |-> e.seed]
  <2>1. PICK r \in Footer(file) :
              /\ e.ptr = Mapped(r.page, WeightOf(r)) /\ e.seed = r.seed /\ e \in EntryType
              /\ r.page \in 1 .. Len(file)
    BY <1>3
  <2>2. e.ptr.kind = "map" /\ e.ptr.page = r.page /\ e.ptr.weight = WeightOf(r)
    BY <2>1 DEF Mapped
  <2>3. WeightOf(r) = [name |-> WeightOf(r).name, seed |-> r.seed]
    BY DEF WeightOf
  <2>4. e.ptr \in Pointer
    BY <2>1 DEF EntryType
  <2> QED
    BY <2>1, <2>2, <2>3, <2>4
<1>7. EntriesFit(m, ptrs, ptrs, Len(file))
  <2>1. \A n \in DOMAIN m : m[n].ptr \in ptrs
    BY <1>3, <1>5
  <2>2. \A n \in DOMAIN m : m[n].ptr.weight = [name |-> n, seed |-> m[n].seed]
    BY <1>3, <1>6
  <2> QED
    BY <1>3, <1>6, <2>1, <2>2 DEF EntriesFit
<1>8. EntriesFit(m, slots[p] \cup ptrs, indexed[p] \cup ptrs, Len(file))
  BY <1>4, <1>7, FitStays
<1>9. \A ptr \in ptrs : ptr \in Pointer /\ ptr.kind # "heap"
  BY <1>5, <1>6
<1>10. ProcessOK(p)'
  <2>1. SessionTypes(p)'
    BY <1>1, StageIn DEF SessionTypes, SessionStays
  <2>2. CacheTypes(p)'
    BY <1>1, <1>4, <1>8, <1>9, StageIn DEF CacheTypes
  <2>3. StageOK(p)'
    BY <1>1, <1>3, <1>6, StageIn DEF StageOK, SessionStays
  <2> QED
    BY <2>1, <2>2, <2>3 DEF ProcessOK
<1> QED
  BY <1>1, <1>2, <1>10, OthersOK DEF DiskStays

LEMMA OpenFreshOK ==
  ASSUME Types, NEW p \in Processes, OpenFresh(p)
  PROVE  Types'
<1> DEFINE nil == <<>>
<1>1. /\ Step(p) /\ SessionStays(p)
      /\ state[p] = "fresh" /\ state'[p] = "compiling" /\ trouble'[p] = trouble[p]
      /\ metadata'[p] = metadata[p] /\ slots'[p] = slots[p] /\ last_save'[p] = last_save[p]
      /\ \/ DiskStays /\ CacheStays(p) /\ fd'[p] = FALSE
         \/ /\ file' = nil /\ durable' = {} /\ fd'[p] = TRUE
            /\ used'[p] = 0 /\ regions'[p] = 0 /\ indexed'[p] = {}
  BY StageIn, OpenFreshIs
<1>2. FileOK(nil)
  <2>1. Len(nil) = 0 /\ nil = [i \in 1 .. 0 |-> nil[i]]
    OBVIOUS
  <2> QED
    BY <2>1, DiskAssumption DEF FileOK
<1> HIDE DEF nil
<1>3. FileOK(file')
  BY <1>1, <1>2, StageIn DEF DiskStays
<1>4. SessionTypes(p)' /\ StageOK(p)'
  BY <1>1, StageIn DEF SessionTypes, SessionStays, StageOK
<1>5. CacheTypes(p)'
  <2>1. CASE DiskStays /\ CacheStays(p) /\ fd'[p] = FALSE
    BY <1>1, <2>1, StageIn DEF CacheStays, CacheTypes
  <2>2. CASE used'[p] = 0 /\ regions'[p] = 0 /\ indexed'[p] = {}
    <3>1. DOMAIN metadata[p] = {}
      BY <1>1, StageIn DEF StageOK
    <3>2. EntriesFit(metadata[p], slots[p], {}, 0)
      BY <3>1, StageIn, FitEmpty
    <3> QED
      BY <1>1, <2>2, <3>2, StageIn, DiskAssumption DEF CacheTypes
  <2> QED
    BY <1>1, <2>1, <2>2
<1> QED
  BY <1>1, <1>3, <1>4, <1>5, OthersOK DEF ProcessOK

LEMMA PackHitOK ==
  ASSUME Types, NEW p \in Processes, NEW w \in Weights, PackHit(p, w)
  PROVE  Types'
<1> DEFINE m == metadata[p]
           e == [m[w.name] EXCEPT !.current = TRUE]
           g == [n \in DOMAIN m |-> IF n = w.name THEN e ELSE m[n]]
<1>1. /\ Step(p) /\ DiskStays
      /\ state[p] = "compiling" /\ Hit(p, w)
      /\ state'[p] = state[p] /\ fd'[p] = fd[p] /\ trouble'[p] = trouble[p]
      /\ metadata'[p] = [metadata[p] EXCEPT ![w.name] = [@ EXCEPT !.current = TRUE]]
      /\ packed'[p] = packed[p] \cup {metadata[p][w.name].ptr}
      /\ slots'[p] = slots[p] /\ indexed'[p] = indexed[p] /\ regions'[p] = regions[p]
      /\ last_save'[p] = last_save[p] /\ used'[p] = used[p]
      /\ finalized'[p] = finalized[p] /\ runtimes'[p] = runtimes[p]
  BY StageIn, PackHitIs
<1>2. w.name \in DOMAIN m /\ EntriesFit(m, slots[p], indexed[p], used[p]) /\ used[p] \in Nat
  BY <1>1, StageIn DEF Hit
<1>3. metadata'[p] = g
  BY <1>1, <1>2 DEF EntriesFit
<1>4. m[w.name] \in EntryType /\ m[w.name].ptr \in slots[p] /\ m[w.name].ptr \in Pointer
  BY <1>2 DEF EntriesFit, EntryType
<1>5. \A n \in DOMAIN m : m[n].ptr \in slots[p] /\ Alike(m[n], m[n])
  BY <1>2, UpdatesAlike DEF EntriesFit, Alike
<1>6. Alike(e, m[w.name])
  BY <1>4, UpdatesAlike
<1> HIDE DEF m, e
<1>7. DOMAIN g = DOMAIN m /\ g = [n \in DOMAIN g |-> g[n]] /\ \A n \in DOMAIN g : Alike(g[n], m[n])
  BY <1>5, <1>6
<1> HIDE DEF g
<1>8. EntriesFit(g, slots[p], indexed[p], used[p])
  BY <1>2, <1>5, <1>7, FitAlike
<1>9. ProcessOK(p)'
  <2>1. SessionTypes(p)'
    BY <1>1, <1>4, StageIn DEF SessionTypes, m
  <2>2. CacheTypes(p)'
    BY <1>1, <1>3, <1>8, StageIn DEF CacheTypes
  <2>3. StageOK(p)'
    BY <1>1, StageIn DEF StageOK
  <2> QED
    BY <2>1, <2>2, <2>3 DEF ProcessOK
<1> QED
  BY <1>1, <1>9, StageIn, OthersOK DEF DiskStays

LEMMA PackInFileOK ==
  ASSUME Types, NEW p \in Processes, NEW w \in Weights, PackInFile(p, w)
  PROVE  Types'
<1> DEFINE k == used[p] + 1
           ptr == Region(k, w)
           x == Data(w)
<1>1. /\ Step(p)
      /\ state[p] = "compiling" /\ k <= DiskPages
      /\ file' = [Resized(k) EXCEPT ![k] = x]
      /\ state'[p] = state[p] /\ fd'[p] = fd[p] /\ trouble'[p] = trouble[p]
      /\ metadata'[p] = WithEntry(metadata[p], w, ptr)
      /\ slots'[p] = slots[p] \cup {ptr} /\ packed'[p] = packed[p] \cup {ptr}
      /\ indexed'[p] = indexed[p] \cup {ptr}
      /\ used'[p] = k /\ regions'[p] = regions[p] + 1 /\ last_save'[p] = last_save[p]
      /\ finalized'[p] = finalized[p] /\ runtimes'[p] = runtimes[p]
  BY StageIn, PackInFileIs
<1>2. /\ used[p] \in Nat /\ k \in Nat /\ k \in 1 .. k /\ used[p] <= k
      /\ EntriesFit(metadata[p], slots[p], indexed[p], used[p])
  BY StageIn
<1>3. ptr \in Pointer /\ ptr.weight = w /\ ptr.kind = "region" /\ ptr.page = k
  BY <1>2, PointersAre DEF Region
<1>4. FileOK(file')
  <2>1. PageOK(x, k)
    BY DEF PageOK
  <2>2. FileOK([Resized(k) EXCEPT ![k] = x])
    BY <1>1, <1>2, <2>1, StageIn, WrittenOK
  <2> QED
    BY <1>1, <2>2
<1> HIDE DEF ptr, k, x
<1>5. EntriesFit(WithEntry(metadata[p], w, ptr), slots[p] \cup {ptr}, indexed[p] \cup {ptr}, k)
  BY <1>2, <1>3, FitWith
<1>6. ProcessOK(p)'
  <2>1. SessionTypes(p)'
    BY <1>1, <1>3, StageIn DEF SessionTypes
  <2>2. CacheTypes(p)'
    BY <1>1, <1>2, <1>3, <1>5, StageIn, DiskAssumption DEF CacheTypes
  <2>3. StageOK(p)'
    BY <1>1, StageIn DEF StageOK
  <2> QED
    BY <2>1, <2>2, <2>3 DEF ProcessOK
<1> QED
  BY <1>1, <1>4, <1>6, OthersOK

LEMMA PackOnHeapOK ==
  ASSUME Types, NEW p \in Processes, NEW w \in Weights, PackOnHeap(p, w)
  PROVE  Types'
<1> DEFINE k == used[p] + 1
           ptr == Heap(w)
<1>1. /\ Step(p)
      /\ state[p] = "compiling"
      /\ DiskStays \/ (k <= DiskPages /\ file' = Resized(k))
      /\ state'[p] = state[p] /\ fd'[p] = FALSE /\ trouble'[p] = TRUE
      /\ metadata'[p] = WithEntry(metadata[p], w, ptr)
      /\ slots'[p] = slots[p] \cup {ptr} /\ packed'[p] = packed[p] \cup {ptr}
      /\ indexed'[p] = indexed[p] /\ used'[p] = used[p]
      /\ regions'[p] = regions[p] /\ last_save'[p] = last_save[p]
      /\ finalized'[p] = finalized[p] /\ runtimes'[p] = runtimes[p]
  BY StageIn, PackOnHeapIs
<1>2. /\ used[p] \in Nat /\ k \in Nat /\ used[p] <= used[p] /\ indexed[p] \subseteq indexed[p]
      /\ EntriesFit(metadata[p], slots[p], indexed[p], used[p])
  BY StageIn
<1>3. ptr \in Pointer /\ ptr.weight = w /\ ptr.kind = "heap"
  BY PointersAre DEF Heap
<1>4. FileOK(file')
  <2>1. CASE DiskStays
    BY <2>1, StageIn DEF DiskStays
  <2>2. CASE k <= DiskPages /\ file' = Resized(k)
    <3>1. k \in 0 .. DiskPages
      BY <1>2, <2>2, DiskAssumption
    <3>2. FileOK(Resized(k))
      BY <3>1, StageIn, ResizedOK
    <3> QED
      BY <2>2, <3>2
  <2> QED
    BY <1>1, <2>1, <2>2
<1> HIDE DEF ptr, k
<1>5. EntriesFit(WithEntry(metadata[p], w, ptr), slots[p] \cup {ptr}, indexed[p], used[p])
  BY <1>2, <1>3, FitWith
<1>6. ProcessOK(p)'
  <2>1. SessionTypes(p)'
    BY <1>1, <1>3, StageIn DEF SessionTypes
  <2>2. CacheTypes(p)'
    BY <1>1, <1>3, <1>5, StageIn DEF CacheTypes
  <2>3. StageOK(p)'
    BY <1>1, StageIn DEF StageOK
  <2> QED
    BY <2>1, <2>2, <2>3 DEF ProcessOK
<1> QED
  BY <1>1, <1>4, <1>6, OthersOK

\* An index names pages of the file that hold its weights' data, each weight once.
LEMMA RecordsOK ==
  ASSUME NEW p \in Processes, NEW m,
         used[p] \in Nat, indexed[p] \subseteq Pointer,
         EntriesFit(m, slots[p], indexed[p], used[p]), \A ptr \in indexed[p] : ptr.kind # "heap"
  PROVE  /\ IndexOK(Records(p, m), used[p] + 1)
         /\ \A r \in Records(p, m) : \E n \in DOMAIN m :
              /\ m[n].ptr \in indexed[p] /\ r.page = m[n].ptr.page /\ WeightOf(r) = m[n].ptr.weight
              /\ m[n].ptr \in slots[p] /\ m[n].ptr.kind # "heap" /\ r.page \in 1 .. used[p]
<1>1. ASSUME NEW r \in Records(p, m)
      PROVE  /\ r.name \in DOMAIN m /\ m[r.name].ptr \in indexed[p]
             /\ r = [name |-> r.name, seed |-> m[r.name].seed, page |-> m[r.name].ptr.page]
  <2>1. PICK n \in DOMAIN m : /\ m[n].ptr \in indexed[p]
                              /\ r = [name |-> n, seed |-> m[n].seed, page |-> m[n].ptr.page]
    BY DEF Records
  <2>2. r.name = n
    BY <2>1
  <2> QED
    BY <2>1, <2>2
<1>2. ASSUME NEW r \in Records(p, m)
      PROVE  LET n == r.name IN
              /\ n \in DOMAIN m
              /\ m[n].ptr \in indexed[p] /\ r.page = m[n].ptr.page /\ WeightOf(r) = m[n].ptr.weight
              /\ m[n].ptr \in slots[p] /\ m[n].ptr.kind # "heap" /\ r.page \in 1 .. used[p]
              /\ WeightOf(r) \in Weights
  <2> DEFINE n == r.name
  <2>1. /\ n \in DOMAIN m /\ m[n].ptr \in indexed[p]
        /\ r = [name |-> n, seed |-> m[n].seed, page |-> m[n].ptr.page]
    BY <1>1
  <2>2. r.seed = m[n].seed /\ r.page = m[n].ptr.page
    <3> DEFINE s == m[n].seed
               k == m[n].ptr.page
    <3>1. r = [name |-> n, seed |-> s, page |-> k]
      BY <2>1
    <3> HIDE DEF s, k, n
    <3>2. r.seed = s /\ r.page = k
      BY <3>1
    <3> QED
      BY <3>2 DEF s, k
  <2> HIDE DEF n
  <2>3. m[n].ptr.kind # "heap"
    BY <2>1
  <2>4. /\ m[n].ptr.weight = [name |-> n, seed |-> m[n].seed]
        /\ m[n].ptr \in slots[p] /\ m[n].ptr.page \in 1 .. used[p]
    BY <2>1, <2>3 DEF EntriesFit
  <2>5. WeightOf(r) = m[n].ptr.weight
    BY <2>2, <2>4 DEF WeightOf, n
  <2>6. m[n].ptr.weight \in Weights
    BY <2>1 DEF Pointer
  <2> QED
    BY <2>1, <2>2, <2>3, <2>4, <2>5, <2>6 DEF n
<1>3. ASSUME NEW r \in Records(p, m), NEW s \in Records(p, m), r.name = s.name PROVE r = s
  <2> DEFINE n == r.name
             x == [name |-> n, seed |-> m[n].seed, page |-> m[n].ptr.page]
  <2>1. r = x
    BY <1>1
  <2>2. s = [name |-> s.name, seed |-> m[s.name].seed, page |-> m[s.name].ptr.page]
    BY <1>1
  <2>3. s = x
    BY <1>3, <2>2
  <2> QED
    BY <2>1, <2>3
<1>4. used[p] + 1 - 1 = used[p]
  OBVIOUS
<1> QED
  BY <1>2, <1>3, <1>4 DEF IndexOK

LEMMA IndexPage ==
  ASSUME NEW records, NEW i, IndexOK(records, i)
  PROVE  PageOK(Index(records), i) /\ Index(records).tag = "index" /\ Index(records).records = records
BY DEF PageOK, Index

\* Saving keeps the file in order and every entry its pointer.
LEMMA SavingOK ==
  ASSUME Types, NEW p \in Processes, NEW m, NEW flushed, Saving(p, m, flushed),
         EntriesFit(m, slots[p], indexed[p], used[p]), m = [n \in DOMAIN m |-> m[n]]
  PROVE  /\ FileOK(file') /\ used'[p] \in 0 .. DiskPages /\ last_save'[p] \in Nat
         /\ trouble'[p] \in BOOLEAN
         /\ EntriesFit(metadata'[p], slots[p], indexed[p], used'[p])
<1> DEFINE u == used[p]
<1>1. /\ u \in Nat /\ u \in 0 .. DiskPages /\ FileOK(file) /\ regions[p] \in Nat /\ last_save[p] \in Nat
      /\ trouble[p] \in BOOLEAN
      /\ indexed[p] \subseteq Pointer /\ \A ptr \in indexed[p] : ptr.kind # "heap"
  BY StageIn DEF CacheTypes, SessionTypes
<1>2. CASE NoIndex(p, m, flushed)
  BY <1>1, <1>2 DEF NoIndex
<1>3. CASE IndexFails(p, m, flushed)
  <2>1. PageOK(Blank, u + 1)
    BY DEF PageOK
  <2>2. u + 1 <= DiskPages => FileOK([Resized(u + 1) EXCEPT ![u + 1] = Blank])
    BY <1>1, <2>1, WrittenOK
  <2>3. FileOK(file')
    BY <1>1, <1>3, <2>2 DEF IndexFails
  <2> QED
    BY <1>1, <1>3, <2>3 DEF IndexFails
<1>4. CASE IndexWritten(p, m, flushed)
  <2> DEFINE g == WithIndex(p, m)
             x == Index(Records(p, m))
  <2>1. PageOK(x, u + 1)
    BY <1>1, RecordsOK, IndexPage
  <2>2. /\ u + 1 <= DiskPages /\ file' = [Resized(u + 1) EXCEPT ![u + 1] = x]
        /\ metadata'[p] = g /\ used'[p] = u + 1 /\ last_save'[p] = regions[p]
        /\ trouble'[p] = trouble[p]
    BY <1>4 DEF IndexWritten
  <2> HIDE DEF x
  <2>3. FileOK(file')
    BY <1>1, <2>1, <2>2, WrittenOK
  <2>4. \A n \in DOMAIN m : m[n] \in EntryType /\ m[n].ptr \in slots[p]
    BY DEF EntriesFit
  <2>5. DOMAIN g = DOMAIN m /\ g = [n \in DOMAIN g |-> g[n]] /\ \A n \in DOMAIN g : Alike(g[n], m[n])
    BY <2>4, UpdatesAlike DEF WithIndex
  <2> HIDE DEF g
  <2>6. EntriesFit(g, slots[p], indexed[p], u + 1)
    BY <1>1, <2>4, <2>5, FitAlike
  <2> QED
    BY <1>1, <2>2, <2>3, <2>6, DiskAssumption
<1> QED
  BY <1>2, <1>3, <1>4 DEF Saving

\* The entries of a runtime that was just built.
LEMMA CountedFit ==
  ASSUME Types, NEW p \in Processes
  PROVE  LET m == CountedIn(p) IN
         /\ EntriesFit(m, slots[p], indexed[p], used[p]) /\ m = [n \in DOMAIN m |-> m[n]]
         /\ DOMAIN m = DOMAIN metadata[p] /\ \A n \in DOMAIN m : Alike(m[n], metadata[p][n])
<1> DEFINE m == CountedIn(p)
<1>1. EntriesFit(metadata[p], slots[p], indexed[p], used[p]) /\ used[p] \in Nat
  BY StageIn
<1>2. ASSUME NEW n \in DOMAIN metadata[p]
      PROVE  metadata[p][n] \in EntryType /\ metadata[p][n].ptr \in slots[p] /\ metadata[p][n].refs \in Nat
  BY <1>1 DEF EntriesFit, EntryType
<1>3. DOMAIN m = DOMAIN metadata[p] /\ m = [n \in DOMAIN m |-> m[n]]
  BY DEF CountedIn
<1>4. ASSUME NEW n \in DOMAIN m PROVE Alike(m[n], metadata[p][n])
  <2> DEFINE e == metadata[p][n]
             c == e.refs + 1
  <2>1. e \in EntryType /\ c \in Nat
    BY <1>2, <1>3
  <2>2. m[n] = IF n \in Current(p) THEN [e EXCEPT !.refs = c, !.current = FALSE] ELSE e
    BY <1>3 DEF CountedIn
  <2> HIDE DEF e, c
  <2> QED
    BY <2>1, <2>2, UpdatesAlike DEF e
<1> HIDE DEF m
<1>5. EntriesFit(m, slots[p], indexed[p], used[p])
  BY <1>1, <1>2, <1>3, <1>4, FitAlike
<1> QED
  BY <1>3, <1>4, <1>5 DEF m

LEMMA CurrentNames ==
  ASSUME Types, NEW p \in Processes
  PROVE  Current(p) \subseteq DOMAIN metadata[p] /\ Current(p) \subseteq STRING
BY StageIn DEF Current, EntriesFit

LEMMA FinishOK ==
  ASSUME Types, NEW p \in Processes, NEW h \in Handles, Finish(p, h)
  PROVE  Types'
<1> DEFINE m == CountedIn(p)
           r == [state |-> "ready", uses |-> packed[p], names |-> Current(p)]
           flushed == Synced(p)
<1>1. /\ Step(p)
      /\ Saving(p, m, flushed)
      /\ state[p] = "compiling" /\ state'[p] = "idle" /\ fd'[p] = fd[p]
      /\ runtimes'[p] = [runtimes[p] EXCEPT ![h] = r]
      /\ finalized'[p] = TRUE /\ packed'[p] = {}
      /\ slots'[p] = slots[p] /\ indexed'[p] = indexed[p] /\ regions'[p] = regions[p]
  BY StageIn, FinishIs
<1>2. EntriesFit(m, slots[p], indexed[p], used[p]) /\ m = [n \in DOMAIN m |-> m[n]]
  BY CountedFit
<1>3. r \in RuntimeType
  BY CurrentNames, StageIn DEF RuntimeType, SessionTypes
<1> HIDE DEF m, r, flushed
<1>4. /\ FileOK(file') /\ used'[p] \in 0 .. DiskPages /\ last_save'[p] \in Nat
      /\ trouble'[p] \in BOOLEAN
      /\ EntriesFit(metadata'[p], slots[p], indexed[p], used'[p])
  BY <1>1, <1>2, SavingOK
<1>5. ProcessOK(p)'
  <2>1. SessionTypes(p)'
    BY <1>1, <1>3, <1>4, StageIn DEF SessionTypes
  <2>2. CacheTypes(p)'
    BY <1>1, <1>4, StageIn DEF CacheTypes
  <2>3. StageOK(p)'
    BY <1>1 DEF StageOK
  <2> QED
    BY <2>1, <2>2, <2>3 DEF ProcessOK
<1> QED
  BY <1>1, <1>4, <1>5, OthersOK

LEMMA SaveAllOK ==
  ASSUME Types, NEW p \in Processes, SaveAll(p)
  PROVE  Types'
<1>1. /\ Step(p) /\ Saving(p, metadata[p], durable) /\ SessionStays(p)
      /\ state[p] = "idle" /\ state'[p] = state[p] /\ fd'[p] = fd[p]
      /\ slots'[p] = slots[p] /\ indexed'[p] = indexed[p] /\ regions'[p] = regions[p]
  BY StageIn, SaveAllIs
<1>2. /\ EntriesFit(metadata[p], slots[p], indexed[p], used[p])
      /\ metadata[p] = [n \in DOMAIN metadata[p] |-> metadata[p][n]]
  BY StageIn DEF EntriesFit
<1>4. /\ FileOK(file') /\ used'[p] \in 0 .. DiskPages /\ last_save'[p] \in Nat
      /\ trouble'[p] \in BOOLEAN
      /\ EntriesFit(metadata'[p], slots[p], indexed[p], used'[p])
  BY <1>1, <1>2, SavingOK
<1>5. ProcessOK(p)'
  <2>1. SessionTypes(p)'
    BY <1>1, <1>4, StageIn DEF SessionTypes, SessionStays
  <2>2. CacheTypes(p)'
    BY <1>1, <1>4, StageIn DEF CacheTypes
  <2>3. StageOK(p)'
    BY <1>1, StageIn DEF StageOK, SessionStays
  <2> QED
    BY <2>1, <2>2, <2>3 DEF ProcessOK
<1> QED
  BY <1>1, <1>4, <1>5, OthersOK

\* What is left of the entries after a deletion.
LEMMA DeletingIs ==
  ASSUME Types, NEW p \in Processes, NEW names \in SUBSET DOMAIN metadata[p], NEW complete \in BOOLEAN,
         Deleting(p, names, complete)
  PROVE  LET m == metadata[p]
             g == metadata'[p] IN
         /\ g = [n \in DOMAIN g |-> g[n]] /\ DOMAIN g = Kept(p, names) /\ DOMAIN g \subseteq DOMAIN m
         /\ \A n \in DOMAIN g : /\ Alike(g[n], m[n]) /\ g[n].from_load = m[n].from_load
                                /\ n \notin names => g[n] = m[n]
                                /\ n \in names => g[n].refs = CountLeft(p, n)
         /\ \A n \in DOMAIN g : m[n].ptr \in slots'[p] \/ DOMAIN g = {}
         /\ slots'[p] \subseteq slots[p] /\ indexed'[p] \subseteq indexed[p]
         /\ DOMAIN g = {} \/ (indexed'[p] = indexed[p] /\ regions'[p] = regions[p] /\ fd'[p] = fd[p])
<1> DEFINE m == metadata[p]
           g == [n \in Kept(p, names) |-> IF n \notin names THEN m[n] ELSE CountedDown(p, n)]
           ptrs == {m[n].ptr : n \in Gone(p, names)}
<1>1. /\ metadata'[p] = g
      /\ \/ /\ Kept(p, names) = {}
            /\ slots'[p] = {} /\ indexed'[p] = {} /\ regions'[p] = 0 /\ fd'[p] = FALSE
         \/ /\ slots'[p] = slots[p] \ ptrs
            /\ indexed'[p] = indexed[p] /\ regions'[p] = regions[p] /\ fd'[p] = fd[p]
  BY DEF Deleting
<1>2. EntriesFit(m, slots[p], indexed[p], used[p])
  BY StageIn
<1>3. /\ DOMAIN g = Kept(p, names) /\ Kept(p, names) \subseteq DOMAIN m /\ Gone(p, names) \subseteq DOMAIN m
      /\ \A n \in Kept(p, names) : n \notin Gone(p, names)
      /\ g = [n \in DOMAIN g |-> g[n]]
      /\ \A n \in Kept(p, names) : g[n] = IF n \notin names THEN m[n] ELSE CountedDown(p, n)
  BY DEF Kept, Gone
<1>4. ASSUME NEW n \in DOMAIN m
      PROVE  LET e == m[n] IN
             /\ Alike(CountedDown(p, n), e) /\ CountedDown(p, n).from_load = e.from_load
             /\ CountedDown(p, n).refs = CountLeft(p, n) /\ Alike(e, e)
  <2> DEFINE e == m[n]
             c == CountLeft(p, n)
             b == e.current /\ c > 0
             d == [e EXCEPT !.refs = c, !.current = b]
  <2>1. e \in EntryType
    BY <1>2 DEF EntriesFit
  <2>2. c \in Nat
    BY <2>1, DiskAssumption DEF CountLeft, EntryType
  <2>3. b \in BOOLEAN
    BY <2>1, <2>2 DEF EntryType
  <2>4. CountedDown(p, n) = d
    <3>1. CountedDown(p, n) = [m[n] EXCEPT !.refs = CountLeft(p, n), !.current = @ /\ CountLeft(p, n) > 0]
      BY DEF CountedDown
    <3>2. [m[n] EXCEPT !.refs = CountLeft(p, n), !.current = @ /\ CountLeft(p, n) > 0]
            = [m[n] EXCEPT !.refs = CountLeft(p, n), !.current = m[n].current /\ CountLeft(p, n) > 0]
      BY <2>1 DEF EntryType
    <3> QED
      BY <3>1, <3>2
  <2> HIDE DEF e, c, b
  <2>5. /\ d = [seed |-> e.seed, refs |-> c, current |-> b, from_load |-> e.from_load, ptr |-> e.ptr]
        /\ Alike(d, e) /\ Alike(e, e)
    BY <2>1, <2>2, <2>3, EntryUpdates, UpdatesAlike
  <2> HIDE DEF d
  <2>6. d.refs = c /\ d.from_load = e.from_load
    BY <2>5
  <2> QED
    BY <2>4, <2>5, <2>6 DEF e, c
<1>5. ASSUME NEW n \in Kept(p, names), NEW k \in Gone(p, names) PROVE m[n].ptr # m[k].ptr
  <2>1. n # k /\ m[n].ptr.weight = [name |-> n, seed |-> m[n].seed]
        /\ m[k].ptr.weight = [name |-> k, seed |-> m[k].seed]
    BY <1>2, <1>3 DEF EntriesFit
  <2>2. m[n].ptr.weight.name = n /\ m[k].ptr.weight.name = k
    BY <2>1
  <2> QED
    BY <2>1, <2>2
<1>6. \A n \in Kept(p, names) : m[n].ptr \in slots[p] \ ptrs
  BY <1>2, <1>3, <1>5 DEF EntriesFit
<1> HIDE DEF g, ptrs, m
<1>7. \A n \in DOMAIN g : m[n].ptr \in slots'[p] \/ DOMAIN g = {}
  BY <1>1, <1>3, <1>6
<1>8. \A n \in DOMAIN g : /\ Alike(g[n], m[n]) /\ g[n].from_load = m[n].from_load
                          /\ n \notin names => g[n] = m[n]
                          /\ n \in names => g[n].refs = CountLeft(p, n)
  BY <1>3, <1>4
<1>9. /\ slots'[p] \subseteq slots[p] /\ indexed'[p] \subseteq indexed[p]
      /\ DOMAIN g = {} \/ (indexed'[p] = indexed[p] /\ regions'[p] = regions[p] /\ fd'[p] = fd[p])
  BY <1>1, <1>3
<1> QED
  BY <1>1, <1>3, <1>7, <1>8, <1>9 DEF m

LEMMA DestroyOK ==
  ASSUME Types, NEW p \in Processes, NEW h \in Handles, Destroy(p, h)
  PROVE  Types'
<1> DEFINE names == runtimes[p][h].names
           known == names \cap DOMAIN metadata[p]
<1>1. /\ Step(p) /\ DiskStays
      /\ state[p] = "idle" /\ state'[p] = state[p]
      /\ runtimes'[p] = [runtimes[p] EXCEPT ![h] = NoRuntime]
      /\ last_save'[p] = last_save[p] /\ used'[p] = used[p] /\ trouble'[p] = trouble[p]
      /\ finalized'[p] = finalized[p] /\ packed'[p] = packed[p]
      /\ \/ CacheStays(p) /\ fd'[p] = fd[p]
         \/ \E some \in SUBSET known, complete \in BOOLEAN : Deleting(p, some, complete)
  BY StageIn, DestroyIs
<1>2. CASE CacheStays(p) /\ fd'[p] = fd[p]
  <2>1. SessionTypes(p)'
    BY <1>1, <1>2, NoRuntimeType, StageIn DEF SessionTypes
  <2>2. CacheTypes(p)' /\ StageOK(p)'
    BY <1>1, <1>2, StageIn DEF CacheTypes, CacheStays, StageOK
  <2> QED
    BY <1>1, <2>1, <2>2, StageIn, OthersOK DEF ProcessOK, DiskStays
<1>3. ASSUME NEW some \in SUBSET known, NEW complete \in BOOLEAN, Deleting(p, some, complete)
      PROVE  Types'
  <2> DEFINE m == metadata[p]
             g == metadata'[p]
  <2>1. some \in SUBSET DOMAIN m
    OBVIOUS
  <2>2. /\ g = [n \in DOMAIN g |-> g[n]] /\ DOMAIN g \subseteq DOMAIN m
        /\ \A n \in DOMAIN g : Alike(g[n], m[n])
        /\ \A n \in DOMAIN g : m[n].ptr \in slots'[p] \/ DOMAIN g = {}
        /\ slots'[p] \subseteq slots[p] /\ indexed'[p] \subseteq indexed[p]
        /\ DOMAIN g = {} \/ (indexed'[p] = indexed[p] /\ regions'[p] = regions[p] /\ fd'[p] = fd[p])
    <3>1. /\ g = [n \in DOMAIN g |-> g[n]] /\ DOMAIN g = Kept(p, some) /\ DOMAIN g \subseteq DOMAIN m
          /\ \A n \in DOMAIN g : /\ Alike(g[n], m[n]) /\ g[n].from_load = m[n].from_load
                                 /\ n \notin some => g[n] = m[n]
                                 /\ n \in some => g[n].refs = CountLeft(p, n)
          /\ \A n \in DOMAIN g : m[n].ptr \in slots'[p] \/ DOMAIN g = {}
          /\ slots'[p] \subseteq slots[p] /\ indexed'[p] \subseteq indexed[p]
          /\ DOMAIN g = {} \/ (indexed'[p] = indexed[p] /\ regions'[p] = regions[p] /\ fd'[p] = fd[p])
      BY <1>3, <2>1, DeletingIs
    <3> HIDE DEF m, g
    <3> QED
      BY <3>1
  <2>3. EntriesFit(m, slots[p], indexed[p], used[p]) /\ used[p] \in Nat
    BY StageIn
  <2> HIDE DEF m, g
  <2>4. EntriesFit(g, slots'[p], indexed'[p], used[p])
    BY <2>2, <2>3, FitAlike
  <2>5. fd'[p] \in BOOLEAN /\ regions'[p] \in Nat
    <3>1. (fd'[p] = FALSE \/ fd'[p] = fd[p]) /\ (regions'[p] = 0 \/ regions'[p] = regions[p])
      BY <1>3 DEF Deleting
    <3>2. fd[p] \in BOOLEAN /\ regions[p] \in Nat
      BY StageIn DEF CacheTypes
    <3>3. regions'[p] \in Nat
      BY <3>1, <3>2
    <3>4. fd'[p] \in BOOLEAN
      BY <3>1, <3>2
    <3> QED
      BY <3>3, <3>4
  <2>6. SessionTypes(p)'
    BY <1>1, <2>5, NoRuntimeType, StageIn DEF SessionTypes
  <2>7. CacheTypes(p)'
    BY <1>1, <2>2, <2>4, <2>5, StageIn DEF CacheTypes, g
  <2>8. StageOK(p)'
    BY <1>1, StageIn DEF StageOK
  <2> QED
    BY <1>1, <2>6, <2>7, <2>8, StageIn, OthersOK DEF ProcessOK, DiskStays
<1> QED
  BY <1>1, <1>2, <1>3

LEMMA TypesInit == Init => Types
<1> SUFFICES ASSUME Init PROVE Types
  OBVIOUS
<1> DEFINE nil == <<>>
           none == [h \in Handles |-> NoRuntime]
<1>1. /\ file = nil /\ metadata = [p \in Processes |-> nil] /\ runtimes = [p \in Processes |-> none]
      /\ state = [p \in Processes |-> "down"] /\ fd = [p \in Processes |-> FALSE]
      /\ used = [p \in Processes |-> 0] /\ slots = [p \in Processes |-> {}]
      /\ indexed = [p \in Processes |-> {}] /\ regions = [p \in Processes |-> 0]
      /\ last_save = [p \in Processes |-> 0] /\ finalized = [p \in Processes |-> FALSE]
      /\ packed = [p \in Processes |-> {}] /\ trouble = [p \in Processes |-> FALSE]
  BY DEF Init
<1>2. Len(nil) = 0 /\ nil = [i \in 1 .. 0 |-> nil[i]] /\ DOMAIN nil = {} /\ nil = [n \in {} |-> 0]
  OBVIOUS
<1>3. none \in [Handles -> RuntimeType]
  BY NoRuntimeType
<1> HIDE DEF nil, none
<1>4. FileOK(file)
  BY <1>1, <1>2, DiskAssumption DEF FileOK
<1>5. Shape
  BY <1>1 DEF Shape, States
<1>6. EntriesFit(nil, {}, {}, 0)
  BY <1>2 DEF EntriesFit
<1>7. ASSUME NEW p \in Processes PROVE ProcessOK(p)
  <2>1. SessionTypes(p)
    BY <1>1, <1>3 DEF SessionTypes
  <2>2. CacheTypes(p)
    BY <1>1, <1>6, DiskAssumption DEF CacheTypes
  <2>3. StageOK(p)
    BY <1>1, <1>2 DEF StageOK
  <2> QED
    BY <2>1, <2>2, <2>3 DEF ProcessOK
<1> QED
  BY <1>4, <1>5, <1>7 DEF Types

LEMMA TypesNext == Types /\ [Next]_vars => Types'
<1> SUFFICES ASSUME Types, [Next]_vars PROVE Types'
  OBVIOUS
<1>1. ASSUME NEW p \in Processes, NEW w \in Weights, PackHit(p, w) \/ PackInFile(p, w) \/ PackOnHeap(p, w)
      PROVE  Types'
  BY <1>1, PackHitOK, PackInFileOK, PackOnHeapOK
<1>2. ASSUME NEW p \in Processes, NEW h \in Handles, Finish(p, h) \/ Destroy(p, h)
      PROVE  Types'
  BY <1>2, FinishOK, DestroyOK
<1>3. ASSUME NEW p \in Processes, \/ Start(p) \/ Crash(p) \/ Begin(p) \/ Load(p) \/ LoadFails(p)
                                  \/ Reopen(p) \/ OpenFresh(p) \/ CompileFails(p) \/ SaveAll(p)
      PROVE  Types'
  BY <1>3, StartOK, CrashOK, BeginOK, LoadOK, LoadFailsOK, ReopenOK, OpenFreshOK, CompileFailsOK,
     SaveAllOK
<1>4. CASE UNCHANGED vars
  BY <1>4 DEF vars, disk, cache, session, Types, Shape, ProcessOK, SessionTypes, CacheTypes, StageOK
<1> QED
  BY <1>1, <1>2, <1>3, <1>4 DEF Next

-----------------------------------------------------------------------------
(* What a compilation leaves in the file *)

\* The index a process writes becomes the footer of the file.
LEMMA WrittenFooter ==
  ASSUME NEW p \in Processes, used[p] \in Nat, NEW x,
         file' = [Resized(used[p] + 1) EXCEPT ![used[p] + 1] = x]
  PROVE  Len(file') = used[p] + 1 /\ file'[Len(file')] = x
<1> DEFINE f == [Resized(used[p] + 1) EXCEPT ![used[p] + 1] = x]
<1>1. Len(f) = used[p] + 1 /\ f[used[p] + 1] = x
  BY WrittenIs
<1> HIDE DEF f
<1>2. file' = f
  BY DEF f
<1> QED
  BY <1>1, <1>2

\* What a compilation writes is on the disk before the index that names it.
LEMMA FinishSynced ==
  ASSUME Types, NEW p \in Processes, NEW h \in Handles, Finish(p, h), file' # file, Loadable(file')
  PROVE  {r.page : r \in Footer(file')} \subseteq durable'
<1> DEFINE m == CountedIn(p)
           u == used[p]
           flushed == Synced(p)
<1>1. Saving(p, m, flushed)
  BY StageIn, FinishIs
<1>2. /\ EntriesFit(m, slots[p], indexed[p], u) /\ u \in Nat /\ indexed[p] \subseteq Pointer
      /\ \A ptr \in indexed[p] : ptr.kind # "heap"
  BY StageIn, CountedFit DEF CacheTypes
<1>3. CASE NoIndex(p, m, flushed)
  BY <1>3 DEF NoIndex
<1>4. CASE IndexFails(p, m, flushed)
  <2>1. file' = [Resized(u + 1) EXCEPT ![u + 1] = Blank]
    BY <1>4 DEF IndexFails
  <2>2. file'[Len(file')] = Blank
    BY <1>2, <2>1, WrittenFooter
  <2> QED
    BY <2>2 DEF Loadable, Blank
<1>5. CASE IndexWritten(p, m, flushed)
  <2> DEFINE x == Index(Records(p, m))
  <2>1. /\ file' = [Resized(u + 1) EXCEPT ![u + 1] = x]
        /\ durable' \in {flushed \cap (1 .. u), 1 .. u + 1}
    BY <1>5 DEF IndexWritten
  <2>2. file'[Len(file')] = x
    BY <1>2, <2>1, WrittenFooter
  <2>3. Footer(file') = Records(p, m)
    BY <2>2 DEF Footer, Index
  <2>4. ASSUME NEW r \in Records(p, m) PROVE r.page \in flushed /\ r.page \in 1 .. u
    <3>1. PICK n \in DOMAIN m : /\ r.page = m[n].ptr.page /\ m[n].ptr \in slots[p]
                                /\ m[n].ptr.kind # "heap" /\ r.page \in 1 .. u
      BY <1>2, RecordsOK
    <3> HIDE DEF m
    <3> QED
      BY <3>1 DEF Synced
  <2>5. 1 .. u \subseteq 1 .. u + 1
    BY <1>2
  <2> HIDE DEF m, u, flushed, x
  <2>6. \A r \in Records(p, m) : r.page \in durable'
    BY <2>1, <2>4, <2>5
  <2> QED
    BY <2>3, <2>6
<1> QED
  BY <1>1, <1>3, <1>4, <1>5 DEF Saving

\* IndexAfterData, for any number of processes, handles, weights and pages: the
\* index that finalize_for_runtime writes names only pages its msync has put on
\* the disk, with any number of processes at the file at once.
THEOREM IndexNamesSyncedData == Spec => IndexAfterData
<1> DEFINE Ordered == \A p \in Processes : \A h \in Handles :
                         Finish(p, h) /\ file' # file /\ Loadable(file')
                            => {r.page : r \in Footer(file')} \subseteq durable'
<1>1. Types => Ordered
  BY FinishSynced
<1>2. Types /\ [Next]_vars => [Ordered]_vars
  BY <1>1
<1> HIDE DEF Ordered
<1>3. Spec => [][Ordered]_vars
  BY <1>2, TypesInit, TypesNext, PTL DEF Spec
<1> QED
  BY <1>3 DEF IndexAfterData, Ordered

-----------------------------------------------------------------------------
(* Saving *)

\* As long as no call on the file has failed, an entry in the file means that the
\* lock is held, and regions that no index names are behind mmap_regions_at_last_save_.
MappedSaved(p) == \A n \in DOMAIN metadata[p] :
    metadata[p][n].ptr.kind = "map" => metadata[p][n].from_load
Untroubled(p) ==
    /\ \A n \in DOMAIN metadata[p] : metadata[p][n].ptr.kind # "heap"
    /\ \A n \in DOMAIN metadata[p] : metadata[p][n].ptr.kind = "region" => fd[p]
    /\ last_save[p] <= regions[p]
    /\ Unsaved(p) # {} => last_save[p] < regions[p]
    /\ finalized[p] => Unsaved(p) = {}
    /\ DOMAIN metadata[p] = {} => regions[p] = 0
SavedOK(p) == MappedSaved(p) /\ (~trouble[p] => Untroubled(p))
SavedInv == \A p \in Processes : SavedOK(p)

LEMMA OthersSaved ==
  ASSUME SavedInv, NEW p \in Processes, Step(p), SavedOK(p)'
  PROVE  SavedInv'
<1>1. ASSUME NEW q \in Processes \ {p} PROVE SavedOK(q)'
  BY DEF SavedInv, Step, Stays, CacheStays, SessionStays, SavedOK, MappedSaved, Untroubled, Unsaved
<1> QED
  BY <1>1 DEF SavedInv

LEMMA SavedIn ==
  ASSUME Types, SavedInv, NEW p \in Processes
  PROVE  /\ MappedSaved(p) /\ (~trouble[p] => Untroubled(p))
         /\ regions[p] \in Nat /\ last_save[p] \in Nat /\ fd[p] \in BOOLEAN /\ trouble[p] \in BOOLEAN
         /\ finalized[p] \in BOOLEAN /\ Shape
BY StageIn DEF SavedInv, SavedOK, SessionTypes, CacheTypes

\* Pointers are on the heap, in a region or in the loaded file.
LEMMA Kinds ==
  ASSUME Types, NEW p \in Processes, NEW n \in DOMAIN metadata[p]
  PROVE  /\ metadata[p][n] \in EntryType
         /\ metadata[p][n].ptr \in slots[p]
         /\ metadata[p][n].ptr.kind \in {"heap", "region", "map"}
         /\ metadata[p][n].from_load \in BOOLEAN /\ metadata[p][n].seed \in Nat
         /\ metadata[p][n].ptr.kind # "heap" => metadata[p][n].ptr \in indexed[p]
<1>1. EntriesFit(metadata[p], slots[p], indexed[p], used[p])
  BY StageIn
<1>2. metadata[p][n] \in EntryType
  BY <1>1 DEF EntriesFit
<1>3. metadata[p][n].ptr \in Pointer /\ metadata[p][n].from_load \in BOOLEAN /\ metadata[p][n].seed \in Nat
  BY <1>2 DEF EntryType
<1> QED
  BY <1>1, <1>2, <1>3 DEF EntriesFit, Pointer

LEMMA QuietSaved ==
  ASSUME Types, SavedInv, NEW p \in Processes, Step(p), CacheStays(p), trouble'[p] = trouble[p],
         fd[p] => fd'[p], finalized'[p] => finalized[p]
  PROVE  SavedInv'
<1>1. SavedOK(p)'
  BY SavedIn DEF SavedOK, MappedSaved, Untroubled, Unsaved, CacheStays
<1> QED
  BY <1>1, OthersSaved

LEMMA CrashSaved ==
  ASSUME Types, SavedInv, NEW p \in Processes, Crash(p)
  PROVE  SavedInv'
<1> DEFINE nil == <<>>
<1>1. /\ Step(p) /\ metadata'[p] = nil
      /\ regions'[p] = 0 /\ last_save'[p] = 0 /\ finalized'[p] = FALSE
  BY StageIn, CrashIs
<1>2. DOMAIN nil = {}
  OBVIOUS
<1> HIDE DEF nil
<1>3. SavedOK(p)'
  BY <1>1, <1>2 DEF SavedOK, MappedSaved, Untroubled, Unsaved
<1> QED
  BY <1>1, <1>3, OthersSaved

LEMMA LoadSaved ==
  ASSUME Types, SavedInv, NEW p \in Processes, Load(p)
  PROVE  SavedInv'
<1> DEFINE entries == {Loaded(r) : r \in Footer(file)}
           m == [n \in {e.ptr.weight.name : e \in entries} |->
                    CHOOSE e \in entries : e.ptr.weight.name = n]
<1>1. /\ Step(p) /\ Loadable(file) /\ state[p] = "loading" /\ state'[p] = "loaded"
      /\ metadata'[p] = m
      /\ regions'[p] = regions[p] + 1 /\ last_save'[p] = regions[p] + 1
      /\ finalized'[p] = finalized[p] /\ trouble'[p] = trouble[p]
  BY StageIn, LoadIs DEF SessionStays
<1>2. /\ \A e \in entries : \E r \in Footer(file) :
              /\ e.ptr = Mapped(r.page, WeightOf(r)) /\ e.seed = r.seed /\ e \in EntryType
              /\ e.from_load = TRUE /\ e.current = FALSE /\ e.refs = 0
              /\ WeightOf(r) \in Weights /\ r.page \in 1 .. Len(file)
      /\ \A n \in DOMAIN m : n \in STRING /\ m[n] \in entries /\ m[n].ptr.weight.name = n
      /\ m \in [DOMAIN m -> EntryType] /\ DOMAIN m # {}
  BY <1>1, StageIn, LoadedAre
<1> HIDE DEF entries, m
<1>3. ASSUME NEW n \in DOMAIN m PROVE m[n].ptr.kind = "map" /\ m[n].from_load = TRUE
  <2>1. PICK r \in Footer(file) : m[n].ptr = Mapped(r.page, WeightOf(r)) /\ m[n].from_load = TRUE
    BY <1>2
  <2> QED
    BY <2>1 DEF Mapped
<1>4. Unsaved(p)' = {}
  BY <1>1, <1>3 DEF Unsaved
<1>5. MappedSaved(p)'
  BY <1>1, <1>3 DEF MappedSaved
<1>6. Untroubled(p)'
  <2>1. last_save'[p] <= regions'[p]
    BY <1>1, SavedIn
  <2>2. \A n \in DOMAIN m : m[n].ptr.kind # "heap" /\ m[n].ptr.kind # "region"
    BY <1>3
  <2> QED
    BY <1>1, <1>2, <1>4, <2>1, <2>2 DEF Untroubled
<1> QED
  BY <1>1, <1>5, <1>6, OthersSaved DEF SavedOK

LEMMA ReopenSaved ==
  ASSUME Types, SavedInv, NEW p \in Processes, Reopen(p)
  PROVE  SavedInv'
<1>1. /\ Step(p) /\ CacheStays(p) /\ SessionStays(p) /\ state[p] = "loaded" /\ trouble'[p] = trouble[p]
  BY StageIn, ReopenIs
<1>2. \A n \in DOMAIN metadata[p] : metadata[p][n].ptr.kind = "map"
  BY <1>1, StageIn DEF StageOK
<1>3. SavedOK(p)'
  BY <1>1, <1>2, SavedIn DEF SavedOK, MappedSaved, Untroubled, Unsaved, CacheStays, SessionStays
<1> QED
  BY <1>1, <1>3, OthersSaved

LEMMA OpenFreshSaved ==
  ASSUME Types, SavedInv, NEW p \in Processes, OpenFresh(p)
  PROVE  SavedInv'
<1>1. /\ Step(p) /\ SessionStays(p) /\ state[p] = "fresh" /\ trouble'[p] = trouble[p]
      /\ metadata'[p] = metadata[p] /\ last_save'[p] = last_save[p]
      /\ regions'[p] = regions[p] \/ regions'[p] = 0
  BY StageIn, OpenFreshIs DEF CacheStays
<1>2. DOMAIN metadata[p] = {}
  BY <1>1, StageIn DEF StageOK
<1>3. SavedOK(p)'
  <2>1. MappedSaved(p)' /\ Unsaved(p)' = {}
    BY <1>1, <1>2 DEF MappedSaved, Unsaved
  <2>2. ~trouble[p] => regions[p] = 0 /\ last_save[p] = 0
    BY <1>2, SavedIn DEF Untroubled
  <2>3. ~trouble'[p] => Untroubled(p)'
    BY <1>1, <1>2, <2>1, <2>2 DEF Untroubled
  <2> QED
    BY <2>1, <2>3 DEF SavedOK
<1> QED
  BY <1>1, <1>3, OthersSaved

LEMMA PackHitSaved ==
  ASSUME Types, SavedInv, NEW p \in Processes, NEW w \in Weights, PackHit(p, w)
  PROVE  SavedInv'
<1> DEFINE m == metadata[p]
           g == metadata'[p]
<1>1. /\ Step(p) /\ Hit(p, w)
      /\ fd'[p] = fd[p] /\ trouble'[p] = trouble[p]
      /\ metadata'[p] = [metadata[p] EXCEPT ![w.name] = [@ EXCEPT !.current = TRUE]]
      /\ regions'[p] = regions[p] /\ last_save'[p] = last_save[p]
      /\ finalized'[p] = finalized[p]
  BY StageIn, PackHitIs
<1>2. \A n \in DOMAIN m : m[n] \in EntryType
  BY Kinds
<1>3. \A n \in DOMAIN m : [m[n] EXCEPT !.current = TRUE]
         = [seed |-> m[n].seed, refs |-> m[n].refs, current |-> TRUE, from_load |-> m[n].from_load,
            ptr |-> m[n].ptr]
  BY <1>2, EntryUpdates
<1>4. DOMAIN g = DOMAIN m /\ \A n \in DOMAIN m : g[n].ptr = m[n].ptr /\ g[n].from_load = m[n].from_load
  BY <1>1, <1>3
<1> HIDE DEF m, g
<1>5. Unsaved(p)' = Unsaved(p)
  BY <1>4 DEF Unsaved, m, g
<1>6. SavedOK(p)'
  BY <1>1, <1>4, <1>5, SavedIn DEF SavedOK, MappedSaved, Untroubled, m, g
<1> QED
  BY <1>1, <1>6, OthersSaved

LEMMA PackInFileSaved ==
  ASSUME Types, SavedInv, NEW p \in Processes, NEW w \in Weights, PackInFile(p, w)
  PROVE  SavedInv'
<1> DEFINE m == metadata[p]
           g == metadata'[p]
           ptr == Region(used[p] + 1, w)
<1>1. /\ Step(p) /\ state[p] = "compiling" /\ fd[p]
      /\ fd'[p] = fd[p] /\ trouble'[p] = trouble[p]
      /\ metadata'[p] = WithEntry(metadata[p], w, ptr)
      /\ regions'[p] = regions[p] + 1 /\ last_save'[p] = last_save[p]
      /\ finalized'[p] = finalized[p]
  BY StageIn, PackInFileIs
<1>2. ptr \in Pointer /\ ptr.kind = "region" /\ Entry(w, ptr).ptr = ptr
  <2>1. used[p] + 1 \in Nat
    BY StageIn
  <2>2. ptr \in Pointer /\ ptr.kind = "region"
    BY <2>1, PointersAre DEF Region
  <2> HIDE DEF ptr
  <2> QED
    BY <2>2, EntryIs
<1>3. /\ DOMAIN g = DOMAIN m \cup {w.name} /\ g[w.name] = Entry(w, ptr)
      /\ \A n \in DOMAIN m \ {w.name} : g[n] = m[n]
  BY <1>1 DEF WithEntry
<1>4. ~finalized[p]
  BY <1>1, StageIn DEF StageOK
<1>5. \A n \in DOMAIN g : g[n].ptr.kind = "region" \/ (n \in DOMAIN m /\ g[n] = m[n])
  BY <1>2, <1>3
<1>6. DOMAIN g # {}
  BY <1>3
<1> HIDE DEF m, g, ptr
<1>7. MappedSaved(p)'
  BY <1>5, SavedIn DEF MappedSaved, m, g
<1>8. ASSUME ~trouble[p] PROVE Untroubled(p)'
  <2>1. Untroubled(p) /\ regions[p] \in Nat /\ last_save[p] \in Nat
    BY <1>8, SavedIn
  <2>2. last_save'[p] < regions'[p] /\ last_save'[p] <= regions'[p]
    BY <1>1, <2>1 DEF Untroubled
  <2>3. \A n \in DOMAIN g : g[n].ptr.kind # "heap"
    BY <1>5, <2>1 DEF Untroubled, m
  <2>4. fd'[p] /\ ~finalized'[p]
    BY <1>1, <1>4
  <2> QED
    BY <1>6, <2>2, <2>3, <2>4 DEF Untroubled, g
<1> QED
  BY <1>1, <1>7, <1>8, OthersSaved DEF SavedOK

LEMMA PackOnHeapSaved ==
  ASSUME Types, SavedInv, NEW p \in Processes, NEW w \in Weights, PackOnHeap(p, w)
  PROVE  SavedInv'
<1> DEFINE ptr == Heap(w)
<1>1. Step(p) /\ trouble'[p] = TRUE /\ metadata'[p] = WithEntry(metadata[p], w, ptr)
  BY StageIn, PackOnHeapIs
<1>2. ptr \in Pointer /\ ptr.kind = "heap" /\ Entry(w, ptr).ptr = ptr
  BY PointersAre, EntryIs DEF Heap
<1>3. MappedSaved(p)'
  BY <1>1, <1>2, SavedIn DEF MappedSaved, WithEntry
<1> QED
  BY <1>1, <1>3, OthersSaved DEF SavedOK

\* An entry that save_packed_index marks.
LEMMA MarkedIs ==
  ASSUME NEW e \in EntryType
  PROVE  LET d == [e EXCEPT !.from_load = TRUE] IN
         /\ d.ptr = e.ptr /\ d.seed = e.seed /\ d.refs = e.refs /\ d.current = e.current
         /\ d.from_load = TRUE
<1> DEFINE d == [e EXCEPT !.from_load = TRUE]
<1>1. 0 \in Nat /\ TRUE \in BOOLEAN
  OBVIOUS
<1>2. d = [seed |-> e.seed, refs |-> e.refs, current |-> e.current, from_load |-> TRUE, ptr |-> e.ptr]
  BY <1>1, EntryUpdates
<1> HIDE DEF d
<1> QED
  BY <1>2 DEF d

\* Saving the entries m, which differ from the old ones in counts and marks only.
LEMMA SavingSaved ==
  ASSUME Types, SavedInv, NEW p \in Processes, NEW m, NEW flushed, Saving(p, m, flushed),
         DOMAIN m = DOMAIN metadata[p], \A n \in DOMAIN m : Alike(m[n], metadata[p][n]),
         \A n \in DOMAIN m : m[n].from_load = metadata[p][n].from_load,
         fd'[p] = fd[p], regions'[p] = regions[p]
  PROVE  SavedOK(p)'
<1> DEFINE old == metadata[p]
           g == metadata'[p]
<1>1. /\ MappedSaved(p) /\ (~trouble[p] => Untroubled(p))
      /\ regions[p] \in Nat /\ last_save[p] \in Nat /\ fd[p] \in BOOLEAN /\ trouble[p] \in BOOLEAN
  BY SavedIn
<1>2. \A n \in DOMAIN m : /\ m[n] \in EntryType /\ m[n].ptr = old[n].ptr
                          /\ m[n].from_load = old[n].from_load
                          /\ old[n].ptr.kind # "heap" => old[n].ptr \in indexed[p]
  BY Kinds DEF Alike
<1>3. CASE g = m /\ last_save'[p] = last_save[p]
           /\ (trouble'[p] = TRUE
                \/ (trouble'[p] = trouble[p] /\ ~(fd[p] /\ regions[p] > last_save[p])))
  <2> HIDE DEF old, g
  <2>1. /\ DOMAIN g = DOMAIN old
        /\ \A n \in DOMAIN g : g[n].ptr = old[n].ptr /\ g[n].from_load = old[n].from_load
    BY <1>2, <1>3 DEF old
  <2>2. Unsaved(p)' = Unsaved(p)
    BY <2>1 DEF Unsaved, old, g
  <2>3. MappedSaved(p)'
    BY <1>1, <2>1 DEF MappedSaved, old, g
  <2>4. ASSUME ~trouble'[p] PROVE Untroubled(p)'
    <3>1. Untroubled(p) /\ ~(fd[p] /\ regions[p] > last_save[p])
      BY <1>1, <1>3, <2>4
    <3>2. Unsaved(p) = {}
      <4>1. CASE fd[p]
        BY <1>1, <3>1, <4>1 DEF Untroubled
      <4>2. CASE ~fd[p]
        BY <3>1, <4>2 DEF Untroubled, Unsaved
      <4> QED
        BY <4>1, <4>2
    <3> QED
      BY <1>3, <2>1, <2>2, <3>1, <3>2 DEF Untroubled, old, g
  <2> QED
    BY <2>3, <2>4 DEF SavedOK
<1>4. CASE IndexWritten(p, m, flushed)
  <2>1. /\ g = WithIndex(p, m) /\ last_save'[p] = regions[p] /\ trouble'[p] = trouble[p] /\ fd[p]
    BY <1>4 DEF IndexWritten
  <2>2. /\ DOMAIN g = DOMAIN m
        /\ \A n \in DOMAIN m : /\ g[n].ptr = m[n].ptr
                               /\ m[n].ptr \in indexed[p] => g[n].from_load = TRUE
                               /\ m[n].ptr \notin indexed[p] => g[n].from_load = m[n].from_load
    <3>1. \A n \in DOMAIN m : m[n] \in EntryType
      BY <1>2
    <3>2. /\ DOMAIN WithIndex(p, m) = DOMAIN m
          /\ \A n \in DOMAIN m :
               /\ WithIndex(p, m)[n].ptr = m[n].ptr /\ WithIndex(p, m)[n].seed = m[n].seed
               /\ WithIndex(p, m)[n].refs = m[n].refs /\ WithIndex(p, m)[n].current = m[n].current
               /\ m[n].ptr \in indexed[p] => WithIndex(p, m)[n].from_load = TRUE
               /\ m[n].ptr \notin indexed[p] => WithIndex(p, m)[n].from_load = m[n].from_load
      BY <3>1, MarkedIs DEF WithIndex
    <3> HIDE DEF old
    <3> QED
      BY <2>1, <3>2
  <2> HIDE DEF old, g
  <2>3. /\ DOMAIN g = DOMAIN old
        /\ \A n \in DOMAIN g : /\ g[n].ptr = old[n].ptr
                               /\ g[n].ptr.kind # "heap" => g[n].from_load = TRUE
    <3>1. DOMAIN m = DOMAIN old
      BY DEF old
    <3> QED
      BY <1>2, <2>2, <3>1
  <2>4. Unsaved(p)' = {}
    BY <2>3 DEF Unsaved, g
  <2>5. MappedSaved(p)'
    BY <2>3 DEF MappedSaved, g
  <2>6. ASSUME ~trouble'[p] PROVE Untroubled(p)'
    <3>1. Untroubled(p)
      BY <1>1, <2>1, <2>6
    <3>2. last_save'[p] <= regions'[p]
      BY <1>1, <2>1
    <3> QED
      BY <2>1, <2>3, <2>4, <3>1, <3>2 DEF Untroubled, old, g
  <2> QED
    BY <2>5, <2>6 DEF SavedOK
<1> QED
  BY <1>3, <1>4 DEF Saving, NoIndex, IndexFails

LEMMA CountedMarks ==
  ASSUME Types, NEW p \in Processes, NEW n \in DOMAIN metadata[p]
  PROVE  LET e == metadata[p][n]
             d == CountedIn(p)[n] IN
         /\ d.ptr = e.ptr /\ d.seed = e.seed /\ d.from_load = e.from_load
         /\ d.refs = (IF e.current THEN e.refs + 1 ELSE e.refs)
<1> DEFINE e == metadata[p][n]
           c == e.refs + 1
           x == [e EXCEPT !.refs = c, !.current = FALSE]
<1>1. e \in EntryType /\ e.refs \in Nat /\ e.current \in BOOLEAN
  BY Kinds DEF EntryType
<1>2. CountedIn(p)[n] = IF e.current THEN x ELSE e
  BY DEF CountedIn, Current
<1>3. c \in Nat
  BY <1>1
<1> HIDE DEF e, c
<1>4. x = [seed |-> e.seed, refs |-> c, current |-> FALSE, from_load |-> e.from_load, ptr |-> e.ptr]
  BY <1>1, <1>3, EntryUpdates
<1> HIDE DEF x
<1>5. x.ptr = e.ptr /\ x.seed = e.seed /\ x.from_load = e.from_load /\ x.refs = c
  BY <1>4
<1> QED
  BY <1>2, <1>5 DEF e, c

LEMMA FinishSaved ==
  ASSUME Types, SavedInv, NEW p \in Processes, NEW h \in Handles, Finish(p, h)
  PROVE  SavedInv'
<1> DEFINE m == CountedIn(p)
<1>1. /\ Step(p) /\ Saving(p, m, Synced(p)) /\ fd'[p] = fd[p] /\ regions'[p] = regions[p]
  BY StageIn, FinishIs
<1>2. DOMAIN m = DOMAIN metadata[p] /\ \A n \in DOMAIN m : Alike(m[n], metadata[p][n])
  BY CountedFit
<1>3. \A n \in DOMAIN m : m[n].from_load = metadata[p][n].from_load
  BY <1>2, CountedMarks
<1> HIDE DEF m
<1>4. SavedOK(p)'
  BY <1>1, <1>2, <1>3, SavingSaved
<1> QED
  BY <1>1, <1>4, OthersSaved

LEMMA SaveAllSaved ==
  ASSUME Types, SavedInv, NEW p \in Processes, SaveAll(p)
  PROVE  SavedInv'
<1>1. /\ Step(p) /\ Saving(p, metadata[p], durable) /\ fd'[p] = fd[p] /\ regions'[p] = regions[p]
  BY StageIn, SaveAllIs
<1>2. \A n \in DOMAIN metadata[p] : Alike(metadata[p][n], metadata[p][n])
  BY Kinds DEF Alike
<1>3. SavedOK(p)'
  BY <1>1, <1>2, SavingSaved
<1> QED
  BY <1>1, <1>3, OthersSaved

\* With the lock held until now, every entry is in the index by the time runtimes
\* are destroyed, and none is deleted.
LEMMA DestroySaved ==
  ASSUME Types, SavedInv, NEW p \in Processes, NEW h \in Handles, Destroy(p, h)
  PROVE  SavedInv'
<1> DEFINE names == runtimes[p][h].names
           known == names \cap DOMAIN metadata[p]
<1>1. /\ Step(p) /\ finalized'[p] = finalized[p] /\ last_save'[p] = last_save[p]
      /\ trouble'[p] = trouble[p]
      /\ \/ CacheStays(p) /\ fd'[p] = fd[p]
         \/ /\ finalized[p] /\ names # {}
            /\ \E some \in SUBSET known, complete \in BOOLEAN :
                 (complete => some = names) /\ Deleting(p, some, complete)
  <2>1. /\ Step(p) /\ finalized'[p] = finalized[p] /\ last_save'[p] = last_save[p]
        /\ trouble'[p] = trouble[p]
        /\ \/ (names = {} \/ ~finalized[p]) /\ CacheStays(p) /\ fd'[p] = fd[p]
           \/ /\ finalized[p] /\ names # {}
              /\ \E some \in SUBSET known, complete \in BOOLEAN :
                    /\ complete => some = names
                    /\ known = names => complete
                    /\ Deleting(p, some, complete)
    BY StageIn, DestroyIs
  <2> QED
    BY <2>1
<1>2. CASE CacheStays(p) /\ fd'[p] = fd[p]
  BY <1>1, <1>2, QuietSaved
<1>3. ASSUME NEW some \in SUBSET known, NEW complete \in BOOLEAN, Deleting(p, some, complete),
             complete => some = names, finalized[p], names # {}
      PROVE  SavedInv'
  <2> DEFINE m == metadata[p]
             g == metadata'[p]
  <2>1. some \in SUBSET DOMAIN m
    OBVIOUS
  <2>2. /\ g = [n \in DOMAIN g |-> g[n]] /\ DOMAIN g = Kept(p, some) /\ DOMAIN g \subseteq DOMAIN m
        /\ \A n \in DOMAIN g : /\ Alike(g[n], m[n]) /\ g[n].from_load = m[n].from_load
                               /\ n \notin some => g[n] = m[n]
                               /\ n \in some => g[n].refs = CountLeft(p, n)
        /\ \A n \in DOMAIN g : m[n].ptr \in slots'[p] \/ DOMAIN g = {}
        /\ slots'[p] \subseteq slots[p] /\ indexed'[p] \subseteq indexed[p]
        /\ DOMAIN g = {} \/ (indexed'[p] = indexed[p] /\ regions'[p] = regions[p] /\ fd'[p] = fd[p])
    BY <1>3, <2>1, DeletingIs
  <2> HIDE DEF m, g, names
  <2>3. \A n \in DOMAIN g : n \in DOMAIN m /\ g[n].ptr = m[n].ptr /\ g[n].from_load = m[n].from_load
    BY <2>2 DEF Alike
  <2>4. MappedSaved(p)'
    BY <2>3, SavedIn DEF MappedSaved, m, g
  <2>5. ASSUME ~trouble[p] PROVE Untroubled(p)'
    <3>1. Untroubled(p) /\ MappedSaved(p)
      BY <2>5, SavedIn
    <3>2. ASSUME NEW n \in DOMAIN m PROVE m[n].from_load = TRUE
      <4>1. /\ m[n].ptr.kind \in {"heap", "region", "map"} /\ m[n].from_load \in BOOLEAN
            /\ m[n].ptr.kind # "heap"
        BY <3>1, Kinds DEF Untroubled, m
      <4>2. CASE m[n].ptr.kind = "map"
        BY <3>1, <4>1, <4>2 DEF MappedSaved, m
      <4>3. CASE m[n].ptr.kind = "region"
        BY <1>3, <3>1, <4>1, <4>3 DEF Untroubled, Unsaved, m
      <4> QED
        BY <4>1, <4>2, <4>3
    <3>3. Gone(p, some) = {}
      BY <2>1, <3>2 DEF Gone, Deletable, m
    <3>4. DOMAIN g = DOMAIN m
      BY <2>2, <3>3 DEF Kept, m
    <3>5. regions'[p] = regions[p] /\ fd'[p] = fd[p]
      <4>1. CASE DOMAIN g = {}
        <5>1. some = {} /\ ~complete
          BY <1>3, <2>1, <3>4, <4>1
        <5> QED
          BY <1>3, <5>1 DEF Deleting
      <4> QED
        BY <2>2, <4>1
    <3>6. Unsaved(p)' = Unsaved(p)
      BY <2>3, <3>4 DEF Unsaved, m, g
    <3> QED
      BY <1>1, <2>3, <3>1, <3>4, <3>5, <3>6 DEF Untroubled, m, g
  <2>6. SavedOK(p)'
    BY <1>1, <2>4, <2>5 DEF SavedOK
  <2> QED
    BY <1>1, <2>6, OthersSaved
<1> QED
  BY <1>1, <1>2, <1>3

LEMMA SavedInit == Init => SavedInv
<1> SUFFICES ASSUME Init, NEW p \in Processes PROVE SavedOK(p)
  BY DEF SavedInv
<1> DEFINE nil == <<>>
<1>1. /\ metadata[p] = nil /\ last_save[p] = 0 /\ regions[p] = 0 /\ finalized[p] = FALSE
  BY DEF Init
<1>2. DOMAIN nil = {}
  OBVIOUS
<1> HIDE DEF nil
<1> QED
  BY <1>1, <1>2 DEF SavedOK, MappedSaved, Untroubled, Unsaved

LEMMA SavedNext == Types /\ SavedInv /\ [Next]_vars => SavedInv'
<1> SUFFICES ASSUME Types, SavedInv, [Next]_vars PROVE SavedInv'
  OBVIOUS
<1>1. ASSUME NEW p \in Processes, Start(p) PROVE SavedInv'
  <2>1. /\ Step(p) /\ CacheStays(p) /\ SessionStays(p) /\ fd'[p] = fd[p] /\ trouble'[p] = trouble[p]
    BY <1>1, StageIn, StartIs
  <2> QED
    BY <2>1, QuietSaved DEF SessionStays
<1>2. ASSUME NEW p \in Processes, Begin(p) PROVE SavedInv'
  <2>1. /\ Step(p) /\ CacheStays(p) /\ finalized'[p] = FALSE /\ trouble'[p] = trouble[p]
        /\ (fd[p] => fd'[p])
    BY <1>2, StageIn, BeginIs
  <2> QED
    BY <2>1, QuietSaved
<1>3. ASSUME NEW p \in Processes, LoadFails(p) PROVE SavedInv'
  <2>1. /\ Step(p) /\ CacheStays(p) /\ SessionStays(p) /\ fd'[p] = fd[p] /\ trouble'[p] = trouble[p]
    BY <1>3, StageIn, LoadFailsIs
  <2> QED
    BY <2>1, QuietSaved DEF SessionStays
<1>4. ASSUME NEW p \in Processes, CompileFails(p) PROVE SavedInv'
  <2>1. /\ Step(p) /\ CacheStays(p) /\ finalized'[p] = finalized[p] /\ fd'[p] = fd[p]
        /\ trouble'[p] = trouble[p]
    BY <1>4, StageIn, CompileFailsIs
  <2> QED
    BY <2>1, QuietSaved
<1>5. ASSUME NEW p \in Processes, NEW w \in Weights, PackHit(p, w) \/ PackInFile(p, w) \/ PackOnHeap(p, w)
      PROVE  SavedInv'
  BY <1>5, PackHitSaved, PackInFileSaved, PackOnHeapSaved
<1>6. ASSUME NEW p \in Processes, NEW h \in Handles, Finish(p, h) \/ Destroy(p, h)
      PROVE  SavedInv'
  BY <1>6, FinishSaved, DestroySaved
<1>7. ASSUME NEW p \in Processes, Crash(p) \/ Load(p) \/ Reopen(p) \/ OpenFresh(p) \/ SaveAll(p)
      PROVE  SavedInv'
  BY <1>7, CrashSaved, LoadSaved, ReopenSaved, OpenFreshSaved, SaveAllSaved
<1>8. CASE UNCHANGED vars
  BY <1>8 DEF vars, disk, cache, session, SavedInv, SavedOK, MappedSaved, Untroubled, Unsaved
<1> QED
  BY <1>1, <1>2, <1>3, <1>4, <1>5, <1>6, <1>7, <1>8 DEF Next

LEMMA IndexedAlike ==
  ASSUME Types, NEW p \in Processes
  PROVE  LET m == CountedIn(p)
             g == WithIndex(p, m) IN
         DOMAIN g = DOMAIN m /\ \A n \in DOMAIN m : g[n].ptr = m[n].ptr /\ g[n].seed = m[n].seed
<1> DEFINE m == CountedIn(p)
<1>1. \A n \in DOMAIN m : m[n] \in EntryType
  BY CountedFit DEF Alike
<1> HIDE DEF m
<1> QED
  BY <1>1, MarkedIs DEF WithIndex, m

\* A compilation that no call failed for ends with an index of every entry.
LEMMA FinishIndexes ==
  ASSUME Types, SavedInv, NEW p \in Processes, NEW h \in Handles, Finish(p, h),
         fd[p], Unsaved(p) # {}, ~trouble'[p]
  PROVE  AllIndexed(p)'
<1> DEFINE m == CountedIn(p)
           g == metadata'[p]
           flushed == Synced(p)
           records == Records(p, m)
<1>1. Saving(p, m, flushed) /\ indexed'[p] = indexed[p]
  BY StageIn, FinishIs
<1>2. /\ DOMAIN m = DOMAIN metadata[p]
      /\ \A n \in DOMAIN m : m[n] \in EntryType /\ m[n].ptr = metadata[p][n].ptr
  BY CountedFit DEF Alike
<1>3. IndexWritten(p, m, flushed)
  <2>1. ~IndexFails(p, m, flushed)
    BY DEF IndexFails
  <2>2. ASSUME NoIndex(p, m, flushed) PROVE FALSE
    <3>1. ~trouble[p] /\ ~(regions[p] > last_save[p])
      BY <2>2 DEF NoIndex
    <3>2. last_save[p] < regions[p]
      BY <3>1, SavedIn DEF Untroubled
    <3> QED
      BY <3>1, <3>2, SavedIn
  <2> QED
    BY <1>1, <2>1, <2>2 DEF Saving
<1>4. /\ g = WithIndex(p, m) /\ used[p] \in Nat
      /\ file' = [Resized(used[p] + 1) EXCEPT ![used[p] + 1] = Index(records)]
  BY <1>3, StageIn DEF IndexWritten
<1>5. Len(file') = used[p] + 1 /\ file'[Len(file')] = Index(records)
  <2> HIDE DEF records, m
  <2> QED
    BY <1>4, WrittenFooter
<1>6. /\ DOMAIN WithIndex(p, m) = DOMAIN m
      /\ \A n \in DOMAIN m : WithIndex(p, m)[n].ptr = m[n].ptr /\ WithIndex(p, m)[n].seed = m[n].seed
  BY IndexedAlike
<1> HIDE DEF m, g, flushed
<1>7. DOMAIN g = DOMAIN m /\ \A n \in DOMAIN m : g[n].ptr = m[n].ptr /\ g[n].seed = m[n].seed
  BY <1>4, <1>6
<1>8. Records(p, metadata[p])' = records
  <2> DEFINE S == {n \in DOMAIN m : m[n].ptr \in indexed[p]}
             T == {n \in DOMAIN g : g[n].ptr \in indexed'[p]}
             Of(f, n) == [name |-> n, seed |-> f[n].seed, page |-> f[n].ptr.page]
  <2>1. S = T
    BY <1>1, <1>7
  <2>2. \A n \in S : Of(m, n) = Of(g, n)
    BY <1>7
  <2>3. records = {Of(m, n) : n \in S}
    BY DEF Records
  <2>4. Records(p, metadata[p])' = {Of(g, n) : n \in T}
    BY DEF Records, g
  <2> HIDE DEF S, T, Of, records
  <2> QED
    BY <2>1, <2>2, <2>3, <2>4
<1>9. records # {}
  <2>1. PICK n \in DOMAIN metadata[p] : metadata[p][n].ptr.kind = "region"
    BY DEF Unsaved
  <2>2. n \in DOMAIN m /\ m[n].ptr \in indexed[p]
    BY <1>2, <2>1, Kinds
  <2> QED
    BY <2>2 DEF Records
<1>10. Loadable(file') /\ Footer(file') = records
  <2> DEFINE nil == <<>>
  <2>1. Len(nil) = 0
    OBVIOUS
  <2> HIDE DEF nil, records
  <2>2. file' # nil
    BY <1>4, <1>5, <2>1
  <2>3. file'[Len(file')].tag = "index" /\ file'[Len(file')].records = records
    BY <1>5 DEF Index
  <2> QED
    BY <1>9, <2>2, <2>3 DEF Loadable, Footer, nil
<1> QED
  BY <1>8, <1>10 DEF AllIndexed

\* SavedWhenFinished, for any number of processes, handles, weights and pages:
\* finalize_for_runtime compares mmap_regions_ with the count at the last save, and
\* in a process without a failure that tells it every time that there are entries
\* the file does not list.
THEOREM FinishedMeansIndexed == Spec => SavedWhenFinished
<1> DEFINE Indexed == \A p \in Processes : \A h \in Handles :
                         Finish(p, h) /\ fd[p] /\ Unsaved(p) # {} /\ ~trouble'[p] => AllIndexed(p)'
<1>1. Types /\ SavedInv => Indexed
  BY FinishIndexes
<1>2. Types /\ SavedInv /\ [Next]_vars => [Indexed]_vars
  BY <1>1
<1> HIDE DEF Indexed
<1>3. Spec => [][Indexed]_vars
  BY <1>2, TypesInit, TypesNext, SavedInit, SavedNext, PTL DEF Spec
<1> QED
  BY <1>3 DEF SavedWhenFinished, Indexed, AllIndexed

-----------------------------------------------------------------------------
(* The file *)

\* Every index of the file, the last one or an old one, names the data behind it,
\* and so does every pointer into the file that a process has.
IndexesSound == \A i \in 1 .. Len(file) : file[i].tag = "index" =>
    \A r \in file[i].records : file[r.page] = Data(WeightOf(r))
PointersOK(p) == /\ used[p] <= Len(file)
                 /\ \A ptr \in indexed[p] :
                      ptr.page \in 1 .. used[p] /\ file[ptr.page] = Data(ptr.weight)
FileInv == IndexesSound /\ \A p \in Processes : PointersOK(p)

\* Pages that hold an index name pages before theirs.
LEMMA OldRecords ==
  ASSUME FileOK(file), NEW i \in 1 .. Len(file), file[i].tag = "index", NEW r \in file[i].records
  PROVE  r.page \in 1 .. i - 1
<1>1. PageOK(file[i], i)
  BY DEF FileOK
<1>2. file[i] # Blank /\ \A w \in Weights : file[i] # Data(w)
  BY DEF Blank, Data
<1> QED
  BY <1>1, <1>2 DEF PageOK, IndexOK

LEMMA ResizedSound ==
  ASSUME FileOK(file), IndexesSound, NEW k \in Nat, file' = Resized(k)
  PROVE  /\ IndexesSound' /\ Len(file') = k
         /\ \A i \in 1 .. k : i <= Len(file) => file'[i] = file[i]
<1>1. /\ Len(file') = k
      /\ \A i \in 1 .. k : file'[i] = IF i <= Len(file) THEN file[i] ELSE Blank
  BY ResizedIs
<1>2. Len(file) \in Nat
  BY DiskAssumption DEF FileOK
<1>3. ASSUME NEW i \in 1 .. k, file'[i].tag = "index", NEW r \in file'[i].records
      PROVE  file'[r.page] = Data(WeightOf(r))
  <2>1. i <= Len(file)
    <3>1. CASE ~(i <= Len(file))
      BY <1>1, <1>3, <3>1 DEF Blank
    <3> QED
      BY <3>1
  <2>2. i \in 1 .. Len(file) /\ file'[i] = file[i]
    BY <1>1, <1>2, <2>1
  <2>3. r.page \in 1 .. i - 1 /\ file[r.page] = Data(WeightOf(r))
    BY <1>3, <2>2, OldRecords DEF IndexesSound
  <2>4. r.page \in 1 .. k /\ r.page <= Len(file)
    BY <1>2, <2>1, <2>3
  <2> QED
    BY <1>1, <2>3, <2>4
<1> QED
  BY <1>1, <1>3 DEF IndexesSound

LEMMA WrittenSound ==
  ASSUME FileOK(file), IndexesSound, NEW u \in Nat, u <= Len(file), NEW x,
         file' = [Resized(u + 1) EXCEPT ![u + 1] = x],
         x.tag = "index" => \A r \in x.records : r.page \in 1 .. u /\ file[r.page] = Data(WeightOf(r))
  PROVE  /\ IndexesSound' /\ Len(file') = u + 1 /\ file'[u + 1] = x
         /\ \A i \in 1 .. u : file'[i] = file[i]
<1> DEFINE f == [Resized(u + 1) EXCEPT ![u + 1] = x]
<1>1. /\ Len(f) = u + 1 /\ f[u + 1] = x
      /\ \A i \in 1 .. u : f[i] = IF i <= Len(file) THEN file[i] ELSE Blank
  BY WrittenIs
<1>2. Len(file) \in Nat
  BY DiskAssumption DEF FileOK
<1>3. file' = f
  OBVIOUS
<1> HIDE DEF f
<1>4. Len(file') = u + 1 /\ file'[u + 1] = x /\ \A i \in 1 .. u : file'[i] = file[i]
  BY <1>1, <1>2, <1>3
<1>5. ASSUME NEW i \in 1 .. u + 1, file'[i].tag = "index", NEW r \in file'[i].records
      PROVE  file'[r.page] = Data(WeightOf(r))
  <2>1. r.page \in 1 .. u /\ file[r.page] = Data(WeightOf(r))
    <3>1. CASE i = u + 1
      BY <1>4, <1>5, <3>1
    <3>2. CASE i # u + 1
      <4>1. i \in 1 .. u /\ i \in 1 .. Len(file) /\ file'[i] = file[i]
        BY <1>2, <1>4, <3>2
      <4>2. r.page \in 1 .. i - 1 /\ file[r.page] = Data(WeightOf(r))
        BY <1>5, <4>1, OldRecords DEF IndexesSound
      <4> QED
        BY <4>1, <4>2
    <3> QED
      BY <3>1, <3>2
  <2> QED
    BY <1>4, <2>1
<1> QED
  BY <1>4, <1>5 DEF IndexesSound

\* The other processes have no pointers into the file.
LEMMA AloneOK ==
  ASSUME Types, OneAtATime, FileInv, NEW p \in Processes, state[p] # "down", Step(p), FileOK(file'),
         IndexesSound', PointersOK(p)'
  PROVE  FileInv'
<1>1. ASSUME NEW q \in Processes \ {p} PROVE PointersOK(q)'
  <2>1. state[q] = "down"
    BY DEF OneAtATime
  <2>2. indexed[q] = {} /\ used[q] = 0
    BY <2>1, StageIn DEF StageOK
  <2>3. indexed'[q] = {} /\ used'[q] = 0 /\ 0 <= Len(file')
    BY <2>2, DiskAssumption DEF Step, Stays, CacheStays, FileOK
  <2> QED
    BY <2>3 DEF PointersOK
<1> QED
  BY <1>1 DEF FileInv

LEMMA FileIn ==
  ASSUME Types, FileInv, NEW p \in Processes
  PROVE  /\ IndexesSound /\ PointersOK(p) /\ FileOK(file) /\ Len(file) \in Nat /\ used[p] \in Nat
         /\ used[p] <= Len(file)
BY StageIn, DiskAssumption DEF FileInv, FileOK, PointersOK

LEMMA QuietFile ==
  ASSUME Types, FileInv, NEW p \in Processes, Step(p), DiskStays,
         used'[p] = used[p], indexed'[p] \subseteq indexed[p]
  PROVE  FileInv'
<1>1. PointersOK(p)'
  BY FileIn DEF PointersOK, DiskStays
<1>2. ASSUME NEW q \in Processes \ {p} PROVE PointersOK(q)'
  BY FileIn DEF Step, Stays, CacheStays, PointersOK, DiskStays
<1>3. IndexesSound'
  BY FileIn DEF IndexesSound, DiskStays
<1> QED
  BY <1>1, <1>2, <1>3 DEF FileInv

LEMMA CrashFile ==
  ASSUME Types, FileInv, NEW p \in Processes, Crash(p)
  PROVE  FileInv'
<1>1. Step(p) /\ DiskStays /\ used'[p] = 0 /\ indexed'[p] = {}
  BY StageIn, CrashIs
<1>2. PointersOK(p)'
  BY <1>1, FileIn DEF PointersOK, DiskStays
<1>3. ASSUME NEW q \in Processes \ {p} PROVE PointersOK(q)'
  BY <1>1, FileIn DEF Step, Stays, CacheStays, PointersOK, DiskStays
<1>4. IndexesSound'
  BY <1>1, FileIn DEF IndexesSound, DiskStays
<1> QED
  BY <1>2, <1>3, <1>4 DEF FileInv

LEMMA LoadFile ==
  ASSUME Types, OneAtATime, FileInv, NEW p \in Processes, Load(p)
  PROVE  FileInv'
<1> DEFINE entries == {Loaded(r) : r \in Footer(file)}
           ptrs == {e.ptr : e \in entries}
<1>1. /\ Step(p) /\ DiskStays /\ Loadable(file) /\ state[p] = "loading"
      /\ indexed'[p] = indexed[p] \cup ptrs /\ used'[p] = Len(file)
  BY StageIn, LoadIs
<1>2. /\ Footer(file) = file[Len(file)].records /\ file[Len(file)].tag = "index"
      /\ Len(file) \in 1 .. Len(file) /\ Len(file) \in Nat
      /\ IndexOK(Footer(file), Len(file))
  BY <1>1, FileIn, FooterIs
<1>3. ASSUME NEW ptr \in ptrs
      PROVE  ptr.page \in 1 .. Len(file) /\ file[ptr.page] = Data(ptr.weight)
  <2>1. PICK r \in Footer(file) : ptr = Loaded(r).ptr
    OBVIOUS
  <2>2. ptr.page = r.page /\ ptr.weight = WeightOf(r)
    BY <2>1 DEF Loaded, Mapped, WeightOf
  <2>3. r.page \in 1 .. Len(file) /\ file[r.page] = Data(WeightOf(r))
    BY <1>2, FileIn DEF IndexesSound, IndexOK
  <2> QED
    BY <2>2, <2>3
<1> HIDE DEF ptrs
<1>4. ASSUME NEW ptr \in indexed[p]
      PROVE  ptr.page \in 1 .. Len(file) /\ file[ptr.page] = Data(ptr.weight)
  BY FileIn DEF PointersOK
<1>5. PointersOK(p)'
  BY <1>1, <1>2, <1>3, <1>4 DEF PointersOK, DiskStays
<1>6. IndexesSound'
  BY <1>1, FileIn DEF IndexesSound, DiskStays
<1> QED
  BY <1>1, <1>5, <1>6, StageIn, AloneOK DEF DiskStays

LEMMA OpenFreshFile ==
  ASSUME Types, OneAtATime, FileInv, NEW p \in Processes, OpenFresh(p)
  PROVE  FileInv'
<1> DEFINE nil == <<>>
<1>1. /\ Step(p) /\ state[p] = "fresh"
      /\ \/ DiskStays /\ CacheStays(p)
         \/ file' = nil /\ used'[p] = 0 /\ indexed'[p] = {}
  BY StageIn, OpenFreshIs
<1>2. Types'
  BY OpenFreshOK
<1>3. Len(nil) = 0
  OBVIOUS
<1> HIDE DEF nil
<1>4. CASE DiskStays /\ CacheStays(p)
  BY <1>1, <1>4, QuietFile DEF CacheStays
<1>5. CASE file' = nil /\ used'[p] = 0 /\ indexed'[p] = {}
  <2>1. PointersOK(p)'
    BY <1>3, <1>5 DEF PointersOK
  <2>2. IndexesSound'
    BY <1>3, <1>5 DEF IndexesSound
  <2> QED
    BY <1>1, <1>2, <2>1, <2>2, AloneOK DEF Types
<1> QED
  BY <1>1, <1>4, <1>5

LEMMA PackInFileFile ==
  ASSUME Types, OneAtATime, FileInv, NEW p \in Processes, NEW w \in Weights, PackInFile(p, w)
  PROVE  FileInv'
<1> DEFINE u == used[p]
           ptr == Region(u + 1, w)
           x == Data(w)
<1>1. /\ Step(p) /\ state[p] = "compiling"
      /\ file' = [Resized(u + 1) EXCEPT ![u + 1] = x]
      /\ indexed'[p] = indexed[p] \cup {ptr} /\ used'[p] = u + 1
  BY StageIn, PackInFileIs
<1>2. FileOK(file')
  BY PackInFileOK DEF Types
<1>3. ptr.page = u + 1 /\ Data(ptr.weight) = x /\ x.tag # "index"
  BY DEF Region, Data
<1>4. u \in Nat /\ u <= Len(file) /\ IndexesSound /\ FileOK(file)
  BY FileIn
<1>5. \A q \in indexed[p] : q.page \in 1 .. u /\ file[q.page] = Data(q.weight)
  BY FileIn DEF PointersOK
<1> HIDE DEF u, ptr, x
<1>6. /\ IndexesSound' /\ Len(file') = u + 1 /\ file'[u + 1] = x
      /\ \A i \in 1 .. u : file'[i] = file[i]
  BY <1>1, <1>3, <1>4, WrittenSound
<1>7. PointersOK(p)'
  <2>1. ASSUME NEW q \in indexed'[p] PROVE q.page \in 1 .. u + 1 /\ file'[q.page] = Data(q.weight)
    <3>1. CASE q \in indexed[p]
      <4>1. q.page \in 1 .. u /\ file[q.page] = Data(q.weight) /\ file'[q.page] = file[q.page]
        BY <1>5, <1>6, <3>1
      <4> QED
        BY <1>4, <4>1
    <3>2. CASE q = ptr
      BY <1>3, <1>4, <1>6, <3>2
    <3> QED
      BY <1>1, <3>1, <3>2
  <2> QED
    BY <1>1, <1>4, <1>6, <2>1 DEF PointersOK
<1> QED
  BY <1>1, <1>2, <1>6, <1>7, AloneOK

LEMMA PackOnHeapFile ==
  ASSUME Types, OneAtATime, FileInv, NEW p \in Processes, NEW w \in Weights, PackOnHeap(p, w)
  PROVE  FileInv'
<1> DEFINE u == used[p]
<1>1. /\ Step(p) /\ state[p] = "compiling"
      /\ DiskStays \/ file' = Resized(u + 1)
      /\ indexed'[p] = indexed[p] /\ used'[p] = u
  BY StageIn, PackOnHeapIs
<1>2. FileOK(file')
  BY PackOnHeapOK DEF Types
<1>3. u \in Nat /\ u + 1 \in Nat /\ u <= Len(file) /\ Len(file) \in Nat /\ IndexesSound /\ FileOK(file)
  BY FileIn
<1>4. \A q \in indexed[p] : q.page \in 1 .. u /\ file[q.page] = Data(q.weight)
  BY FileIn DEF PointersOK
<1>5. CASE DiskStays
  BY <1>1, <1>5, QuietFile
<1>6. CASE file' = Resized(u + 1)
  <2> HIDE DEF u
  <2>1. /\ IndexesSound' /\ Len(file') = u + 1
        /\ \A i \in 1 .. u + 1 : i <= Len(file) => file'[i] = file[i]
    BY <1>3, <1>6, ResizedSound
  <2>2. \A i \in 1 .. u : file'[i] = file[i]
    BY <1>3, <2>1
  <2>3. PointersOK(p)'
    BY <1>1, <1>3, <1>4, <2>1, <2>2 DEF PointersOK
  <2> QED
    BY <1>1, <1>2, <2>1, <2>3, AloneOK
<1> QED
  BY <1>1, <1>5, <1>6

\* Saving: the index names data that is in the file, and what follows the last data
\* is no data of anyone.
LEMMA SavingFile ==
  ASSUME Types, FileInv, NEW p \in Processes, NEW m, NEW flushed, Saving(p, m, flushed),
         EntriesFit(m, slots[p], indexed[p], used[p]), indexed'[p] = indexed[p]
  PROVE  IndexesSound' /\ PointersOK(p)'
<1> DEFINE u == used[p]
<1>1. u \in Nat /\ u <= Len(file) /\ IndexesSound /\ FileOK(file)
  BY FileIn
<1>2. \A q \in indexed[p] : q.page \in 1 .. u /\ file[q.page] = Data(q.weight)
  BY FileIn DEF PointersOK
<1>3. CASE file' = file /\ used'[p] = u
  BY <1>1, <1>2, <1>3 DEF IndexesSound, PointersOK
<1>4. ASSUME NEW x, file' = [Resized(u + 1) EXCEPT ![u + 1] = x], used'[p] \in {u, u + 1},
             x.tag = "index" => \A r \in x.records : r.page \in 1 .. u /\ file[r.page] = Data(WeightOf(r))
      PROVE  IndexesSound' /\ PointersOK(p)'
  <2> HIDE DEF u
  <2>1. IndexesSound' /\ Len(file') = u + 1 /\ \A i \in 1 .. u : file'[i] = file[i]
    BY <1>1, <1>4, WrittenSound
  <2>2. \A q \in indexed[p] : q.page \in 1 .. used'[p] /\ file'[q.page] = Data(q.weight)
    BY <1>1, <1>2, <1>4, <2>1
  <2>3. used'[p] <= Len(file')
    BY <1>1, <1>4, <2>1
  <2> QED
    BY <2>1, <2>2, <2>3 DEF PointersOK
<1>5. CASE NoIndex(p, m, flushed)
  BY <1>3, <1>5 DEF NoIndex
<1>6. CASE IndexFails(p, m, flushed)
  <2>1. Blank.tag # "index"
    BY DEF Blank
  <2>2. CASE file' = [Resized(u + 1) EXCEPT ![u + 1] = Blank]
    <3> HIDE DEF u
    <3>1. used'[p] \in {u, u + 1}
      BY <1>6 DEF IndexFails, u
    <3> QED
      BY <1>4, <2>1, <2>2, <3>1
  <2> QED
    BY <1>3, <1>6, <2>2 DEF IndexFails
<1>7. CASE IndexWritten(p, m, flushed)
  <2> DEFINE x == Index(Records(p, m))
  <2>1. ASSUME NEW r \in x.records PROVE r.page \in 1 .. u /\ file[r.page] = Data(WeightOf(r))
    <3>1. r \in Records(p, m)
      BY DEF Index
    <3>2. indexed[p] \subseteq Pointer /\ \A ptr \in indexed[p] : ptr.kind # "heap"
      BY StageIn DEF CacheTypes
    <3>3. PICK n \in DOMAIN m :
              /\ m[n].ptr \in indexed[p] /\ r.page = m[n].ptr.page /\ WeightOf(r) = m[n].ptr.weight
              /\ m[n].ptr \in slots[p] /\ m[n].ptr.kind # "heap" /\ r.page \in 1 .. u
      BY <1>1, <3>1, <3>2, RecordsOK
    <3> QED
      BY <1>2, <3>3
  <2> HIDE DEF u, x
  <2>2. file' = [Resized(u + 1) EXCEPT ![u + 1] = x] /\ used'[p] \in {u, u + 1}
    BY <1>7 DEF IndexWritten, u, x
  <2> QED
    BY <1>4, <2>1, <2>2
<1> QED
  BY <1>5, <1>6, <1>7 DEF Saving

LEMMA FinishFile ==
  ASSUME Types, OneAtATime, FileInv, NEW p \in Processes, NEW h \in Handles, Finish(p, h)
  PROVE  FileInv'
<1>1. /\ Step(p) /\ Saving(p, CountedIn(p), Synced(p)) /\ state[p] = "compiling"
      /\ indexed'[p] = indexed[p]
  BY StageIn, FinishIs
<1>2. EntriesFit(CountedIn(p), slots[p], indexed[p], used[p])
  BY CountedFit
<1>3. FileOK(file')
  BY FinishOK DEF Types
<1>4. IndexesSound' /\ PointersOK(p)'
  BY <1>1, <1>2, SavingFile
<1> QED
  BY <1>1, <1>3, <1>4, AloneOK

LEMMA SaveAllFile ==
  ASSUME Types, OneAtATime, FileInv, NEW p \in Processes, SaveAll(p)
  PROVE  FileInv'
<1>1. /\ Step(p) /\ Saving(p, metadata[p], durable) /\ state[p] = "idle"
      /\ indexed'[p] = indexed[p]
  BY StageIn, SaveAllIs
<1>2. EntriesFit(metadata[p], slots[p], indexed[p], used[p])
  BY StageIn
<1>3. FileOK(file')
  BY SaveAllOK DEF Types
<1>4. IndexesSound' /\ PointersOK(p)'
  BY <1>1, <1>2, SavingFile
<1> QED
  BY <1>1, <1>3, <1>4, AloneOK

LEMMA DestroyFile ==
  ASSUME Types, FileInv, NEW p \in Processes, NEW h \in Handles, Destroy(p, h)
  PROVE  FileInv'
<1>1. /\ Step(p) /\ DiskStays /\ used'[p] = used[p]
      /\ CacheStays(p) \/ \E names, complete : Deleting(p, names, complete)
  BY StageIn, DestroyIs
<1>2. indexed'[p] \subseteq indexed[p]
  BY <1>1 DEF CacheStays, Deleting
<1> QED
  BY <1>1, <1>2, QuietFile

LEMMA FileInit == Init => FileInv
<1> SUFFICES ASSUME Init PROVE FileInv
  OBVIOUS
<1> DEFINE nil == <<>>
<1>1. file = nil /\ \A p \in Processes : used[p] = 0 /\ indexed[p] = {}
  BY DEF Init
<1>2. Len(nil) = 0
  OBVIOUS
<1> HIDE DEF nil
<1> QED
  BY <1>1, <1>2 DEF FileInv, IndexesSound, PointersOK

LEMMA FileNext == Types /\ OneAtATime /\ FileInv /\ [Next]_vars => FileInv'
<1> SUFFICES ASSUME Types, OneAtATime, FileInv, [Next]_vars PROVE FileInv'
  OBVIOUS
<1>1. ASSUME NEW p \in Processes, Start(p) \/ LoadFails(p) \/ Reopen(p) \/ CompileFails(p) PROVE FileInv'
  <2>1. Step(p) /\ DiskStays /\ CacheStays(p)
    BY <1>1, StageIn, StartIs, LoadFailsIs, ReopenIs, CompileFailsIs
  <2> QED
    BY <2>1, QuietFile DEF CacheStays
<1>2. ASSUME NEW p \in Processes, Begin(p) PROVE FileInv'
  <2>1. Step(p) /\ DiskStays /\ CacheStays(p)
    BY <1>2, StageIn, BeginIs
  <2> QED
    BY <2>1, QuietFile DEF CacheStays
<1>3. ASSUME NEW p \in Processes, NEW w \in Weights, PackHit(p, w) PROVE FileInv'
  <2>1. Step(p) /\ DiskStays /\ used'[p] = used[p] /\ indexed'[p] = indexed[p]
    BY <1>3, StageIn, PackHitIs
  <2> QED
    BY <2>1, QuietFile
<1>4. ASSUME NEW p \in Processes, NEW w \in Weights, PackInFile(p, w) \/ PackOnHeap(p, w) PROVE FileInv'
  BY <1>4, PackInFileFile, PackOnHeapFile
<1>5. ASSUME NEW p \in Processes, NEW h \in Handles, Finish(p, h) \/ Destroy(p, h) PROVE FileInv'
  BY <1>5, FinishFile, DestroyFile
<1>6. ASSUME NEW p \in Processes, Crash(p) \/ Load(p) \/ OpenFresh(p) \/ SaveAll(p) PROVE FileInv'
  BY <1>6, CrashFile, LoadFile, OpenFreshFile, SaveAllFile
<1>7. CASE UNCHANGED vars
  BY <1>7 DEF vars, disk, cache, session, FileInv, IndexesSound, PointersOK
<1> QED
  BY <1>1, <1>2, <1>3, <1>4, <1>5, <1>6, <1>7 DEF Next

\* IndexSound, for any number of processes, handles, weights and pages, when the
\* processes run one at a time: whatever calls failed and wherever processes died,
\* load_packed_cache finds behind a record of the index the data of that name and
\* seed.  Without the hypothesis it is false: a process that gives up the lock keeps
\* its entries, and when initialize_for_runtime reopens the file it writes an index
\* of them, although another process may have emptied the file in between.
THEOREM IndexNamesItsData == Spec /\ []OneAtATime => []IndexSound
<1>1. Types /\ FileInv => IndexSound
  <2> SUFFICES ASSUME Types, FileInv, Loadable(file), NEW r \in Footer(file)
               PROVE  file[r.page] = Data([name |-> r.name, seed |-> r.seed])
    BY DEF IndexSound
  <2>1. /\ Footer(file) = file[Len(file)].records /\ file[Len(file)].tag = "index"
        /\ Len(file) \in 1 .. Len(file)
    BY FooterIs, DiskAssumption DEF Types
  <2> QED
    BY <2>1 DEF FileInv, IndexesSound, WeightOf
<1> QED
  BY <1>1, TypesInit, TypesNext, FileInit, FileNext, PTL DEF Spec

-----------------------------------------------------------------------------
(* Names *)

\* When a name stands for one weight, every pointer a process keeps is that of an
\* entry, whose count is at least the number of the runtimes with its name.
EntryOf(p, ptr) == LET n == ptr.weight.name IN
                   n \in DOMAIN metadata[p] /\ metadata[p][n].ptr = ptr
Namers(p, n) == {h \in Handles : n \in runtimes[p][h].names}
UsesNamed(p) == \A h \in Handles :
    /\ runtimes[p][h].names \subseteq DOMAIN metadata[p]
    /\ \A ptr \in runtimes[p][h].uses :
         EntryOf(p, ptr) /\ ptr.weight.name \in runtimes[p][h].names
NamesCounted(p) == \A n \in DOMAIN metadata[p] : Cardinality(Namers(p, n)) <= metadata[p][n].refs
NamesOK(p) == /\ \A ptr \in slots[p] : EntryOf(p, ptr)
              /\ \A ptr \in packed[p] :
                   EntryOf(p, ptr) /\ metadata[p][ptr.weight.name].current = TRUE
              /\ UsesNamed(p) /\ NamesCounted(p)
NamesInv == \A p \in Processes : NamesOK(p)

LEMMA NamersFinite ==
  ASSUME NEW p, NEW n
  PROVE  /\ IsFiniteSet(Namers(p, n)) /\ Cardinality(Namers(p, n)) \in Nat
         /\ Namers(p, n) = {} => Cardinality(Namers(p, n)) = 0
         /\ Cardinality(Namers(p, n)) = 0 => Namers(p, n) = {}
<1>1. Namers(p, n) \subseteq Handles
  BY DEF Namers
<1>2. IsFiniteSet(Namers(p, n))
  BY <1>1, HandlesAssumption, FS_Subset
<1> QED
  BY <1>2, FS_CardinalityType, FS_EmptySet

LEMMA OthersNamed ==
  ASSUME NamesInv, NEW p \in Processes, Step(p), NamesOK(p)'
  PROVE  NamesInv'
<1>1. ASSUME NEW q \in Processes \ {p} PROVE NamesOK(q)'
  <2>1. /\ metadata'[q] = metadata[q] /\ slots'[q] = slots[q] /\ packed'[q] = packed[q]
        /\ runtimes'[q] = runtimes[q]
    BY DEF Step, Stays, CacheStays, SessionStays
  <2>2. NamesOK(q)
    BY DEF NamesInv
  <2>3. \A ptr : EntryOf(q, ptr)' <=> EntryOf(q, ptr)
    BY <2>1 DEF EntryOf
  <2>4. UsesNamed(q)'
    BY <2>1, <2>2, <2>3 DEF NamesOK, UsesNamed
  <2>5. NamesCounted(q)'
    BY <2>1, <2>2 DEF NamesOK, NamesCounted, Namers
  <2> QED
    BY <2>1, <2>2, <2>3, <2>4, <2>5 DEF NamesOK
<1> QED
  BY <1>1 DEF NamesInv

LEMMA QuietNamed ==
  ASSUME NamesInv, NEW p \in Processes, Step(p), metadata'[p] = metadata[p], slots'[p] = slots[p],
         runtimes'[p] = runtimes[p], packed'[p] \subseteq packed[p]
  PROVE  NamesInv'
<1>1. NamesOK(p)'
  BY DEF NamesInv, NamesOK, UsesNamed, NamesCounted, Namers, EntryOf
<1> QED
  BY <1>1, OthersNamed

\* Nothing names or uses an entry of a cache without entries.
LEMMA NothingNamed ==
  ASSUME NamesInv, NEW p \in Processes, DOMAIN metadata[p] = {}
  PROVE  /\ slots[p] = {} /\ packed[p] = {}
         /\ \A h \in Handles : runtimes[p][h].names = {} /\ runtimes[p][h].uses = {}
BY DEF NamesInv, NamesOK, UsesNamed, EntryOf

LEMMA CrashNamed ==
  ASSUME Types, NamesInv, NEW p \in Processes, Crash(p)
  PROVE  NamesInv'
<1> DEFINE nil == <<>>
<1>1. /\ Step(p) /\ metadata'[p] = nil /\ slots'[p] = {} /\ packed'[p] = {}
      /\ runtimes'[p] = [h \in Handles |-> NoRuntime]
  BY StageIn, CrashIs
<1>2. DOMAIN nil = {}
  OBVIOUS
<1> HIDE DEF nil
<1>3. \A h \in Handles : runtimes'[p][h].names = {} /\ runtimes'[p][h].uses = {}
  BY <1>1 DEF NoRuntime
<1>4. NamesOK(p)'
  BY <1>1, <1>2, <1>3 DEF NamesOK, UsesNamed, NamesCounted
<1> QED
  BY <1>1, <1>4, OthersNamed

LEMMA LoadNamed ==
  ASSUME Types, NamesInv, NEW p \in Processes, Load(p)
  PROVE  NamesInv'
<1> DEFINE entries == {Loaded(r) : r \in Footer(file)}
           m == [n \in {e.ptr.weight.name : e \in entries} |->
                    CHOOSE e \in entries : e.ptr.weight.name = n]
           ptrs == {e.ptr : e \in entries}
<1>1. /\ Step(p) /\ SessionStays(p) /\ Loadable(file) /\ state[p] = "loading"
      /\ metadata'[p] = m /\ slots'[p] = slots[p] \cup ptrs
  BY StageIn, LoadIs
<1>2. /\ \A e \in entries : \E r \in Footer(file) :
              /\ e.ptr = Mapped(r.page, WeightOf(r)) /\ e.seed = r.seed /\ e \in EntryType
              /\ e.from_load = TRUE /\ e.current = FALSE /\ e.refs = 0
              /\ WeightOf(r) \in Weights /\ r.page \in 1 .. Len(file)
      /\ \A e \in entries : e.ptr.weight.name \in DOMAIN m /\ m[e.ptr.weight.name] = e
      /\ \A n \in DOMAIN m : n \in STRING /\ m[n] \in entries /\ m[n].ptr.weight.name = n
      /\ m \in [DOMAIN m -> EntryType] /\ DOMAIN m # {}
  BY <1>1, StageIn, LoadedAre
<1>3. ptrs = {e.ptr : e \in entries}
  OBVIOUS
<1>4. DOMAIN metadata[p] = {}
  BY <1>1, StageIn DEF StageOK
<1>5. /\ slots[p] = {} /\ packed[p] = {}
      /\ \A h \in Handles : runtimes[p][h].names = {} /\ runtimes[p][h].uses = {}
  BY <1>4, NothingNamed
<1> HIDE DEF entries, m, ptrs
<1>6. \A ptr \in slots'[p] : EntryOf(p, ptr)'
  BY <1>1, <1>2, <1>3, <1>5 DEF EntryOf
<1>7. UsesNamed(p)' /\ packed'[p] = {}
  BY <1>1, <1>5 DEF UsesNamed, SessionStays
<1>8. NamesCounted(p)'
  <2>1. ASSUME NEW n \in DOMAIN m PROVE Cardinality(Namers(p, n)') <= m[n].refs
    <3>1. Namers(p, n) = {} /\ Namers(p, n)' = Namers(p, n)
      BY <1>1, <1>5 DEF Namers, SessionStays
    <3>2. m[n].refs = 0
      BY <1>2
    <3> QED
      BY <3>1, <3>2, NamersFinite
  <2> QED
    BY <1>1, <2>1 DEF NamesCounted
<1> QED
  BY <1>1, <1>6, <1>7, <1>8, OthersNamed DEF NamesOK

\* Entries that keep their pointers, counts and marks keep their names.
LEMMA SameNamed ==
  ASSUME NamesInv, NEW p \in Processes, runtimes'[p] = runtimes[p],
         DOMAIN metadata[p] \subseteq DOMAIN metadata'[p],
         \A n \in DOMAIN metadata[p] : metadata'[p][n].ptr = metadata[p][n].ptr
                                       /\ metadata'[p][n].refs = metadata[p][n].refs,
         \A n \in DOMAIN metadata'[p] \ DOMAIN metadata[p] : metadata'[p][n].refs = 0
  PROVE  /\ UsesNamed(p)' /\ NamesCounted(p)'
         /\ \A ptr : EntryOf(p, ptr) => EntryOf(p, ptr)'
<1>1. \A ptr : EntryOf(p, ptr) => EntryOf(p, ptr)'
  BY DEF EntryOf
<1>2. UsesNamed(p) /\ NamesCounted(p)
  BY DEF NamesInv, NamesOK
<1>3. UsesNamed(p)'
  BY <1>1, <1>2 DEF UsesNamed
<1>4. ASSUME NEW n \in DOMAIN metadata'[p] PROVE Cardinality(Namers(p, n)') <= metadata'[p][n].refs
  <2>1. Namers(p, n)' = Namers(p, n)
    BY DEF Namers
  <2>2. CASE n \in DOMAIN metadata[p]
    BY <1>2, <2>1, <2>2 DEF NamesCounted
  <2>3. CASE n \notin DOMAIN metadata[p]
    <3>1. Namers(p, n) = {}
      BY <1>2, <2>3 DEF UsesNamed, Namers
    <3>2. Cardinality(Namers(p, n)) = 0
      BY <3>1, NamersFinite
    <3>3. metadata'[p][n].refs = 0
      BY <2>3
    <3> QED
      BY <2>1, <3>2, <3>3
  <2> QED
    BY <2>2, <2>3
<1> QED
  BY <1>1, <1>3, <1>4 DEF NamesCounted

LEMMA PackHitNamed ==
  ASSUME Types, NamesInv, NEW p \in Processes, NEW w \in Weights, PackHit(p, w)
  PROVE  NamesInv'
<1> DEFINE m == metadata[p]
           g == metadata'[p]
<1>1. /\ Step(p) /\ Hit(p, w)
      /\ metadata'[p] = [metadata[p] EXCEPT ![w.name] = [@ EXCEPT !.current = TRUE]]
      /\ packed'[p] = packed[p] \cup {metadata[p][w.name].ptr}
      /\ slots'[p] = slots[p] /\ runtimes'[p] = runtimes[p]
  BY StageIn, PackHitIs
<1>2. \A n \in DOMAIN m : m[n] \in EntryType /\ m[n].ptr.weight.name = n
  <2>1. \A n \in DOMAIN m : m[n] \in EntryType /\ m[n].ptr.weight = [name |-> n, seed |-> m[n].seed]
    BY StageIn DEF EntriesFit
  <2> HIDE DEF m
  <2>2. ASSUME NEW n \in DOMAIN m PROVE m[n].ptr.weight.name = n
    <3> DEFINE s == m[n].seed
               v == m[n].ptr.weight
    <3>1. v = [name |-> n, seed |-> s]
      BY <2>1
    <3> HIDE DEF s, v
    <3>2. v.name = n
      BY <3>1
    <3> QED
      BY <3>2 DEF v
  <2> QED
    BY <2>1, <2>2
<1>3. \A n \in DOMAIN m : [m[n] EXCEPT !.current = TRUE]
         = [seed |-> m[n].seed, refs |-> m[n].refs, current |-> TRUE, from_load |-> m[n].from_load,
            ptr |-> m[n].ptr]
  BY <1>2, EntryUpdates
<1>4. w.name \in DOMAIN m
  BY <1>1 DEF Hit
<1>5. /\ DOMAIN g = DOMAIN m /\ g[w.name].current = TRUE
      /\ \A n \in DOMAIN m : /\ g[n].ptr = m[n].ptr /\ g[n].refs = m[n].refs
                             /\ n # w.name => g[n] = m[n]
  <2> DEFINE e == m[w.name]
             d == [e EXCEPT !.current = TRUE]
  <2>1. DOMAIN g = DOMAIN m /\ g[w.name] = d /\ \A n \in DOMAIN m : n # w.name => g[n] = m[n]
    BY <1>1, <1>4
  <2>2. d = [seed |-> e.seed, refs |-> e.refs, current |-> TRUE, from_load |-> e.from_load,
             ptr |-> e.ptr]
    BY <1>3, <1>4
  <2> HIDE DEF m, g, d
  <2>3. d.ptr = e.ptr /\ d.refs = e.refs /\ d.current = TRUE
    BY <2>2
  <2> QED
    BY <2>1, <2>3
<1> HIDE DEF m, g
<1>6. UsesNamed(p)' /\ NamesCounted(p)' /\ \A ptr : EntryOf(p, ptr) => EntryOf(p, ptr)'
  BY <1>1, <1>5, SameNamed DEF m, g
<1>7. ASSUME NEW ptr \in packed'[p]
      PROVE  EntryOf(p, ptr)' /\ g[ptr.weight.name].current = TRUE
  <2>1. CASE ptr \in packed[p]
    <3>1. EntryOf(p, ptr) /\ m[ptr.weight.name].current = TRUE
      BY <2>1 DEF NamesInv, NamesOK, m
    <3>2. ptr.weight.name \in DOMAIN m
      BY <3>1 DEF EntryOf, m
    <3> QED
      BY <1>5, <1>6, <3>1, <3>2
  <2>2. CASE ptr = m[w.name].ptr
    <3>1. ptr.weight.name = w.name
      BY <1>2, <1>4, <2>2
    <3>2. EntryOf(p, ptr)
      BY <1>4, <2>2, <3>1 DEF EntryOf, m
    <3> QED
      BY <1>5, <1>6, <3>1, <3>2
  <2> QED
    BY <1>1, <2>1, <2>2 DEF m
<1>8. \A ptr \in slots'[p] : EntryOf(p, ptr)'
  BY <1>1, <1>6 DEF NamesInv, NamesOK
<1> QED
  BY <1>1, <1>6, <1>7, <1>8, OthersNamed DEF NamesOK, g

\* A weight that is not found has a name that no entry has.
LEMMA MissIsNew ==
  ASSUME NamesTellWeights, Types, NEW p \in Processes, NEW w \in Weights, ~Hit(p, w)
  PROVE  w.name \notin DOMAIN metadata[p]
<1> SUFFICES ASSUME w.name \in DOMAIN metadata[p] PROVE FALSE
  OBVIOUS
<1> DEFINE e == metadata[p][w.name]
           v == e.ptr.weight
<1>1. EntriesFit(metadata[p], slots[p], indexed[p], used[p]) /\ slots[p] \subseteq Pointer
  BY StageIn DEF CacheTypes
<1>2. v = [name |-> w.name, seed |-> e.seed] /\ e.ptr \in Pointer
  BY <1>1 DEF EntriesFit
<1>3. v \in Weights
  BY <1>2 DEF Pointer
<1>4. v.name = w.name /\ v.seed = e.seed
  <2> DEFINE s == e.seed
             n == w.name
  <2>1. v = [name |-> n, seed |-> s]
    BY <1>2
  <2> HIDE DEF s, n, v
  <2>2. v.name = n /\ v.seed = s
    BY <2>1
  <2> QED
    BY <2>2 DEF s, n
<1>5. v = w
  BY <1>3, <1>4 DEF NamesTellWeights
<1> QED
  BY <1>4, <1>5 DEF Hit

LEMMA InsertNamed ==
  ASSUME NamesTellWeights, Types, NamesInv, NEW p \in Processes, NEW w \in Weights, ~Hit(p, w), Step(p),
         NEW ptr \in Pointer, ptr.weight = w,
         metadata'[p] = WithEntry(metadata[p], w, ptr), slots'[p] = slots[p] \cup {ptr},
         packed'[p] = packed[p] \cup {ptr}, runtimes'[p] = runtimes[p]
  PROVE  NamesInv'
<1> DEFINE m == metadata[p]
           g == metadata'[p]
<1>1. w.name \notin DOMAIN m
  BY MissIsNew
<1>2. /\ DOMAIN g = DOMAIN m \cup {w.name} /\ g[w.name] = Entry(w, ptr)
      /\ \A n \in DOMAIN m \ {w.name} : g[n] = m[n]
  BY DEF WithEntry
<1>3. Entry(w, ptr).ptr = ptr /\ Entry(w, ptr).refs = 0 /\ Entry(w, ptr).current = TRUE
  BY EntryIs
<1> HIDE DEF m, g
<1>4. \A n \in DOMAIN m : g[n] = m[n]
  BY <1>1, <1>2
<1>5. UsesNamed(p)' /\ NamesCounted(p)' /\ \A q : EntryOf(p, q) => EntryOf(p, q)'
  BY <1>2, <1>3, <1>4, SameNamed DEF m, g
<1>6. EntryOf(p, ptr)' /\ g[ptr.weight.name].current = TRUE
  BY <1>2, <1>3 DEF EntryOf, g
<1>7. ASSUME NEW q \in packed[p] PROVE EntryOf(p, q)' /\ g[q.weight.name].current = TRUE
  <2>1. EntryOf(p, q) /\ m[q.weight.name].current = TRUE
    BY DEF NamesInv, NamesOK, m
  <2>2. q.weight.name \in DOMAIN m
    BY <2>1 DEF EntryOf, m
  <2> QED
    BY <1>4, <1>5, <2>1, <2>2
<1>8. \A q \in slots'[p] : EntryOf(p, q)'
  BY <1>5, <1>6 DEF NamesInv, NamesOK
<1> QED
  BY <1>5, <1>6, <1>7, <1>8, OthersNamed DEF NamesOK, g

\* Entries after save_packed_index, whatever it did.
LEMMA SavingEntries ==
  ASSUME Types, NEW p \in Processes, NEW m, \A n \in DOMAIN m : m[n] \in EntryType,
         NEW flushed, Saving(p, m, flushed)
  PROVE  /\ DOMAIN metadata'[p] = DOMAIN m
         /\ \A n \in DOMAIN m : metadata'[p][n].ptr = m[n].ptr /\ metadata'[p][n].refs = m[n].refs
<1>1. CASE metadata'[p] = m
  BY <1>1
<1>2. CASE metadata'[p] = WithIndex(p, m)
  BY <1>2, MarkedIs DEF WithIndex
<1> QED
  BY <1>1, <1>2 DEF Saving, NoIndex, IndexFails, IndexWritten

LEMMA SaveAllNamed ==
  ASSUME Types, NamesInv, NEW p \in Processes, SaveAll(p)
  PROVE  NamesInv'
<1>1. /\ Step(p) /\ Saving(p, metadata[p], durable) /\ SessionStays(p) /\ state[p] = "idle"
      /\ slots'[p] = slots[p]
  BY StageIn, SaveAllIs
<1>2. \A n \in DOMAIN metadata[p] : metadata[p][n] \in EntryType
  BY Kinds
<1>3. /\ DOMAIN metadata'[p] = DOMAIN metadata[p]
      /\ \A n \in DOMAIN metadata[p] : metadata'[p][n].ptr = metadata[p][n].ptr
                                       /\ metadata'[p][n].refs = metadata[p][n].refs
  BY <1>1, <1>2, SavingEntries
<1>4. UsesNamed(p)' /\ NamesCounted(p)' /\ \A ptr : EntryOf(p, ptr) => EntryOf(p, ptr)'
  BY <1>1, <1>3, SameNamed DEF SessionStays
<1>5. packed'[p] = {}
  BY <1>1, StageIn DEF StageOK, SessionStays
<1>6. \A ptr \in slots'[p] : EntryOf(p, ptr)'
  BY <1>1, <1>4 DEF NamesInv, NamesOK
<1> QED
  BY <1>1, <1>4, <1>5, <1>6, OthersNamed DEF NamesOK

\* A new runtime has a name of everything it uses, and is counted in there.
LEMMA FinishNamed ==
  ASSUME Types, NamesInv, NEW p \in Processes, NEW h \in Handles, Finish(p, h)
  PROVE  NamesInv'
<1> DEFINE m == metadata[p]
           c == CountedIn(p)
           g == metadata'[p]
           r == [state |-> "ready", uses |-> packed[p], names |-> Current(p)]
<1>1. /\ Step(p) /\ Saving(p, c, Synced(p))
      /\ runtimes[p][h] = NoRuntime /\ runtimes'[p] = [runtimes[p] EXCEPT ![h] = r]
      /\ packed'[p] = {} /\ slots'[p] = slots[p]
  BY StageIn, FinishIs
<1>2. /\ DOMAIN c = DOMAIN m
      /\ \A n \in DOMAIN m : /\ c[n] \in EntryType /\ c[n].ptr = m[n].ptr
                             /\ c[n].refs = IF m[n].current THEN m[n].refs + 1 ELSE m[n].refs
  BY CountedFit, CountedMarks DEF Alike
<1>3. \A n \in DOMAIN m : m[n].refs \in Nat /\ m[n].current \in BOOLEAN
  BY Kinds DEF EntryType
<1>4. runtimes[p] \in [Handles -> RuntimeType]
  BY StageIn DEF SessionTypes
<1>5. r.uses = packed[p] /\ r.names = Current(p)
  OBVIOUS
<1>6. /\ runtimes'[p][h] = r /\ runtimes[p][h].names = {}
      /\ \A x \in Handles \ {h} : runtimes'[p][x] = runtimes[p][x]
  BY <1>1, <1>4 DEF NoRuntime
<1>7. Current(p) = {n \in DOMAIN m : m[n].current}
  BY DEF Current
<1> HIDE DEF m, c, g, r
<1>8. /\ DOMAIN g = DOMAIN m
      /\ \A n \in DOMAIN m : g[n].ptr = m[n].ptr /\ g[n].refs = c[n].refs
  BY <1>1, <1>2, SavingEntries DEF g
<1>9. \A ptr : EntryOf(p, ptr) => EntryOf(p, ptr)'
  BY <1>8 DEF EntryOf, m, g
<1>10. UsesNamed(p) /\ NamesCounted(p)
  BY DEF NamesInv, NamesOK
<1>11. UsesNamed(p)'
  <2>1. ASSUME NEW x \in Handles \ {h}
        PROVE  /\ runtimes'[p][x].names \subseteq DOMAIN g
               /\ \A ptr \in runtimes'[p][x].uses :
                    EntryOf(p, ptr)' /\ ptr.weight.name \in runtimes'[p][x].names
    BY <1>6, <1>8, <1>9, <1>10 DEF UsesNamed, m
  <2>2. ASSUME NEW ptr \in packed[p]
        PROVE  EntryOf(p, ptr)' /\ ptr.weight.name \in Current(p)
    <3>1. EntryOf(p, ptr) /\ m[ptr.weight.name].current = TRUE
      BY DEF NamesInv, NamesOK, m
    <3>2. ptr.weight.name \in DOMAIN m
      BY <3>1 DEF EntryOf, m
    <3> QED
      BY <1>7, <1>9, <3>1, <3>2
  <2>3. Current(p) \subseteq DOMAIN g
    BY <1>7, <1>8
  <2> QED
    BY <1>5, <1>6, <2>1, <2>2, <2>3 DEF UsesNamed, g
<1>12. ASSUME NEW n \in DOMAIN g PROVE Cardinality(Namers(p, n)') <= g[n].refs
  <2>1. n \in DOMAIN m /\ Cardinality(Namers(p, n)) <= m[n].refs
    BY <1>8, <1>10 DEF NamesCounted, m
  <2>2. h \notin Namers(p, n)
    BY <1>6 DEF Namers
  <2>3. CASE m[n].current
    <3>1. Namers(p, n)' = Namers(p, n) \cup {h}
      BY <1>5, <1>6, <1>7, <2>1, <2>3 DEF Namers
    <3>2. Cardinality(Namers(p, n) \cup {h}) = Cardinality(Namers(p, n)) + 1
      BY <2>2, NamersFinite, FS_AddElement
    <3>3. g[n].refs = m[n].refs + 1
      BY <1>2, <1>8, <2>1, <2>3
    <3> QED
      BY <1>3, <2>1, <3>1, <3>2, <3>3, NamersFinite
  <2>4. CASE ~m[n].current
    <3>1. Namers(p, n)' = Namers(p, n)
      BY <1>5, <1>6, <1>7, <2>1, <2>2, <2>4 DEF Namers
    <3>2. g[n].refs = m[n].refs
      BY <1>2, <1>8, <2>1, <2>4
    <3> QED
      BY <2>1, <3>1, <3>2
  <2> QED
    BY <2>3, <2>4
<1>13. NamesCounted(p)'
  BY <1>12 DEF NamesCounted, g
<1>14. \A ptr \in slots'[p] : EntryOf(p, ptr)'
  BY <1>1, <1>9 DEF NamesInv, NamesOK
<1> QED
  BY <1>1, <1>11, <1>13, <1>14, OthersNamed DEF NamesOK

\* An entry that is deleted was named by the destroyed runtime alone.
LEMMA DestroyNamed ==
  ASSUME Types, NamesInv, NEW p \in Processes, NEW h \in Handles, Destroy(p, h)
  PROVE  NamesInv'
<1> DEFINE names == runtimes[p][h].names
           known == names \cap DOMAIN metadata[p]
           m == metadata[p]
           g == metadata'[p]
<1>1. /\ Step(p) /\ state[p] = "idle" /\ packed'[p] = packed[p]
      /\ runtimes'[p] = [runtimes[p] EXCEPT ![h] = NoRuntime]
      /\ \/ CacheStays(p)
         \/ \E some \in SUBSET known, complete \in BOOLEAN :
               /\ complete => some = names
               /\ known = names => complete
               /\ Deleting(p, some, complete)
  BY StageIn, DestroyIs
<1>2. UsesNamed(p) /\ NamesCounted(p) /\ \A ptr \in slots[p] : EntryOf(p, ptr)
  BY DEF NamesInv, NamesOK
<1>3. names \subseteq DOMAIN m /\ known = names
  BY <1>2 DEF UsesNamed
<1>4. runtimes[p] \in [Handles -> RuntimeType]
  BY StageIn DEF SessionTypes
<1>5. /\ runtimes'[p][h].names = {} /\ runtimes'[p][h].uses = {}
      /\ \A x \in Handles \ {h} : runtimes'[p][x] = runtimes[p][x]
  BY <1>1, <1>4 DEF NoRuntime
<1>6. packed'[p] = {}
  BY <1>1, StageIn DEF StageOK
<1>7. ASSUME NEW n PROVE Namers(p, n)' = Namers(p, n) \ {h}
  BY <1>5 DEF Namers
<1>8. \/ CacheStays(p)
      \/ Deleting(p, names, TRUE)
  BY <1>1, <1>3
<1>9. CASE CacheStays(p)
  <2>1. g = m /\ slots'[p] = slots[p]
    BY <1>9 DEF CacheStays
  <2>2. \A ptr : EntryOf(p, ptr) => EntryOf(p, ptr)'
    BY <2>1 DEF EntryOf
  <2>3. UsesNamed(p)'
    BY <1>2, <1>5, <2>1, <2>2 DEF UsesNamed
  <2>4. ASSUME NEW n \in DOMAIN m PROVE Cardinality(Namers(p, n)') <= m[n].refs
    <3>1. Cardinality(Namers(p, n) \ {h}) <= Cardinality(Namers(p, n))
          /\ Cardinality(Namers(p, n) \ {h}) \in Nat
      <4> DEFINE fewer == Namers(p, n) \ {h}
      <4>1. fewer \subseteq Namers(p, n)
        OBVIOUS
      <4> HIDE DEF fewer
      <4>2. IsFiniteSet(fewer) /\ Cardinality(fewer) <= Cardinality(Namers(p, n))
        BY <4>1, NamersFinite, FS_Subset
      <4>3. Cardinality(fewer) \in Nat
        BY <4>2, FS_CardinalityType
      <4> QED
        BY <4>2, <4>3 DEF fewer
    <3>2. Cardinality(Namers(p, n)) <= m[n].refs /\ m[n].refs \in Nat
      BY <1>2, Kinds DEF NamesCounted, EntryType
    <3>3. Namers(p, n)' = Namers(p, n) \ {h}
      BY <1>7
    <3> QED
      BY <3>1, <3>2, <3>3, NamersFinite
  <2>5. NamesCounted(p)'
    BY <2>1, <2>4 DEF NamesCounted
  <2> QED
    BY <1>1, <1>2, <1>6, <2>1, <2>2, <2>3, <2>5, OthersNamed DEF NamesOK
<1>10. CASE Deleting(p, names, TRUE)
  <2>1. names \in SUBSET DOMAIN m /\ TRUE \in BOOLEAN
    BY <1>3
  <2>2. /\ g = [n \in DOMAIN g |-> g[n]] /\ DOMAIN g = Kept(p, names) /\ DOMAIN g \subseteq DOMAIN m
        /\ \A n \in DOMAIN g : /\ Alike(g[n], m[n]) /\ g[n].from_load = m[n].from_load
                               /\ n \notin names => g[n] = m[n]
                               /\ n \in names => g[n].refs = CountLeft(p, n)
        /\ \A n \in DOMAIN g : m[n].ptr \in slots'[p] \/ DOMAIN g = {}
        /\ slots'[p] \subseteq slots[p] /\ indexed'[p] \subseteq indexed[p]
        /\ DOMAIN g = {} \/ (indexed'[p] = indexed[p] /\ regions'[p] = regions[p] /\ fd'[p] = fd[p])
    BY <1>10, <2>1, DeletingIs
  <2>3. slots'[p] = {} \/ slots'[p] = slots[p] \ {m[n].ptr : n \in Gone(p, names)}
    BY <1>10 DEF Deleting
  <2> HIDE DEF m, g, names, known
  <2>4. ASSUME NEW n \in names
        PROVE  /\ CountLeft(p, n) = m[n].refs - 1 /\ m[n].refs \in Nat
               /\ Cardinality(Namers(p, n)') <= CountLeft(p, n)
    <3>1. n \in DOMAIN m /\ h \in Namers(p, n)
      BY <1>3 DEF Namers, names
    <3>2. Cardinality(Namers(p, n)) <= m[n].refs /\ m[n].refs \in Nat
      BY <1>2, <3>1, Kinds DEF NamesCounted, EntryType, m
    <3>3. /\ Cardinality(Namers(p, n) \ {h}) = Cardinality(Namers(p, n)) - 1
          /\ Cardinality(Namers(p, n) \ {h}) \in Nat
      <4>1. IsFiniteSet(Namers(p, n) \ {h})
            /\ Cardinality(Namers(p, n) \ {h}) = Cardinality(Namers(p, n)) - 1
        BY <3>1, NamersFinite, FS_RemoveElement
      <4> QED
        BY <4>1, FS_CardinalityType
    <3>4. m[n].refs # 0
      BY <3>2, <3>3, NamersFinite
    <3>5. CountLeft(p, n) = m[n].refs - 1
      BY <3>4 DEF CountLeft, m
    <3>6. Namers(p, n)' = Namers(p, n) \ {h}
      BY <1>7
    <3> QED
      BY <3>2, <3>3, <3>5, <3>6, NamersFinite
  <2>5. ASSUME NEW x \in Handles \ {h}, NEW n \in runtimes[p][x].names PROVE n \in DOMAIN g
    <3>1. n \in DOMAIN m
      BY <1>2 DEF UsesNamed, m
    <3>2. ASSUME n \in Gone(p, names) PROVE FALSE
      <4>1. n \in names /\ CountLeft(p, n) = 0
        BY <3>2 DEF Gone
      <4>2. x \in Namers(p, n)'
        BY <1>7 DEF Namers
      <4>3. Cardinality(Namers(p, n)') <= 0
        BY <2>4, <4>1
      <4>4. Namers(p, n) \ {h} # {} /\ IsFiniteSet(Namers(p, n) \ {h})
            /\ Cardinality(Namers(p, n) \ {h}) <= 0
        BY <1>7, <4>2, <4>3, NamersFinite, FS_Subset
      <4> QED
        BY <4>4, FS_EmptySet, FS_CardinalityType
    <3> QED
      BY <2>2, <3>1, <3>2 DEF Kept, m
  <2>6. ASSUME NEW ptr, EntryOf(p, ptr), ptr.weight.name \in DOMAIN g PROVE EntryOf(p, ptr)'
    BY <2>2, <2>6 DEF EntryOf, Alike, m, g
  <2>7. UsesNamed(p)'
    <3>1. ASSUME NEW x \in Handles \ {h}
          PROVE  /\ runtimes[p][x].names \subseteq DOMAIN g
                 /\ \A ptr \in runtimes[p][x].uses :
                      EntryOf(p, ptr)' /\ ptr.weight.name \in runtimes[p][x].names
      <4>1. runtimes[p][x].names \subseteq DOMAIN g
        BY <2>5
      <4>2. \A ptr \in runtimes[p][x].uses : EntryOf(p, ptr) /\ ptr.weight.name \in runtimes[p][x].names
        BY <1>2 DEF UsesNamed
      <4> QED
        BY <2>6, <4>1, <4>2
    <3> QED
      BY <1>5, <3>1 DEF UsesNamed, g
  <2>8. ASSUME NEW n \in DOMAIN g PROVE Cardinality(Namers(p, n)') <= g[n].refs
    <3>1. CASE n \in names
      BY <2>2, <2>4, <3>1
    <3>2. CASE n \notin names
      <4>1. Cardinality(Namers(p, n)) <= m[n].refs /\ g[n] = m[n]
        BY <1>2, <2>2, <3>2 DEF NamesCounted, m
      <4>2. Namers(p, n)' = Namers(p, n)
        BY <1>7, <3>2 DEF Namers, names
      <4> QED
        BY <4>1, <4>2
    <3> QED
      BY <3>1, <3>2
  <2>9. NamesCounted(p)'
    BY <2>8 DEF NamesCounted, g
  <2>10. ASSUME NEW ptr \in slots'[p] PROVE EntryOf(p, ptr)'
    <3>1. ptr \in slots[p] /\ ptr \notin {m[n].ptr : n \in Gone(p, names)}
      BY <2>3
    <3>2. EntryOf(p, ptr)
      BY <1>2, <3>1
    <3>3. ptr.weight.name \in DOMAIN m /\ m[ptr.weight.name].ptr = ptr
      BY <3>2 DEF EntryOf, m
    <3>4. ptr.weight.name \notin Gone(p, names)
      BY <3>1, <3>3
    <3>5. ptr.weight.name \in DOMAIN g
      BY <2>2, <3>3, <3>4 DEF Kept, m
    <3> QED
      BY <2>6, <3>2, <3>5
  <2> QED
    BY <1>1, <1>6, <2>7, <2>9, <2>10, OthersNamed DEF NamesOK
<1> QED
  BY <1>8, <1>9, <1>10

LEMMA NamesInit == Init => NamesInv
<1> SUFFICES ASSUME Init, NEW p \in Processes PROVE NamesOK(p)
  BY DEF NamesInv
<1> DEFINE nil == <<>>
<1>1. /\ metadata[p] = nil /\ slots[p] = {} /\ packed[p] = {}
      /\ \A h \in Handles : runtimes[p][h].names = {} /\ runtimes[p][h].uses = {}
  BY DEF Init, NoRuntime
<1>2. DOMAIN nil = {}
  OBVIOUS
<1> HIDE DEF nil
<1> QED
  BY <1>1, <1>2 DEF NamesOK, UsesNamed, NamesCounted

LEMMA NamesNext ==
  ASSUME NamesTellWeights
  PROVE  Types /\ NamesInv /\ [Next]_vars => NamesInv'
<1> SUFFICES ASSUME Types, NamesInv, [Next]_vars PROVE NamesInv'
  OBVIOUS
<1>1. ASSUME NEW p \in Processes,
             Start(p) \/ LoadFails(p) \/ Reopen(p) \/ OpenFresh(p)
      PROVE  NamesInv'
  <2>1. Step(p) /\ SessionStays(p) /\ metadata'[p] = metadata[p] /\ slots'[p] = slots[p]
    BY <1>1, StageIn, StartIs, LoadFailsIs, ReopenIs, OpenFreshIs DEF CacheStays
  <2> QED
    BY <2>1, QuietNamed DEF SessionStays
<1>2. ASSUME NEW p \in Processes, Begin(p) \/ CompileFails(p) PROVE NamesInv'
  <2>1. Step(p) /\ CacheStays(p) /\ packed'[p] = {} /\ runtimes'[p] = runtimes[p]
    BY <1>2, StageIn, BeginIs, CompileFailsIs
  <2> QED
    BY <2>1, QuietNamed DEF CacheStays
<1>3. ASSUME NEW p \in Processes, NEW w \in Weights, PackHit(p, w) PROVE NamesInv'
  BY <1>3, PackHitNamed
<1>4. ASSUME NEW p \in Processes, NEW w \in Weights, PackInFile(p, w) PROVE NamesInv'
  <2> DEFINE ptr == Region(used[p] + 1, w)
  <2>1. /\ Step(p) /\ ~Hit(p, w) /\ metadata'[p] = WithEntry(metadata[p], w, ptr)
        /\ slots'[p] = slots[p] \cup {ptr} /\ packed'[p] = packed[p] \cup {ptr}
        /\ runtimes'[p] = runtimes[p]
    BY <1>4, StageIn, PackInFileIs
  <2>2. used[p] + 1 \in Nat
    BY StageIn
  <2>3. ptr \in Pointer /\ ptr.weight = w
    BY <2>2, PointersAre DEF Region
  <2> HIDE DEF ptr
  <2> QED
    BY <2>1, <2>3, InsertNamed
<1>5. ASSUME NEW p \in Processes, NEW w \in Weights, PackOnHeap(p, w) PROVE NamesInv'
  <2> DEFINE ptr == Heap(w)
  <2>1. /\ Step(p) /\ ~Hit(p, w) /\ metadata'[p] = WithEntry(metadata[p], w, ptr)
        /\ slots'[p] = slots[p] \cup {ptr} /\ packed'[p] = packed[p] \cup {ptr}
        /\ runtimes'[p] = runtimes[p]
    BY <1>5, StageIn, PackOnHeapIs
  <2>2. ptr \in Pointer /\ ptr.weight = w
    BY PointersAre DEF Heap
  <2> HIDE DEF ptr
  <2> QED
    BY <2>1, <2>2, InsertNamed
<1>6. ASSUME NEW p \in Processes, NEW h \in Handles, Finish(p, h) \/ Destroy(p, h) PROVE NamesInv'
  BY <1>6, FinishNamed, DestroyNamed
<1>7. ASSUME NEW p \in Processes, Crash(p) \/ Load(p) \/ SaveAll(p) PROVE NamesInv'
  BY <1>7, CrashNamed, LoadNamed, SaveAllNamed
<1>8. CASE UNCHANGED vars
  <2>1. ASSUME NEW p \in Processes PROVE NamesOK(p)'
    BY <1>8 DEF vars, disk, cache, session, NamesInv, NamesOK, UsesNamed, NamesCounted, Namers, EntryOf
  <2> QED
    BY <2>1 DEF NamesInv
<1> QED
  BY <1>1, <1>2, <1>3, <1>4, <1>5, <1>6, <1>7, <1>8 DEF Next

-----------------------------------------------------------------------------
(* Memory, and what a power failure leaves *)

\* MemoryIntact, for any number of processes, handles, weights and pages, when the
\* processes run one at a time and a name stands for one weight: what an entry or
\* a living runtime points to stays mapped and keeps the bytes packed for it.
THEOREM PointersKeepTheirBytes ==
  ASSUME NamesTellWeights
  PROVE  Spec /\ []OneAtATime => []MemoryIntact
<1>1. Types /\ FileInv /\ NamesInv => MemoryIntact
  <2> SUFFICES ASSUME Types, FileInv, NamesInv PROVE MemoryIntact
    OBVIOUS
  <2>1. ASSUME NEW p \in Processes, NEW n \in DOMAIN metadata[p] PROVE Intact(metadata[p][n].ptr)
    <3> DEFINE ptr == metadata[p][n].ptr
    <3>1. ptr.kind # "heap" => ptr \in indexed[p]
      BY Kinds
    <3>2. PointersOK(p) /\ Len(file) \in Nat /\ used[p] \in Nat /\ used[p] <= Len(file)
      BY FileIn
    <3> HIDE DEF ptr
    <3>3. CASE ptr.kind # "heap"
      <4>1. ptr.page \in 1 .. used[p] /\ file[ptr.page] = Data(ptr.weight)
        BY <3>1, <3>2, <3>3 DEF PointersOK
      <4> QED
        BY <3>2, <4>1 DEF Intact, ptr
    <3> QED
      BY <3>3 DEF Intact, ptr
  <2>2. ASSUME NEW p \in Processes, NEW h \in Handles, NEW ptr \in runtimes[p][h].uses
        PROVE  ptr \in slots[p] /\ Intact(ptr)
    <3>1. EntryOf(p, ptr)
      BY DEF NamesInv, NamesOK, UsesNamed
    <3>2. ptr.weight.name \in DOMAIN metadata[p] /\ metadata[p][ptr.weight.name].ptr = ptr
      BY <3>1 DEF EntryOf
    <3>3. metadata[p][ptr.weight.name].ptr \in slots[p]
      BY <3>2, Kinds
    <3> QED
      BY <2>1, <3>2, <3>3
  <2> QED
    BY <2>1, <2>2 DEF MemoryIntact
<1> QED
  BY <1>1, TypesInit, TypesNext, FileInit, FileNext, NamesInit, NamesNext, PTL DEF Spec

\* The pages on the disk are pages of the file.
DurableInFile == durable \subseteq 1 .. Len(file)

LEMMA SyncedInFile ==
  ASSUME Types, FileInv, NamesInv, DurableInFile, NEW p \in Processes
  PROVE  Synced(p) \subseteq 1 .. Len(file)
<1>1. ASSUME NEW ptr \in slots[p], ptr.kind # "heap" PROVE ptr.page \in 1 .. Len(file)
  <2>1. EntryOf(p, ptr)
    BY DEF NamesInv, NamesOK
  <2>2. ptr.weight.name \in DOMAIN metadata[p] /\ metadata[p][ptr.weight.name].ptr = ptr
    BY <2>1 DEF EntryOf
  <2>3. ptr \in indexed[p]
    BY <1>1, <2>2, Kinds
  <2> QED
    BY <2>3, FileIn DEF PointersOK
<1> QED
  BY <1>1 DEF Synced, DurableInFile

LEMMA SavingDurable ==
  ASSUME Types, NEW p \in Processes, NEW m, NEW flushed, Saving(p, m, flushed),
         flushed \subseteq 1 .. Len(file)
  PROVE  DurableInFile'
<1> DEFINE u == used[p]
<1>1. u \in Nat
  BY StageIn
<1>2. CASE file' = file /\ durable' = flushed
  BY <1>2 DEF DurableInFile
<1>3. ASSUME NEW x, file' = [Resized(u + 1) EXCEPT ![u + 1] = x],
             durable' \subseteq 1 .. u + 1
      PROVE  DurableInFile'
  <2>1. Len(file') = u + 1
    BY <1>1, <1>3, WrittenFooter
  <2> QED
    BY <1>3, <2>1 DEF DurableInFile
<1>4. 1 .. u \subseteq 1 .. u + 1
  BY <1>1
<1>5. CASE NoIndex(p, m, flushed)
  BY <1>2, <1>5 DEF NoIndex
<1>6. CASE IndexFails(p, m, flushed)
  <2>1. CASE durable' = flushed \cap (1 .. u)
             /\ file' = [Resized(u + 1) EXCEPT ![u + 1] = Blank]
    <3> HIDE DEF u
    <3>1. durable' \subseteq 1 .. u + 1
      BY <1>4, <2>1
    <3> QED
      BY <1>3, <2>1, <3>1
  <2> QED
    BY <1>2, <1>6, <2>1 DEF IndexFails
<1>7. CASE IndexWritten(p, m, flushed)
  <2> DEFINE x == Index(Records(p, m))
  <2>1. /\ file' = [Resized(u + 1) EXCEPT ![u + 1] = x]
        /\ durable' \in {flushed \cap (1 .. u), 1 .. u + 1}
    BY <1>7 DEF IndexWritten
  <2> HIDE DEF u, x
  <2>2. durable' \subseteq 1 .. u + 1
    BY <1>4, <2>1
  <2> QED
    BY <1>3, <2>1, <2>2
<1> QED
  BY <1>5, <1>6, <1>7 DEF Saving

LEMMA PackDurable ==
  ASSUME Types, FileInv, DurableInFile, NEW p \in Processes, NEW w \in Weights,
         PackInFile(p, w) \/ PackOnHeap(p, w)
  PROVE  DurableInFile'
<1> DEFINE u == used[p]
<1>1. u \in Nat /\ (u + 1) - 1 = u /\ 1 .. u \subseteq 1 .. u + 1 /\ u + 1 \in Nat
  BY StageIn
<1>2. CASE PackInFile(p, w)
  <2> DEFINE x == Data(w)
  <2>1. /\ file' = [Resized(u + 1) EXCEPT ![u + 1] = x]
        /\ durable' = durable \cap (1 .. (u + 1) - 1)
    BY <1>2, StageIn, PackInFileIs
  <2> HIDE DEF x
  <2>2. Len(file') = u + 1
    BY <1>1, <2>1, WrittenFooter
  <2> HIDE DEF u
  <2> QED
    BY <1>1, <2>1, <2>2 DEF DurableInFile
<1>3. CASE PackOnHeap(p, w)
  <2>1. \/ DiskStays
        \/ file' = Resized(u + 1) /\ durable' = durable \cap (1 .. u)
    BY <1>3, StageIn, PackOnHeapIs
  <2>2. CASE DiskStays
    BY <2>2 DEF DiskStays, DurableInFile
  <2>3. CASE file' = Resized(u + 1) /\ durable' = durable \cap (1 .. u)
    <3>1. Len(file') = u + 1
      BY <1>1, <2>3, ResizedIs
    <3> HIDE DEF u
    <3> QED
      BY <1>1, <2>3, <3>1 DEF DurableInFile
  <2> QED
    BY <2>1, <2>2, <2>3
<1> QED
  BY <1>2, <1>3

LEMMA DurableNext ==
  Types /\ FileInv /\ NamesInv /\ DurableInFile /\ [Next]_vars => DurableInFile'
<1> SUFFICES ASSUME Types, FileInv, NamesInv, DurableInFile, [Next]_vars PROVE DurableInFile'
  OBVIOUS
<1>1. CASE DiskStays
  BY <1>1 DEF DiskStays, DurableInFile
<1>2. ASSUME NEW p \in Processes,
             Start(p) \/ Crash(p) \/ Begin(p) \/ Load(p) \/ LoadFails(p) \/ Reopen(p) \/ CompileFails(p)
      PROVE  DurableInFile'
  <2>1. DiskStays
    BY <1>2, StageIn, StartIs, CrashIs, BeginIs, LoadIs, LoadFailsIs, ReopenIs, CompileFailsIs
  <2> QED
    BY <1>1, <2>1
<1>3. ASSUME NEW p \in Processes, OpenFresh(p) PROVE DurableInFile'
  <2>1. DiskStays \/ durable' = {}
    BY <1>3, StageIn, OpenFreshIs
  <2> QED
    BY <1>1, <2>1 DEF DurableInFile
<1>4. ASSUME NEW p \in Processes, NEW w \in Weights, PackHit(p, w) PROVE DurableInFile'
  <2>1. DiskStays
    BY <1>4, StageIn, PackHitIs
  <2> QED
    BY <1>1, <2>1
<1>5. ASSUME NEW p \in Processes, NEW h \in Handles, Finish(p, h) PROVE DurableInFile'
  <2>1. Saving(p, CountedIn(p), Synced(p))
    BY <1>5, StageIn, FinishIs
  <2> QED
    BY <2>1, SyncedInFile, SavingDurable
<1>6. ASSUME NEW p \in Processes, SaveAll(p) PROVE DurableInFile'
  <2>1. Saving(p, metadata[p], durable)
    BY <1>6, StageIn, SaveAllIs
  <2> QED
    BY <2>1, SavingDurable DEF DurableInFile
<1>7. ASSUME NEW p \in Processes, NEW h \in Handles, Destroy(p, h) PROVE DurableInFile'
  <2>1. DiskStays
    BY <1>7, StageIn, DestroyIs
  <2> QED
    BY <1>1, <2>1
<1>8. CASE UNCHANGED vars
  BY <1>8 DEF vars, disk, DurableInFile
<1> QED
  BY <1>2, <1>3, <1>4, <1>5, <1>6, <1>7, <1>8, PackDurable DEF Next

\* TypeOK, for any number of processes, handles, weights and pages, under the same
\* two hypotheses: the file keeps to the disk, a runtime under construction has only
\* pointers with a slot of packed_data_ptrs_, and no page outside the file is on the
\* disk.  With a second process, or two weights under one name, msync could reach a
\* mapped page that has been cut off the file since.
THEOREM PagesAndPointersInRange ==
  ASSUME NamesTellWeights
  PROVE  Spec /\ []OneAtATime => []TypeOK
<1>1. Types /\ FileInv /\ NamesInv /\ DurableInFile => TypeOK
  <2> SUFFICES ASSUME Types, FileInv, NamesInv, DurableInFile PROVE TypeOK
    OBVIOUS
  <2>1. Len(file) <= DiskPages /\ durable \subseteq DOMAIN file
    <3>1. FileOK(file)
      BY DEF Types
    <3>2. DOMAIN file = 1 .. Len(file) /\ Len(file) <= DiskPages
      BY <3>1, DiskAssumption DEF FileOK
    <3> QED
      BY <3>2 DEF DurableInFile
  <2>2. state \in [Processes -> {"down", "idle", "loading", "loaded", "fresh", "compiling"}]
    BY DEF Types, Shape, States
  <2>3. ASSUME NEW p \in Processes
        PROVE  /\ used[p] \in 0 .. DiskPages
               /\ slots[p] \subseteq Pointer /\ indexed[p] \subseteq Pointer
               /\ packed[p] \subseteq slots[p]
               /\ \A n \in DOMAIN metadata[p] : metadata[p][n].ptr \in slots[p]
    <3>1. used[p] \in 0 .. DiskPages /\ slots[p] \subseteq Pointer /\ indexed[p] \subseteq Pointer
      BY StageIn DEF CacheTypes
    <3>2. \A n \in DOMAIN metadata[p] : metadata[p][n].ptr \in slots[p]
      BY Kinds
    <3>3. \A ptr \in packed[p] : EntryOf(p, ptr)
      BY DEF NamesInv, NamesOK
    <3>4. packed[p] \subseteq slots[p]
      BY <3>2, <3>3 DEF EntryOf
    <3> QED
      BY <3>1, <3>2, <3>4
  <2> QED
    BY <2>1, <2>2, <2>3 DEF TypeOK
<1>2. Init => DurableInFile
  BY DEF Init, DurableInFile
<1> QED
  BY <1>1, <1>2, TypesInit, TypesNext, FileInit, FileNext, NamesInit, NamesNext, DurableNext,
     PTL DEF Spec
=============================================================================
