------------------------------ MODULE XnnBackend ------------------------------
(***************************************************************************)
(* XnnpackBackend under concurrent calls: init, execute and destroy of the *)
(* delegates of several threads, and set_option(save_weight_cache_on_disk).*)
(* The managers hand out workspaces and weights caches that delegates      *)
(* share; they keep only Weak references, so an object lives as long as    *)
(* the executors and the calls that hold an Arc of it.                     *)
(*                                                                         *)
(* A section under a manager's own mutex is one step: it calls nothing     *)
(* that blocks.  The mutexes of the shared objects are held across several *)
(* steps.  What a cache packs is in XNNWeightsCache, what it writes in     *)
(* XNNWeightsCacheFile: here a cache is its lock, its file lock and its    *)
(* life.                                                                   *)
(***************************************************************************)
EXTENDS Naturals, FiniteSets

CONSTANTS Threads,
          Handles,      \* addresses of executors
          Caches,       \* addresses of XNNWeightsCache objects
          Workspaces,   \* addresses of XNNWorkspace objects
          Slots,        \* "global" and the programs: what workspaces are shared by
          Paths,        \* packed_cache_path values
          EmptyPath,    \* the empty path: a cache without a file
          Requests,     \* the options inits come with
          None,
          MaxCalls      \* bound on the calls that are made

ASSUME AddressesAssumption ==
    /\ Caches \subseteq Nat /\ Workspaces \subseteq Nat /\ Handles \subseteq Nat
ASSUME NoneAssumption ==
    /\ None \notin Threads \cup Handles \cup Caches \cup Workspaces
    /\ None \notin Slots \cup Paths \cup {EmptyPath}
    /\ EmptyPath \notin Paths

VARIABLES pc,            \* where each thread is in its call
          op,            \* the call
          handle,        \* the delegate it is for
          workspaceArc,  \* its local Arc of a workspace
          cacheArc,      \* its local Arc of a cache, or the cache it is dropping
          saving,        \* save_all: the Arcs in live
          unsaved,       \* save_all: those not saved yet
          calls,         \* calls made
          executors,     \* the delegates
          cacheOf,       \* caches_ and empty_path_cache_: Weak references
          workspaceOf,   \* global_workspace_ and model_workspaces_: Weak references
          lockRequired,  \* XNNWorkspace.lock_required_
          cacheLock,     \* who holds a cache's instance_mutex_
          workspaceLock, \* who holds a workspace's mutex_
          pathOf,        \* packed_cache_path_
          provider,      \* what weights_cache_.context points to
          fileLock       \* the cache whose descriptor holds the flock of a path

locals == <<pc, op, handle, workspaceArc, cacheArc, saving, unsaved, calls>>
managers == <<cacheOf, workspaceOf>>
locks == <<cacheLock, workspaceLock>>
objects == <<lockRequired, pathOf, provider>>
vars == <<locals, executors, managers, locks, objects, fileLock>>

-----------------------------------------------------------------------------
(* Requests: the options of an init, resolved.  No slot: sharing is Disabled. *)
(* No path: the weights cache is off.                                         *)

CachePaths == Paths \cup {EmptyPath}
ASSUME RequestsAssumption ==
    Requests \subseteq [slot : Slots \cup {None}, path : CachePaths \cup {None}]
ASSUME CallsAssumption == MaxCalls \in Nat

NoExecutor == [state |-> "none", slot |-> None, path |-> None,
               workspace |-> None, cache |-> None]
Allocated(r) == [state |-> "init", slot |-> r.slot, path |-> r.path,
                 workspace |-> None, cache |-> None]

Executors == [state : {"none", "init", "live"}, slot : Slots \cup {None},
              path : CachePaths \cup {None},
              workspace : Workspaces \cup {None}, cache : Caches \cup {None}]

(* Strong and Weak references. *)

CacheHolders(c) == {h \in Handles : executors[h].cache = c}
                   \cup {t \in Threads : cacheArc[t] = c /\ pc[t] # "close"}
                   \cup {t \in Threads : c \in saving[t]}
WorkspaceHolders(w) == {h \in Handles : executors[h].workspace = w}
                       \cup {t \in Threads : workspaceArc[t] = w}

\* Weak::upgrade gives an Arc as long as there is one.
CacheAlive(c) == c # None /\ CacheHolders(c) # {}
WorkspaceAlive(w) == w # None /\ WorkspaceHolders(w) # {}

\* Memory no reference names, and no Drop is running on.
FreeCaches == {c \in Caches : /\ CacheHolders(c) = {}
                              /\ \A p \in CachePaths : cacheOf[p] # c
                              /\ \A t \in Threads : cacheArc[t] # c}
FreeWorkspaces == {w \in Workspaces : /\ WorkspaceHolders(w) = {}
                                      /\ \A s \in Slots : workspaceOf[s] # w}
Lowest(S) == {x \in S : \A y \in S : x <= y}

Goto(t, l) == pc' = [pc EXCEPT ![t] = l]
Idle(t) == /\ Goto(t, "idle")
           /\ op' = [op EXCEPT ![t] = "none"]
           /\ handle' = [handle EXCEPT ![t] = None]

\* A delegate is used by one call at a time: what its Method requires.
Unused(h) == \A t \in Threads : handle[t] # h

FreeHandles == {h \in Handles : Unused(h) /\ executors[h].state = "none"}

Start(t, o, h, l) ==
    /\ pc[t] = "idle" /\ calls < MaxCalls
    /\ Goto(t, l)
    /\ op' = [op EXCEPT ![t] = o]
    /\ handle' = [handle EXCEPT ![t] = h]
    /\ calls' = calls + 1

-----------------------------------------------------------------------------
(* init *)

\* The executor of a failed init is never handed out.
Abandon(t) == executors' = [executors EXCEPT ![handle[t]] = NoExecutor]

\* An invalid sharing mode, or xnn_create_workspace fails.
InitRefused(t) ==
    /\ pc[t] = "idle" /\ calls < MaxCalls
    /\ calls' = calls + 1
    /\ UNCHANGED <<pc, op, handle, workspaceArc, cacheArc, saving, unsaved, executors,
                   managers, locks, objects, fileLock>>

\* The workspace a slot shares, if there is still an Arc of it.
SharedWorkspaceAnySlot(s) == {w \in Workspaces : /\ s # None /\ WorkspaceAlive(w)
                                                 /\ \E q \in Slots : workspaceOf[q] = w}
SharedWorkspace(s) == {w \in Workspaces : s # None /\ workspaceOf[s] = w /\ WorkspaceAlive(w)}

\* disable_locking, on a workspace nobody shares.
LockingPrograms(slot) == slot \notin {None, "global"}
Locking(slot) == slot # None

\* get_or_create_workspace_with_mode.
GetWorkspace(t, slot) ==
    \/ \E w \in SharedWorkspace(slot) :
        /\ workspaceArc' = [workspaceArc EXCEPT ![t] = w]
        /\ UNCHANGED <<workspaceOf, lockRequired>>
    \/ /\ SharedWorkspace(slot) = {}
       /\ \E w \in Lowest(FreeWorkspaces) :
           /\ workspaceArc' = [workspaceArc EXCEPT ![t] = w]
           /\ lockRequired' = [lockRequired EXCEPT ![w] = Locking(slot)]
           /\ workspaceOf' = IF slot = None THEN workspaceOf
                             ELSE [workspaceOf EXCEPT ![slot] = w]

BeginInit(t, h, r) ==
    /\ h \in Lowest(FreeHandles)
    /\ Start(t, "init", h, IF r.path = None THEN "lock_workspace" ELSE "get_cache")
    /\ executors' = [executors EXCEPT ![h] = Allocated(r)]
    /\ GetWorkspace(t, r.slot)
    /\ UNCHANGED <<cacheArc, saving, unsaved, cacheOf, locks, pathOf, provider, fileLock>>

\* XNNWeightsCacheManager.get_or_create.
SharedCacheMany(p) == {c \in Caches : cacheOf[p] = c /\ Cardinality(CacheHolders(c)) > 1}
SharedCache(p) == {c \in Caches : cacheOf[p] = c /\ CacheAlive(c)}

UseCache(t, c) ==
    /\ cacheArc' = [cacheArc EXCEPT ![t] = c]
    /\ Goto(t, "lock_cache")
    /\ UNCHANGED <<op, handle, workspaceArc, saving, unsaved, calls, executors, workspaceOf,
                   locks, lockRequired, fileLock>>

\* A new cache is wired while it is a local of get_or_create, then moved.
GetCache(t) ==
    /\ pc[t] = "get_cache"
    /\ LET path == executors[handle[t]].path IN
        \/ \E c \in SharedCache(path) :
            /\ UseCache(t, c)
            /\ UNCHANGED <<cacheOf, pathOf, provider>>
        \/ /\ SharedCache(path) = {}
           /\ \E c \in Lowest(FreeCaches) :
               /\ UseCache(t, c)
               /\ cacheOf' = [cacheOf EXCEPT ![path] = c]
               /\ pathOf' = [pathOf EXCEPT ![c] = path]
               /\ provider' = [provider EXCEPT ![c] = "frame"]

-----------------------------------------------------------------------------
(* The locks every call takes: the cache's, then the workspace's. *)

LockCache(t) ==
    /\ pc[t] = "lock_cache"
    /\ cacheLock[cacheArc[t]] = None
    /\ cacheLock' = [cacheLock EXCEPT ![cacheArc[t]] = t]
    /\ Goto(t, CASE op[t] = "save" -> "save_index"
                 [] op[t] = "execute" -> "lock_workspace"
                 [] OTHER -> "cache")
    /\ UNCHANGED <<op, handle, workspaceArc, cacheArc, saving, unsaved, calls, executors,
                   managers, workspaceLock, objects, fileLock>>

\* initialize_for_runtime: a cache with a path that has no descriptor yet opens
\* the file and asks for its flock, which another cache may hold.
Opened(c) == IF pathOf[c] = EmptyPath THEN {fileLock}
             ELSE {fileLock} \cup {[fileLock EXCEPT ![pathOf[c]] = IF @ = None THEN c ELSE @]}

\* A cache that closes its file gives up the flock with it.
Unlocked(c) == [p \in Paths |-> IF fileLock[p] = c THEN None ELSE fileLock[p]]

\* full_unload, when the last entry goes, and a reserve_space that fails.
MayClose(c) == {fileLock, Unlocked(c)}

\* init: initialize_for_runtime; destroy: delete_packed_data.
WorkOnCache(t) ==
    /\ pc[t] = "cache"
    /\ fileLock' \in IF op[t] = "init" THEN Opened(cacheArc[t]) ELSE MayClose(cacheArc[t])
    /\ Goto(t, "lock_workspace")
    /\ UNCHANGED <<op, handle, workspaceArc, cacheArc, saving, unsaved, calls, executors,
                   managers, locks, objects>>

\* acquire.
LockWorkspace(t) ==
    /\ pc[t] = "lock_workspace"
    /\ IF lockRequired[workspaceArc[t]]
       THEN /\ workspaceLock[workspaceArc[t]] = None
            /\ workspaceLock' = [workspaceLock EXCEPT ![workspaceArc[t]] = t]
       ELSE UNCHANGED workspaceLock
    /\ Goto(t, "native")
    /\ UNCHANGED <<op, handle, workspaceArc, cacheArc, saving, unsaved, calls, executors,
                   managers, cacheLock, objects, fileLock>>

-----------------------------------------------------------------------------
(* Inside XNNPACK: compileModel, an invocation, or xnn_delete_runtime. *)

Release(lock, x) == [lock EXCEPT ![x] = None]

HandedOverBare(t) == [executors[handle[t]] EXCEPT !.state = "live",
                         !.workspace = workspaceArc[t]]
HandedOver(t) == [state |-> "live",
                  slot |-> executors[handle[t]].slot, path |-> executors[handle[t]].path,
                  workspace |-> workspaceArc[t], cache |-> cacheArc[t]]

CompiledLocked(t) ==
    /\ pc[t] = "native" /\ op[t] = "init"
    /\ executors' = [executors EXCEPT ![handle[t]] = HandedOver(t)]
    /\ cacheArc' = [cacheArc EXCEPT ![t] = None]
    /\ fileLock' \in MayClose(cacheArc[t])
    /\ Goto(t, "unlock_workspace")
    /\ UNCHANGED <<op, handle, workspaceArc, saving, unsaved, calls, managers,
                   locks, objects>>

\* The executor takes over the cache's Arc, and the cache is unlocked first.
Compiled(t) ==
    /\ pc[t] = "native" /\ op[t] = "init"
    /\ executors' = [executors EXCEPT ![handle[t]] = HandedOver(t)]
    /\ cacheArc' = [cacheArc EXCEPT ![t] = None]
    /\ cacheLock' = IF cacheArc[t] = None THEN cacheLock ELSE Release(cacheLock, cacheArc[t])
    /\ fileLock' \in MayClose(cacheArc[t])
    /\ Goto(t, "unlock_workspace")
    /\ UNCHANGED <<op, handle, workspaceArc, saving, unsaved, calls, managers,
                   workspaceLock, objects>>

\* A failed compilation and a destroy drop the executor under both locks.
Deleted(t) ==
    /\ pc[t] = "native" /\ op[t] \in {"init", "destroy"}
    /\ Abandon(t)
    /\ IF op[t] = "init" THEN fileLock' \in MayClose(cacheArc[t]) ELSE UNCHANGED fileLock
    /\ Goto(t, "unlock_workspace")
    /\ UNCHANGED <<op, handle, workspaceArc, cacheArc, saving, unsaved, calls, managers,
                   locks, objects>>

\* execute, successful or not.
Executed(t) ==
    /\ pc[t] = "native" /\ op[t] = "execute"
    /\ Goto(t, "unlock_workspace")
    /\ UNCHANGED <<op, handle, workspaceArc, cacheArc, saving, unsaved, calls, executors, managers,
                   locks, objects, fileLock>>

-----------------------------------------------------------------------------
(* Guards and Arcs go in the reverse order of their declarations. *)

UnlockWorkspace(t) ==
    /\ pc[t] = "unlock_workspace"
    /\ workspaceLock' = IF lockRequired[workspaceArc[t]]
                        THEN Release(workspaceLock, workspaceArc[t]) ELSE workspaceLock
    /\ Goto(t, IF cacheArc[t] = None THEN "drop" ELSE "unlock_cache")
    /\ UNCHANGED <<op, handle, workspaceArc, cacheArc, saving, unsaved, calls, executors,
                   managers, cacheLock, objects, fileLock>>

UnlockCache(t) ==
    /\ pc[t] = "unlock_cache"
    /\ cacheLock' = Release(cacheLock, cacheArc[t])
    /\ Goto(t, "drop")
    /\ UNCHANGED <<op, handle, workspaceArc, cacheArc, saving, unsaved, calls, executors,
                   managers, workspaceLock, objects, fileLock>>

\* The call's Arc of the cache may be the last one: then Drop runs, outside any lock.
LastArcZero(t) == cacheArc[t] # None /\ CacheHolders(cacheArc[t]) = {}
LastArc(t) == cacheArc[t] # None /\ CacheHolders(cacheArc[t]) = {t}

DropArcs(t) ==
    /\ pc[t] = "drop"
    /\ IF LastArc(t)
       THEN Goto(t, "close") /\ UNCHANGED <<op, handle, workspaceArc, cacheArc>>
       ELSE /\ Idle(t)
            /\ cacheArc' = [cacheArc EXCEPT ![t] = None]
            /\ workspaceArc' = [workspaceArc EXCEPT ![t] = None]
    /\ UNCHANGED <<saving, unsaved, calls, executors, managers, locks, objects, fileLock>>

\* XNNWeightsCache::drop unmaps the regions and closes the file.
Close(t) ==
    /\ pc[t] = "close"
    /\ fileLock' = Unlocked(cacheArc[t])
    /\ cacheArc' = [cacheArc EXCEPT ![t] = None]
    /\ IF saving[t] = {}
       THEN Idle(t) /\ workspaceArc' = [workspaceArc EXCEPT ![t] = None]
       ELSE Goto(t, "save_drop") /\ UNCHANGED <<op, handle, workspaceArc>>
    /\ UNCHANGED <<saving, unsaved, calls, executors, managers, locks, objects>>

-----------------------------------------------------------------------------
(* execute and destroy start with Arcs of what the executor holds. *)

BeginUse(t, h, o) ==
    /\ Unused(h) /\ executors[h].state = "live"
    /\ Start(t, o, h, IF executors[h].cache = None THEN "lock_workspace" ELSE "lock_cache")
    /\ workspaceArc' = [workspaceArc EXCEPT ![t] = executors[h].workspace]
    /\ cacheArc' = [cacheArc EXCEPT ![t] = executors[h].cache]
    /\ UNCHANGED <<saving, unsaved, executors, managers, locks, objects, fileLock>>

-----------------------------------------------------------------------------
(* save_all: the live caches of caches_ are taken under its mutex, the expired *)
(* entries removed; the caches are then saved one at a time.                   *)

LiveCaches == {c \in Caches : \E p \in Paths : cacheOf[p] = c /\ CacheAlive(c)}

BeginSave(t) ==
    /\ Start(t, "save", None, "save")
    /\ saving' = [saving EXCEPT ![t] = LiveCaches]
    /\ unsaved' = [unsaved EXCEPT ![t] = LiveCaches]
    /\ cacheOf' = [p \in CachePaths |->
                      IF p \in Paths /\ cacheOf[p] \notin LiveCaches THEN None ELSE cacheOf[p]]
    /\ UNCHANGED <<workspaceArc, cacheArc, executors, workspaceOf, locks, objects, fileLock>>

NextToSave(t) ==
    /\ pc[t] = "save"
    /\ IF unsaved[t] = {}
       THEN Goto(t, "save_drop") /\ UNCHANGED <<cacheArc, unsaved>>
       ELSE \E c \in unsaved[t] : /\ cacheArc' = [cacheArc EXCEPT ![t] = c]
                                  /\ unsaved' = [unsaved EXCEPT ![t] = @ \ {c}]
                                  /\ Goto(t, "lock_cache")
    /\ UNCHANGED <<op, handle, workspaceArc, saving, calls, executors, managers, locks,
                   objects, fileLock>>

\* save_packed_index, then the guard of this turn of the loop goes.
SaveIndex(t) ==
    /\ pc[t] = "save_index"
    /\ cacheLock' = Release(cacheLock, cacheArc[t])
    /\ cacheArc' = [cacheArc EXCEPT ![t] = None]
    /\ Goto(t, "save")
    /\ UNCHANGED <<op, handle, workspaceArc, saving, unsaved, calls, executors, managers,
                   workspaceLock, objects, fileLock>>

\* The Arcs in live go one by one; any of them may be the last.
DropSaved(t) ==
    /\ pc[t] = "save_drop"
    /\ \/ /\ saving[t] = {} /\ Idle(t)
          /\ UNCHANGED <<saving, cacheArc>>
       \/ \E c \in saving[t] :
           /\ saving' = [saving EXCEPT ![t] = @ \ {c}]
           /\ IF CacheHolders(c) = {t}
              THEN Goto(t, "close") /\ cacheArc' = [cacheArc EXCEPT ![t] = c]
              ELSE UNCHANGED <<pc, cacheArc>>
           /\ UNCHANGED <<op, handle>>
    /\ UNCHANGED <<workspaceArc, unsaved, calls, executors, managers, locks, objects, fileLock>>

-----------------------------------------------------------------------------
Init ==
    /\ pc = [t \in Threads |-> "idle"]
    /\ op = [t \in Threads |-> "none"]
    /\ handle = [t \in Threads |-> None]
    /\ workspaceArc = [t \in Threads |-> None]
    /\ cacheArc = [t \in Threads |-> None]
    /\ saving = [t \in Threads |-> {}]
    /\ unsaved = [t \in Threads |-> {}]
    /\ calls = 0
    /\ executors = [h \in Handles |-> NoExecutor]
    /\ cacheOf = [p \in CachePaths |-> None]
    /\ workspaceOf = [s \in Slots |-> None]
    /\ lockRequired = [w \in Workspaces |-> TRUE]
    /\ cacheLock = [c \in Caches |-> None]
    /\ workspaceLock = [w \in Workspaces |-> None]
    /\ pathOf = [c \in Caches |-> EmptyPath]
    /\ provider = [c \in Caches |-> "none"]
    /\ fileLock = [p \in Paths |-> None]

\* A call in progress.
Continue(t) ==
    \/ GetCache(t) \/ LockCache(t) \/ WorkOnCache(t) \/ LockWorkspace(t)
    \/ Compiled(t) \/ Deleted(t) \/ Executed(t)
    \/ UnlockWorkspace(t) \/ UnlockCache(t) \/ DropArcs(t) \/ Close(t)
    \/ NextToSave(t) \/ SaveIndex(t) \/ DropSaved(t)

Begin(t) ==
    \/ \E h \in Handles, r \in Requests : BeginInit(t, h, r)
    \/ \E h \in Handles, o \in {"execute", "destroy"} : BeginUse(t, h, o)
    \/ BeginSave(t) \/ InitRefused(t)

Next == \E t \in Threads : Continue(t) \/ Begin(t)

\* A thread in a call keeps running: the scheduler's promise.  Nothing is promised
\* about the order in which a mutex is granted.
Spec == Init /\ [][Next]_vars /\ \A t \in Threads : WF_vars(Continue(t))

-----------------------------------------------------------------------------
(* Properties *)

Labels == {"idle", "get_cache", "lock_cache", "cache", "lock_workspace",
           "native", "unlock_workspace", "unlock_cache", "drop", "close",
           "save", "save_index", "save_drop"}
Live(h) == executors[h].state = "live"

StateTypes ==
    /\ pc \in [Threads -> Labels]
    /\ op \in [Threads -> {"none", "init", "execute", "destroy", "save"}]
    /\ handle \in [Threads -> Handles \cup {None}]
    /\ workspaceArc \in [Threads -> Workspaces \cup {None}]
    /\ cacheArc \in [Threads -> Caches \cup {None}]
    /\ saving \in [Threads -> SUBSET Caches]
    /\ unsaved \in [Threads -> SUBSET Caches]
    /\ calls \in 0 .. MaxCalls
    /\ executors \in [Handles -> Executors]
    /\ cacheOf \in [CachePaths -> Caches \cup {None}]
    /\ workspaceOf \in [Slots -> Workspaces \cup {None}]
    /\ lockRequired \in [Workspaces -> BOOLEAN]
    /\ cacheLock \in [Caches -> Threads \cup {None}]
    /\ workspaceLock \in [Workspaces -> Threads \cup {None}]
    /\ pathOf \in [Caches -> CachePaths]
    /\ provider \in [Caches -> {"none", "frame", "cache"}]
    /\ fileLock \in [Paths -> Caches \cup {None}]

\* Types, and what a delegate that was handed out (XnnpackBackend::init) keeps:
\* a workspace, and a cache exactly if it asked for one.
TypeOK ==
    /\ StateTypes
    /\ \A h \in Handles : Live(h) => /\ executors[h].workspace # None
                                     /\ executors[h].cache = None <=> executors[h].path = None

\* Delegates of one path use one cache, whatever calls of get_or_create, Drop and
\* save_all's clean-up of expired entries come in between.
OneCachePerPath ==
    \A g, h \in Handles :
        /\ Live(g) /\ Live(h)
        /\ executors[g].path = executors[h].path
        => executors[g].cache = executors[h].cache

\* Two delegates share a workspace exactly if both were created under one sharing
\* slot (the global one, or one program's): the workspace of a delegate without
\* sharing is its own (get_or_create_workspace_with_mode).
SharedAsAsked ==
    \A g, h \in Handles :
        Live(g) /\ Live(h) /\ g # h
        => (executors[g].workspace = executors[h].workspace
            <=> executors[g].slot = executors[h].slot /\ executors[g].slot # None)

\* A thread that works on its cache: it has locked it and not unlocked it.
OnCache(t) == \/ pc[t] \in {"cache", "save_index"}
              \/ pc[t] \in {"lock_workspace", "native", "unlock_workspace", "unlock_cache"}
                 /\ cacheArc[t] # None

\* XNNPACK is never entered twice with one workspace, not even by the deletion of
\* a runtime, nor a cache changed by two calls: the locks of init, execute,
\* destroy and save_all, and the unlocked workspaces of Disabled sharing.
Exclusive ==
    \A t, u \in Threads : t # u =>
        /\ pc[t] = "native" /\ pc[u] = "native" => workspaceArc[t] # workspaceArc[u]
        /\ OnCache(t) /\ OnCache(u) => cacheArc[t] # cacheArc[u]

\* The guards are transmuted to outlive their borrow: nothing but the order of the
\* drops keeps a held mutex inside a live object.
GuardsAlive ==
    /\ \A c \in Caches : cacheLock[c] # None => CacheAlive(c)
    /\ \A w \in Workspaces : workspaceLock[w] # None => WorkspaceAlive(w)

\* The flock of a path is held by a live cache of that path, or one whose Drop is
\* about to close its file.
FileLockOwned ==
    \A p \in Paths : fileLock[p] # None =>
        /\ pathOf[fileLock[p]] = p
        /\ \/ CacheAlive(fileLock[p])
           \/ \E t \in Threads : pc[t] = "close" /\ cacheArc[t] = fileLock[p]

\* No lock is left with an object that is gone: init, execute, destroy and save_all
\* keep an Arc until they have dropped the guard, and Drop closes the file.
LocksAlive == GuardsAlive /\ FileLockOwned

\* Every call returns: the two mutexes of a call are taken in one order, and no
\* guard is kept.
CallsReturn == \A t \in Threads : pc[t] # "idle" ~> pc[t] = "idle"

\* While XNNPACK compiles with a cache, the provider's context is that cache:
\* wire_provider's contract.
ProviderIsCache ==
    \A t \in Threads :
        pc[t] = "native" /\ op[t] = "init" /\ cacheArc[t] # None
        => provider[cacheArc[t]] = "cache"

=============================================================================
