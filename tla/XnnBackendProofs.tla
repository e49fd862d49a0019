--------------------------- MODULE XnnBackendProofs ---------------------------
(***************************************************************************)
(* Theorems about XnnBackend, for any number of threads, delegates, caches, *)
(* workspaces, paths and calls.                                            *)
(***************************************************************************)
EXTENDS XnnBackend, TLAPS

DelegateOps == {"init", "execute", "destroy"}

-----------------------------------------------------------------------------
(* Control: what a thread holds at each point of a call *)

Control(t) ==
    /\ pc[t] = "idle" <=> op[t] = "none"
    /\ op[t] \in DelegateOps <=> handle[t] # None
    /\ op[t] \in DelegateOps <=> workspaceArc[t] # None
    /\ op[t] # "save" => saving[t] = {}
    /\ unsaved[t] \subseteq saving[t]
    /\ pc[t] \in {"close", "save_drop"} => unsaved[t] = {}
    /\ pc[t] = "get_cache" => op[t] = "init"
    /\ pc[t] = "cache" => op[t] \in {"init", "destroy"}
    /\ pc[t] \in {"lock_workspace", "native", "unlock_workspace", "unlock_cache", "drop"}
          => op[t] \in DelegateOps
    /\ pc[t] \in {"save", "save_index", "save_drop"} => op[t] = "save"
    /\ pc[t] \in {"lock_cache", "cache", "save_index", "unlock_cache", "close"}
          => cacheArc[t] # None
    /\ pc[t] \in {"idle", "get_cache", "save", "save_drop"} => cacheArc[t] = None
    /\ op[t] = "save" /\ pc[t] \in {"lock_cache", "save_index"} => cacheArc[t] \in saving[t]

Calls == \A t \in Threads : Control(t)

\* A delegate has one call at a time.
OneCall == \A t, u \in Threads : handle[t] = handle[u] /\ handle[t] # None => t = u

\* What init has still to get a cache for.
WantsCache == \A t \in Threads :
    pc[t] = "get_cache" => executors[handle[t]].path \in CachePaths

LiveHasWorkspace == \A h \in Handles : Live(h) => executors[h].workspace # None

ControlInv == StateTypes /\ Calls /\ OneCall /\ WantsCache /\ LiveHasWorkspace

\* No call writes anything of another kind into a field: every handover of
\* XnnpackBackend::init and every address of a new object is of its type.
LEMMA TypesStep ==
  ASSUME ControlInv, NEW t \in Threads, Continue(t) \/ Begin(t)
  PROVE  StateTypes'
<1> USE DEF StateTypes, Goto, Labels, managers, locks, objects
<1>0. StateTypes /\ WantsCache
  BY DEF ControlInv
<1>1. CASE GetCache(t)
  BY <1>0, <1>1, SMTT(30) DEF GetCache, UseCache, SharedCache, Lowest, FreeCaches, WantsCache
<1>2. CASE LockCache(t)
  BY <1>0, <1>2 DEF LockCache
<1>3. CASE WorkOnCache(t)
  BY <1>0, <1>3 DEF WorkOnCache, Opened, MayClose, Unlocked
<1>4. CASE LockWorkspace(t)
  BY <1>0, <1>4 DEF LockWorkspace
<1>5. CASE Compiled(t)
  <2>1. handle[t] \in Handles => HandedOver(t) \in Executors
    BY <1>0 DEF HandedOver, Executors
  <2>2. executors' \in [Handles -> Executors]
    BY <1>0, <1>5, <2>1 DEF Compiled
  <2>3. cacheLock' \in [Caches -> Threads \cup {None}]
    BY <1>0, <1>5 DEF Compiled, Release
  <2>4. fileLock' \in [Paths -> Caches \cup {None}]
    BY <1>0, <1>5 DEF Compiled, MayClose, Unlocked
  <2> QED
    BY <1>0, <1>5, <2>2, <2>3, <2>4 DEF Compiled
<1>6. CASE Deleted(t)
  <2>1. executors' \in [Handles -> Executors]
    BY <1>0, <1>6 DEF Deleted, Abandon, NoExecutor, Executors
  <2>2. fileLock' \in [Paths -> Caches \cup {None}]
    BY <1>0, <1>6 DEF Deleted, MayClose, Unlocked
  <2> QED
    BY <1>0, <1>6, <2>1, <2>2 DEF Deleted
<1>7. CASE Executed(t)
  BY <1>0, <1>7 DEF Executed
<1>8. CASE UnlockWorkspace(t)
  BY <1>0, <1>8 DEF UnlockWorkspace, Release
<1>9. CASE UnlockCache(t)
  BY <1>0, <1>9 DEF UnlockCache, Release
<1>10. CASE DropArcs(t)
  BY <1>0, <1>10, SMTT(30) DEF DropArcs, Idle
<1>11. CASE Close(t)
  BY <1>0, <1>11, SMTT(30) DEF Close, Unlocked, Idle
<1>12. CASE NextToSave(t)
  BY <1>0, <1>12, SMTT(30) DEF NextToSave
<1>13. CASE SaveIndex(t)
  BY <1>0, <1>13 DEF SaveIndex, Release
<1>14. CASE DropSaved(t)
  BY <1>0, <1>14, SMTT(30) DEF DropSaved, Idle
<1>15. ASSUME NEW h \in Handles, NEW r \in Requests, BeginInit(t, h, r)
      PROVE  StateTypes'
  <2>1. Allocated(r) \in Executors
    BY RequestsAssumption DEF Allocated, NoExecutor, Executors
  <2>2. executors' \in [Handles -> Executors]
    BY <1>0, <1>15, <2>1 DEF BeginInit
  <2>3. GetWorkspace(t, r.slot) /\ r.slot \in Slots \cup {None}
    BY <1>15, RequestsAssumption DEF BeginInit
  <2>5. PICK w \in Workspaces :
          /\ workspaceArc' = [workspaceArc EXCEPT ![t] = w]
          /\ \/ UNCHANGED <<workspaceOf, lockRequired>>
             \/ /\ lockRequired' = [lockRequired EXCEPT ![w] = Locking(r.slot)]
                /\ \/ workspaceOf' = workspaceOf
                   \/ workspaceOf' = [workspaceOf EXCEPT ![r.slot] = w]
    BY <2>3 DEF GetWorkspace, SharedWorkspace, FreeWorkspaces, Lowest
  <2>6. workspaceArc' \in [Threads -> Workspaces \cup {None}]
    BY <1>0, <2>5
  <2>7. workspaceOf' \in [Slots -> Workspaces \cup {None}]
    BY <1>0, <2>5
  <2>8. lockRequired' \in [Workspaces -> BOOLEAN]
    <3>1. Locking(r.slot) \in BOOLEAN
      BY DEF Locking
    <3> QED
      BY <1>0, <2>5, <3>1
  <2>9. Start(t, "init", h, IF r.path = None THEN "lock_workspace" ELSE "get_cache")
    BY <1>15 DEF BeginInit
  <2>10. /\ pc' \in [Threads -> Labels] /\ calls' \in 0 .. MaxCalls
         /\ op' \in [Threads -> {"none", "init", "execute", "destroy", "save"}]
         /\ handle' \in [Threads -> Handles \cup {None}]
    BY <1>0, <2>9, CallsAssumption DEF Start
  <2> QED
    BY <1>0, <1>15, <2>2, <2>6, <2>7, <2>8, <2>10 DEF BeginInit
<1>16. ASSUME NEW h \in Handles, NEW o \in {"execute", "destroy"}, BeginUse(t, h, o)
      PROVE  StateTypes'
  BY <1>0, <1>16, CallsAssumption DEF BeginUse, Start, Unused, Executors
<1>17. CASE BeginSave(t)
  BY <1>0, <1>17, CallsAssumption DEF BeginSave, Start, LiveCaches
<1>18. CASE InitRefused(t)
  BY <1>0, <1>18, CallsAssumption DEF InitRefused
<1> HIDE DEF StateTypes, Goto, Labels, managers, locks, objects
<1> QED
  BY <1>1, <1>2, <1>3, <1>4, <1>5, <1>6, <1>7, <1>8, <1>9, <1>10, <1>11, <1>12, <1>13, <1>14,
     <1>15, <1>16, <1>17, <1>18 DEF Continue, Begin

\* Where a call is says which Arcs it has: the early returns and failures of init,
\* execute, destroy and save_all keep that.
LEMMA ControlStep ==
  ASSUME ControlInv, NEW t \in Threads, Continue(t) \/ Begin(t)
  PROVE  Calls' /\ OneCall' /\ WantsCache' /\ LiveHasWorkspace'
<1> USE NoneAssumption DEF ControlInv, StateTypes, Calls, Control, DelegateOps, OneCall,
      WantsCache, LiveHasWorkspace, Live, Goto, Labels, managers, locks, objects
<1>1. CASE GetCache(t)
  <2>1. Control(t)'
    BY <1>1 DEF GetCache, UseCache, SharedCache, Lowest, FreeCaches
  <2>2. \A u \in Threads : u # t => Control(u)'
    BY <1>1 DEF GetCache, UseCache, SharedCache, Lowest, FreeCaches
  <2>3. OneCall' /\ WantsCache' /\ LiveHasWorkspace'
    BY <1>1 DEF GetCache, UseCache, SharedCache, Lowest, FreeCaches
  <2> QED
    BY <2>1, <2>2, <2>3
<1>2. CASE LockCache(t)
  BY <1>2 DEF LockCache
<1>3. CASE WorkOnCache(t)
  BY <1>3 DEF WorkOnCache, Opened, MayClose, Unlocked
<1>4. CASE LockWorkspace(t)
  BY <1>4 DEF LockWorkspace
<1>5. CASE Compiled(t)
  <2>1. Control(t)'
    BY <1>5 DEF Compiled, HandedOver, Release
  <2>2. \A u \in Threads : u # t => Control(u)'
    BY <1>5 DEF Compiled, HandedOver, Release
  <2>3. OneCall' /\ WantsCache' /\ LiveHasWorkspace'
    BY <1>5 DEF Compiled, HandedOver, Release
  <2> QED
    BY <2>1, <2>2, <2>3
<1>6. CASE Deleted(t)
  BY <1>6 DEF Deleted, Abandon, NoExecutor
<1>7. CASE Executed(t)
  BY <1>7 DEF Executed
<1>8. CASE UnlockWorkspace(t)
  BY <1>8 DEF UnlockWorkspace, Release
<1>9. CASE UnlockCache(t)
  BY <1>9 DEF UnlockCache, Release
<1>10. CASE DropArcs(t)
  <2>1. Control(t)'
    BY <1>10 DEF DropArcs, Idle, LastArc
  <2>2. \A u \in Threads : u # t => Control(u)'
    BY <1>10 DEF DropArcs, Idle
  <2>3. OneCall' /\ WantsCache' /\ LiveHasWorkspace'
    BY <1>10, SMTT(30) DEF DropArcs, Idle
  <2> QED
    BY <2>1, <2>2, <2>3
<1>11. CASE Close(t)
  <2>1. Control(t)'
    BY <1>11 DEF Close, Unlocked, Idle
  <2>2. \A u \in Threads : u # t => Control(u)'
    BY <1>11 DEF Close, Unlocked, Idle
  <2>3. OneCall'
    BY <1>11 DEF Close, Unlocked, Idle
  <2>4. WantsCache' /\ LiveHasWorkspace'
    BY <1>11 DEF Close, Unlocked, Idle
  <2> QED
    BY <2>1, <2>2, <2>3, <2>4
<1>12. CASE NextToSave(t)
  <2>1. Control(t)'
    BY <1>12 DEF NextToSave
  <2>2. \A u \in Threads : u # t => Control(u)'
    BY <1>12 DEF NextToSave
  <2>3. OneCall' /\ WantsCache' /\ LiveHasWorkspace'
    BY <1>12 DEF NextToSave
  <2> QED
    BY <2>1, <2>2, <2>3
<1>13. CASE SaveIndex(t)
  BY <1>13 DEF SaveIndex, Release
<1>14. CASE DropSaved(t)
  <2>1. Control(t)'
    BY <1>14 DEF DropSaved, Idle
  <2>2. \A u \in Threads : u # t => Control(u)'
    BY <1>14 DEF DropSaved, Idle
  <2>3. OneCall' /\ WantsCache' /\ LiveHasWorkspace'
    BY <1>14 DEF DropSaved, Idle
  <2> QED
    BY <2>1, <2>2, <2>3
<1>15. ASSUME NEW h \in Handles, NEW r \in Requests, BeginInit(t, h, r)
      PROVE  Calls' /\ OneCall' /\ WantsCache' /\ LiveHasWorkspace'
  <2>1. Control(t)'
    BY <1>15, RequestsAssumption DEF BeginInit, Start, GetWorkspace, SharedWorkspace,
       FreeWorkspaces, FreeHandles, Unused,
       Lowest, Allocated, NoExecutor, Locking
  <2>2. \A u \in Threads : u # t => Control(u)'
    BY <1>15, RequestsAssumption DEF BeginInit, Start, GetWorkspace, SharedWorkspace,
       FreeWorkspaces, FreeHandles, Unused,
       Lowest, Allocated, NoExecutor, Locking
  <2>3. OneCall' /\ WantsCache' /\ LiveHasWorkspace'
    BY <1>15, RequestsAssumption DEF BeginInit, Start, GetWorkspace, SharedWorkspace,
       FreeWorkspaces, FreeHandles, Unused,
       Lowest, Allocated, NoExecutor, Locking
  <2> QED
    BY <2>1, <2>2, <2>3
<1>16. ASSUME NEW h \in Handles, NEW o \in {"execute", "destroy"}, BeginUse(t, h, o)
      PROVE  Calls' /\ OneCall' /\ WantsCache' /\ LiveHasWorkspace'
  BY <1>16 DEF BeginUse, Start, Unused
<1>17. CASE BeginSave(t)
  BY <1>17 DEF BeginSave, Start, LiveCaches
<1>18. CASE InitRefused(t)
  BY <1>18 DEF InitRefused
<1> HIDE DEF ControlInv, StateTypes, Calls, Control, DelegateOps, OneCall,
      WantsCache, LiveHasWorkspace, Live, Goto, Labels, managers, locks, objects
<1> QED
  BY <1>1, <1>2, <1>3, <1>4, <1>5, <1>6, <1>7, <1>8, <1>9, <1>10, <1>11, <1>12, <1>13, <1>14,
     <1>15, <1>16, <1>17, <1>18 DEF Continue, Begin

-----------------------------------------------------------------------------
(* Locks: a guard is held where the code says, by who is there *)

Inside(t) == pc[t] \in {"native", "unlock_workspace"}

CacheGuards == \A c \in Caches, t \in Threads :
    cacheLock[c] = t <=> OnCache(t) /\ cacheArc[t] = c
WorkspaceGuards == \A w \in Workspaces, t \in Threads :
    workspaceLock[w] = t <=> Inside(t) /\ workspaceArc[t] = w /\ lockRequired[w]

\* A cache's mutex is held exactly by the call that works on that cache: no path
\* out of init, execute, destroy or save_all keeps the guard.
LEMMA CacheGuardsStep ==
  ASSUME ControlInv, CacheGuards, NEW t \in Threads, Continue(t) \/ Begin(t)
  PROVE  CacheGuards'
<1> USE NoneAssumption DEF CacheGuards, OnCache, ControlInv, StateTypes, Calls, Control,
      DelegateOps, Goto, managers, locks, objects
<1>1. CASE GetCache(t)
  BY <1>1 DEF GetCache, UseCache, SharedCache, Lowest, FreeCaches
<1>2. CASE LockCache(t)
  BY <1>2 DEF LockCache
<1>3. CASE WorkOnCache(t)
  BY <1>3 DEF WorkOnCache, Opened, MayClose, Unlocked
<1>4. CASE LockWorkspace(t)
  BY <1>4 DEF LockWorkspace
<1>5. CASE Compiled(t)
  BY <1>5 DEF Compiled, HandedOver, Release
<1>6. CASE Deleted(t)
  BY <1>6 DEF Deleted, Abandon, NoExecutor
<1>7. CASE Executed(t)
  BY <1>7 DEF Executed
<1>8. CASE UnlockWorkspace(t)
  BY <1>8 DEF UnlockWorkspace, Release
<1>9. CASE UnlockCache(t)
  BY <1>9 DEF UnlockCache, Release
<1>10. CASE DropArcs(t)
  BY <1>10 DEF DropArcs, Idle, LastArc
<1>11. CASE Close(t)
  BY <1>11 DEF Close, Unlocked, Idle
<1>12. CASE NextToSave(t)
  BY <1>12 DEF NextToSave
<1>13. CASE SaveIndex(t)
  BY <1>13 DEF SaveIndex, Release
<1>14. CASE DropSaved(t)
  BY <1>14 DEF DropSaved, Idle
<1>15. ASSUME NEW h \in Handles, NEW r \in Requests, BeginInit(t, h, r)
      PROVE  CacheGuards'
  BY <1>15, RequestsAssumption DEF BeginInit, Start, GetWorkspace, SharedWorkspace,
     FreeWorkspaces, WorkspaceHolders, Lowest
<1>16. ASSUME NEW h \in Handles, NEW o \in {"execute", "destroy"}, BeginUse(t, h, o)
      PROVE  CacheGuards'
  BY <1>16 DEF BeginUse, Start, Unused
<1>17. CASE BeginSave(t)
  BY <1>17 DEF BeginSave, Start, LiveCaches
<1>18. CASE InitRefused(t)
  BY <1>18 DEF InitRefused
<1> HIDE DEF CacheGuards, OnCache, ControlInv, StateTypes, Calls, Control,
      DelegateOps, Goto, managers, locks, objects
<1> QED
  BY <1>1, <1>2, <1>3, <1>4, <1>5, <1>6, <1>7, <1>8, <1>9, <1>10, <1>11, <1>12, <1>13, <1>14,
     <1>15, <1>16, <1>17, <1>18 DEF Continue, Begin

\* The same of a workspace's mutex, if acquire takes it at all.
LEMMA WorkspaceGuardsStep ==
  ASSUME ControlInv, WorkspaceGuards, NEW t \in Threads, Continue(t) \/ Begin(t)
  PROVE  WorkspaceGuards'
<1> USE NoneAssumption DEF WorkspaceGuards, Inside, ControlInv, StateTypes, Calls, Control,
      DelegateOps, Goto, managers, locks, objects
<1>1. CASE GetCache(t)
  BY <1>1 DEF GetCache, UseCache, SharedCache, Lowest, FreeCaches
<1>2. CASE LockCache(t)
  BY <1>2 DEF LockCache
<1>3. CASE WorkOnCache(t)
  BY <1>3 DEF WorkOnCache, Opened, MayClose, Unlocked
<1>4. CASE LockWorkspace(t)
  BY <1>4 DEF LockWorkspace
<1>5. CASE Compiled(t)
  BY <1>5 DEF Compiled, HandedOver, Release
<1>6. CASE Deleted(t)
  BY <1>6 DEF Deleted, Abandon, NoExecutor
<1>7. CASE Executed(t)
  BY <1>7 DEF Executed
<1>8. CASE UnlockWorkspace(t)
  BY <1>8 DEF UnlockWorkspace, Release
<1>9. CASE UnlockCache(t)
  BY <1>9 DEF UnlockCache, Release
<1>10. CASE DropArcs(t)
  BY <1>10 DEF DropArcs, Idle, LastArc
<1>11. CASE Close(t)
  BY <1>11 DEF Close, Unlocked, Idle
<1>12. CASE NextToSave(t)
  BY <1>12 DEF NextToSave
<1>13. CASE SaveIndex(t)
  BY <1>13 DEF SaveIndex, Release
<1>14. CASE DropSaved(t)
  BY <1>14 DEF DropSaved, Idle
<1>15. ASSUME NEW h \in Handles, NEW r \in Requests, BeginInit(t, h, r)
      PROVE  WorkspaceGuards'
  BY <1>15, RequestsAssumption DEF BeginInit, Start, GetWorkspace, SharedWorkspace,
     FreeWorkspaces, WorkspaceHolders, Lowest
<1>16. ASSUME NEW h \in Handles, NEW o \in {"execute", "destroy"}, BeginUse(t, h, o)
      PROVE  WorkspaceGuards'
  BY <1>16 DEF BeginUse, Start, Unused
<1>17. CASE BeginSave(t)
  BY <1>17 DEF BeginSave, Start, LiveCaches
<1>18. CASE InitRefused(t)
  BY <1>18 DEF InitRefused
<1> HIDE DEF WorkspaceGuards, Inside, ControlInv, StateTypes, Calls, Control,
      DelegateOps, Goto, managers, locks, objects
<1> QED
  BY <1>1, <1>2, <1>3, <1>4, <1>5, <1>6, <1>7, <1>8, <1>9, <1>10, <1>11, <1>12, <1>13, <1>14,
     <1>15, <1>16, <1>17, <1>18 DEF Continue, Begin

-----------------------------------------------------------------------------
(* Workspaces: an unlocked one has one executor and one call *)

\* An init before the handover.
Making(t) == /\ op[t] = "init"
             /\ pc[t] \in {"get_cache", "lock_cache", "cache", "lock_workspace", "native"}

\* The workspace a slot names, or one of its own.
Suits(w, s) == IF s = None THEN ~lockRequired[w] ELSE workspaceOf[s] = w

SlotsLocked == \A s \in Slots : workspaceOf[s] # None => lockRequired[workspaceOf[s]]
Suited ==
    /\ \A h \in Handles : executors[h].workspace # None =>
          Suits(executors[h].workspace, executors[h].slot)
    /\ \A t \in Threads : Making(t) => Suits(workspaceArc[t], executors[handle[t]].slot)
OneExecutor == \A g, h \in Handles :
    executors[g].workspace = executors[h].workspace /\ executors[g].workspace # None /\ g # h
    => lockRequired[executors[g].workspace]
OneArc == \A t, u \in Threads :
    workspaceArc[t] = workspaceArc[u] /\ workspaceArc[t] # None /\ t # u
    => lockRequired[workspaceArc[t]]
OwnArc == \A t \in Threads, h \in Handles :
    executors[h].workspace = workspaceArc[t] /\ workspaceArc[t] # None /\ handle[t] # h
    => lockRequired[workspaceArc[t]]

SlotsApart == \A s, q \in Slots :
    workspaceOf[s] = workspaceOf[q] /\ workspaceOf[s] # None => s = q

SharingInv == SlotsLocked /\ SlotsApart /\ Suited /\ OneExecutor /\ OneArc /\ OwnArc

\* Every way of getting a workspace keeps the sharing of workspaces with a lock, and
\* each workspace without one with a single executor and call.
LEMMA SharingStep ==
  ASSUME ControlInv, SharingInv, NEW t \in Threads, Continue(t) \/ Begin(t)
  PROVE  SharingInv'
<1> USE NoneAssumption DEF SharingInv, SlotsLocked, SlotsApart, Suited, Suits, Making, OneExecutor,
      OneArc, OwnArc, ControlInv, StateTypes, Calls, Control, DelegateOps, OneCall, Goto,
      managers, locks, objects
<1>1. CASE GetCache(t)
  BY <1>1, SMTT(30) DEF GetCache, UseCache, SharedCache, Lowest, FreeCaches
<1>2. CASE LockCache(t)
  BY <1>2 DEF LockCache
<1>3. CASE WorkOnCache(t)
  BY <1>3 DEF WorkOnCache, Opened, MayClose, Unlocked
<1>4. CASE LockWorkspace(t)
  BY <1>4 DEF LockWorkspace
<1>5. CASE Compiled(t)
  <2>1. SlotsLocked' /\ SlotsApart'
    BY <1>5 DEF Compiled, HandedOver
  <2>2. Suited'
    BY <1>5 DEF Compiled, HandedOver
  <2>3. OneExecutor'
    BY <1>5 DEF Compiled, HandedOver
  <2>4. OneArc'
    BY <1>5 DEF Compiled, HandedOver
  <2>5. OwnArc'
    BY <1>5 DEF Compiled, HandedOver
  <2> QED
    BY <2>1, <2>2, <2>3, <2>4, <2>5
<1>6. CASE Deleted(t)
  <2>1. SlotsLocked' /\ SlotsApart'
    BY <1>6 DEF Deleted, Abandon, NoExecutor
  <2>2. Suited'
    BY <1>6 DEF Deleted, Abandon, NoExecutor
  <2>3. OneExecutor'
    BY <1>6 DEF Deleted, Abandon, NoExecutor
  <2>4. OneArc'
    BY <1>6 DEF Deleted, Abandon, NoExecutor
  <2>5. OwnArc'
    BY <1>6 DEF Deleted, Abandon, NoExecutor
  <2> QED
    BY <2>1, <2>2, <2>3, <2>4, <2>5
<1>7. CASE Executed(t)
  BY <1>7 DEF Executed
<1>8. CASE UnlockWorkspace(t)
  BY <1>8 DEF UnlockWorkspace, Release
<1>9. CASE UnlockCache(t)
  BY <1>9 DEF UnlockCache, Release
<1>10. CASE DropArcs(t)
  BY <1>10, SMTT(30) DEF DropArcs, Idle, LastArc
<1>11. CASE Close(t)
  <2>1. SlotsLocked' /\ SlotsApart' /\ Suited'
    BY <1>11 DEF Close, Unlocked, Idle
  <2>2. OneExecutor'
    BY <1>11 DEF Close, Unlocked, Idle
  <2>3. OneArc'
    BY <1>11 DEF Close, Unlocked, Idle
  <2>4. OwnArc'
    BY <1>11 DEF Close, Unlocked, Idle
  <2> QED
    BY <2>1, <2>2, <2>3, <2>4
<1>12. CASE NextToSave(t)
  BY <1>12 DEF NextToSave
<1>13. CASE SaveIndex(t)
  BY <1>13 DEF SaveIndex, Release
<1>14. CASE DropSaved(t)
  BY <1>14, SMTT(30) DEF DropSaved, Idle
<1>15. ASSUME NEW h \in Handles, NEW r \in Requests, BeginInit(t, h, r)
      PROVE  SharingInv'
  <2>1. /\ handle' = [handle EXCEPT ![t] = h]
        /\ op' = [op EXCEPT ![t] = "init"]
        /\ executors' = [executors EXCEPT ![h] = Allocated(r)]
        /\ \A u \in Threads : handle[u] # h
        /\ \A u \in Threads : u # t => pc'[u] = pc[u]
        /\ pc[t] = "idle" /\ pc'[t] \in {"lock_workspace", "get_cache"}
    BY <1>15 DEF BeginInit, Start, FreeHandles, Unused, Lowest
  <2>2. r.slot \in Slots \cup {None} /\ executors'[h].slot = r.slot
        /\ executors'[h].workspace = None
    BY <2>1, RequestsAssumption DEF Allocated
  <2>3. CASE \E w \in SharedWorkspace(r.slot) :
                /\ workspaceArc' = [workspaceArc EXCEPT ![t] = w]
                /\ UNCHANGED <<workspaceOf, lockRequired>>
    <3>1. PICK w \in Workspaces : /\ r.slot # None /\ workspaceOf[r.slot] = w
                                  /\ workspaceArc' = [workspaceArc EXCEPT ![t] = w]
                                  /\ UNCHANGED <<workspaceOf, lockRequired>>
      BY <2>3 DEF SharedWorkspace
    <3>2. lockRequired[w]
      BY <2>2, <3>1
    <3>3. SlotsLocked' /\ SlotsApart' /\ Suited'
      BY <2>1, <2>2, <3>1
    <3>4. OneExecutor' /\ OwnArc'
      BY <2>1, <2>2, <3>1, <3>2
    <3>5. OneArc'
      BY <2>1, <2>2, <3>1, <3>2
    <3> QED
      BY <3>3, <3>4, <3>5
  <2>4. CASE /\ SharedWorkspace(r.slot) = {}
             /\ \E w \in Lowest(FreeWorkspaces) :
                   /\ workspaceArc' = [workspaceArc EXCEPT ![t] = w]
                   /\ lockRequired' = [lockRequired EXCEPT ![w] = Locking(r.slot)]
                   /\ workspaceOf' = IF r.slot = None THEN workspaceOf
                                     ELSE [workspaceOf EXCEPT ![r.slot] = w]
    <3>1. PICK w \in Workspaces :
             /\ workspaceArc' = [workspaceArc EXCEPT ![t] = w]
             /\ lockRequired' = [lockRequired EXCEPT ![w] = (r.slot # None)]
             /\ workspaceOf' = IF r.slot = None THEN workspaceOf
                               ELSE [workspaceOf EXCEPT ![r.slot] = w]
             /\ \A g \in Handles : executors[g].workspace # w
             /\ \A u \in Threads : workspaceArc[u] # w
             /\ \A s \in Slots : workspaceOf[s] # w
      <4>1. PICK w \in Lowest(FreeWorkspaces) :
               /\ workspaceArc' = [workspaceArc EXCEPT ![t] = w]
               /\ lockRequired' = [lockRequired EXCEPT ![w] = (r.slot # None)]
               /\ workspaceOf' = IF r.slot = None THEN workspaceOf
                                 ELSE [workspaceOf EXCEPT ![r.slot] = w]
        BY <2>4, Zenon DEF Locking
      <4>2. w \in FreeWorkspaces
        BY DEF Lowest
      <4>3. /\ w \in Workspaces
            /\ \A g \in Handles : executors[g].workspace # w
            /\ \A u \in Threads : workspaceArc[u] # w
            /\ \A s \in Slots : workspaceOf[s] # w
        BY <4>2, Zenon DEF FreeWorkspaces, WorkspaceHolders
      <4> QED
        BY <4>1, <4>3
    \* Whoever holds what the slot named before would keep it alive.
    <3>2. /\ \A g \in Handles : r.slot # None /\ executors[g].workspace # None
                => executors[g].workspace # workspaceOf[r.slot]
          /\ \A u \in Threads : r.slot # None /\ workspaceArc[u] # None
                => workspaceArc[u] # workspaceOf[r.slot]
      BY <2>2, <2>4 DEF SharedWorkspace, WorkspaceAlive, WorkspaceHolders, Executors
    <3>8. lockRequired'[w] <=> r.slot # None
      <4> DEFINE v == r.slot # None
      <4>a. lockRequired' = [lockRequired EXCEPT ![w] = v] /\ w \in DOMAIN lockRequired
        BY <3>1
      <4> HIDE DEF v
      <4>b. lockRequired'[w] = v
        BY <4>a, Zenon
      <4>1. lockRequired'[w] = (r.slot # None)
        BY <4>b DEF v
      <4> QED
        BY <4>1
    <3>3. ASSUME NEW s \in Slots, workspaceOf'[s] # None
          PROVE  lockRequired'[workspaceOf'[s]]
      <4>1. CASE s = r.slot
        <5>1. r.slot # None
          BY <4>1
        <5>2. workspaceOf'[s] = w
          BY <3>1, <4>1, <5>1
        <5> QED
          BY <3>8, <5>1, <5>2
      <4>2. CASE s # r.slot
        <5>1. workspaceOf'[s] = workspaceOf[s]
          BY <3>1, <4>2
        <5>2. workspaceOf[s] \in Workspaces /\ workspaceOf[s] # w
          BY <3>1, <3>3, <5>1
        <5> QED
          BY <3>1, <5>1, <5>2
      <4> QED
        BY <4>1, <4>2
    <3>4. Suited'
      <4>1. ASSUME NEW v \in Workspaces, NEW s \in Slots \cup {None}, Suits(v, s),
                   v # w, s # None /\ s = r.slot => v # workspaceOf[r.slot]
            PROVE  Suits(v, s)'
        BY <2>2, <3>1, <4>1
      <4>2. Suits(w, r.slot)'
        BY <2>2, <3>1, <3>8
      <4>3. ASSUME NEW g \in Handles, executors'[g].workspace # None
            PROVE  Suits(executors[g].workspace, executors[g].slot)'
        <5>1. g # h /\ executors'[g] = executors[g]
          BY <2>1, <2>2, <4>3
        <5>2. executors[g] \in Executors
          OBVIOUS
        <5>3. executors[g].workspace \in Workspaces /\ executors[g].slot \in Slots \cup {None}
          BY <4>3, <5>1, <5>2 DEF Executors
        <5>4. Suits(executors[g].workspace, executors[g].slot)
          BY <4>3, <5>1
        <5>5. executors[g].workspace # w
          BY <3>1
        <5>6. executors[g].slot # None /\ executors[g].slot = r.slot
              => executors[g].workspace # workspaceOf[r.slot]
          BY <3>2, <5>3
        <5>7. Suits(executors[g].workspace, executors[g].slot)' <=>
              IF executors[g].slot = None THEN ~lockRequired'[executors[g].workspace]
              ELSE workspaceOf'[executors[g].slot] = executors[g].workspace
          BY <5>1
        <5> QED
          BY <4>1, <5>3, <5>4, <5>5, <5>6, <5>7
      <4>4. ASSUME NEW u \in Threads, Making(u)'
            PROVE  Suits(workspaceArc[u], executors[handle[u]].slot)'
        <5>1. CASE u = t
          BY <2>1, <2>2, <3>1, <4>2, <5>1
        <5>2. CASE u # t
          <6>1. /\ Making(u) /\ handle[u] \in Handles /\ handle'[u] = handle[u]
                /\ workspaceArc'[u] = workspaceArc[u] /\ workspaceArc[u] \in Workspaces
            BY <2>1, <3>1, <4>4, <5>2
          <6>2. executors'[handle[u]] = executors[handle[u]]
            BY <2>1, <6>1
          <6>3. executors[handle[u]] \in Executors
            BY <6>1
          <6>4. executors[handle[u]].slot \in Slots \cup {None}
            BY <6>3 DEF Executors
          <6>5. workspaceArc[u] # w /\ (r.slot # None => workspaceArc[u] # workspaceOf[r.slot])
            BY <3>1, <3>2, <6>1
          <6>6. Suits(workspaceArc[u], executors[handle[u]].slot)
            BY <6>1
          <6> QED
            BY <4>1, <6>1, <6>2, <6>4, <6>5, <6>6
        <5> QED
          BY <5>1, <5>2
      <4> QED
        BY <4>3, <4>4
    <3>5. OneExecutor' /\ OwnArc'
      BY <2>1, <2>2, <3>1
    <3>6. OneArc'
      BY <2>1, <3>1
    <3>7. SlotsLocked'
      BY <3>3
    <3>9. ASSUME NEW s \in Slots, NEW q \in Slots,
                 workspaceOf'[s] = workspaceOf'[q], workspaceOf'[s] # None
          PROVE  s = q
      <4>1. \A x \in Slots : workspaceOf'[x] = IF x = r.slot THEN w ELSE workspaceOf[x]
        BY <2>2, <3>1
      <4> QED
        BY <3>1, <3>9, <4>1
    <3> QED
      BY <3>4, <3>5, <3>6, <3>7, <3>9
  <2> QED
    BY <1>15, <2>3, <2>4 DEF BeginInit, GetWorkspace
<1>16. ASSUME NEW h \in Handles, NEW o \in {"execute", "destroy"}, BeginUse(t, h, o)
      PROVE  SharingInv'
  <2>1. SlotsLocked' /\ SlotsApart'
    BY <1>16 DEF BeginUse, Start, Unused, Live, LiveHasWorkspace
  <2>2. Suited'
    BY <1>16 DEF BeginUse, Start, Unused, Live, LiveHasWorkspace
  <2>3. OneExecutor'
    BY <1>16 DEF BeginUse, Start, Unused, Live, LiveHasWorkspace
  <2>4. OneArc'
    BY <1>16 DEF BeginUse, Start, Unused, Live, LiveHasWorkspace
  <2>5. OwnArc'
    BY <1>16 DEF BeginUse, Start, Unused, Live, LiveHasWorkspace
  <2> QED
    BY <2>1, <2>2, <2>3, <2>4, <2>5
<1>17. CASE BeginSave(t)
  BY <1>17 DEF BeginSave, Start, LiveCaches
<1>18. CASE InitRefused(t)
  BY <1>18 DEF InitRefused
<1> HIDE DEF SharingInv, SlotsLocked, SlotsApart, Suited, Suits, Making, OneExecutor,
      OneArc, OwnArc, ControlInv, StateTypes, Calls, Control, DelegateOps, OneCall, Goto,
      managers, locks, objects
<1> QED
  BY <1>1, <1>2, <1>3, <1>4, <1>5, <1>6, <1>7, <1>8, <1>9, <1>10, <1>11, <1>12, <1>13, <1>14,
     <1>15, <1>16, <1>17, <1>18 DEF Continue, Begin

-----------------------------------------------------------------------------
(* Caches: the one a path names is the one that is held *)

Held(c) == \/ \E h \in Handles : executors[h].cache = c
           \/ \E t \in Threads : cacheArc[t] = c /\ pc[t] # "close"
           \/ \E t \in Threads : c \in saving[t]

PathsAgree == \A p \in CachePaths : cacheOf[p] # None => pathOf[cacheOf[p]] = p
HeldIsNamed == \A c \in Caches : Held(c) => cacheOf[pathOf[c]] = c

\* Every executor and every init has the cache its path asks for, and a call of a
\* delegate the cache of its executor.
Served ==
    /\ \A h \in Handles : executors[h].cache # None =>
          pathOf[executors[h].cache] = executors[h].path
    /\ \A h \in Handles : ~Live(h) => executors[h].cache = None
    /\ \A h \in Handles : Live(h) /\ executors[h].cache = None => executors[h].path = None
    /\ \A t \in Threads : Making(t) =>
          /\ executors[handle[t]].cache = None
          /\ cacheArc[t] # None => pathOf[cacheArc[t]] = executors[handle[t]].path
          /\ cacheArc[t] = None /\ pc[t] # "get_cache" => executors[handle[t]].path = None
    /\ \A t \in Threads :
          /\ op[t] \in {"execute", "destroy"}
          /\ pc[t] \in {"lock_cache", "cache", "lock_workspace", "native"}
          => executors[handle[t]].cache = cacheArc[t]

CachesInv == PathsAgree /\ HeldIsNamed /\ Served

\* An upgrade of a Weak succeeds exactly if an executor, a call or a save_all has an Arc.
LEMMA AliveIsHeld ==
  ASSUME NEW c \in Caches
  PROVE  CacheAlive(c) <=> Held(c)
BY NoneAssumption DEF CacheAlive, CacheHolders, Held

\* Who drops the last Arc of a cache goes on to close its file.
LEMMA LastHolderCloses ==
  ASSUME ControlInv, Served, NEW c \in Caches, Held(c), ~Held(c)', NEW t \in Threads,
             Continue(t) \/ Begin(t)
  PROVE  pc'[t] = "close" /\ cacheArc'[t] = c
<1> USE NoneAssumption DEF Held, Served, Making, ControlInv, StateTypes, Calls, Control,
      DelegateOps, OneCall, Goto, managers, locks, objects
<1>1. CASE GetCache(t)
  BY <1>1, SMTT(30) DEF GetCache, UseCache
<1>2. CASE LockCache(t)
  BY <1>2 DEF LockCache
<1>3. CASE WorkOnCache(t)
  BY <1>3 DEF WorkOnCache, Opened, MayClose, Unlocked
<1>4. CASE LockWorkspace(t)
  BY <1>4 DEF LockWorkspace
<1>5. CASE Compiled(t)
  BY <1>5 DEF Compiled, HandedOver
<1>6. CASE Deleted(t)
  BY <1>6 DEF Deleted, Abandon, NoExecutor
<1>7. CASE Executed(t)
  BY <1>7 DEF Executed
<1>8. CASE UnlockWorkspace(t)
  BY <1>8 DEF UnlockWorkspace, Release
<1>9. CASE UnlockCache(t)
  BY <1>9 DEF UnlockCache, Release
<1>10. CASE DropArcs(t)
  BY <1>10 DEF DropArcs, Idle, LastArc, CacheHolders
<1>11. CASE Close(t)
  BY <1>11 DEF Close, Unlocked, Idle
<1>12. CASE NextToSave(t)
  BY <1>12 DEF NextToSave
<1>13. CASE SaveIndex(t)
  BY <1>13 DEF SaveIndex, Release
<1>14. CASE DropSaved(t)
  <2>1. executors' = executors /\ cacheArc[t] = None
    BY <1>14 DEF DropSaved
  <2>2. CASE saving' = saving /\ cacheArc' = cacheArc /\ Idle(t)
    BY <2>1, <2>2 DEF Idle
  <2>3. ASSUME NEW d \in saving[t],
               saving' = [saving EXCEPT ![t] = @ \ {d}],
               IF CacheHolders(d) = {t}
               THEN pc' = [pc EXCEPT ![t] = "close"] /\ cacheArc' = [cacheArc EXCEPT ![t] = d]
               ELSE UNCHANGED <<pc, cacheArc>>
        PROVE  pc'[t] = "close" /\ cacheArc'[t] = c
    <3>1. CASE CacheHolders(d) = {t}
      <4>1. \A x \in Threads : x # t => pc'[x] = pc[x] /\ cacheArc'[x] = cacheArc[x]
                                        /\ saving'[x] = saving[x]
        BY <2>3, <3>1
      <4>2. c = d
        BY <2>1, <2>3, <4>1
      <4> QED
        BY <2>3, <3>1, <4>2
    <3>2. CASE CacheHolders(d) # {t}
      <4>1. t \in CacheHolders(d)
        BY <2>3 DEF CacheHolders
      <4>2. PICK x \in CacheHolders(d) : x # t
        BY <3>2, <4>1
      <4>3. Held(d)'
        BY <2>1, <2>3, <3>2, <4>2 DEF CacheHolders
      <4>4. c = d
        BY <2>1, <2>3, <3>2
      <4> QED
        BY <4>3, <4>4
    <3> QED
      BY <3>1, <3>2
  <2> QED
    BY <1>14, <2>2, <2>3 DEF DropSaved
<1>15. ASSUME NEW h \in Handles, NEW r \in Requests, BeginInit(t, h, r)
      PROVE  pc'[t] = "close" /\ cacheArc'[t] = c
  BY <1>15, RequestsAssumption DEF BeginInit, Start, Allocated, FreeHandles, Unused, Lowest,
     Live
<1>16. ASSUME NEW h \in Handles, NEW o \in {"execute", "destroy"}, BeginUse(t, h, o)
      PROVE  pc'[t] = "close" /\ cacheArc'[t] = c
  BY <1>16 DEF BeginUse, Start, Unused
<1>17. CASE BeginSave(t)
  BY <1>17 DEF BeginSave, Start, LiveCaches, CacheAlive, CacheHolders
<1>18. CASE InitRefused(t)
  BY <1>18 DEF InitRefused
<1> HIDE DEF Held, Served, Making, ControlInv, StateTypes, Calls, Control,
      DelegateOps, OneCall, Goto, managers, locks, objects
<1> QED
  BY <1>1, <1>2, <1>3, <1>4, <1>5, <1>6, <1>7, <1>8, <1>9, <1>10, <1>11, <1>12, <1>13, <1>14,
     <1>15, <1>16, <1>17, <1>18 DEF Continue, Begin

\* Only get_or_create makes the first Arc of a cache.
LEMMA OnlyGetCacheRevives ==
  ASSUME ControlInv, Served, NEW c \in Caches, ~Held(c), Held(c)', NEW t \in Threads,
             Continue(t) \/ Begin(t)
  PROVE  GetCache(t) /\ cacheArc'[t] = c
<1> USE NoneAssumption DEF Held, Served, Making, ControlInv, StateTypes, Calls, Control,
      DelegateOps, OneCall, Goto, managers, locks, objects
<1>1. CASE GetCache(t)
  BY <1>1, SMTT(30) DEF GetCache, UseCache
<1>2. CASE LockCache(t)
  BY <1>2 DEF LockCache
<1>3. CASE WorkOnCache(t)
  BY <1>3 DEF WorkOnCache, Opened, MayClose, Unlocked
<1>4. CASE LockWorkspace(t)
  BY <1>4 DEF LockWorkspace
<1>5. CASE Compiled(t)
  BY <1>5 DEF Compiled, HandedOver
<1>6. CASE Deleted(t)
  BY <1>6 DEF Deleted, Abandon, NoExecutor
<1>7. CASE Executed(t)
  BY <1>7 DEF Executed
<1>8. CASE UnlockWorkspace(t)
  BY <1>8 DEF UnlockWorkspace, Release
<1>9. CASE UnlockCache(t)
  BY <1>9 DEF UnlockCache, Release
<1>10. CASE DropArcs(t)
  BY <1>10 DEF DropArcs, Idle, LastArc, CacheHolders
<1>11. CASE Close(t)
  BY <1>11 DEF Close, Unlocked, Idle
<1>12. CASE NextToSave(t)
  BY <1>12 DEF NextToSave
<1>13. CASE SaveIndex(t)
  BY <1>13 DEF SaveIndex, Release
<1>14. CASE DropSaved(t)
  <2>1. executors' = executors /\ cacheArc[t] = None
    BY <1>14 DEF DropSaved
  <2>2. CASE saving' = saving /\ cacheArc' = cacheArc /\ Idle(t)
    BY <2>1, <2>2 DEF Idle
  <2>3. ASSUME NEW d \in saving[t],
               saving' = [saving EXCEPT ![t] = @ \ {d}],
               IF CacheHolders(d) = {t}
               THEN pc' = [pc EXCEPT ![t] = "close"] /\ cacheArc' = [cacheArc EXCEPT ![t] = d]
               ELSE UNCHANGED <<pc, cacheArc>>
        PROVE  pc'[t] = "close" /\ cacheArc'[t] = c
    <3>1. CASE CacheHolders(d) = {t}
      <4>1. \A x \in Threads : x # t => pc'[x] = pc[x] /\ cacheArc'[x] = cacheArc[x]
                                        /\ saving'[x] = saving[x]
        BY <2>3, <3>1
      <4>2. c = d
        BY <2>1, <2>3, <4>1
      <4> QED
        BY <2>3, <3>1, <4>2
    <3>2. CASE CacheHolders(d) # {t}
      <4>1. t \in CacheHolders(d)
        BY <2>3 DEF CacheHolders
      <4>2. PICK x \in CacheHolders(d) : x # t
        BY <3>2, <4>1
      <4>3. Held(d)'
        BY <2>1, <2>3, <3>2, <4>2 DEF CacheHolders
      <4>4. c = d
        BY <2>1, <2>3, <3>2
      <4> QED
        BY <4>3, <4>4
    <3> QED
      BY <3>1, <3>2
  <2> QED
    BY <1>14, <2>2, <2>3, SMTT(30) DEF DropSaved
<1>15. ASSUME NEW h \in Handles, NEW r \in Requests, BeginInit(t, h, r)
      PROVE  GetCache(t) /\ cacheArc'[t] = c
  BY <1>15, RequestsAssumption DEF BeginInit, Start, Allocated, FreeHandles, Unused, Lowest
<1>16. ASSUME NEW h \in Handles, NEW o \in {"execute", "destroy"}, BeginUse(t, h, o)
      PROVE  GetCache(t) /\ cacheArc'[t] = c
  BY <1>16 DEF BeginUse, Start, Unused
<1>17. CASE BeginSave(t)
  BY <1>17 DEF BeginSave, Start, LiveCaches, CacheAlive, CacheHolders
<1>18. CASE InitRefused(t)
  BY <1>18 DEF InitRefused
<1> HIDE DEF Held, Served, Making, ControlInv, StateTypes, Calls, Control,
      DelegateOps, OneCall, Goto, managers, locks, objects
<1> QED
  BY <1>1, <1>2, <1>3, <1>4, <1>5, <1>6, <1>7, <1>8, <1>9, <1>10, <1>11, <1>12, <1>13, <1>14,
     <1>15, <1>16, <1>17, <1>18 DEF Continue, Begin

\* A new cache comes at an address that nothing names, for a path without a live cache.
LEMMA NewCache ==
  ASSUME ControlInv, NEW t \in Threads, GetCache(t)
  PROVE  \E c \in Caches : LET p == executors[handle[t]].path IN
            /\ p \in CachePaths
            /\ cacheArc' = [cacheArc EXCEPT ![t] = c]
            /\ \/ /\ Held(c) /\ cacheOf[p] = c
                  /\ UNCHANGED <<cacheOf, pathOf>>
               \/ /\ ~Held(c) /\ (\A u \in Threads : cacheArc[u] # c)
                  /\ \A q \in CachePaths : cacheOf[q] # c
                  /\ \A d \in Caches : cacheOf[p] = d => ~Held(d)
                  /\ cacheOf' = [cacheOf EXCEPT ![p] = c]
                  /\ pathOf' = [pathOf EXCEPT ![c] = p]
<1> DEFINE p == executors[handle[t]].path
<1>1. p \in CachePaths
  BY DEF ControlInv, WantsCache, GetCache
<1>2. CASE \E c \in SharedCache(p) : UseCache(t, c) /\ UNCHANGED <<cacheOf, pathOf, provider>>
  <2>1. PICK c \in SharedCache(p) : UseCache(t, c) /\ UNCHANGED <<cacheOf, pathOf, provider>>
    BY <1>2
  <2>2. c \in Caches /\ cacheOf[p] = c /\ Held(c)
    BY AliveIsHeld DEF SharedCache
  <2> QED
    BY <1>1, <2>1, <2>2 DEF UseCache
<1>3. CASE /\ SharedCache(p) = {}
           /\ \E c \in Lowest(FreeCaches) : /\ UseCache(t, c)
                                            /\ cacheOf' = [cacheOf EXCEPT ![p] = c]
                                            /\ pathOf' = [pathOf EXCEPT ![c] = p]
  <2>1. PICK c \in FreeCaches : /\ UseCache(t, c)
                                /\ cacheOf' = [cacheOf EXCEPT ![p] = c]
                                /\ pathOf' = [pathOf EXCEPT ![c] = p]
    BY <1>3 DEF Lowest
  <2>2. c \in Caches /\ ~Held(c) /\ (\A u \in Threads : cacheArc[u] # c)
        /\ \A q \in CachePaths : cacheOf[q] # c
    BY AliveIsHeld DEF FreeCaches, CacheAlive
  <2>3. \A d \in Caches : cacheOf[p] = d => ~Held(d)
    BY <1>3, AliveIsHeld DEF SharedCache
  <2> QED
    BY <1>1, <2>1, <2>2, <2>3 DEF UseCache
<1> QED
  BY <1>2, <1>3 DEF GetCache

\* save_all clears the entries of caches nobody holds.
LEMMA Purged ==
  ASSUME ControlInv, NEW t \in Threads, BeginSave(t)
  PROVE  /\ \A p \in CachePaths : cacheOf'[p] \in {cacheOf[p], None}
         /\ \A p \in CachePaths, c \in Caches : Held(c) /\ cacheOf[p] = c => cacheOf'[p] = c
         /\ saving'[t] = LiveCaches /\ cacheArc' = cacheArc /\ pathOf' = pathOf
<1>1. \A p \in Paths, c \in Caches : Held(c) /\ cacheOf[p] = c => c \in LiveCaches
  BY AliveIsHeld DEF LiveCaches
<1> QED
  BY <1>1 DEF BeginSave, Start, objects, ControlInv, StateTypes

\* Nothing else writes what the managers and the caches know of paths.
LEMMA PathsKept ==
  ASSUME NEW t \in Threads, Continue(t) \/ Begin(t), ~GetCache(t)
  PROVE  pathOf' = pathOf /\ (BeginSave(t) \/ cacheOf' = cacheOf)
BY DEF Continue, Begin, LockCache, WorkOnCache, LockWorkspace, Compiled, Deleted, Executed,
   UnlockWorkspace, UnlockCache, DropArcs, Close, NextToSave, SaveIndex, DropSaved,
   BeginInit, BeginUse, BeginSave, InitRefused, Start, managers, objects

\* The manager's table names for each path a cache that was made for it.
LEMMA PathsAgreeStep ==
  ASSUME ControlInv, PathsAgree, NEW t \in Threads, Continue(t) \/ Begin(t)
  PROVE  PathsAgree'
<1>1. CASE GetCache(t)
  BY <1>1, NewCache, SMTT(30) DEF PathsAgree, ControlInv, StateTypes
<1>2. CASE BeginSave(t)
  BY <1>2, Purged DEF PathsAgree, ControlInv, StateTypes
<1>3. CASE ~GetCache(t) /\ ~BeginSave(t)
  BY <1>3, PathsKept DEF PathsAgree
<1> QED
  BY <1>1, <1>2, <1>3

\* A cache that somebody holds stays the one get_or_create finds for its path.
LEMMA HeldIsNamedStep ==
  ASSUME ControlInv, CachesInv, NEW t \in Threads, Continue(t) \/ Begin(t)
  PROVE  HeldIsNamed'
<1> SUFFICES ASSUME NEW c \in Caches, Held(c)'
             PROVE  cacheOf'[pathOf'[c]] = c
  BY DEF HeldIsNamed
<1> USE DEF ControlInv, StateTypes
<1>1. Held(c) => cacheOf[pathOf[c]] = c /\ pathOf[c] \in CachePaths
  BY DEF CachesInv, HeldIsNamed
<1>2. Held(c) \/ (GetCache(t) /\ cacheArc'[t] = c)
  BY OnlyGetCacheRevives DEF CachesInv
<1>3. CASE GetCache(t)
  <2> DEFINE p == executors[handle[t]].path
  <2>1. PICK d \in Caches :
            /\ p \in CachePaths
            /\ cacheArc' = [cacheArc EXCEPT ![t] = d]
            /\ \/ /\ Held(d) /\ cacheOf[p] = d
                  /\ UNCHANGED <<cacheOf, pathOf>>
               \/ /\ ~Held(d)
                  /\ \A e \in Caches : cacheOf[p] = e => ~Held(e)
                  /\ cacheOf' = [cacheOf EXCEPT ![p] = d]
                  /\ pathOf' = [pathOf EXCEPT ![d] = p]
    BY <1>3, NewCache
  <2>2. CASE Held(c)
    BY <1>1, <2>1, <2>2
  <2>3. CASE ~Held(c)
    <3>1. c = d
      BY <1>2, <2>1, <2>3
    <3> QED
      BY <2>1, <2>3, <3>1
  <2> QED
    BY <2>2, <2>3
<1>4. CASE BeginSave(t)
  <2>1. Held(c)
    BY <1>2, <1>4 DEF BeginSave, Start, GetCache
  <2> QED
    BY <1>1, <1>4, <2>1, Purged
<1>5. CASE ~GetCache(t) /\ ~BeginSave(t)
  BY <1>1, <1>2, <1>5, PathsKept
<1> QED
  BY <1>3, <1>4, <1>5

\* A delegate gets and keeps the cache of its own path, through handover, execute,
\* destroy and failure.
LEMMA ServedStep ==
  ASSUME ControlInv, CachesInv, NEW t \in Threads, Continue(t) \/ Begin(t)
  PROVE  Served'
<1> USE NoneAssumption DEF CachesInv, Served, Making, Live, ControlInv, StateTypes, Calls,
      Control, DelegateOps, OneCall, WantsCache, Goto, managers, locks, objects
<1>1. CASE GetCache(t)
  <2> DEFINE p == executors[handle[t]].path
  <2>1. PICK d \in Caches :
            /\ p \in CachePaths
            /\ cacheArc' = [cacheArc EXCEPT ![t] = d]
            /\ \/ /\ Held(d) /\ cacheOf[p] = d
                  /\ UNCHANGED <<cacheOf, pathOf>>
               \/ /\ ~Held(d) /\ (\A u \in Threads : cacheArc[u] # d)
                  /\ pathOf' = [pathOf EXCEPT ![d] = p]
    BY <1>1, NewCache
  <2>2. pathOf'[d] = p
    BY <2>1 DEF PathsAgree
  <2>3. \A c \in Caches : c # d \/ Held(c) => pathOf'[c] = pathOf[c]
    BY <2>1
  <2>4. /\ executors' = executors /\ op' = op /\ handle' = handle
        /\ pc' = [pc EXCEPT ![t] = "lock_cache"] /\ pc[t] = "get_cache" /\ op[t] = "init"
    BY <1>1 DEF GetCache, UseCache
  <2>5. \A h \in Handles : executors[h].cache # None =>
            executors[h].cache \in Caches /\ Held(executors[h].cache)
    BY DEF Executors, Held
  <2>6. \A u \in Threads :
           u # t /\ cacheArc[u] # None => pathOf'[cacheArc[u]] = pathOf[cacheArc[u]]
    <3> SUFFICES ASSUME NEW u \in Threads, u # t, cacheArc[u] # None
                 PROVE  pathOf'[cacheArc[u]] = pathOf[cacheArc[u]]
      OBVIOUS
    <3>1. cacheArc[u] \in Caches
      OBVIOUS
    <3> QED
      BY <2>1, <2>3, <3>1
  <2>7. \A h \in Handles : executors'[h].cache # None =>
            pathOf'[executors'[h].cache] = executors'[h].path
    BY <2>3, <2>4, <2>5
  <2>8. \A u \in Threads : Making(u)' =>
          /\ executors'[handle'[u]].cache = None
          /\ cacheArc'[u] # None => pathOf'[cacheArc'[u]] = executors'[handle'[u]].path
          /\ cacheArc'[u] = None /\ pc'[u] # "get_cache" => executors'[handle'[u]].path = None
    BY <2>1, <2>2, <2>4, <2>6
  <2> QED
    BY <2>1, <2>4, <2>7, <2>8
<1>2. CASE LockCache(t)
  BY <1>2 DEF LockCache
<1>3. CASE WorkOnCache(t)
  BY <1>3 DEF WorkOnCache, Opened, MayClose, Unlocked
<1>4. CASE LockWorkspace(t)
  BY <1>4 DEF LockWorkspace
<1>5. CASE Compiled(t)
  BY <1>5 DEF Compiled, HandedOver
<1>6. CASE Deleted(t)
  BY <1>6 DEF Deleted, Abandon, NoExecutor
<1>7. CASE Executed(t)
  BY <1>7 DEF Executed
<1>8. CASE UnlockWorkspace(t)
  BY <1>8 DEF UnlockWorkspace, Release
<1>9. CASE UnlockCache(t)
  BY <1>9 DEF UnlockCache, Release
<1>10. CASE DropArcs(t)
  BY <1>10 DEF DropArcs, Idle
<1>11. CASE Close(t)
  BY <1>11 DEF Close, Unlocked, Idle
<1>12. CASE NextToSave(t)
  BY <1>12 DEF NextToSave
<1>13. CASE SaveIndex(t)
  BY <1>13 DEF SaveIndex, Release
<1>14. CASE DropSaved(t)
  BY <1>14 DEF DropSaved, Idle
<1>15. ASSUME NEW h \in Handles, NEW r \in Requests, BeginInit(t, h, r)
      PROVE  Served'
  BY <1>15, RequestsAssumption DEF BeginInit, Start, Allocated, FreeHandles, Unused, Lowest
<1>16. ASSUME NEW h \in Handles, NEW o \in {"execute", "destroy"}, BeginUse(t, h, o)
      PROVE  Served'
  BY <1>16 DEF BeginUse, Start, Unused
<1>17. CASE BeginSave(t)
  BY <1>17 DEF BeginSave, Start, LiveCaches
<1>18. CASE InitRefused(t)
  BY <1>18 DEF InitRefused
<1> HIDE DEF CachesInv, Served, Making, Live, ControlInv, StateTypes, Calls,
      Control, DelegateOps, OneCall, WantsCache, Goto, managers, locks, objects
<1> QED
  BY <1>1, <1>2, <1>3, <1>4, <1>5, <1>6, <1>7, <1>8, <1>9, <1>10, <1>11, <1>12, <1>13, <1>14,
     <1>15, <1>16, <1>17, <1>18 DEF Continue, Begin


\* A file is locked by a cache of its path that is alive or about to close it.
LEMMA FileLockStep ==
  ASSUME ControlInv, CachesInv, FileLockOwned, NEW t \in Threads, Continue(t) \/ Begin(t)
  PROVE  FileLockOwned'
<1> DEFINE Closing(k) == \E u \in Threads : pc[u] = "close" /\ cacheArc[u] = k
<1> USE NoneAssumption DEF ControlInv, StateTypes
<1>1. ASSUME NEW p \in Paths, NEW k \in Caches, fileLock[p] = k
      PROVE  pathOf[k] = p /\ (Held(k) \/ Closing(k))
  BY <1>1, AliveIsHeld DEF FileLockOwned
<1>2. ASSUME NEW k \in Caches, Held(k) \/ Closing(k)
      PROVE  pathOf'[k] = pathOf[k]
  <2>1. CASE GetCache(t)
    <3>1. PICK d \in Caches : \/ pathOf' = pathOf
                              \/ /\ ~Held(d) /\ (\A u \in Threads : cacheArc[u] # d)
                                 /\ \E q : pathOf' = [pathOf EXCEPT ![d] = q]
      BY <2>1, NewCache
    <3> QED
      BY <1>2, <3>1
  <2> QED
    BY <2>1, PathsKept
<1>3. ASSUME NEW k \in Caches, Held(k), ~Held(k)'
      PROVE  pc'[t] = "close" /\ cacheArc'[t] = k
  BY <1>3, LastHolderCloses DEF CachesInv
<1>4. ASSUME NEW u \in Threads, pc[u] = "close", u # t \/ ~Close(t)
      PROVE  pc'[u] = "close" /\ cacheArc'[u] = cacheArc[u]
  BY <1>4 DEF Continue, Begin, GetCache, UseCache, LockCache, WorkOnCache, LockWorkspace,
     Compiled,
     Deleted, Executed, UnlockWorkspace, UnlockCache, DropArcs, Close, NextToSave, SaveIndex,
     DropSaved, BeginInit, BeginUse, BeginSave, InitRefused, Start, Idle, Goto
<1>5. ASSUME NEW p \in Paths, NEW k \in Caches, fileLock'[p] = k
      PROVE  pathOf'[k] = p /\ (Held(k)' \/ Closing(k)')
  <2>1. CASE Close(t)
    <3>1. fileLock[p] = k /\ cacheArc[t] # k /\ pc'[t] # "close"
      BY <1>5, <2>1 DEF Close, Unlocked, Idle, Goto
    <3>2. /\ pathOf[k] = p
          /\ Held(k) \/ \E u \in Threads : u # t /\ pc[u] = "close" /\ cacheArc[u] = k
      BY <1>1, <3>1
    <3>3. Held(k) => Held(k)'
      BY <1>3, <3>1
    <3> QED
      BY <1>2, <1>4, <3>2, <3>3
  <2>2. CASE ~Close(t) /\ fileLock[p] = k
    <3>1. pathOf[k] = p /\ (Held(k) \/ Closing(k))
      BY <1>1, <2>2
    <3>2. Held(k) => Held(k)' \/ Closing(k)'
      BY <1>3
    <3>3. Closing(k) => Closing(k)'
      BY <1>4, <2>2
    <3> QED
      BY <1>2, <3>1, <3>2, <3>3
  <2>3. CASE ~Close(t) /\ fileLock[p] # k
    <3>0. fileLock' \notin MayClose(cacheArc[t])
      BY <1>5, <2>3 DEF MayClose, Unlocked
    <3>1. WorkOnCache(t)
      BY <1>5, <2>3, <3>0 DEF Continue, Begin, GetCache, UseCache, LockCache, LockWorkspace,
         Compiled,
         Deleted, Executed, UnlockWorkspace, UnlockCache, DropArcs, NextToSave, SaveIndex,
         DropSaved, BeginInit, BeginUse, BeginSave, InitRefused, Start
    <3>2. fileLock' \in Opened(cacheArc[t])
      BY <3>0, <3>1 DEF WorkOnCache
    <3>3. cacheArc[t] = k /\ pathOf[k] = p
      BY <1>5, <2>3, <3>2 DEF Opened
    <3> QED
      BY <3>1, <3>3 DEF WorkOnCache, Goto, Held, objects
  <2> QED
    BY <2>1, <2>2, <2>3
<1>6. fileLock' \in [Paths -> Caches \cup {None}]
  BY TypesStep
<1>7. \A k \in Caches : Held(k)' => CacheAlive(k)'
  BY DEF CacheAlive, CacheHolders, Held
<1> QED
  BY <1>5, <1>6, <1>7 DEF FileLockOwned

-----------------------------------------------------------------------------
(* The theorems *)

BackendInv == /\ ControlInv /\ CacheGuards /\ WorkspaceGuards
              /\ SharingInv /\ CachesInv /\ FileLockOwned

\* The inductive invariant: control, guards, sharing, the caches' table and the file
\* locks, each of which a step preserves given those before it.
LEMMA BackendInvHolds == Spec => []BackendInv
<1>1. Init => BackendInv
  <2> SUFFICES ASSUME Init PROVE BackendInv
    OBVIOUS
  <2> USE NoneAssumption, CallsAssumption DEF Init
  <2>1. ControlInv
    BY DEF ControlInv, StateTypes, Calls, Control, DelegateOps, OneCall, WantsCache,
       LiveHasWorkspace, Live, Labels, Executors, NoExecutor, CachePaths
  <2>2. CacheGuards /\ WorkspaceGuards
    BY DEF CacheGuards, WorkspaceGuards, OnCache, Inside
  <2>3. SharingInv
    BY DEF SharingInv, SlotsLocked, SlotsApart, Suited, OneExecutor, OneArc, OwnArc, Making, NoExecutor
  <2>4. CachesInv
    BY DEF CachesInv, PathsAgree, HeldIsNamed, Served, Held, Making, Live, NoExecutor
  <2>5. FileLockOwned
    BY DEF FileLockOwned
  <2> QED
    BY <2>1, <2>2, <2>3, <2>4, <2>5 DEF BackendInv
<1>2. BackendInv /\ [Next]_vars => BackendInv'
  <2> SUFFICES ASSUME BackendInv, [Next]_vars PROVE BackendInv'
    OBVIOUS
  <2>1. ASSUME NEW t \in Threads, Continue(t) \/ Begin(t)
        PROVE  BackendInv'
    <3> USE <2>1 DEF BackendInv
    <3>1. ControlInv'
      BY TypesStep, ControlStep DEF ControlInv
    <3>2. CacheGuards' /\ WorkspaceGuards'
      BY CacheGuardsStep, WorkspaceGuardsStep
    <3>3. SharingInv'
      BY SharingStep
    <3>4. CachesInv'
      BY PathsAgreeStep, HeldIsNamedStep, ServedStep DEF CachesInv
    <3>5. FileLockOwned'
      BY FileLockStep
    <3> QED
      BY <3>1, <3>2, <3>3, <3>4, <3>5
  <2>2. CASE UNCHANGED vars
    BY <2>2 DEF vars, locals, managers, locks, objects, BackendInv, ControlInv, StateTypes,
       Calls,
       Control, OneCall, WantsCache, LiveHasWorkspace, Live, CacheGuards, WorkspaceGuards,
       OnCache, Inside, SharingInv, SlotsLocked, SlotsApart, Suited, Suits, OneExecutor, OneArc, OwnArc,
       Making, CachesInv, PathsAgree, HeldIsNamed, Served, Held, FileLockOwned, CacheAlive,
       CacheHolders
  <2> QED
    BY <2>1, <2>2 DEF Next
<1> QED
  BY <1>1, <1>2, PTL DEF Spec

\* Types, and every delegate that XnnpackBackend::init handed out has its workspace
\* and the cache it asked for.
THEOREM TypeCorrect == Spec => []TypeOK
<1>1. BackendInv => TypeOK
  BY NoneAssumption DEF BackendInv, ControlInv, LiveHasWorkspace, CachesInv, Served, TypeOK,
     StateTypes, CachePaths, Executors
<1> QED
  BY <1>1, BackendInvHolds, PTL

\* XNNPACK is not entered twice with one workspace and a cache not changed by two
\* calls: of two calls in one workspace one waits, or it is not shared at all.
THEOREM CallsExclude == Spec => []Exclusive
<1>1. BackendInv => Exclusive
  BY NoneAssumption DEF BackendInv, ControlInv, StateTypes, Calls, Control, CacheGuards,
     WorkspaceGuards, OnCache, Inside, SharingInv, OneArc, Exclusive
<1> QED
  BY <1>1, BackendInvHolds, PTL

\* A guard that was transmuted to a longer life is never in a mutex that is gone:
\* its call holds an Arc of the object until it has dropped the guard.  Nor is the
\* flock of a path left with a cache that is gone.
THEOREM LocksStayAlive == Spec => []LocksAlive
<1>1. BackendInv => LocksAlive
  <2> SUFFICES ASSUME BackendInv PROVE LocksAlive
    OBVIOUS
  <2> USE NoneAssumption DEF BackendInv, ControlInv, StateTypes
  <2>1. ASSUME NEW c \in Caches, cacheLock[c] # None
        PROVE  CacheAlive(c)
    <3>1. PICK t \in Threads : cacheLock[c] = t
      BY <2>1
    <3>2. OnCache(t) /\ cacheArc[t] = c
      BY <3>1 DEF CacheGuards
    <3> QED
      BY <3>2 DEF OnCache, CacheAlive, CacheHolders
  <2>2. ASSUME NEW w \in Workspaces, workspaceLock[w] # None
        PROVE  WorkspaceAlive(w)
    <3>1. PICK t \in Threads : workspaceLock[w] = t
      BY <2>2
    <3> QED
      BY <3>1 DEF WorkspaceGuards, WorkspaceAlive, WorkspaceHolders
  <2> QED
    BY <2>1, <2>2 DEF GuardsAlive, LocksAlive
<1> QED
  BY <1>1, BackendInvHolds, PTL

\* Delegates of one packed_cache_path share one cache: whoever holds a cache keeps
\* it the one that the manager hands out for its path.
THEOREM PathsHaveOneCache == Spec => []OneCachePerPath
<1>1. BackendInv => OneCachePerPath
  <2> SUFFICES ASSUME BackendInv, NEW g \in Handles, NEW h \in Handles, Live(g), Live(h),
                      executors[g].path = executors[h].path
               PROVE  executors[g].cache = executors[h].cache
    BY DEF OneCachePerPath
  <2>1. /\ executors[g].cache \in Caches \cup {None}
        /\ executors[h].cache \in Caches \cup {None}
    BY DEF BackendInv, ControlInv, StateTypes, Executors
  <2>2. ASSUME NEW e \in {g, h}, executors[e].cache # None
        PROVE  /\ cacheOf[executors[e].path] = executors[e].cache
               /\ executors[e].path # None
    <3>1. executors[e].cache \in Caches /\ Held(executors[e].cache)
      BY <2>1, <2>2 DEF Held
    <3>2. pathOf[executors[e].cache] = executors[e].path
      BY <2>2 DEF BackendInv, CachesInv, Served
    <3>3. pathOf[executors[e].cache] \in CachePaths
      BY <3>1 DEF BackendInv, ControlInv, StateTypes
    <3> QED
      BY <3>1, <3>2, <3>3, NoneAssumption DEF BackendInv, CachesInv, HeldIsNamed, CachePaths
  <2>3. ASSUME NEW e \in {g, h}, executors[e].cache = None
        PROVE  executors[e].path = None
    BY <2>3 DEF BackendInv, CachesInv, Served
  <2> QED
    BY <2>2, <2>3
<1> QED
  BY <1>1, BackendInvHolds, PTL

\* Sharing is what the options ask for: two delegates have one workspace exactly if
\* both were made under one sharing slot.  Different slots name different
\* workspaces, and with sharing disabled a delegate has its own, unlocked.
THEOREM WorkspacesSharedAsAsked == Spec => []SharedAsAsked
<1>1. BackendInv => SharedAsAsked
  <2> SUFFICES ASSUME BackendInv, NEW g \in Handles, NEW h \in Handles,
                      Live(g), Live(h), g # h
               PROVE  executors[g].workspace = executors[h].workspace
                      <=> executors[g].slot = executors[h].slot /\ executors[g].slot # None
    BY DEF SharedAsAsked
  <2>1. ASSUME NEW e \in {g, h}
        PROVE  /\ executors[e].slot \in Slots \cup {None}
               /\ executors[e].workspace # None
               /\ Suits(executors[e].workspace, executors[e].slot)
    BY DEF BackendInv, ControlInv, StateTypes, Executors, LiveHasWorkspace, SharingInv, Suited
  <2>2. CASE executors[g].slot = None \/ executors[h].slot = None
    BY <2>1, <2>2 DEF BackendInv, SharingInv, OneExecutor, SlotsLocked, Suits
  <2>3. CASE executors[g].slot # None /\ executors[h].slot # None
    BY <2>1, <2>3 DEF BackendInv, SharingInv, SlotsApart, Suits
  <2> QED
    BY <2>2, <2>3
<1> QED
  BY <1>1, BackendInvHolds, PTL
=============================================================================
