---------------------------- MODULE MmapDataLoader ----------------------------
(***************************************************************************)
(* MmapDataLoader: segments of a file mapped into the address space, and   *)
(* the FreeableBuffers that own the mappings.  A buffer keeps only the     *)
(* address and the size of its data; its free function finds the pages     *)
(* again from these.  Buffers are freed, dropped and moved in any order,   *)
(* also after the loader is gone.  The page table is the operating         *)
(* system's: a file page for each mapped page of the address space.        *)
(***************************************************************************)
EXTENDS Integers, FiniteSets

CONSTANTS PageSize, FileSize,
          Pages,      \* numbers of the pages of the address space
          Buffers,    \* FreeableBuffer objects
          Configs,    \* the MlockConfig values tried
          None

ASSUME SizesAssumption == PageSize \in Nat \ {0} /\ FileSize \in Nat
ASSUME PagesAssumption == Pages \subseteq Nat \ {0} /\ None \notin Nat

VARIABLES open,      \* the loader and its descriptor live
          config,    \* mlock_config_
          table,     \* the file page a page of the address space maps, or None
          buffers,   \* data_, size_ and free_fn_ of each FreeableBuffer
          origin,    \* the file offset a buffer was loaded from
          lockFailed \* an mlock has failed a load
vars == <<open, config, table, buffers, origin, lockFailed>>

FilePages == 0 .. FileSize \div PageSize

-----------------------------------------------------------------------------
(* Pages *)

PageOf(address) == address \div PageSize

\* get_overlapping_pages, in bytes: start and size are multiples of the page size.
RangeStart(offset) == PageSize * PageOf(offset)
RangeSizeOf(offset, size) == PageSize * (PageOf(size + PageSize - 1))
RangeSize(offset, size) ==
    PageSize * PageOf(offset + size + PageSize - 1) - RangeStart(offset)

\* The pages a system call on a range of bytes means.
Touched(start, length) == {p \in Pages : /\ PageOf(start) <= p
                                         /\ p * PageSize < start + length}

Unmapped(start, length) ==
    [p \in Pages |-> IF p \in Touched(start, length) THEN None ELSE table[p]]

\* mmap finds room for a range anywhere in the address space.
Room(length) == {p \in Pages : \A q \in p .. p + PageOf(length + PageSize - 1) - 1 :
                                   q \in Pages /\ table[q] = None}
Mapped(p, start, length) ==
    [q \in Pages |-> IF q \in Touched(p * PageSize, length)
                     THEN PageOf(start) + q - p ELSE table[q]]

\* The range does not go past the end of the file.
MapSize(offset, size) ==
    LET start == RangeStart(offset) IN
    IF start + RangeSize(offset, size) > FileSize THEN FileSize - start
    ELSE RangeSize(offset, size)

-----------------------------------------------------------------------------
(* FreeableBuffer *)

Null == [data |-> None, size |-> 0, owned |-> FALSE]
Unused(b) == buffers[b] = Null

\* munmap_segment.
MunmappedBytes(data, size) == Unmapped(RangeStart(data), size)
Munmapped(data, size) == Unmapped(RangeStart(data), RangeSize(data, size))

FreedTable(b) == IF buffers[b].data # None /\ buffers[b].owned
                 THEN Munmapped(buffers[b].data, buffers[b].size) ELSE table

\* free, which Drop calls again: the null data makes the second one do nothing.
FreedKeepingData(b) == [buffers EXCEPT ![b].size = 0]
Freed(b) == [buffers EXCEPT ![b].data = None, ![b].size = 0]

FreeBuffer(b) ==
    /\ ~Unused(b)
    /\ table' = FreedTable(b)
    /\ buffers' = Freed(b) /\ origin' = [origin EXCEPT ![b] = 0]
    /\ UNCHANGED <<open, config, lockFailed>>

DropBuffer(b) ==
    /\ ~Unused(b)
    /\ table' = FreedTable(b)
    /\ buffers' = [buffers EXCEPT ![b] = Null] /\ origin' = [origin EXCEPT ![b] = 0]
    /\ UNCHANGED <<open, config, lockFailed>>

\* from_move: the old object forgets its data.
Moved(a, b) == [buffers EXCEPT ![b] = buffers[a], ![a] = Null]

MoveBuffer(a, b) ==
    /\ ~Unused(a) /\ Unused(b)
    /\ buffers' = Moved(a, b)
    /\ origin' = [origin EXCEPT ![b] = origin[a], ![a] = 0]
    /\ UNCHANGED <<open, config, table, lockFailed>>

-----------------------------------------------------------------------------
(* The loader *)

Open(c) ==
    /\ ~open
    /\ open' = TRUE /\ config' = c
    /\ UNCHANGED <<table, buffers, origin, lockFailed>>

DropLoader ==
    /\ open /\ open' = FALSE /\ config' = None
    /\ UNCHANGED <<table, buffers, origin, lockFailed>>

Valid(offset, size) == offset + size <= FileSize

\* load.  Of no bytes it returns a buffer as null as an unused one.
Loaded(b, p, offset, size) ==
    /\ table' = Mapped(p, RangeStart(offset), MapSize(offset, size))
    /\ buffers' = [buffers EXCEPT ![b] =
          [data |-> p * PageSize + offset - RangeStart(offset), size |-> size, owned |-> TRUE]]
    /\ origin' = [origin EXCEPT ![b] = offset]
    /\ UNCHANGED <<open, config, lockFailed>>

\* A failed mlock fails the load under UseMlock, and size bytes are unmapped: of
\* data that does not start on a page, one page too few.
LockFails(p, offset, size) ==
    /\ config = "UseMlock"
    /\ LET mapped == Mapped(p, RangeStart(offset), MapSize(offset, size)) IN
        table' = [q \in Pages |-> IF q \in Touched(p * PageSize, size) THEN None ELSE mapped[q]]
    /\ lockFailed' = TRUE
    /\ UNCHANGED <<open, config, buffers, origin>>

Load(b, offset, size) ==
    /\ open /\ Unused(b) /\ size > 0 /\ Valid(offset, size)
    /\ \E p \in Room(MapSize(offset, size)) :
        Loaded(b, p, offset, size) \/ LockFails(p, offset, size)

\* load_into maps, copies and unmaps: what is left is what was there.
LoadInto(offset, size) ==
    /\ open /\ size > 0 /\ Valid(offset, size)
    /\ \E p \in Room(MapSize(offset, size)) :
        LET length == MapSize(offset, size)
            mapped == Mapped(p, RangeStart(offset), length) IN
        table' = [q \in Pages |-> IF q \in Touched(p * PageSize, length) THEN None ELSE mapped[q]]
    /\ UNCHANGED <<open, config, buffers, origin, lockFailed>>

Init == /\ open = FALSE /\ config = None
        /\ table = [p \in Pages |-> None]
        /\ buffers = [b \in Buffers |-> Null]
        /\ origin = [b \in Buffers |-> 0]
        /\ lockFailed = FALSE

Next == \/ \E c \in Configs : Open(c)
        \/ DropLoader
        \/ \E b \in Buffers, offset, size \in 0 .. FileSize : Load(b, offset, size)
        \/ \E offset, size \in 0 .. FileSize : LoadInto(offset, size)
        \/ \E b \in Buffers : FreeBuffer(b) \/ DropBuffer(b)
        \/ \E a, b \in Buffers : MoveBuffer(a, b)

Spec == Init /\ [][Next]_vars

-----------------------------------------------------------------------------
(* Properties *)

\* Types: data is an address of a page that exists, and a size goes with it.
TypeOK == /\ open \in BOOLEAN /\ lockFailed \in BOOLEAN
          /\ config \in Configs \cup {None}
          /\ table \in [Pages -> FilePages \cup {None}]
          /\ origin \in [Buffers -> 0 .. FileSize]
          /\ \A b \in Buffers :
                /\ buffers[b].data = None => buffers[b].size = 0
                /\ buffers[b].data # None =>
                      /\ buffers[b].owned /\ buffers[b].size \in 1 .. FileSize
                      /\ PageOf(buffers[b].data) \in Pages

Live(b) == buffers[b].data # None
DataPages(b) == PageOf(buffers[b].data) ..
                PageOf(buffers[b].data + buffers[b].size - 1)

\* Every byte of a live buffer is the byte of the file it was loaded from: through
\* moves, second frees, the release of neighbours and of the loader, and loads that
\* failed.  (munmap_segment finds the pages again from an address and a size.)
BuffersMapped ==
    \A b \in {x \in Buffers : Live(x)} : \A i \in 0 .. buffers[b].size - 1 :
        LET address == buffers[b].data + i IN
        /\ PageOf(address) \in Pages
        /\ table[PageOf(address)] = PageOf(origin[b] + i)
        /\ address % PageSize = (origin[b] + i) % PageSize

\* Every mapped page has one owner, so a release takes no page of another buffer
\* with it, and unless an mlock failed there is no page without one: load_into
\* leaves nothing behind, a free gives back every page of its load, whatever the
\* offset in the first page and the rounding at the end of the file.
PagesOwned ==
    /\ \A a, b \in Buffers :
          a # b /\ Live(a) /\ Live(b) => DataPages(a) \cap DataPages(b) = {}
    /\ \/ lockFailed
       \/ {p \in Pages : table[p] # None} = UNION {DataPages(b) : b \in {x \in Buffers : Live(x)}}
=============================================================================
