------------------------- MODULE MmapDataLoaderProofs -------------------------
(***************************************************************************)
(* Theorems about MmapDataLoader, for every page size, file size, address  *)
(* space and set of buffers: a release finds the pages of its load again.  *)
(***************************************************************************)
EXTENDS MmapDataLoader, TLAPS

-----------------------------------------------------------------------------
(* Pages *)

\* More pages are more bytes.
LEMMA PagesMonotone ==
  ASSUME NEW j \in Int, NEW k \in Int
  PROVE  /\ j <= k <=> PageSize * j <= PageSize * k
         /\ j < k <=> PageSize * j + PageSize <= PageSize * k
BY SizesAssumption

\* Division and remainder by a page size P, in the words the provers need.
LEMMA Division ==
  ASSUME NEW P \in Nat \ {0}, NEW a \in Nat
  PROVE  /\ a \div P \in Nat /\ a % P \in 0 .. P - 1
         /\ a = P * (a \div P) + (a % P)
<1>1. a \div P \in Int
  OBVIOUS
<1>2. a % P \in 0 .. P - 1
  OBVIOUS
<1>3. a = P * (a \div P) + (a % P)
  OBVIOUS
<1>4. ASSUME a \div P <= -1 PROVE FALSE
  <2> DEFINE q == a \div P
  <2>1. P * q <= -P
    BY <1>1, <1>4
  <2> QED
    BY <1>2, <1>3, <2>1
<1> QED
  BY <1>1, <1>2, <1>3, <1>4

\* Every address is in a page, at a place in it.
LEMMA AddressInPage ==
  ASSUME NEW a \in Nat
  PROVE  /\ PageOf(a) \in Nat /\ a % PageSize \in 0 .. PageSize - 1
         /\ a = PageSize * PageOf(a) + (a % PageSize)
         /\ PageSize * PageOf(a) <= a /\ a < PageSize * PageOf(a) + PageSize
<1>1. /\ PageOf(a) \in Nat /\ a % PageSize \in 0 .. PageSize - 1
      /\ a = PageSize * PageOf(a) + (a % PageSize)
  BY Division, SizesAssumption DEF PageOf
<1>2. PageSize * PageOf(a) \in Nat
  BY <1>1, SizesAssumption
<1> QED
  BY <1>1, <1>2, SizesAssumption

\* An address between the ends of a page is in that page.
LEMMA PageIs ==
  ASSUME NEW a \in Nat, NEW k \in Int, PageSize * k <= a, a < PageSize * k + PageSize
  PROVE  PageOf(a) = k /\ a % PageSize = a - PageSize * k
<1> DEFINE q == PageOf(a)
           r == a % PageSize
<1>1. q \in Nat /\ r \in 0 .. PageSize - 1 /\ a = PageSize * q + r
  BY AddressInPage
<1>2. PageSize * q \in Int /\ PageSize * k \in Int /\ PageSize \in Nat
  BY <1>1, SizesAssumption
<1> HIDE DEF q, r
<1>3. ~(q < k)
  <2> SUFFICES ASSUME q < k PROVE FALSE
    OBVIOUS
  <2>1. PageSize * q + PageSize <= PageSize * k
    BY <1>1, PagesMonotone
  <2> QED
    BY <1>1, <1>2, <2>1
<1>4. ~(k < q)
  <2> SUFFICES ASSUME k < q PROVE FALSE
    OBVIOUS
  <2>1. PageSize * k + PageSize <= PageSize * q
    BY <1>1, PagesMonotone
  <2> QED
    BY <1>1, <1>2, <2>1
<1>5. q = k
  BY <1>1, <1>3, <1>4
<1>6. r = a - PageSize * k
  BY <1>1, <1>2, <1>5
<1> QED
  BY <1>5, <1>6 DEF q, r

\* A higher address is in no lower page.
LEMMA PageOfMonotone ==
  ASSUME NEW a \in Nat, NEW b \in Nat, a <= b
  PROVE  PageOf(a) <= PageOf(b)
<1> DEFINE j == PageOf(a)
           k == PageOf(b)
<1>1. j \in Nat /\ k \in Nat /\ PageSize * j <= a /\ b < PageSize * k + PageSize
  BY AddressInPage
<1>2. PageSize * j \in Int /\ PageSize * k \in Int /\ PageSize \in Nat
  BY <1>1, SizesAssumption
<1> HIDE DEF j, k
<1>3. ~(k < j)
  <2> SUFFICES ASSUME k < j PROVE FALSE
    OBVIOUS
  <2>1. PageSize * k + PageSize <= PageSize * j
    BY <1>1, PagesMonotone
  <2> QED
    BY <1>1, <1>2, <2>1
<1> QED
  BY <1>1, <1>3 DEF j, k

\* Adding whole pages to an address moves its page and keeps its place in it.
LEMMA PageShift ==
  ASSUME NEW a \in Nat, NEW d \in Int, a + PageSize * d \in Nat
  PROVE  /\ PageOf(a + PageSize * d) = PageOf(a) + d
         /\ (a + PageSize * d) % PageSize = a % PageSize
<1> DEFINE q == PageOf(a)
           r == a % PageSize
           c == a + PageSize * d
<1>1. /\ q \in Nat /\ r \in 0 .. PageSize - 1 /\ a = PageSize * q + r
      /\ PageSize * q <= a /\ a < PageSize * q + PageSize
  BY AddressInPage
<1>2. PageSize * (q + d) = PageSize * q + PageSize * d
  BY <1>1, SizesAssumption
<1>3. PageSize * q \in Int /\ PageSize * d \in Int /\ PageSize \in Nat /\ q + d \in Int
  BY <1>1, SizesAssumption
<1>4. c \in Nat
  OBVIOUS
<1>5. PageSize * (q + d) <= c /\ c < PageSize * (q + d) + PageSize
  BY <1>1, <1>2, <1>3
<1>6. PageOf(c) = q + d /\ c % PageSize = c - PageSize * (q + d)
  <2> HIDE DEF c, q, r
  <2> QED
    BY <1>3, <1>4, <1>5, PageIs
<1>7. c - PageSize * (q + d) = r
  BY <1>1, <1>2, <1>3
<1> QED
  BY <1>6, <1>7

-----------------------------------------------------------------------------
(* The pages of a segment *)

\* The number of pages the bytes from offset on are in.
SegmentPages(offset, size) == PageOf(offset + size - 1) - PageOf(offset) + 1

\* get_overlapping_pages covers these pages and no more.
LEMMA RangeSizeIs ==
  ASSUME NEW offset \in Nat, NEW size \in Nat \ {0}
  PROVE  /\ SegmentPages(offset, size) \in Nat \ {0}
         /\ RangeSize(offset, size) = PageSize * SegmentPages(offset, size)
<1> DEFINE f == PageOf(offset)
           l == PageOf(offset + size - 1)
<1>1. f \in Nat /\ l \in Nat /\ f <= l
  BY AddressInPage, PageOfMonotone
<1>2. PageOf(offset + size + PageSize - 1) = l + 1
  <2>1. PageSize * 1 = PageSize /\ PageSize \in Nat
    BY SizesAssumption
  <2>2. offset + size + PageSize - 1 = (offset + size - 1) + PageSize * 1
    BY <2>1
  <2>3. offset + size - 1 \in Nat /\ (offset + size - 1) + PageSize * 1 \in Nat
    BY <2>1
  <2> QED
    BY <2>2, <2>3, PageShift
<1>3. PageSize * (l + 1) - PageSize * f = PageSize * (l - f + 1)
  BY <1>1, SizesAssumption
<1> QED
  BY <1>1, <1>2, <1>3 DEF RangeSize, RangeStart, SegmentPages

\* The mapping of a segment ends in its last page, at the end of the file or of the page.
LEMMA MapSizeIs ==
  ASSUME NEW offset \in Nat, NEW size \in Nat \ {0}, Valid(offset, size)
  PROVE  /\ MapSize(offset, size) \in Nat /\ size <= MapSize(offset, size)
         /\ PageSize * (SegmentPages(offset, size) - 1) < MapSize(offset, size)
         /\ MapSize(offset, size) <= PageSize * SegmentPages(offset, size)
<1> DEFINE f == PageOf(offset)
           l == PageOf(offset + size - 1)
           n == SegmentPages(offset, size)
           F == PageSize * f
           L == PageSize * l
<1>1. f \in Nat /\ l \in Nat /\ n \in Nat /\ n = l - f + 1 /\ PageSize \in Nat \ {0}
  BY AddressInPage, RangeSizeIs, SizesAssumption DEF SegmentPages
<1>2. F \in Nat /\ L \in Nat /\ F <= offset /\ L <= offset + size - 1
      /\ offset + size - 1 < L + PageSize
  <2>1. F \in Nat /\ L \in Nat
    BY <1>1
  <2>2. F <= offset
    BY AddressInPage
  <2>3. offset + size - 1 \in Nat
    OBVIOUS
  <2>4. L <= offset + size - 1 /\ offset + size - 1 < L + PageSize
    BY <2>3, AddressInPage
  <2> QED
    BY <2>1, <2>2, <2>4
<1>3. PageSize * n = L - F + PageSize /\ PageSize * (n - 1) = L - F
  BY <1>1, SizesAssumption
<1>4. RangeSize(offset, size) = L - F + PageSize
  BY <1>3, RangeSizeIs
<1>5. offset + size <= FileSize /\ FileSize \in Nat
  BY SizesAssumption DEF Valid
<1>6. MapSize(offset, size) = IF L + PageSize > FileSize THEN FileSize - F ELSE L - F + PageSize
  BY <1>1, <1>2, <1>4 DEF MapSize, RangeStart
<1> DEFINE m == MapSize(offset, size)
<1>7. m \in Nat /\ size <= m /\ PageSize * (n - 1) < m /\ m <= PageSize * n
  <2>1. m = IF L + PageSize > FileSize THEN FileSize - F ELSE L - F + PageSize
    BY <1>6
  <2> HIDE DEF f, l, n, F, L, m
  <2> QED
    BY <1>1, <1>2, <1>3, <1>5, <2>1
<1> QED
  BY <1>7

\* A system call on bytes that end in the n-th page from p on means n pages.
LEMMA TouchedIs ==
  ASSUME NEW p \in Nat, NEW length \in Nat, NEW n \in Nat,
         PageSize * (n - 1) < length, length <= PageSize * n
  PROVE  /\ Touched(p * PageSize, length) = Pages \cap (p .. p + n - 1)
         /\ PageOf(length + PageSize - 1) = n
<1>1. PageOf(p * PageSize) = p
  <2>1. p * PageSize = PageSize * p /\ PageSize * p \in Nat /\ PageSize \in Nat \ {0}
    BY SizesAssumption
  <2>2. PageSize * p <= p * PageSize /\ p * PageSize < PageSize * p + PageSize
    BY <2>1
  <2> QED
    BY <2>1, <2>2, PageIs
<1>2. ASSUME NEW q \in Pages
      PROVE  q * PageSize < p * PageSize + length <=> q <= p + n - 1
  <2>1. q \in Nat /\ PageSize \in Nat \ {0}
    BY SizesAssumption, PagesAssumption
  <2>2. q * PageSize = PageSize * q /\ PageSize * q \in Nat
        /\ p * PageSize = PageSize * p /\ PageSize * p \in Nat /\ PageSize * n \in Nat
    BY <2>1
  <2>3. PageSize * (p + n - 1) = PageSize * p + PageSize * (n - 1)
        /\ PageSize * (p + n) = PageSize * p + PageSize * n /\ PageSize * (n - 1) \in Int
    BY <2>1
  <2>4. CASE q <= p + n - 1
    <3>1. PageSize * q <= PageSize * (p + n - 1)
      BY <2>1, <2>4, PagesMonotone
    <3> QED
      BY <2>2, <2>3, <2>4, <3>1
  <2>5. CASE p + n <= q
    <3>1. PageSize * (p + n) <= PageSize * q
      BY <2>1, <2>5, PagesMonotone
    <3> QED
      BY <2>1, <2>2, <2>3, <2>5, <3>1
  <2> QED
    BY <2>1, <2>4, <2>5
<1>3. Touched(p * PageSize, length) = {q \in Pages : p <= q /\ q <= p + n - 1}
  BY <1>1, <1>2 DEF Touched
<1>4. {q \in Pages : p <= q /\ q <= p + n - 1} = Pages \cap (p .. p + n - 1)
  <2>1. p + n - 1 \in Int
    OBVIOUS
  <2>2. \A q \in Pages : q \in p .. p + n - 1 <=> p <= q /\ q <= p + n - 1
    BY <2>1, PagesAssumption
  <2> QED
    BY <2>2
<1>5. PageOf(length + PageSize - 1) = n
  <2>1. PageSize \in Nat \ {0} /\ PageSize * n \in Nat /\ PageSize * (n - 1) = PageSize * n - PageSize
    BY SizesAssumption
  <2>2. PageSize * n <= length + PageSize - 1 /\ length + PageSize - 1 < PageSize * n + PageSize
        /\ length + PageSize - 1 \in Nat
    BY <2>1
  <2> QED
    BY <2>2, PageIs
<1> QED
  BY <1>3, <1>4, <1>5

\* Where mmap finds room for a segment, and what the mapping covers: whole free pages.
LEMMA RoomIs ==
  ASSUME NEW offset \in Nat, NEW size \in Nat \ {0}, Valid(offset, size),
         NEW p \in Room(MapSize(offset, size))
  PROVE  LET S == p .. p + SegmentPages(offset, size) - 1 IN
         /\ p \in Nat /\ S \subseteq Pages /\ \A q \in S : table[q] = None
         /\ Touched(p * PageSize, MapSize(offset, size)) = S
         /\ Touched(p * PageSize, size) \subseteq S
<1> DEFINE n == SegmentPages(offset, size)
           m == MapSize(offset, size)
<1>1. p \in Nat /\ n \in Nat /\ m \in Nat /\ size <= m
      /\ PageSize * (n - 1) < m /\ m <= PageSize * n
  BY MapSizeIs, RangeSizeIs, PagesAssumption DEF Room
<1>2. Touched(p * PageSize, m) = Pages \cap (p .. p + n - 1) /\ PageOf(m + PageSize - 1) = n
  <2> HIDE DEF m, n
  <2> QED
    BY <1>1, TouchedIs
<1>3. \A q \in p .. p + n - 1 : q \in Pages /\ table[q] = None
  BY <1>2 DEF Room
<1>4. Touched(p * PageSize, size) \subseteq Touched(p * PageSize, m)
  <2>1. PageSize \in Nat /\ p * PageSize \in Nat
    BY <1>1, SizesAssumption
  <2>2. \A q \in Pages : q * PageSize \in Nat
    BY <2>1, PagesAssumption
  <2> HIDE DEF m
  <2>3. \A q \in Pages : q * PageSize < p * PageSize + size => q * PageSize < p * PageSize + m
    BY <1>1, <2>1, <2>2
  <2> QED
    BY <2>3 DEF Touched
<1> QED
  BY <1>1, <1>2, <1>3, <1>4

-----------------------------------------------------------------------------
(* The invariant *)

Types == /\ open \in BOOLEAN /\ lockFailed \in BOOLEAN
         /\ config \in Configs \cup {None}
         /\ table \in [Pages -> FilePages \cup {None}]
         /\ origin \in [Buffers -> 0 .. FileSize]
         /\ buffers \in [Buffers -> [data: Nat \cup {None}, size: Nat, owned: BOOLEAN]]
         /\ \A b \in Buffers : ~Live(b) => buffers[b].size = 0

\* The data of a live buffer starts where its origin starts in a page, and its pages
\* map the pages of the file from there on: what a free function relies on when it
\* finds the pages again.
Holds(b) ==
    /\ buffers[b].owned /\ buffers[b].size \in 1 .. FileSize
    /\ origin[b] + buffers[b].size <= FileSize
    /\ buffers[b].data % PageSize = origin[b] % PageSize
    /\ DataPages(b) \subseteq Pages
    /\ \A q \in DataPages(b) : table[q] = PageOf(origin[b]) + q - PageOf(buffers[b].data)

LiveHold == \A b \in Buffers : Live(b) => Holds(b)

LoaderInv == Types /\ LiveHold /\ PagesOwned

\* A live buffer's data, size and origin are numbers.
LEMMA LiveNumbers ==
  ASSUME Types, LiveHold, NEW b \in Buffers, Live(b)
  PROVE  /\ buffers[b].data \in Nat /\ buffers[b].size \in Nat \ {0} /\ origin[b] \in Nat
         /\ PageOf(buffers[b].data) \in Nat /\ PageOf(origin[b]) \in Nat
         /\ Holds(b) /\ DataPages(b) \subseteq Pages
<1>1. /\ buffers[b].data \in Nat /\ buffers[b].size \in Nat \ {0} /\ origin[b] \in Nat
      /\ Holds(b) /\ DataPages(b) \subseteq Pages
  BY SizesAssumption DEF Types, LiveHold, Holds, Live
<1> QED
  BY <1>1, AddressInPage

\* The pages of a live buffer are mapped.
LEMMA LiveMapped ==
  ASSUME Types, LiveHold, NEW b \in Buffers, Live(b), NEW q \in DataPages(b)
  PROVE  q \in Pages /\ table[q] # None
<1>1. /\ q \in Pages /\ q \in Nat /\ PageOf(buffers[b].data) <= q
      /\ table[q] = PageOf(origin[b]) + q - PageOf(buffers[b].data)
      /\ PageOf(buffers[b].data) \in Nat /\ PageOf(origin[b]) \in Nat
  BY LiveNumbers, PagesAssumption DEF Holds, DataPages
<1>2. table[q] \in Nat
  BY <1>1
<1> QED
  BY <1>1, <1>2, PagesAssumption

\* A release takes the pages of its buffer out of the table.
LEMMA FreedTableIs ==
  ASSUME Types, LiveHold, NEW b \in Buffers
  PROVE  /\ FreedTable(b) = IF Live(b)
              THEN [p \in Pages |-> IF p \in DataPages(b) THEN None ELSE table[p]] ELSE table
         /\ FreedTable(b) \in [Pages -> FilePages \cup {None}]
<1>1. CASE ~Live(b)
  BY <1>1 DEF FreedTable, Live, Types
<1>2. CASE Live(b)
  <2> DEFINE d == buffers[b].data
             s == buffers[b].size
             n == SegmentPages(d, s)
             p == PageOf(d)
  <2>1. d \in Nat /\ s \in Nat \ {0} /\ p \in Nat /\ DataPages(b) \subseteq Pages /\ buffers[b].owned
    BY <1>2, LiveNumbers DEF Holds
  <2>2. n \in Nat \ {0} /\ RangeSize(d, s) = PageSize * n
    BY <2>1, RangeSizeIs
  <2>3. RangeStart(d) = p * PageSize
    BY <2>1, SizesAssumption DEF RangeStart
  <2>4. DataPages(b) = p .. p + n - 1
    <3>1. PageOf(d + s - 1) \in Nat
      BY <2>1, AddressInPage
    <3>2. p + n - 1 = PageOf(d + s - 1)
      BY <2>1, <3>1 DEF SegmentPages
    <3> QED
      BY <3>2 DEF DataPages
  <2>5. Touched(p * PageSize, PageSize * n) = Pages \cap (p .. p + n - 1)
    <3> HIDE DEF p, n
    <3>1. /\ PageSize \in Nat \ {0} /\ PageSize * n \in Nat
          /\ PageSize * (n - 1) = PageSize * n - PageSize
      BY <2>2, SizesAssumption
    <3>2. PageSize * (n - 1) < PageSize * n /\ PageSize * n <= PageSize * n
      BY <3>1
    <3> QED
      BY <2>1, <2>2, <3>1, <3>2, TouchedIs
  <2>6. FreedTable(b) = Unmapped(p * PageSize, PageSize * n)
    BY <1>2, <2>1, <2>2, <2>3 DEF FreedTable, Munmapped, Live
  <2>7. Touched(p * PageSize, PageSize * n) = DataPages(b)
    BY <2>1, <2>4, <2>5
  <2>8. FreedTable(b) = [x \in Pages |-> IF x \in DataPages(b) THEN None ELSE table[x]]
    BY <2>6, <2>7 DEF Unmapped
  <2> QED
    BY <1>2, <2>8 DEF Types
<1> QED
  BY <1>1, <1>2

\* What a release leaves: the other buffers with their pages, and no page without one.
LEMMA ReleaseKeeps ==
  ASSUME LoaderInv, NEW b \in Buffers, table' = FreedTable(b), lockFailed' = lockFailed,
         buffers'[b].data = None,
         \A x \in Buffers \ {b} : buffers'[x] = buffers[x] /\ origin'[x] = origin[x]
  PROVE  LiveHold' /\ PagesOwned'
<1>1. \A x \in Buffers : Live(x)' <=> x # b /\ Live(x)
  BY DEF Live
<1>2. \A x \in Buffers \ {b} : DataPages(x)' = DataPages(x)
  BY DEF DataPages
<1>3. \A x \in Buffers \ {b}, q \in Pages : Live(x) /\ q \in DataPages(x) => table'[q] = table[q]
  <2> SUFFICES ASSUME NEW x \in Buffers \ {b}, NEW q \in Pages, Live(x), q \in DataPages(x)
               PROVE  table'[q] = table[q]
    OBVIOUS
  <2>1. CASE Live(b)
    <3>1. q \notin DataPages(b)
      BY <2>1 DEF LoaderInv, PagesOwned
    <3> QED
      BY <2>1, <3>1, FreedTableIs DEF LoaderInv
  <2>2. CASE ~Live(b)
    BY <2>2, FreedTableIs DEF LoaderInv
  <2> QED
    BY <2>1, <2>2
<1>4. LiveHold'
  <2> SUFFICES ASSUME NEW x \in Buffers, Live(x)' PROVE Holds(x)'
    BY DEF LiveHold
  <2>1. x # b /\ Live(x) /\ Holds(x) /\ DataPages(x)' = DataPages(x)
        /\ buffers'[x] = buffers[x] /\ origin'[x] = origin[x]
    BY <1>1, <1>2 DEF LoaderInv, LiveHold
  <2> QED
    BY <1>3, <2>1 DEF Holds
<1>5. PagesOwned'
  <2>1. \A x, y \in Buffers : x # y /\ Live(x)' /\ Live(y)' => DataPages(x)' \cap DataPages(y)' = {}
    BY <1>1, <1>2 DEF LoaderInv, PagesOwned
  <2>2. ASSUME ~lockFailed
        PROVE  {p \in Pages : table'[p] # None}
                 = UNION {DataPages(x)' : x \in {y \in Buffers : Live(y)'}}
    <3>1. {p \in Pages : table[p] # None} = UNION {DataPages(x) : x \in {y \in Buffers : Live(y)}}
      BY <2>2 DEF LoaderInv, PagesOwned
    <3>2. ASSUME NEW p \in Pages, table'[p] # None
          PROVE  \E x \in Buffers : Live(x)' /\ p \in DataPages(x)'
      <4>1. table[p] # None /\ ~(Live(b) /\ p \in DataPages(b))
        BY <3>2, FreedTableIs DEF LoaderInv
      <4>2. PICK x \in Buffers : Live(x) /\ p \in DataPages(x)
        BY <3>1, <4>1
      <4> QED
        BY <1>1, <1>2, <4>1, <4>2
    <3>3. ASSUME NEW x \in Buffers, Live(x)', NEW p \in DataPages(x)'
          PROVE  p \in Pages /\ table'[p] # None
      BY <1>1, <1>2, <1>3, <3>3, LiveMapped DEF LoaderInv
    <3> QED
      BY <3>2, <3>3
  <2> QED
    BY <2>1, <2>2 DEF PagesOwned
<1> QED
  BY <1>4, <1>5

\* Where a load puts its data: the pages of the mapping are the pages of the data.
LEMMA LoadedIs ==
  ASSUME LoaderInv, NEW b \in Buffers, NEW offset \in Nat, NEW size \in Nat \ {0},
         Valid(offset, size), NEW p \in Room(MapSize(offset, size)),
         Loaded(b, p, offset, size)
  PROVE  /\ buffers'[b].data \in Nat /\ buffers'[b].size = size /\ buffers'[b].owned
         /\ origin'[b] = offset /\ PageOf(buffers'[b].data) = p
         /\ buffers'[b].data % PageSize = offset % PageSize
         /\ DataPages(b)' = p .. p + SegmentPages(offset, size) - 1
<1> DEFINE f == PageOf(offset)
           d == p * PageSize + offset - RangeStart(offset)
<1>1. /\ buffers'[b] = [data |-> d, size |-> size, owned |-> TRUE] /\ origin'[b] = offset
  BY DEF Loaded, LoaderInv, Types
<1>2. p \in Nat /\ f \in Nat /\ PageSize \in Nat \ {0} /\ PageSize * f \in Nat /\ PageSize * f <= offset
  <2>1. p \in Nat
    BY RoomIs
  <2>2. f \in Nat /\ PageSize * f <= offset
    BY AddressInPage
  <2>3. PageSize \in Nat \ {0} /\ PageSize * f \in Nat
    BY <2>2, SizesAssumption
  <2> QED
    BY <2>1, <2>2, <2>3
<1>3. d = offset + PageSize * (p - f) /\ p * PageSize \in Nat
  BY <1>2 DEF RangeStart
<1>4. d \in Nat
  BY <1>2, <1>3 DEF RangeStart
<1>5. PageOf(d) = p /\ d % PageSize = offset % PageSize
  <2> DEFINE c == offset + PageSize * (p - f)
  <2>1. PageOf(c) = f + (p - f) /\ c % PageSize = offset % PageSize
    <3>1. p - f \in Int /\ c \in Nat
      BY <1>2, <1>3, <1>4
    <3> QED
      BY <3>1, PageShift
  <2>2. d = c
    BY <1>3
  <2> HIDE DEF c, d, f
  <2> QED
    BY <1>2, <2>1, <2>2
<1>6. PageOf(d + size - 1) = p + SegmentPages(offset, size) - 1
  <2> DEFINE l == PageOf(offset + size - 1)
  <2>1. offset + size - 1 \in Nat /\ d + size - 1 \in Nat
    BY <1>4
  <2>2. l \in Nat
    BY <2>1, AddressInPage
  <2>3. d + size - 1 = (offset + size - 1) + PageSize * (p - f)
    <3>1. PageSize * (p - f) \in Int
      BY <1>2
    <3> QED
      BY <1>3, <3>1
  <2>4. PageOf(d + size - 1) = l + (p - f)
    <3> DEFINE e == offset + size - 1
    <3>1. p - f \in Int /\ e \in Nat /\ e + PageSize * (p - f) \in Nat
      BY <1>2, <2>1, <2>3
    <3>2. PageOf(e + PageSize * (p - f)) = PageOf(e) + (p - f)
      <4> HIDE DEF e, f
      <4> QED
        BY <3>1, PageShift
    <3> QED
      BY <2>3, <3>2
  <2> QED
    BY <1>2, <2>2, <2>4 DEF SegmentPages
<1> QED
  BY <1>1, <1>4, <1>5, <1>6 DEF DataPages

\* A buffer's pages are not among the free pages of a room.
LEMMA RoomApart ==
  ASSUME LoaderInv, NEW S, \A q \in S : table[q] = None, NEW x \in Buffers, Live(x)
  PROVE  S \cap DataPages(x) = {}
BY LiveMapped DEF LoaderInv

\* Buffers that are not touched keep what they hold when their pages are left alone.
LEMMA OthersHold ==
  ASSUME LoaderInv, NEW x \in Buffers, Live(x), buffers'[x] = buffers[x], origin'[x] = origin[x],
         \A q \in DataPages(x) : table'[q] = table[q]
  PROVE  Holds(x)' /\ DataPages(x)' = DataPages(x)
BY DEF LoaderInv, LiveHold, Holds, DataPages

\* The table after a mapping holds pages of the file.
LEMMA MappedType ==
  ASSUME Types, NEW offset \in Nat, NEW size \in Nat \ {0},
         Valid(offset, size), NEW p \in Room(MapSize(offset, size))
  PROVE  LET S == p .. p + SegmentPages(offset, size) - 1
             mapped == Mapped(p, RangeStart(offset), MapSize(offset, size)) IN
         /\ mapped \in [Pages -> FilePages \cup {None}]
         /\ mapped = [q \in Pages |-> IF q \in S THEN PageOf(offset) + q - p ELSE table[q]]
<1> DEFINE f == PageOf(offset)
           l == PageOf(offset + size - 1)
           S == p .. p + SegmentPages(offset, size) - 1
           mapped == Mapped(p, RangeStart(offset), MapSize(offset, size))
<1>1. PageOf(RangeStart(offset)) = f
  <2>1. f \in Nat /\ PageSize \in Nat \ {0} /\ PageSize * f \in Nat
    <3>1. f \in Nat
      BY AddressInPage
    <3> QED
      BY <3>1, SizesAssumption
  <2>2. PageSize * f < PageSize * f + PageSize /\ PageSize * f <= PageSize * f
    BY <2>1
  <2> QED
    BY <2>1, <2>2, PageIs DEF RangeStart
<1>2. Touched(p * PageSize, MapSize(offset, size)) = S /\ p \in Nat
  BY RoomIs
<1>3. mapped = [q \in Pages |-> IF q \in S THEN f + q - p ELSE table[q]]
  BY <1>1, <1>2 DEF Mapped
<1>4. f \in Nat /\ l \in Nat /\ l <= PageOf(FileSize) /\ PageOf(FileSize) \in Nat
  <2>1. offset + size - 1 \in Nat /\ FileSize \in Nat /\ offset + size - 1 <= FileSize
    BY SizesAssumption DEF Valid
  <2> QED
    BY <2>1, AddressInPage, PageOfMonotone
<1>5. \A q \in S : f + q - p \in FilePages
  <2>1. \A q \in S : q \in Int /\ p <= q /\ q <= p + (l - f + 1) - 1
    BY <1>2, <1>4 DEF SegmentPages
  <2>2. FilePages = 0 .. PageOf(FileSize)
    BY DEF FilePages, PageOf
  <2> HIDE DEF f, l, S
  <2> QED
    BY <1>2, <1>4, <2>1, <2>2
<1>6. mapped \in [Pages -> FilePages \cup {None}]
  <2> HIDE DEF S, f, mapped
  <2> QED
    BY <1>3, <1>5 DEF Types
<1> QED
  BY <1>3, <1>6

\* A load that succeeds.
LEMMA LoadedKeeps ==
  ASSUME LoaderInv, NEW b \in Buffers, NEW offset \in 0 .. FileSize, NEW size \in 1 .. FileSize,
         Unused(b), Valid(offset, size), NEW p \in Room(MapSize(offset, size)),
         Loaded(b, p, offset, size)
  PROVE  LoaderInv'
<1> DEFINE S == p .. p + SegmentPages(offset, size) - 1
           d == buffers'[b].data
<1>1. /\ offset \in Nat /\ size \in Nat \ {0} /\ Types /\ LiveHold /\ PagesOwned
      /\ offset + size <= FileSize /\ FileSize \in Nat
  BY SizesAssumption DEF LoaderInv, Valid
<1>2. /\ d \in Nat /\ buffers'[b].size = size /\ buffers'[b].owned
      /\ origin'[b] = offset /\ PageOf(d) = p /\ d % PageSize = offset % PageSize
      /\ DataPages(b)' = S
  BY <1>1, LoadedIs
<1>3. p \in Nat /\ S \subseteq Pages /\ \A q \in S : table[q] = None
  BY <1>1, RoomIs
<1>4. /\ table' = [q \in Pages |-> IF q \in S THEN PageOf(offset) + q - p ELSE table[q]]
      /\ table' \in [Pages -> FilePages \cup {None}]
  BY <1>1, MappedType DEF Loaded
<1>5. /\ \A x \in Buffers \ {b} : buffers'[x] = buffers[x] /\ origin'[x] = origin[x]
      /\ UNCHANGED <<open, config, lockFailed>>
  BY <1>1 DEF Loaded, Types
<1>6. \A x \in Buffers : Live(x)' <=> x = b \/ Live(x)
  <2>1. Live(b)'
    BY <1>2, PagesAssumption DEF Live
  <2> QED
    BY <1>5, <2>1 DEF Live
<1>7. ~Live(b)
  BY DEF Unused, Null, Live
<1> HIDE DEF S
<1>8. ASSUME NEW x \in Buffers \ {b}, Live(x)
      PROVE  /\ S \cap DataPages(x) = {} /\ Holds(x)' /\ DataPages(x)' = DataPages(x)
             /\ DataPages(x) \subseteq Pages
  <2>1. S \cap DataPages(x) = {}
    BY <1>3, <1>8, RoomApart
  <2>2. DataPages(x) \subseteq Pages
    BY <1>1, <1>8, LiveNumbers
  <2>3. \A q \in DataPages(x) : table'[q] = table[q]
    BY <1>4, <2>1, <2>2
  <2> QED
    BY <1>5, <1>8, <2>1, <2>2, <2>3, OthersHold
<1>9. Types'
  <2>1. buffers'[b] \in [data: Nat \cup {None}, size: Nat, owned: BOOLEAN]
    <3>1. d \in Nat \cup {None}
      BY <1>2
    <3>2. buffers'[b] = [data |-> d, size |-> size, owned |-> TRUE]
      BY <1>1, <1>2 DEF Loaded, Types
    <3> HIDE DEF d
    <3> QED
      BY <1>1, <3>1, <3>2
  <2>2. buffers' \in [Buffers -> [data: Nat \cup {None}, size: Nat, owned: BOOLEAN]]
    <3>1. \E v : buffers' = [buffers EXCEPT ![b] = v]
      BY DEF Loaded
    <3> QED
      BY <1>1, <2>1, <3>1 DEF Types
  <2>3. origin' \in [Buffers -> 0 .. FileSize]
    BY <1>1 DEF Loaded, Types
  <2>4. \A x \in Buffers : ~Live(x)' => buffers'[x].size = 0
    BY <1>1, <1>5, <1>6 DEF Types
  <2> QED
    BY <1>1, <1>4, <1>5, <2>2, <2>3, <2>4 DEF Types
<1>10. Holds(b)'
  <2>1. \A q \in S : table'[q] = PageOf(offset) + q - p
    BY <1>3, <1>4
  <2> QED
    BY <1>1, <1>2, <1>3, <2>1 DEF Holds
<1>11. LiveHold'
  BY <1>6, <1>8, <1>10 DEF LiveHold
<1>12. PagesOwned'
  <2>1. \A x, y \in Buffers : x # y /\ Live(x)' /\ Live(y)' => DataPages(x)' \cap DataPages(y)' = {}
    BY <1>1, <1>2, <1>6, <1>8 DEF PagesOwned
  <2>2. ASSUME ~lockFailed
        PROVE  {q \in Pages : table'[q] # None}
                 = UNION {DataPages(x)' : x \in {y \in Buffers : Live(y)'}}
    <3>1. {q \in Pages : table[q] # None} = UNION {DataPages(x) : x \in {y \in Buffers : Live(y)}}
      BY <1>1, <2>2 DEF PagesOwned
    <3>2. ASSUME NEW q \in Pages, table'[q] # None
          PROVE  \E x \in Buffers : Live(x)' /\ q \in DataPages(x)'
      <4>1. CASE q \in S
        BY <1>2, <1>6, <4>1
      <4>2. CASE q \notin S
        <5>1. table[q] # None
          BY <1>4, <3>2, <4>2
        <5>2. PICK x \in Buffers : Live(x) /\ q \in DataPages(x)
          BY <3>1, <5>1
        <5> QED
          BY <1>6, <1>7, <1>8, <5>2
      <4> QED
        BY <4>1, <4>2
    <3>3. ASSUME NEW x \in Buffers, Live(x)', NEW q \in DataPages(x)'
          PROVE  q \in Pages /\ table'[q] # None
      <4>1. Types' /\ LiveHold'
        BY <1>9, <1>11
      <4>2. DataPages(x)' \subseteq Pages
        BY <3>3, <4>1 DEF LiveHold, Holds
      <4>3. CASE x = b
        <5>1. q \in S /\ PageOf(offset) \in Nat /\ q \in Nat /\ p <= q
          BY <1>1, <1>2, <1>3, <3>3, <4>3, AddressInPage DEF S
        <5>2. table'[q] = PageOf(offset) + q - p
          BY <1>3, <1>4, <5>1
        <5>3. table'[q] \in Nat
          BY <1>3, <5>1, <5>2
        <5> QED
          BY <4>2, <5>3, PagesAssumption
      <4>4. CASE x # b
        <5>1. Live(x) /\ q \in DataPages(x) /\ q \notin S
          BY <1>6, <1>8, <3>3, <4>4
        <5>2. table[q] # None /\ q \in Pages
          BY <1>1, <5>1, LiveMapped
        <5> QED
          BY <1>4, <5>1, <5>2
      <4> QED
        BY <4>3, <4>4
    <3> QED
      BY <3>2, <3>3
  <2> QED
    BY <1>5, <2>1, <2>2 DEF PagesOwned
<1> QED
  BY <1>9, <1>11, <1>12 DEF LoaderInv

\* A step that changes neither buffers nor origins, and of the table only free pages.
LEMMA TableOnly ==
  ASSUME LoaderInv, UNCHANGED <<buffers, origin>>,
         table' \in [Pages -> FilePages \cup {None}],
         \A q \in Pages : table[q] # None => table'[q] = table[q],
         lockFailed' \in BOOLEAN, open' \in BOOLEAN, config' \in Configs \cup {None},
         lockFailed' \/ (table' = table /\ lockFailed' = lockFailed)
  PROVE  LoaderInv'
<1>1. Types'
  BY DEF LoaderInv, Types, Live
<1>2. \A x \in Buffers : Live(x)' = Live(x) /\ DataPages(x)' = DataPages(x)
  BY DEF Live, DataPages
<1>3. LiveHold'
  <2> SUFFICES ASSUME NEW x \in Buffers, Live(x) PROVE Holds(x)'
    BY <1>2 DEF LiveHold
  <2>1. \A q \in DataPages(x) : table'[q] = table[q]
    BY LiveMapped DEF LoaderInv
  <2> QED
    BY <2>1, OthersHold
<1>4. PagesOwned'
  BY <1>2 DEF LoaderInv, PagesOwned
<1> QED
  BY <1>1, <1>3, <1>4 DEF LoaderInv

\* A load that fails on mlock, and a load_into, touch free pages only.
LEMMA LockFailsKeeps ==
  ASSUME LoaderInv, NEW offset \in 0 .. FileSize, NEW size \in 1 .. FileSize,
         Valid(offset, size), NEW p \in Room(MapSize(offset, size)),
         LockFails(p, offset, size)
  PROVE  LoaderInv'
<1> DEFINE S == p .. p + SegmentPages(offset, size) - 1
           mapped == Mapped(p, RangeStart(offset), MapSize(offset, size))
<1>1. offset \in Nat /\ size \in Nat \ {0} /\ Types
  BY SizesAssumption DEF LoaderInv
<1>2. /\ mapped \in [Pages -> FilePages \cup {None}]
      /\ mapped = [q \in Pages |-> IF q \in S THEN PageOf(offset) + q - p ELSE table[q]]
  BY <1>1, MappedType
<1>3. (\A q \in S : table[q] = None) /\ Touched(p * PageSize, size) \subseteq S
  BY <1>1, RoomIs
<1>4. /\ table' = [q \in Pages |-> IF q \in Touched(p * PageSize, size) THEN None ELSE mapped[q]]
      /\ lockFailed' = TRUE /\ UNCHANGED <<open, config, buffers, origin>>
  BY DEF LockFails
<1> HIDE DEF S, mapped
<1>5. table' \in [Pages -> FilePages \cup {None}]
  BY <1>2, <1>4
<1>6. \A q \in Pages : table[q] # None => table'[q] = table[q]
  BY <1>2, <1>3, <1>4
<1> QED
  BY <1>1, <1>4, <1>5, <1>6, TableOnly DEF Types

LEMMA LoadIntoKeeps ==
  ASSUME LoaderInv, NEW offset \in 0 .. FileSize, NEW size \in 0 .. FileSize,
         LoadInto(offset, size)
  PROVE  LoaderInv' /\ table' = table
<1>1. PICK p \in Room(MapSize(offset, size)) :
        table' = [q \in Pages |-> IF q \in Touched(p * PageSize, MapSize(offset, size)) THEN None
                       ELSE Mapped(p, RangeStart(offset), MapSize(offset, size))[q]]
  BY DEF LoadInto
<1> DEFINE S == p .. p + SegmentPages(offset, size) - 1
           mapped == Mapped(p, RangeStart(offset), MapSize(offset, size))
<1>2. /\ offset \in Nat /\ size \in Nat \ {0} /\ Valid(offset, size) /\ Types
      /\ UNCHANGED <<open, config, buffers, origin, lockFailed>>
  BY SizesAssumption DEF LoaderInv, LoadInto
<1>3. mapped = [q \in Pages |-> IF q \in S THEN PageOf(offset) + q - p ELSE table[q]]
  BY <1>2, MappedType
<1>4. (\A q \in S : table[q] = None) /\ Touched(p * PageSize, MapSize(offset, size)) = S
  BY <1>2, RoomIs
<1>5. table' = [q \in Pages |-> IF q \in S THEN None ELSE mapped[q]]
  BY <1>1, <1>4
<1> HIDE DEF S, mapped
<1>6. table' = table
  BY <1>2, <1>3, <1>4, <1>5 DEF Types
<1>7. LoaderInv'
  BY <1>2, <1>6, TableOnly DEF Types
<1> QED
  BY <1>6, <1>7

\* A move hands the pages over with the data.
LEMMA MoveKeeps ==
  ASSUME LoaderInv, NEW a \in Buffers, NEW b \in Buffers, MoveBuffer(a, b)
  PROVE  LoaderInv'
<1>1. /\ a # b /\ ~Live(b) /\ Types /\ LiveHold /\ PagesOwned
      /\ UNCHANGED <<open, config, table, lockFailed>>
  BY DEF LoaderInv, MoveBuffer, Unused, Null, Live
<1>2. /\ buffers' = [buffers EXCEPT ![b] = buffers[a], ![a] = Null]
      /\ origin' = [origin EXCEPT ![b] = origin[a], ![a] = 0]
  BY DEF MoveBuffer, Moved
<1>3. /\ buffers'[b] = buffers[a] /\ origin'[b] = origin[a]
      /\ buffers'[a].data = None /\ buffers'[a].size = 0
      /\ \A x \in Buffers \ {a, b} : buffers'[x] = buffers[x] /\ origin'[x] = origin[x]
  BY <1>1, <1>2 DEF Types, Null
<1>4. /\ ~Live(a)' /\ (Live(b)' <=> Live(a)) /\ DataPages(b)' = DataPages(a)
      /\ \A x \in Buffers \ {a, b} : (Live(x)' <=> Live(x)) /\ DataPages(x)' = DataPages(x)
  BY <1>3 DEF Live, DataPages
<1>5. Types'
  <2>1. buffers' \in [Buffers -> [data: Nat \cup {None}, size: Nat, owned: BOOLEAN]]
    BY <1>1, <1>2 DEF Types, Null
  <2>2. origin' \in [Buffers -> 0 .. FileSize]
    BY <1>1, <1>2, SizesAssumption DEF Types
  <2>3. \A x \in Buffers : ~Live(x)' => buffers'[x].size = 0
    BY <1>1, <1>3, <1>4 DEF Types
  <2> QED
    BY <1>1, <2>1, <2>2, <2>3 DEF Types
<1>6. LiveHold'
  <2> SUFFICES ASSUME NEW x \in Buffers, Live(x)' PROVE Holds(x)'
    BY DEF LiveHold
  <2>1. CASE x = b
    <3>1. Holds(a)
      BY <1>1, <1>4, <2>1 DEF LiveHold
    <3> QED
      BY <1>1, <1>3, <1>4, <2>1, <3>1 DEF Holds
  <2>2. CASE x # b
    <3>1. x \in Buffers \ {a, b} /\ Holds(x)
      BY <1>1, <1>4, <2>2 DEF LiveHold
    <3> QED
      BY <1>1, <1>3, <1>4, <3>1 DEF Holds
  <2> QED
    BY <2>1, <2>2
<1>7. PagesOwned'
  <2>1. \A x, y \in Buffers : x # y /\ Live(x)' /\ Live(y)' => DataPages(x)' \cap DataPages(y)' = {}
    BY <1>1, <1>4 DEF PagesOwned
  <2>2. UNION {DataPages(x)' : x \in {y \in Buffers : Live(y)'}}
          = UNION {DataPages(x) : x \in {y \in Buffers : Live(y)}}
    <3>1. \A x \in Buffers : Live(x)' => \E y \in Buffers : Live(y) /\ DataPages(x)' = DataPages(y)
      BY <1>4
    <3>2. \A y \in Buffers : Live(y) => \E x \in Buffers : Live(x)' /\ DataPages(x)' = DataPages(y)
      BY <1>1, <1>4
    <3> QED
      BY <3>1, <3>2
  <2> QED
    BY <1>1, <2>1, <2>2 DEF PagesOwned
<1> QED
  BY <1>5, <1>6, <1>7 DEF LoaderInv

\* A free and a drop are releases.
LEMMA FreeKeeps ==
  ASSUME LoaderInv, NEW b \in Buffers, FreeBuffer(b) \/ DropBuffer(b)
  PROVE  LoaderInv'
<1>1. /\ table' = FreedTable(b) /\ UNCHANGED <<open, config, lockFailed>>
      /\ origin' = [origin EXCEPT ![b] = 0] /\ Types /\ LiveHold
      /\ buffers' = Freed(b) \/ buffers' = [buffers EXCEPT ![b] = Null]
  BY DEF LoaderInv, FreeBuffer, DropBuffer
<1>2. /\ buffers' \in [Buffers -> [data: Nat \cup {None}, size: Nat, owned: BOOLEAN]]
      /\ buffers'[b].data = None /\ buffers'[b].size = 0
      /\ \A x \in Buffers \ {b} : buffers'[x] = buffers[x] /\ origin'[x] = origin[x]
  <2>1. CASE buffers' = Freed(b)
    <3>1. buffers' = [buffers EXCEPT ![b] = [@ EXCEPT !.data = None, !.size = 0]]
      BY <1>1, <2>1 DEF Types, Freed
    <3>2. [buffers[b] EXCEPT !.data = None, !.size = 0]
            = [data |-> None, size |-> 0, owned |-> buffers[b].owned]
      <4>1. buffers[b] \in [data: Nat \cup {None}, size: Nat, owned: BOOLEAN]
        BY <1>1 DEF Types
      <4>2. ASSUME NEW r \in [data: Nat \cup {None}, size: Nat, owned: BOOLEAN]
            PROVE  [r EXCEPT !.data = None, !.size = 0]
                     = [data |-> None, size |-> 0, owned |-> r.owned]
        <5>1. r = [data |-> r.data, size |-> r.size, owned |-> r.owned]
          OBVIOUS
        <5>2. [r EXCEPT !.data = None] = [data |-> None, size |-> r.size, owned |-> r.owned]
          BY <5>1
        <5>3. [[data |-> None, size |-> r.size, owned |-> r.owned] EXCEPT !.size = 0]
                = [data |-> None, size |-> 0, owned |-> r.owned]
          OBVIOUS
        <5> QED
          BY <5>2, <5>3
      <4> QED
        BY <4>1, <4>2
    <3>3. buffers' = [buffers EXCEPT ![b] = [data |-> None, size |-> 0, owned |-> buffers[b].owned]]
      BY <3>1, <3>2
    <3> QED
      BY <1>1, <3>3 DEF Types
  <2>2. CASE buffers' = [buffers EXCEPT ![b] = Null]
    BY <1>1, <2>2 DEF Types, Null
  <2> QED
    BY <1>1, <2>1, <2>2
<1>3. Types'
  <2>1. table' \in [Pages -> FilePages \cup {None}]
    BY <1>1, FreedTableIs
  <2>2. origin' \in [Buffers -> 0 .. FileSize]
    BY <1>1, SizesAssumption DEF Types
  <2>3. \A x \in Buffers : ~Live(x)' => buffers'[x].size = 0
    BY <1>1, <1>2 DEF Types, Live
  <2> QED
    BY <1>1, <1>2, <2>1, <2>2, <2>3 DEF Types
<1>4. LiveHold' /\ PagesOwned'
  BY <1>1, <1>2, ReleaseKeeps
<1> QED
  BY <1>3, <1>4 DEF LoaderInv

-----------------------------------------------------------------------------
(* The theorems *)

LEMMA InvInit == Init => LoaderInv
<1> SUFFICES ASSUME Init PROVE LoaderInv
  OBVIOUS
<1>1. \A b \in Buffers : ~Live(b) /\ buffers[b].size = 0
  BY DEF Init, Null, Live
<1>2. Types
  <2>1. 0 \in 0 .. FileSize
    BY SizesAssumption
  <2>2. buffers \in [Buffers -> [data: Nat \cup {None}, size: Nat, owned: BOOLEAN]]
    BY DEF Init, Null
  <2>3. origin \in [Buffers -> 0 .. FileSize] /\ table \in [Pages -> FilePages \cup {None}]
    BY <2>1 DEF Init
  <2> QED
    BY <1>1, <2>2, <2>3 DEF Init, Types
<1>3. PagesOwned
  BY <1>1 DEF Init, PagesOwned
<1> QED
  BY <1>1, <1>2, <1>3 DEF LoaderInv, LiveHold

LEMMA InvNext == LoaderInv /\ [Next]_vars => LoaderInv'
<1> SUFFICES ASSUME LoaderInv, [Next]_vars PROVE LoaderInv'
  OBVIOUS
<1>1. ASSUME NEW c \in Configs, Open(c) PROVE LoaderInv'
  BY <1>1, TableOnly DEF Open, LoaderInv, Types
<1>2. CASE DropLoader
  BY <1>2, TableOnly DEF DropLoader, LoaderInv, Types
<1>3. ASSUME NEW b \in Buffers, NEW offset \in 0 .. FileSize, NEW size \in 0 .. FileSize,
             Load(b, offset, size)
      PROVE  LoaderInv'
  <2>1. size \in 1 .. FileSize /\ Unused(b) /\ Valid(offset, size)
    BY <1>3, SizesAssumption DEF Load
  <2>2. PICK p \in Room(MapSize(offset, size)) :
           Loaded(b, p, offset, size) \/ LockFails(p, offset, size)
    BY <1>3 DEF Load
  <2> QED
    BY <2>1, <2>2, LoadedKeeps, LockFailsKeeps
<1>4. ASSUME NEW offset \in 0 .. FileSize, NEW size \in 0 .. FileSize, LoadInto(offset, size)
      PROVE  LoaderInv'
  BY <1>4, LoadIntoKeeps
<1>5. ASSUME NEW b \in Buffers, FreeBuffer(b) \/ DropBuffer(b) PROVE LoaderInv'
  BY <1>5, FreeKeeps
<1>6. ASSUME NEW a \in Buffers, NEW b \in Buffers, MoveBuffer(a, b) PROVE LoaderInv'
  BY <1>6, MoveKeeps
<1>7. CASE UNCHANGED vars
  BY <1>7 DEF vars, LoaderInv, Types, LiveHold, PagesOwned, Live, Holds, DataPages
<1> QED
  BY <1>1, <1>2, <1>3, <1>4, <1>5, <1>6, <1>7 DEF Next

\* The loader's invariant holds in every reachable state.
THEOREM LoaderSafe == Spec => []LoaderInv
BY InvInit, InvNext, PTL DEF Spec

\* Data is an address of a page that exists, and a size goes with it.
THEOREM LoaderTypes == Spec => []TypeOK
<1>1. LoaderInv => TypeOK
  <2> SUFFICES ASSUME LoaderInv PROVE TypeOK
    OBVIOUS
  <2>1. ASSUME NEW b \in Buffers, buffers[b].data # None
        PROVE  /\ buffers[b].owned /\ buffers[b].size \in 1 .. FileSize
               /\ PageOf(buffers[b].data) \in Pages
    <3> DEFINE d == buffers[b].data
               s == buffers[b].size
    <3>1. /\ Holds(b) /\ d \in Nat /\ s \in Nat \ {0} /\ PageOf(d) \in Nat
          /\ DataPages(b) \subseteq Pages
      BY <2>1, LiveNumbers DEF LoaderInv, Live
    <3>2. PageOf(d) \in DataPages(b)
      <4>1. d + s - 1 \in Nat /\ d <= d + s - 1
        BY <3>1
      <4>2. PageOf(d + s - 1) \in Nat /\ PageOf(d) <= PageOf(d + s - 1)
        BY <3>1, <4>1, AddressInPage, PageOfMonotone
      <4> QED
        BY <3>1, <4>2 DEF DataPages
    <3> QED
      BY <3>1, <3>2 DEF Holds
  <2> QED
    BY <2>1 DEF TypeOK, LoaderInv, Types, Live
<1> QED
  BY <1>1, LoaderSafe, PTL

\* Every byte of a live buffer is the byte of the file it was loaded from: the
\* address and the size that load leaves in a FreeableBuffer determine its pages.
THEOREM LoaderMaps == Spec => []BuffersMapped
<1>1. LoaderInv => BuffersMapped
  <2> SUFFICES ASSUME LoaderInv, NEW b \in Buffers, Live(b), NEW i \in 0 .. buffers[b].size - 1
               PROVE  LET address == buffers[b].data + i IN
                      /\ PageOf(address) \in Pages
                      /\ table[PageOf(address)] = PageOf(origin[b] + i)
                      /\ address % PageSize = (origin[b] + i) % PageSize
    BY DEF BuffersMapped
  <2> DEFINE d == buffers[b].data
             s == buffers[b].size
             o == origin[b]
             c == PageOf(o) - PageOf(d)
  <2>1. /\ d \in Nat /\ s \in Nat \ {0} /\ o \in Nat /\ PageOf(d) \in Nat /\ PageOf(o) \in Nat
        /\ Holds(b) /\ DataPages(b) \subseteq Pages /\ i \in Nat /\ i <= s - 1
    BY LiveNumbers DEF LoaderInv
  <2>2. o = d + PageSize * c
    <3>1. d = PageSize * PageOf(d) + (d % PageSize) /\ d % PageSize \in Nat
      BY <2>1, AddressInPage
    <3>2. o = PageSize * PageOf(o) + (o % PageSize) /\ o % PageSize \in Nat
      BY <2>1, AddressInPage
    <3>3. d % PageSize = o % PageSize
      BY <2>1 DEF Holds
    <3>4. PageSize * c = PageSize * PageOf(o) - PageSize * PageOf(d)
          /\ PageSize * PageOf(o) \in Int /\ PageSize * PageOf(d) \in Int
      BY <2>1, SizesAssumption
    <3> HIDE DEF c
    <3> QED
      BY <2>1, <3>1, <3>2, <3>3, <3>4
  <2>3. d + i \in Nat /\ o + i \in Nat /\ c \in Int
    BY <2>1
  <2>4. PageOf(o + i) = PageOf(d + i) + c /\ (o + i) % PageSize = (d + i) % PageSize
    <3>1. o + i = (d + i) + PageSize * c /\ (d + i) + PageSize * c \in Nat
      <4>1. PageSize * c \in Int
        BY <2>3, SizesAssumption
      <4> HIDE DEF c
      <4> QED
        BY <2>1, <2>2, <2>3, <4>1
    <3> DEFINE e == d + i
    <3>2. e \in Nat /\ e + PageSize * c \in Nat
      BY <2>3, <3>1
    <3>3. PageOf(e + PageSize * c) = PageOf(e) + c /\ (e + PageSize * c) % PageSize = e % PageSize
      <4> HIDE DEF e, c
      <4> QED
        BY <2>3, <3>2, PageShift
    <3> QED
      BY <3>1, <3>3
  <2>5. PageOf(d + i) \in DataPages(b)
    <3>1. d + s - 1 \in Nat /\ d <= d + i /\ d + i <= d + s - 1
      BY <2>1
    <3>2. /\ PageOf(d) <= PageOf(d + i) /\ PageOf(d + i) <= PageOf(d + s - 1)
          /\ PageOf(d + i) \in Nat /\ PageOf(d + s - 1) \in Nat
      BY <2>1, <2>3, <3>1, AddressInPage, PageOfMonotone
    <3> QED
      BY <2>1, <3>2 DEF DataPages
  <2>6. table[PageOf(d + i)] = PageOf(o) + PageOf(d + i) - PageOf(d)
    BY <2>1, <2>5 DEF Holds
  <2>7. PageOf(d + i) \in Nat
    BY <2>3, AddressInPage
  <2> QED
    BY <2>1, <2>4, <2>5, <2>6, <2>7
<1> QED
  BY <1>1, LoaderSafe, PTL

\* Every mapped page has one owner, and unless an mlock failed none is without one.
THEOREM LoaderOwns == Spec => []PagesOwned
<1>1. LoaderInv => PagesOwned
  BY DEF LoaderInv
<1> QED
  BY <1>1, LoaderSafe, PTL
=============================================================================
