--------------------------- MODULE ModuleFacadeProofs ---------------------------
(***************************************************************************)
(* Theorems about ModuleFacade, for any modules, methods, planned sizes,   *)
(* requests and heap.  First what a MemoryAllocator does with a sequence   *)
(* of requests, then the planned memory.                                   *)
(***************************************************************************)
EXTENDS ModuleFacade, NaturalsInduction, WellFoundedInduction, SequenceTheorems, TLAPS

-----------------------------------------------------------------------------
(* Numbers *)

LEMMA Least ==
  ASSUME NEW T \in SUBSET Nat, T # {}
  PROVE  \E x \in T : \A y \in T : x <= y
<1> DEFINE R == OpToRel(<, Nat)
<1>1. IsWellFoundedOn(R, Nat)
  BY NatLessThanWellFounded
<1>2. \A x, y \in Nat : x < y => <<x, y>> \in R
  BY DEF OpToRel
<1> HIDE DEF R
<1>3. PICK x \in T : \A y \in T : ~(<<y, x>> \in R)
  BY <1>1, WFMin
<1>4. \A y \in T : x \in Nat /\ y \in Nat /\ ~(y < x)
  BY <1>2, <1>3
<1> QED
  BY <1>4

\* Sizes are usizes, so that there is a largest one.
LEMMA LargestIs ==
  ASSUME NEW S, S \subseteq Addresses, S # {}
  PROVE  Largest(S) \in S /\ \A y \in S : y <= Largest(S)
<1> DEFINE T == {AddressSpace - x : x \in S}
<1>1. \A x \in S : AddressSpace - x \in Nat /\ x \in Nat /\ AddressSpace \in Nat
  BY AddressSpaceAssumption DEF Addresses
<1>2. T \in SUBSET Nat /\ T # {}
  BY <1>1
<1>3. PICK t \in T : \A y \in T : t <= y
  BY <1>2, Least
<1>4. PICK x \in S : t = AddressSpace - x
  BY <1>3
<1>5. ASSUME NEW y \in S PROVE y <= x
  <2>1. AddressSpace - x <= AddressSpace - y
    BY <1>3, <1>4, <1>5
  <2> QED
    BY <1>1, <2>1
<1>6. \E z \in S : \A y \in S : y <= z
  BY <1>5
<1> QED
  BY <1>6 DEF Largest

LEMMA Division ==
  ASSUME NEW a \in Nat \ {0}, NEW x \in Nat
  PROVE  /\ x % a \in 0 .. a - 1 /\ x - (x % a) \in 0 .. x
         /\ (x - (x % a)) % a = 0
<1> DEFINE q == x \div a
           r == x % a
<1>1. q \in Int /\ r \in 0 .. a - 1 /\ x = a * q + r
  OBVIOUS
<1>2. a * q \in Int /\ a \in Nat /\ r \in Int
  BY <1>1
<1>3. x - r = a * q
  <2> HIDE DEF q, r
  <2> QED
    BY <1>1, <1>2
<1>4. ASSUME q <= -1 PROVE FALSE
  <2> HIDE DEF q, r
  <2>1. a * q <= -a
    BY <1>1, <1>4
  <2> QED
    BY <1>1, <1>2, <2>1
<1>5. a * q \in Nat
  <2> HIDE DEF q, r
  <2> QED
    BY <1>1, <1>4
<1>6. (a * q) % a = 0
  <2> HIDE DEF q, r
  <2> QED
    BY <1>1
<1>7. x - r \in 0 .. x
  <2> HIDE DEF q, r
  <2> QED
    BY <1>1, <1>3, <1>5
<1> QED
  BY <1>1, <1>3, <1>6, <1>7

LEMMA ModSmall ==
  ASSUME NEW N \in Nat \ {0}, NEW d \in Int
  PROVE  /\ 0 <= d /\ d < N => d % N = d
         /\ d < 0 /\ 0 <= d + N => d % N = d + N
<1> DEFINE q == d \div N
           r == d % N
<1>1. q \in Int /\ r \in 0 .. N - 1 /\ d = N * q + r
  OBVIOUS
<1> HIDE DEF q, r
<1>2. N * q \in Int /\ (q >= 1 => N * q >= N) /\ (q <= -2 => N * q <= -(2 * N))
      /\ (q = 0 => N * q = 0) /\ (q = -1 => N * q = -N)
  BY <1>1
<1>3. q >= 1 \/ q <= -2 \/ q = 0 \/ q = -1
  BY <1>1
<1> QED
  BY <1>1, <1>2, <1>3 DEF r

-----------------------------------------------------------------------------
(* The memory allocator *)

Request == [size : Nat, alignment : Nat \ {0}]

\* A request that fits gets an aligned piece between cur_ and the end of the
\* buffer, also when align_pointer wraps around the address space.
LEMMA PieceFits ==
  ASSUME NEW c \in Addresses, NEW e \in Addresses, c <= e, NEW r \in Request, Fits(c, e, r)
  PROVE  /\ StartOf(c, r) \in Addresses /\ EndOf(c, r) \in Addresses
         /\ c <= StartOf(c, r) /\ StartOf(c, r) <= EndOf(c, r) /\ EndOf(c, r) <= e
         /\ EndOf(c, r) = StartOf(c, r) + r.size
         /\ StartOf(c, r) % r.alignment = 0
<1> DEFINE a == r.alignment
           N == AddressSpace
           x == WrappingAdd(c, a - 1)
           s == x - (x % a)
           pad == (s - c) % N
<1>1. a \in Nat \ {0} /\ r.size \in Nat /\ N \in Nat \ {0} /\ c \in 0 .. N - 1 /\ e \in 0 .. N - 1
  BY AddressSpaceAssumption DEF Request, Addresses
<1>2. x = (c + (a - 1)) % N
  BY DEF WrappingAdd
<1>3. StartOf(c, r) = s /\ EndOf(c, r) = s + r.size /\ Padding(c, r) = pad
  BY DEF StartOf, EndOf, Padding, AlignPointer, RoundDown, WrappingSub
<1>4. pad <= e - c /\ r.size <= e - c - pad
  BY <1>3 DEF Fits
<1> HIDE DEF a, N
<1>5. x \in 0 .. N - 1
  <2> HIDE DEF x
  <2> QED
    BY <1>1, <1>2
<1> HIDE DEF x
<1>6. s \in 0 .. x /\ s % a = 0
  <2>1. x \in Nat /\ a \in Nat \ {0}
    BY <1>1, <1>5
  <2>2. x - (x % a) \in 0 .. x /\ (x - (x % a)) % a = 0
    BY <2>1, Division
  <2> QED
    BY <2>2 DEF s
<1> HIDE DEF s
<1>7. s - c \in Int /\ s - c < N /\ -N < s - c
  BY <1>1, <1>5, <1>6
<1>8. CASE s >= c
  <2>1. pad = s - c
    <3> DEFINE d == s - c
    <3>1. d \in Int /\ 0 <= d /\ d < N
      BY <1>1, <1>5, <1>6, <1>7, <1>8
    <3> HIDE DEF d
    <3>2. d % N = d
      BY <1>1, <3>1, ModSmall
    <3> QED
      BY <3>2 DEF d, pad
  <2> HIDE DEF pad
  <2> QED
    BY <1>1, <1>3, <1>4, <1>5, <1>6, <1>8, <2>1 DEF Addresses, N, a
<1>9. CASE ~(s >= c)
  <2>1. pad = s - c + N
    <3> DEFINE d == s - c
    <3>1. d \in Int /\ d < 0 /\ 0 <= d + N
      BY <1>1, <1>5, <1>6, <1>7, <1>9
    <3> HIDE DEF d
    <3>2. d % N = d + N
      BY <1>1, <3>1, ModSmall
    <3> QED
      BY <3>2 DEF d, pad
  <2> HIDE DEF pad
  <2> QED
    BY <1>1, <1>4, <1>5, <1>6, <2>1
<1> QED
  BY <1>8, <1>9

\* The recursion of CursorAfter defines a function.
Cursors(c, rs, n, g) == g = [k \in 0 .. n |-> IF k = 0 THEN c ELSE EndOf(g[k - 1], rs[k])]

LEMMA CursorsExist ==
  ASSUME NEW c, NEW rs, NEW len \in Nat
  PROVE  \E g : Cursors(c, rs, len, g)
<1> DEFINE T == {n \in Nat : ~ \E g : Cursors(c, rs, n, g)}
<1>1. SUFFICES ASSUME T # {} PROVE FALSE
  OBVIOUS
<1>2. PICK n \in T : \A j \in T : n <= j
  <2> HIDE DEF T
  <2>1. T \in SUBSET Nat
    BY DEF T
  <2> QED
    BY <1>1, <2>1, Least
<1>3. n # 0
  <2> DEFINE g == [k \in 0 .. 0 |-> c]
  <2>1. Cursors(c, rs, 0, g)
    BY DEF Cursors
  <2> HIDE DEF g
  <2> QED
    BY <2>1
<1>4. n \in Nat /\ n - 1 \in Nat /\ n - 1 \notin T
  BY <1>2, <1>3
<1>5. PICK g : Cursors(c, rs, n - 1, g)
  BY <1>4
<1>6. g = [k \in 0 .. n - 1 |-> IF k = 0 THEN c ELSE EndOf(g[k - 1], rs[k])]
  BY <1>5 DEF Cursors
<1> DEFINE x == EndOf(g[n - 1], rs[n])
           f == [k \in 0 .. n |-> IF k = n THEN x ELSE g[k]]
<1>7. ASSUME NEW k \in 0 .. n
      PROVE  f[k] = IF k = 0 THEN c ELSE EndOf(f[k - 1], rs[k])
  <2>1. CASE k = 0
    <3>1. f[k] = g[k] /\ k \in 0 .. n - 1
      BY <1>3, <1>4, <2>1
    <3>2. g[k] = c
      BY <1>6, <2>1, <3>1
    <3> QED
      BY <2>1, <3>1, <3>2
  <2>2. CASE k = n
    <3>1. n - 1 \in 0 .. n /\ n - 1 # n
      BY <1>4
    <3>2. f[n - 1] = g[n - 1] /\ f[k] = x
      BY <2>2, <3>1
    <3> QED
      BY <1>3, <2>2, <3>2
  <2>3. CASE k # 0 /\ k # n
    <3>1. k \in 0 .. n - 1 /\ k - 1 \in 0 .. n /\ k - 1 # n /\ k # n
      BY <1>4, <2>3
    <3>2. f[k] = g[k] /\ f[k - 1] = g[k - 1]
      BY <3>1
    <3>3. g[k] = EndOf(g[k - 1], rs[k])
      BY <1>6, <2>3, <3>1
    <3> QED
      BY <2>3, <3>2, <3>3
  <2> QED
    BY <2>1, <2>2, <2>3
<1>8. f = [k \in 0 .. n |-> f[k]]
  OBVIOUS
<1> HIDE DEF f
<1>9. Cursors(c, rs, n, f)
  BY <1>7, <1>8 DEF Cursors
<1> QED
  BY <1>2, <1>9

LEMMA CursorAfterIs ==
  ASSUME NEW c, NEW rs, Len(rs) \in Nat
  PROVE  /\ CursorAfter(c, rs)[0] = c
         /\ \A k \in 1 .. Len(rs) : CursorAfter(c, rs)[k] = EndOf(CursorAfter(c, rs)[k - 1], rs[k])
<1> DEFINE at == CursorAfter(c, rs)
           n == Len(rs)
<1>1. at = CHOOSE g : g = [k \in 0 .. n |-> IF k = 0 THEN c ELSE EndOf(g[k - 1], rs[k])]
  BY DEF CursorAfter
<1>2. \E g : g = [k \in 0 .. n |-> IF k = 0 THEN c ELSE EndOf(g[k - 1], rs[k])]
  <2>1. PICK g : Cursors(c, rs, n, g)
    BY CursorsExist
  <2>2. g = [k \in 0 .. n |-> IF k = 0 THEN c ELSE EndOf(g[k - 1], rs[k])]
    BY <2>1 DEF Cursors
  <2> HIDE DEF n
  <2> QED
    BY <2>2
<1>3. at = [k \in 0 .. n |-> IF k = 0 THEN c ELSE EndOf(at[k - 1], rs[k])]
  <2> HIDE DEF at, n
  <2> QED
    BY <1>1, <1>2
<1> HIDE DEF at
<1>4. at[0] = c /\ \A k \in 1 .. n : at[k] = EndOf(at[k - 1], rs[k])
  <2>1. 0 \in 0 .. n /\ \A k \in 1 .. n : k \in 0 .. n /\ k # 0
    OBVIOUS
  <2> HIDE DEF n
  <2> QED
    BY <1>3, <2>1
<1> QED
  BY <1>4 DEF at

\* When all requests fit, cur_ only moves up, and not past the end.
LEMMA CursorClimbs ==
  ASSUME NEW c \in Addresses, NEW e \in Addresses, c <= e, NEW rs \in Seq(Request), AllFit(c, e, rs)
  PROVE  /\ \A k \in 0 .. Len(rs) : CursorAfter(c, rs)[k] \in c .. e
         /\ \A k \in 1 .. Len(rs) :
              /\ Fits(CursorAfter(c, rs)[k - 1], e, rs[k]) /\ rs[k] \in Request
              /\ CursorAfter(c, rs)[k] = EndOf(CursorAfter(c, rs)[k - 1], rs[k])
<1> DEFINE at == CursorAfter(c, rs)
           n == Len(rs)
           T == {k \in 0 .. n : ~(at[k] \in c .. e)}
<1>1. n \in Nat /\ \A k \in 1 .. n : rs[k] \in Request
  BY ElementOfSeq, LenProperties
<1>2. at[0] = c /\ \A k \in 1 .. n : at[k] = EndOf(at[k - 1], rs[k])
  BY <1>1, CursorAfterIs
<1>3. \A k \in 1 .. n : Fits(at[k - 1], e, rs[k])
  BY DEF AllFit
<1> HIDE DEF at, n
<1>4. ASSUME T # {} PROVE FALSE
  <2>1. T \in SUBSET Nat
    BY <1>1
  <2>2. PICK k \in T : \A j \in T : k <= j
    <3> HIDE DEF T
    <3> QED
      BY <1>4, <2>1, Least
  <2>3. k # 0
    BY <1>2, <2>2 DEF Addresses
  <2>4. k \in 1 .. n /\ k - 1 \in 0 .. n /\ k - 1 \notin T
    BY <1>1, <2>2, <2>3
  <2>5. at[k - 1] \in c .. e
    BY <2>4
  <2>6. at[k - 1] \in Addresses /\ at[k - 1] <= e /\ c <= at[k - 1]
    BY <2>5, AddressSpaceAssumption DEF Addresses
  <2>7. /\ at[k - 1] <= StartOf(at[k - 1], rs[k]) /\ StartOf(at[k - 1], rs[k]) <= at[k] /\ at[k] <= e
        /\ at[k] \in Addresses /\ StartOf(at[k - 1], rs[k]) \in Addresses
    BY <1>1, <1>2, <1>3, <2>4, <2>6, PieceFits
  <2>8. at[k] \in c .. e
    BY <2>6, <2>7, AddressSpaceAssumption DEF Addresses
  <2> QED
    BY <2>2, <2>8
<1>5. \A k \in 0 .. n : at[k] \in c .. e
  BY <1>4
<1> QED
  BY <1>1, <1>2, <1>3, <1>5 DEF at, n

\* The pieces of a loading method are aligned and between the cursor before and the
\* cursor after it.
LEMMA PiecesBetween ==
  ASSUME NEW c \in Addresses, NEW e \in Addresses, c <= e, NEW rs \in Seq(Request), AllFit(c, e, rs),
         NEW k \in 1 .. Len(rs)
  PROVE  LET at == CursorAfter(c, rs)
             piece == Piece(at[k - 1], rs[k])
         IN  /\ piece \in Pieces /\ piece.start % piece.alignment = 0
             /\ c <= piece.start /\ piece.start <= piece.end /\ piece.end <= at[Len(rs)]
             /\ at[Len(rs)] \in c .. e
<1> DEFINE at == CursorAfter(c, rs)
           n == Len(rs)
           piece == Piece(at[k - 1], rs[k])
           T == {j \in k .. n : ~(at[k] <= at[j])}
<1>1. /\ \A j \in 0 .. n : at[j] \in c .. e
      /\ \A j \in 1 .. n : Fits(at[j - 1], e, rs[j]) /\ rs[j] \in Request
                           /\ at[j] = EndOf(at[j - 1], rs[j])
  BY CursorClimbs
<1>2. n \in Nat
  BY LenProperties
<1>3. k \in 1 .. n
  OBVIOUS
<1>4. piece = [start |-> StartOf(at[k - 1], rs[k]), end |-> StartOf(at[k - 1], rs[k]) + rs[k].size,
               alignment |-> rs[k].alignment]
  BY DEF Piece
<1> HIDE DEF at, n, piece
<1>5. ASSUME NEW j \in 1 .. n
      PROVE  /\ at[j - 1] \in c .. e /\ at[j] \in c .. e
             /\ StartOf(at[j - 1], rs[j]) \in Addresses /\ at[j] \in Addresses
             /\ at[j - 1] <= StartOf(at[j - 1], rs[j]) /\ StartOf(at[j - 1], rs[j]) <= at[j]
             /\ at[j] = StartOf(at[j - 1], rs[j]) + rs[j].size
             /\ StartOf(at[j - 1], rs[j]) % rs[j].alignment = 0
  <2>1. at[j - 1] \in c .. e /\ at[j] \in c .. e
    BY <1>1, <1>2
  <2>2. at[j - 1] \in Addresses /\ at[j - 1] <= e
    BY <2>1, AddressSpaceAssumption DEF Addresses
  <2> QED
    BY <1>1, <2>1, <2>2, PieceFits
<1>6. ASSUME T # {} PROVE FALSE
  <2>1. T \in SUBSET Nat
    BY <1>2
  <2>2. PICK j \in T : \A i \in T : j <= i
    <3> HIDE DEF T
    <3> QED
      BY <1>6, <2>1, Least
  <2>3. at[k] \in c .. e
    BY <1>3, <1>5
  <2>4. j # k
    BY <2>2, <2>3 DEF Addresses
  <2>5. j \in 1 .. n /\ j - 1 \in k .. n /\ j - 1 \notin T
    BY <1>2, <1>3, <2>2, <2>4
  <2>6. at[k] <= at[j - 1]
    BY <2>5
  <2>7. at[j - 1] <= at[j] /\ at[j - 1] \in c .. e /\ at[j] \in c .. e
    <3>1. /\ at[j - 1] \in c .. e /\ at[j] \in c .. e
          /\ StartOf(at[j - 1], rs[j]) \in Addresses
          /\ at[j - 1] <= StartOf(at[j - 1], rs[j]) /\ StartOf(at[j - 1], rs[j]) <= at[j]
      BY <1>5, <2>5
    <3> QED
      BY <3>1 DEF Addresses
  <2>8. at[k] <= at[j]
    BY <2>3, <2>6, <2>7 DEF Addresses
  <2> QED
    BY <2>2, <2>8
<1>7. n \in k .. n /\ n \in 0 .. n
  BY <1>2, <1>3
<1>8. at[k] <= at[n] /\ at[n] \in c .. e
  BY <1>1, <1>6, <1>7
<1> DEFINE s == StartOf(at[k - 1], rs[k])
<1>9. /\ at[k - 1] \in c .. e /\ at[k] \in c .. e /\ s \in Addresses /\ at[k] \in Addresses
      /\ at[k - 1] <= s /\ s <= at[k] /\ at[k] = s + rs[k].size /\ s % rs[k].alignment = 0
  BY <1>3, <1>5
<1>10. rs[k] \in Request
  BY <1>1, <1>3
<1> HIDE DEF s
<1>11. piece.start = s /\ piece.end = at[k] /\ piece.alignment = rs[k].alignment
  BY <1>4, <1>9 DEF s
<1>12. piece \in Pieces
  BY <1>4, <1>9, <1>10 DEF Pieces, Request, s
<1>13. c <= s /\ s <= at[k]
  BY <1>9, AddressSpaceAssumption DEF Addresses
<1> QED
  BY <1>8, <1>9, <1>11, <1>12, <1>13 DEF at, n, piece

-----------------------------------------------------------------------------
(* Planned sizes *)

LEMMA SizesIs ==
  ASSUME NEW f \in Methods
  PROVE  /\ PlannedSizes[f] \in Seq(Addresses) /\ Len(PlannedSizes[f]) \in Addresses
         /\ DOMAIN PlannedSizes[f] = 1 .. Len(PlannedSizes[f])
         /\ \A i \in DOMAIN PlannedSizes[f] : PlannedSizes[f][i] \in Addresses
<1>1. PlannedSizes[f] \in Seq(Addresses) /\ Len(PlannedSizes[f]) \in Addresses
  BY MethodsAssumption
<1>2. DOMAIN PlannedSizes[f] = 1 .. Len(PlannedSizes[f])
  BY <1>1, LenProperties
<1> QED
  BY <1>1, <1>2, ElementOfSeq

\* There are at most two arenas, and each has room for that buffer of every method.
LEMMA ArenasServe ==
  ASSUME NEW f \in Methods
  PROVE  /\ ArenaCount \in 0 .. 2 /\ DOMAIN ArenaSizes = 1 .. ArenaCount
         /\ \A i \in 1 .. ArenaCount :
              /\ ArenaSizes[i] \in Addresses
              /\ \A g \in Methods : i \in DOMAIN PlannedSizes[g] => PlannedSizes[g][i] <= ArenaSizes[i]
<1> DEFINE n == Largest(MaxBuffers)
<1>1. MaxBuffers \subseteq Addresses /\ MaxBuffers # {}
  BY SizesIs DEF MaxBuffers
<1>2. n \in MaxBuffers
  BY <1>1, LargestIs
<1>3. PICK g \in Methods : n = Len(PlannedSizes[g])
  BY <1>2 DEF MaxBuffers
<1>4. n \in Nat
  BY <1>3, SizesIs, AddressSpaceAssumption DEF Addresses
<1>5. ArenaCount = IF n > 2 THEN 2 ELSE n
  BY DEF ArenaCount
<1> HIDE DEF n
<1>6. ArenaCount \in 0 .. 2 /\ ArenaCount <= n
  BY <1>4, <1>5
<1>7. ASSUME NEW i \in 1 .. ArenaCount
      PROVE  /\ ArenaSizes[i] \in Addresses
             /\ \A h \in Methods : i \in DOMAIN PlannedSizes[h] => PlannedSizes[h][i] <= ArenaSizes[i]
  <2>1. i \in DOMAIN PlannedSizes[g]
    BY <1>3, <1>4, <1>6, SizesIs
  <2>2. \A h \in Methods : i \in DOMAIN PlannedSizes[h] => PlannedSizes[h][i] \in SizesAt(i)
    BY DEF SizesAt
  <2>3. SizesAt(i) \subseteq Addresses
    BY SizesIs DEF SizesAt
  <2>4. SizesAt(i) # {}
    BY <2>1, <2>2
  <2>5. Largest(SizesAt(i)) \in SizesAt(i) /\ \A y \in SizesAt(i) : y <= Largest(SizesAt(i))
    BY <2>3, <2>4, LargestIs
  <2>6. ArenaSizes[i] = Largest(SizesAt(i))
    BY DEF ArenaSizes
  <2> QED
    BY <2>2, <2>3, <2>5, <2>6
<1> QED
  BY <1>6, <1>7 DEF ArenaSizes

\* A buffer is one of the arenas or the method's own.
LEMMA SharedOrOwn ==
  ASSUME NEW m \in Modules, NEW f \in Methods
  PROVE  /\ \A i \in DOMAIN PlannedSizes[f] : IsShared(m, i) => m \in Sharing /\ i \in 1 .. ArenaCount
         /\ OwnBuffers(m, f) \subseteq DOMAIN PlannedSizes[f]
         /\ \A i \in OwnBuffers(m, f) : ~IsShared(m, i)
         /\ m \in Sharing => (1 .. ArenaCount) \cap OwnBuffers(m, f) = {}
<1>1. ArenaCount \in Nat /\ DOMAIN PlannedSizes[f] \subseteq Nat \ {0}
  BY ArenasServe, SizesIs, AddressSpaceAssumption DEF Addresses
<1> QED
  BY <1>1 DEF IsShared, SharedBuffers, OwnBuffers

-----------------------------------------------------------------------------
(* The invariant *)

Span == [block : Heap \cup {None}, size : Nat]
HolderType == [loaded : BOOLEAN, buffers : SUBSET Heap, spans : Spans, pieces : SUBSET Pieces]

Types == /\ phase \in [Modules -> {"none", "live", "dropped"}]
         /\ loader \in [Modules -> BOOLEAN]
         /\ program \in [Modules -> Modules \cup {None}]
         /\ clones \subseteq Modules
         /\ arenas \in [Modules -> Spans]
         /\ methods \in [Modules -> [Methods -> HolderType]]
         /\ heap \in [Heap -> Nat \cup {None}]
         /\ cur \in [Modules -> Base .. End]

\* Only a living Module has memory.
Resting(m) == phase[m] # "live" => /\ arenas[m] = <<>>
                                   /\ \A f \in Methods : methods[m][f] = NoHolder

\* The arenas have the sizes and the blocks they were made with.
ArenasMade(m) ==
    arenas[m] # <<>> =>
        /\ DOMAIN arenas[m] = 1 .. ArenaCount
        /\ \A i \in 1 .. ArenaCount :
             /\ arenas[m][i].size = ArenaSizes[i]
             /\ arenas[m][i].block \in Heap /\ heap[arenas[m][i].block] = arenas[m][i].size
        /\ \A i, j \in 1 .. ArenaCount : arenas[m][i].block = arenas[m][j].block => i = j

\* A span is the caller's, one of the arenas, or a buffer of the holder.
SpanOK(m, f, i) ==
    LET h == methods[m][f]
        s == h.spans[i]
    IN  \/ s.block = None
        \/ IsShared(m, i) /\ m \in Sharing /\ i \in DOMAIN arenas[m] /\ s = arenas[m][i]
        \/ s.block \in h.buffers /\ heap[s.block] = s.size

HolderOK(m, f) ==
    /\ ~methods[m][f].loaded => methods[m][f] = NoHolder
    /\ methods[m][f].loaded => Covers(methods[m][f].spans, f)
    /\ \A i \in DOMAIN methods[m][f].spans : SpanOK(m, f, i)
    /\ \A b \in methods[m][f].buffers : heap[b] # None

\* No block has two owners.
OwnersApart ==
    /\ \A m, n \in Modules, f, g \in Methods :
          methods[m][f].buffers \cap methods[n][g].buffers # {} => m = n /\ f = g
    /\ \A m, n \in Modules, f \in Methods : methods[m][f].buffers \cap Blocks(arenas[n]) = {}
    /\ \A m, n \in Modules : Blocks(arenas[m]) \cap Blocks(arenas[n]) # {} => m = n

MemoryInv ==
    /\ \A m \in Modules : Resting(m) /\ ArenasMade(m) /\ \A f \in Methods : HolderOK(m, f)
    /\ OwnersApart /\ NoHeapLeak

FacadeInv == Types /\ MemoryInv /\ PiecesApart

-----------------------------------------------------------------------------
(* Holders *)

LEMMA SeqOf ==
  ASSUME NEW S, NEW n \in Nat, NEW s \in [1 .. n -> S]
  PROVE  s \in Seq(S)
BY SeqDef

LEMMA EmptyIs ==
  /\ DOMAIN <<>> = {} /\ \A S : <<>> \in Seq(S)
<1>1. DOMAIN <<>> = {}
  OBVIOUS
<1> QED
  BY <1>1, EmptySeq

LEMMA NoHolderIs ==
  /\ NoHolder \in HolderType /\ NoHolder.loaded = FALSE /\ NoHolder.buffers = {}
  /\ NoHolder.pieces = {} /\ DOMAIN NoHolder.spans = {}
<1> DEFINE nil == <<>>
<1>1. NoHolder = [loaded |-> FALSE, buffers |-> {}, spans |-> nil, pieces |-> {}]
  BY DEF NoHolder
<1>2. DOMAIN nil = {} /\ nil \in Spans
  BY EmptyIs DEF Spans
<1> HIDE DEF nil
<1> QED
  BY <1>1, <1>2 DEF HolderType

Held(own, spans, pieces) == [loaded |-> TRUE, buffers |-> own, spans |-> spans, pieces |-> pieces]

\* One holder changes.
HolderBecomes(m, f, h) ==
    /\ methods' \in [Modules -> [Methods -> HolderType]]
    /\ methods'[m][f] = h
    /\ \A n \in Modules, g \in Methods : n # m \/ g # f => methods'[n][g] = methods[n][g]

LEMMA HolderSet ==
  ASSUME Types, NEW m \in Modules, NEW f \in Methods, NEW h \in HolderType,
         methods' = [methods EXCEPT ![m][f] = h]
  PROVE  HolderBecomes(m, f, h)
<1>1. methods \in [Modules -> [Methods -> HolderType]]
  BY DEF Types
<1>2. methods' = [methods EXCEPT ![m] = [methods[m] EXCEPT ![f] = h]]
  OBVIOUS
<1>3. methods'[m] = [methods[m] EXCEPT ![f] = h] /\ \A n \in Modules \ {m} : methods'[n] = methods[n]
  BY <1>1, <1>2
<1>4. methods' \in [Modules -> [Methods -> HolderType]]
  BY <1>1, <1>2
<1> QED
  BY <1>1, <1>3, <1>4 DEF HolderBecomes

LEMMA HolderIn ==
  ASSUME Types, NEW m \in Modules, NEW f \in Methods
  PROVE  /\ methods[m][f] \in HolderType /\ methods[m][f].loaded \in BOOLEAN
         /\ methods[m][f].buffers \subseteq Heap /\ methods[m][f].pieces \subseteq Pieces
         /\ methods[m][f].spans \in Spans
BY DEF Types, HolderType

-----------------------------------------------------------------------------
(* What a Method takes from the memory allocator *)

\* New pieces lie above what was given out before.
PiecesAbove(pieces, from, to) ==
    \A p \in pieces : /\ from <= p.start /\ p.start <= p.end /\ p.end <= to
                      /\ p.start % p.alignment = 0

LEMMA CursorIn ==
  ASSUME Types, NEW m \in Modules
  PROVE  /\ cur[m] \in Base .. End /\ cur[m] \in Addresses /\ End \in Addresses /\ cur[m] <= End
         /\ Base \in Nat /\ End \in Nat
BY BufferAssumption, AddressSpaceAssumption DEF Types, End, Addresses

LEMMA MethodLoadsIs ==
  ASSUME Types, NEW m \in Modules, NEW f \in Methods, NEW spans \in Spans, NEW own \in SUBSET Heap,
         MethodLoads(m, f, spans, own)
  PROVE  /\ cur' \in [Modules -> Base .. End] /\ \A n \in Modules : cur[n] <= cur'[n]
         /\ \/ methods' = methods
            \/ /\ Covers(spans, f)
               /\ \E pieces \in SUBSET Pieces :
                     /\ HolderBecomes(m, f, Held(own, spans, pieces))
                     /\ PiecesAbove(pieces, cur[m], cur'[m])
<1>1. PICK n \in 0 .. Len(Requests[f]) :
        LET rs == SubSeq(Requests[f], 1, n)
            at == CursorAfter(cur[m], rs)
            ok == n = Len(Requests[f]) /\ Covers(spans, f)
        IN /\ AllFit(cur[m], End, rs)
           /\ cur' = [cur EXCEPT ![m] = at[n]]
           /\ \/ UNCHANGED methods
              \/ /\ ok
                 /\ methods' = [methods EXCEPT ![m][f] =
                       [loaded |-> TRUE, buffers |-> own, spans |-> spans,
                        pieces |-> {Piece(at[k - 1], rs[k]) : k \in 1 .. n}]]
  BY DEF MethodLoads
<1> DEFINE rs == SubSeq(Requests[f], 1, n)
           at == CursorAfter(cur[m], rs)
           pieces == {Piece(at[k - 1], rs[k]) : k \in 1 .. n}
<1>2. AllFit(cur[m], End, rs) /\ cur' = [cur EXCEPT ![m] = at[n]]
  BY <1>1
<1>3. \/ methods' = methods
      \/ Covers(spans, f) /\ methods' = [methods EXCEPT ![m][f] = Held(own, spans, pieces)]
  BY <1>1 DEF Held
<1>4. Requests[f] \in Seq(Request) /\ Len(Requests[f]) \in Nat
  <2>1. Requests[f] \in Seq([size : Nat, alignment : Nat \ {0}])
    BY MethodsAssumption
  <2> QED
    BY <2>1, LenProperties DEF Request
<1>5. rs \in Seq(Request) /\ Len(rs) = n /\ n \in Nat
  <2>1. \A i \in 1 .. n : Requests[f][i] \in Request
    BY <1>4, ElementOfSeq
  <2>2. n \in Int /\ 1 \in Int
    BY <1>4
  <2> QED
    BY <1>4, <2>1, <2>2, SubSeqProperties
<1>6. cur[m] \in Addresses /\ End \in Addresses /\ cur[m] <= End /\ cur[m] \in Base .. End /\ Base \in Nat
  BY CursorIn
<1> HIDE DEF rs
<1>7. \A k \in 0 .. n : at[k] \in cur[m] .. End
  <2>1. \A k \in 0 .. Len(rs) : at[k] \in cur[m] .. End
    BY <1>2, <1>5, <1>6, CursorClimbs
  <2> QED
    BY <1>5, <2>1
<1>8. ASSUME NEW k \in 1 .. n
      PROVE  LET piece == Piece(at[k - 1], rs[k])
             IN  /\ piece \in Pieces /\ piece.start % piece.alignment = 0
                 /\ cur[m] <= piece.start /\ piece.start <= piece.end /\ piece.end <= at[n]
  <2>1. k \in 1 .. Len(rs)
    BY <1>5
  <2>2. LET piece == Piece(at[k - 1], rs[k])
        IN  /\ piece \in Pieces /\ piece.start % piece.alignment = 0
            /\ cur[m] <= piece.start /\ piece.start <= piece.end /\ piece.end <= at[Len(rs)]
    BY <1>2, <1>5, <1>6, <2>1, PiecesBetween
  <2> QED
    BY <1>5, <2>2
<1> HIDE DEF at
<1>9. cur' \in [Modules -> Base .. End] /\ cur'[m] = at[n] /\ \A q \in Modules : cur[q] <= cur'[q]
  <2>1. at[n] \in cur[m] .. End /\ at[n] \in Base .. End /\ cur[m] <= at[n]
    BY <1>5, <1>6, <1>7, CursorIn DEF Addresses
  <2>2. cur \in [Modules -> Base .. End]
    BY DEF Types
  <2>3. \A q \in Modules : cur[q] \in Int
    BY CursorIn DEF Addresses
  <2> QED
    BY <1>2, <2>1, <2>2, <2>3
<1>10. pieces \in SUBSET Pieces /\ PiecesAbove(pieces, cur[m], cur'[m])
  BY <1>8, <1>9 DEF PiecesAbove
<1> HIDE DEF pieces
<1>11. Held(own, spans, pieces) \in HolderType
  BY <1>10 DEF Held, HolderType
<1>12. CASE methods' = methods
  BY <1>9, <1>12
<1>13. CASE Covers(spans, f) /\ methods' = [methods EXCEPT ![m][f] = Held(own, spans, pieces)]
  <2>1. HolderBecomes(m, f, Held(own, spans, pieces))
    BY <1>11, <1>13, HolderSet
  <2> QED
    BY <1>9, <1>10, <1>13, <2>1
<1> QED
  BY <1>3, <1>12, <1>13

\* Pieces that go, or new ones above the cursor, leave the others apart.
LEMMA PiecesStep ==
  ASSUME Types, Types', PiecesApart, NEW m \in Modules, NEW f \in Methods,
         \A n \in Modules : cur[n] <= cur'[n],
         \A n \in Modules, g \in Methods : n # m \/ g # f => methods'[n][g].pieces \subseteq methods[n][g].pieces,
         \/ methods'[m][f].pieces \subseteq methods[m][f].pieces
         \/ PiecesAbove(methods'[m][f].pieces, cur[m], cur'[m])
  PROVE  PiecesApart'
<1>1. ASSUME NEW n \in Modules, NEW g \in Methods, NEW p \in methods[n][g].pieces
      PROVE  /\ Base <= p.start /\ p.end <= cur[n] /\ p.start % p.alignment = 0
             /\ p.start \in Int /\ p.end \in Int
  BY HolderIn DEF PiecesApart, Pieces, Addresses
<1>2. \A n \in Modules : /\ cur[n] \in Int /\ cur'[n] \in Int /\ Base \in Int /\ End \in Int
                         /\ Base <= cur[n] /\ cur'[n] <= End
  BY CursorIn DEF Types
<1>3. \A n \in Modules, g \in Methods : methods'[n][g].pieces \subseteq Pieces
  BY DEF Types, HolderType
<1>4. ASSUME NEW n \in Modules, NEW g \in Methods, NEW p \in methods'[n][g].pieces
      PROVE  /\ Base <= p.start /\ p.end <= cur'[n] /\ cur'[n] <= End
             /\ p.start % p.alignment = 0 /\ p.start \in Int /\ p.end \in Int
             /\ \/ p \in methods[n][g].pieces
                \/ n = m /\ g = f /\ cur[m] <= p.start
  <2>1. CASE p \in methods[n][g].pieces
    BY <1>1, <1>2, <2>1
  <2>2. CASE ~(p \in methods[n][g].pieces)
    <3>1. n = m /\ g = f /\ cur[m] <= p.start /\ p.end <= cur'[m] /\ p.start % p.alignment = 0
      BY <2>2 DEF PiecesAbove
    <3>2. p.start \in Int /\ p.end \in Int
      BY <1>3 DEF Pieces, Addresses
    <3> QED
      BY <1>2, <3>1, <3>2
  <2> QED
    BY <2>1, <2>2
<1>5. ASSUME NEW n \in Modules, NEW g \in Methods, NEW h \in Methods, g # h,
             NEW p \in methods'[n][g].pieces, NEW q \in methods'[n][h].pieces
      PROVE  p.end <= q.start \/ q.end <= p.start
  <2>1. CASE p \in methods[n][g].pieces /\ q \in methods[n][h].pieces
    BY <1>5, <2>1 DEF PiecesApart
  <2>2. CASE p \in methods[n][g].pieces /\ n = m /\ cur[m] <= q.start
    BY <1>1, <1>2, <1>4, <2>2
  <2>3. CASE q \in methods[n][h].pieces /\ n = m /\ cur[m] <= p.start
    BY <1>1, <1>2, <1>4, <2>3
  <2> QED
    BY <1>4, <1>5, <2>1, <2>2, <2>3
<1> QED
  BY <1>4, <1>5 DEF PiecesApart

-----------------------------------------------------------------------------
(* Planned memory, step by step *)

LEMMA MemoryIn ==
  ASSUME MemoryInv, NEW m \in Modules, NEW f \in Methods
  PROVE  Resting(m) /\ ArenasMade(m) /\ HolderOK(m, f) /\ OwnersApart /\ NoHeapLeak
BY DEF MemoryInv

\* What arenas and holders own is allocated.
LEMMA OwnedIn ==
  ASSUME Types, MemoryInv, NEW m \in Modules
  PROVE  /\ \A b \in Blocks(arenas[m]) : b \in Heap /\ heap[b] # None
         /\ \A f \in Methods : \A b \in methods[m][f].buffers : b \in Heap /\ heap[b] # None
<1>1. ASSUME NEW b \in Blocks(arenas[m]) PROVE b \in Heap /\ heap[b] # None
  <2>1. PICK i \in DOMAIN arenas[m] : b = arenas[m][i].block
    BY DEF Blocks
  <2>2. arenas[m] # <<>>
    BY <2>1, EmptyIs
  <2>3. i \in 1 .. ArenaCount
    BY <2>1, <2>2 DEF MemoryInv, ArenasMade
  <2>4. b \in Heap /\ heap[b] = arenas[m][i].size
    BY <2>1, <2>2, <2>3 DEF MemoryInv, ArenasMade
  <2>5. arenas[m][i] \in Span
    <3>1. arenas[m] \in Seq(Span)
      BY DEF Types, Spans, Span
    <3>2. i \in 1 .. Len(arenas[m])
      BY <2>1, <3>1, LenProperties
    <3> QED
      BY <3>1, <3>2, ElementOfSeq
  <2>6. heap[b] \in Nat
    BY <2>4, <2>5 DEF Span
  <2> QED
    BY <2>4, <2>6, HeapAssumption
<1>2. \A f \in Methods : \A b \in methods[m][f].buffers : b \in Heap /\ heap[b] # None
  BY HolderIn DEF MemoryInv, HolderOK
<1> QED
  BY <1>1, <1>2

LEMMA ArenasStay ==
  ASSUME NEW n \in Modules, ArenasMade(n), arenas'[n] = arenas[n],
         \A b \in Blocks(arenas[n]) : heap'[b] = heap[b]
  PROVE  ArenasMade(n)'
<1>1. SUFFICES ASSUME arenas[n] # <<>> PROVE ArenasMade(n)'
  BY DEF ArenasMade
<1>2. \A i \in 1 .. ArenaCount : heap'[arenas[n][i].block] = heap[arenas[n][i].block]
  BY <1>1 DEF ArenasMade, Blocks
<1> QED
  BY <1>1, <1>2 DEF ArenasMade

LEMMA HolderStays ==
  ASSUME NEW n \in Modules, NEW g \in Methods, HolderOK(n, g), methods'[n][g] = methods[n][g],
         arenas[n] # <<>> => arenas'[n] = arenas[n],
         \A b \in methods[n][g].buffers : heap'[b] = heap[b]
  PROVE  HolderOK(n, g)'
<1>1. ASSUME NEW i \in DOMAIN methods[n][g].spans PROVE SpanOK(n, g, i)'
  <2>1. SpanOK(n, g, i)
    BY DEF HolderOK
  <2>2. i \in DOMAIN arenas[n] => arenas'[n] = arenas[n]
    BY EmptyIs
  <2> QED
    BY <2>1, <2>2 DEF SpanOK
<1> QED
  BY <1>1 DEF HolderOK

LEMMA NoHolderOK ==
  ASSUME NEW n \in Modules, NEW g \in Methods, methods'[n][g] = NoHolder
  PROVE  HolderOK(n, g)'
BY NoHolderIs DEF HolderOK

\* Steps that leave the memory alone and end no Module.
LEMMA MemoryStays ==
  ASSUME MemoryInv, arenas' = arenas, methods' = methods, heap' = heap,
         \A m \in Modules : phase'[m] # "live" => phase[m] # "live"
  PROVE  MemoryInv'
<1>1. ASSUME NEW m \in Modules PROVE Resting(m)' /\ ArenasMade(m)'
  BY DEF MemoryInv, Resting, ArenasMade
<1>2. ASSUME NEW m \in Modules, NEW f \in Methods PROVE HolderOK(m, f)'
  BY HolderStays DEF MemoryInv
<1>3. OwnersApart' /\ NoHeapLeak'
  BY DEF MemoryInv, OwnersApart, NoHeapLeak
<1> QED
  BY <1>1, <1>2, <1>3 DEF MemoryInv

LEMMA ReleasedIs ==
  ASSUME Types, NEW S, heap' = Released(S)
  PROVE  /\ heap' \in [Heap -> Nat \cup {None}]
         /\ \A b \in Heap : (b \in S => heap'[b] = None) /\ (b \notin S => heap'[b] = heap[b])
BY DEF Types, Released

\* The drop of a Module gives back its arenas and its holders' buffers.
LEMMA DropMemory ==
  ASSUME Types, MemoryInv, NEW m \in Modules, Drop(m)
  PROVE  MemoryInv' /\ heap' \in [Heap -> Nat \cup {None}]
<1> DEFINE gone == Blocks(arenas[m]) \cup UNION {Owned(m, f) : f \in Methods}
           nil == <<>>
           empty == [f \in Methods |-> NoHolder]
<1>1. /\ heap' = Released(gone) /\ arenas' = [arenas EXCEPT ![m] = nil]
      /\ methods' = [methods EXCEPT ![m] = empty]
      /\ phase' = [phase EXCEPT ![m] = "dropped"]
  BY DEF Drop
<1>2. DOMAIN nil = {}
  BY EmptyIs
<1>3. \A b : b \in gone <=> (b \in Blocks(arenas[m]) \/ \E f \in Methods : b \in methods[m][f].buffers)
  BY DEF Owned
<1>4. empty \in [Methods -> HolderType]
  BY NoHolderIs
<1> HIDE DEF gone, empty
<1>5. /\ arenas'[m] = <<>> /\ DOMAIN arenas'[m] = {}
      /\ \A n \in Modules \ {m} : /\ arenas'[n] = arenas[n] /\ methods'[n] = methods[n]
                                  /\ phase'[n] = phase[n]
      /\ methods'[m] = empty
  BY <1>1, <1>2 DEF Types
<1>6. \A f \in Methods : methods'[m][f] = NoHolder
  BY <1>5 DEF empty
<1>7. /\ heap' \in [Heap -> Nat \cup {None}]
      /\ \A b \in Heap : (b \in gone => heap'[b] = None) /\ (b \notin gone => heap'[b] = heap[b])
  BY <1>1, ReleasedIs
<1>8. ASSUME NEW n \in Modules \ {m}
      PROVE  /\ \A b \in Blocks(arenas[n]) : heap'[b] = heap[b]
             /\ \A g \in Methods : \A b \in methods[n][g].buffers : heap'[b] = heap[b]
  <2>1. OwnersApart
    BY DEF MemoryInv
  <2>2. \A b \in Blocks(arenas[n]) : b \notin gone
    BY <1>3, <2>1 DEF OwnersApart
  <2>3. \A g \in Methods : \A b \in methods[n][g].buffers : b \notin gone
    BY <1>3, <2>1 DEF OwnersApart
  <2> QED
    BY <1>7, <2>2, <2>3, OwnedIn
<1>9. ASSUME NEW n \in Modules PROVE Resting(n)' /\ ArenasMade(n)'
  <2>1. CASE n = m
    BY <1>5, <1>6, <2>1 DEF Resting, ArenasMade
  <2>2. CASE n # m
    <3>1. ArenasMade(n)'
      BY <1>5, <1>8, <2>2, ArenasStay DEF MemoryInv
    <3>2. Resting(n)'
      BY <1>5, <2>2 DEF MemoryInv, Resting
    <3> QED
      BY <3>1, <3>2
  <2> QED
    BY <2>1, <2>2
<1>10. ASSUME NEW n \in Modules, NEW g \in Methods PROVE HolderOK(n, g)'
  <2>1. CASE n = m
    BY <1>6, <2>1, NoHolderOK
  <2>2. CASE n # m
    BY <1>5, <1>8, <2>2, HolderStays DEF MemoryInv
  <2> QED
    BY <2>1, <2>2
<1>11. /\ Blocks(arenas'[m]) = {}
       /\ \A n \in Modules : Blocks(arenas'[n]) \subseteq Blocks(arenas[n])
       /\ \A n \in Modules, g \in Methods : methods'[n][g].buffers \subseteq methods[n][g].buffers
  <2>1. Blocks(arenas'[m]) = {}
    BY <1>5 DEF Blocks
  <2> QED
    BY <1>5, <1>6, <2>1, NoHolderIs
<1>12. OwnersApart'
  <2>1. OwnersApart
    BY DEF MemoryInv
  <2> QED
    BY <1>11, <2>1 DEF OwnersApart
<1>13. NoHeapLeak'
  <2> SUFFICES ASSUME NEW b \in Heap, heap'[b] # None
               PROVE  \E n \in Modules : \/ b \in Blocks(arenas'[n])
                                         \/ \E g \in Methods : b \in methods'[n][g].buffers
    BY DEF NoHeapLeak
  <2>1. b \notin gone /\ heap[b] # None
    BY <1>7
  <2>2. PICK n \in Modules : \/ b \in Blocks(arenas[n])
                             \/ \E g \in Methods : b \in methods[n][g].buffers
    BY <2>1 DEF MemoryInv, NoHeapLeak
  <2>3. n # m
    BY <1>3, <2>1, <2>2
  <2> QED
    BY <1>5, <2>2, <2>3
<1> QED
  BY <1>7, <1>9, <1>10, <1>12, <1>13 DEF MemoryInv

\* unload_method gives back the buffers of the holder, and no others.
LEMMA UnloadMemory ==
  ASSUME Types, MemoryInv, NEW m \in Modules, NEW f \in Methods, UnloadMethod(m, f)
  PROVE  MemoryInv' /\ HolderBecomes(m, f, NoHolder) /\ heap' \in [Heap -> Nat \cup {None}]
<1> DEFINE gone == methods[m][f].buffers
<1>1. /\ heap' = Released(gone) /\ arenas' = arenas /\ phase' = phase /\ phase[m] = "live"
      /\ methods' = [methods EXCEPT ![m][f] = NoHolder]
  BY DEF UnloadMethod, Owned
<1>2. HolderBecomes(m, f, NoHolder)
  BY <1>1, NoHolderIs, HolderSet
<1>3. /\ methods'[m][f] = NoHolder
      /\ \A n \in Modules, g \in Methods : n # m \/ g # f => methods'[n][g] = methods[n][g]
  BY <1>2 DEF HolderBecomes
<1> HIDE DEF gone
<1>4. /\ heap' \in [Heap -> Nat \cup {None}]
      /\ \A b \in Heap : (b \in gone => heap'[b] = None) /\ (b \notin gone => heap'[b] = heap[b])
  BY <1>1, ReleasedIs
<1>5. OwnersApart
  BY DEF MemoryInv
<1>6. \A n \in Modules : \A b \in Blocks(arenas[n]) : heap'[b] = heap[b]
  BY <1>4, <1>5, OwnedIn DEF OwnersApart, gone
<1>7. \A n \in Modules, g \in Methods : n # m \/ g # f =>
          \A b \in methods[n][g].buffers : heap'[b] = heap[b]
  BY <1>4, <1>5, OwnedIn DEF OwnersApart, gone
<1>8. ASSUME NEW n \in Modules PROVE Resting(n)' /\ ArenasMade(n)'
  <2>1. ArenasMade(n)'
    BY <1>1, <1>6, ArenasStay DEF MemoryInv
  <2>2. Resting(n)'
    BY <1>1, <1>3 DEF MemoryInv, Resting
  <2> QED
    BY <2>1, <2>2
<1>9. ASSUME NEW n \in Modules, NEW g \in Methods PROVE HolderOK(n, g)'
  <2>1. CASE n = m /\ g = f
    BY <1>3, <2>1, NoHolderOK
  <2>2. CASE n # m \/ g # f
    BY <1>1, <1>3, <1>7, <2>2, HolderStays DEF MemoryInv
  <2> QED
    BY <2>1, <2>2
<1>10. \A n \in Modules, g \in Methods : methods'[n][g].buffers \subseteq methods[n][g].buffers
  BY <1>3, NoHolderIs
<1>11. OwnersApart'
  BY <1>1, <1>5, <1>10 DEF OwnersApart
<1>12. NoHeapLeak'
  <2> SUFFICES ASSUME NEW b \in Heap, heap'[b] # None
               PROVE  \E n \in Modules : \/ b \in Blocks(arenas'[n])
                                         \/ \E g \in Methods : b \in methods'[n][g].buffers
    BY DEF NoHeapLeak
  <2>1. b \notin gone /\ heap[b] # None
    BY <1>4
  <2>2. PICK n \in Modules : \/ b \in Blocks(arenas[n])
                             \/ \E g \in Methods : b \in methods[n][g].buffers
    BY <2>1 DEF MemoryInv, NoHeapLeak
  <2>3. CASE b \in Blocks(arenas[n])
    BY <1>1, <2>3
  <2>4. CASE \E g \in Methods : b \in methods[n][g].buffers
    <3>1. PICK g \in Methods : b \in methods[n][g].buffers
      BY <2>4
    <3>2. n # m \/ g # f
      BY <2>1, <3>1 DEF gone
    <3>3. b \in methods'[n][g].buffers
      BY <1>3, <3>1, <3>2
    <3> QED
      BY <3>3
  <2> QED
    BY <2>2, <2>3, <2>4
<1> QED
  BY <1>2, <1>4, <1>8, <1>9, <1>11, <1>12 DEF MemoryInv

-----------------------------------------------------------------------------
(* load_method *)

\* A planned load: at places the new arenas and the method's own buffers in free
\* blocks; the blocks of kept stay allocated.
Planning(m, f, at, needed, kept) ==
    /\ at \in [needed \cup OwnBuffers(m, f) -> Free] /\ IsInjective(at)
    /\ kept \subseteq OwnBuffers(m, f)
    /\ heap' \in [Heap -> Nat \cup {None}]
    /\ \A b \in Heap : (\A i \in needed \cup kept : at[i] # b) => heap'[b] = heap[b]
    /\ \A i \in needed : heap'[at[i]] = ArenaSizes[i]
    /\ \A i \in kept : heap'[at[i]] = PlannedSizes[f][i]

\* The arenas after it.
ArenasFilled(m, at, needed) ==
    /\ arenas' \in [Modules -> Spans] /\ \A n \in Modules \ {m} : arenas'[n] = arenas[n]
    /\ \/ needed = {} /\ arenas'[m] = arenas[m] /\ (m \in Sharing => arenas[m] # <<>>)
       \/ /\ needed = 1 .. ArenaCount /\ m \in Sharing /\ arenas[m] = <<>>
          /\ DOMAIN arenas'[m] = 1 .. ArenaCount
          /\ \A i \in 1 .. ArenaCount :
               arenas'[m][i].block = at[i] /\ arenas'[m][i].size = ArenaSizes[i]

\* The spans of the holder.
SpansPlanned(m, f, at, spans) ==
    /\ DOMAIN spans = DOMAIN PlannedSizes[f]
    /\ \A i \in DOMAIN spans :
         \/ IsShared(m, i) /\ m \in Sharing /\ i \in DOMAIN arenas'[m] /\ spans[i] = arenas'[m][i]
         \/ /\ i \in OwnBuffers(m, f)
            /\ spans[i].block = at[i] /\ spans[i].size = PlannedSizes[f][i]

\* What a load does to the allocator and to the holder.
HolderLoads(m, f, spans, own) ==
    /\ cur' \in [Modules -> Base .. End] /\ \A n \in Modules : cur[n] <= cur'[n]
    /\ \/ methods' = methods
       \/ /\ Covers(spans, f)
          /\ \E pieces \in SUBSET Pieces :
                /\ HolderBecomes(m, f, Held(own, spans, pieces))
                /\ PiecesAbove(pieces, cur[m], cur'[m])

LEMMA ArenaSpans ==
  ASSUME NEW f \in Methods, NEW as,
         as = [i \in 1 .. ArenaCount |-> as[i]],
         \A i \in 1 .. ArenaCount : as[i] \in Span
  PROVE  as \in Spans
<1>1. ArenaCount \in Nat
  BY ArenasServe
<1>2. as \in [1 .. ArenaCount -> Span]
  OBVIOUS
<1>3. as \in Seq(Span)
  BY <1>1, <1>2, SeqOf
<1> QED
  BY <1>3 DEF Spans, Span

LEMMA PlannedSpansIs ==
  ASSUME NEW m \in Modules, NEW f \in Methods, NEW as \in Spans, NEW at,
         \A i \in OwnBuffers(m, f) : at[i] \in Heap,
         \A i \in DOMAIN PlannedSizes[f] : IsShared(m, i) => i \in DOMAIN as
  PROVE  /\ PlannedSpans(m, f, as, at) \in Spans
         /\ DOMAIN PlannedSpans(m, f, as, at) = DOMAIN PlannedSizes[f]
         /\ \A i \in DOMAIN PlannedSizes[f] :
              \/ IsShared(m, i) /\ PlannedSpans(m, f, as, at)[i] = as[i]
              \/ /\ i \in OwnBuffers(m, f)
                 /\ PlannedSpans(m, f, as, at)[i].block = at[i]
                 /\ PlannedSpans(m, f, as, at)[i].size = PlannedSizes[f][i]
<1> DEFINE s == PlannedSpans(m, f, as, at)
<1>1. /\ DOMAIN PlannedSizes[f] = 1 .. Len(PlannedSizes[f]) /\ Len(PlannedSizes[f]) \in Nat
      /\ \A i \in DOMAIN PlannedSizes[f] : PlannedSizes[f][i] \in Nat
  BY SizesIs, AddressSpaceAssumption DEF Addresses
<1>2. as \in Seq(Span)
  BY DEF Spans, Span
<1>3. s = [i \in DOMAIN PlannedSizes[f] |->
              IF IsShared(m, i) THEN as[i] ELSE [block |-> at[i], size |-> PlannedSizes[f][i]]]
  BY DEF PlannedSpans
<1>4. \A i \in DOMAIN PlannedSizes[f] : ~IsShared(m, i) => i \in OwnBuffers(m, f)
  BY DEF OwnBuffers
<1> HIDE DEF s
<1>5. ASSUME NEW i \in DOMAIN PlannedSizes[f]
      PROVE  /\ s[i] \in Span
             /\ \/ IsShared(m, i) /\ s[i] = as[i]
                \/ i \in OwnBuffers(m, f) /\ s[i].block = at[i] /\ s[i].size = PlannedSizes[f][i]
  <2>1. CASE IsShared(m, i)
    <3>1. s[i] = as[i] /\ i \in DOMAIN as
      BY <1>3, <2>1
    <3>2. DOMAIN as = 1 .. Len(as)
      BY <1>2, LenProperties
    <3>3. as[i] \in Span
      BY <1>2, <3>1, <3>2, ElementOfSeq
    <3> QED
      BY <2>1, <3>1, <3>3
  <2>2. CASE ~IsShared(m, i)
    <3>1. s[i] = [block |-> at[i], size |-> PlannedSizes[f][i]]
      BY <1>3, <2>2
    <3>2. i \in OwnBuffers(m, f) /\ at[i] \in Heap
      BY <1>4, <2>2
    <3>3. at[i] \in Heap \cup {None} /\ PlannedSizes[f][i] \in Nat
      BY <1>1, <3>2
    <3>4. s[i] \in Span
      BY <3>1, <3>3 DEF Span
    <3>5. s[i].block = at[i] /\ s[i].size = PlannedSizes[f][i]
      BY <3>1
    <3> QED
      BY <3>2, <3>4, <3>5
  <2> QED
    BY <2>1, <2>2
<1>6. DOMAIN s = DOMAIN PlannedSizes[f]
  BY <1>3
<1>7. s \in [1 .. Len(PlannedSizes[f]) -> Span]
  BY <1>1, <1>3, <1>5, <1>6
<1>8. s \in Spans
  BY <1>1, <1>7, SeqOf DEF Spans, Span
<1> QED
  BY <1>5, <1>6, <1>8 DEF s

LEMMA PlannedIs ==
  ASSUME Types, MemoryInv, NEW m \in Modules, NEW f \in Methods, ~IsLoaded(m, f),
         WithPlannedMemory(m, f)
  PROVE  \E at, needed, kept, spans :
            /\ Planning(m, f, at, needed, kept) /\ ArenasFilled(m, at, needed)
            /\ SpansPlanned(m, f, at, spans)
            /\ HolderLoads(m, f, spans, {at[i] : i \in OwnBuffers(m, f)})
            /\ methods' = methods => kept = {}
            /\ methods'[m][f].loaded => kept = OwnBuffers(m, f)
<1> DEFINE needed == 1 .. NewArenasNeeded(m)
           own == OwnBuffers(m, f)
           at == Place(needed \cup own)
           size(i) == IF i \in needed THEN ArenaSizes[i] ELSE PlannedSizes[f][i]
           fresh == [i \in needed |-> [block |-> at[i], size |-> size(i)]]
           as == IF NewArenas(m) THEN fresh ELSE arenas[m]
           kept == Kept(m, f, own)
           allocated == needed \cup kept
           blocks == {at[i] : i \in own}
           spans == PlannedSpans(m, f, as, at)
<1>1. /\ ~Full(needed \cup own)
      /\ arenas' = [arenas EXCEPT ![m] = as]
      /\ MethodLoads(m, f, spans, blocks)
      /\ heap' = [b \in Heap |-> IF \E i \in allocated : at[i] = b
                                 THEN size(CHOOSE i \in allocated : at[i] = b)
                                 ELSE heap[b]]
  BY DEF WithPlannedMemory
<1>2. at \in [needed \cup own -> Free] /\ IsInjective(at)
  BY <1>1 DEF Full, Place
<1>3. \A i \in needed \cup own : at[i] \in Free
  BY <1>2
<1>4. \A i, j \in needed \cup own : at[i] = at[j] => i = j
  BY <1>2 DEF IsInjective
<1>5. Free \subseteq Heap
  BY DEF Free
<1> HIDE DEF at
<1>6. \/ m \in Sharing /\ arenas[m] = <<>> /\ NewArenas(m) /\ needed = 1 .. ArenaCount
      \/ (m \in Sharing => arenas[m] # <<>>) /\ ~NewArenas(m) /\ needed = {}
  BY DEF NewArenas, NewArenasNeeded
<1>7. ArenaCount \in Nat /\ \A i \in 1 .. ArenaCount : ArenaSizes[i] \in Nat
  BY ArenasServe, AddressSpaceAssumption DEF Addresses
<1>8. \A i \in own : PlannedSizes[f][i] \in Nat
  BY SharedOrOwn, SizesIs, AddressSpaceAssumption DEF Addresses
<1>9. needed \cap own = {}
  BY <1>6, SharedOrOwn
<1>10. kept \in {own, {}} /\ (methods' = methods => kept = {}) /\ (methods'[m][f].loaded => kept = own)
  BY DEF Kept, IsLoaded
<1> HIDE DEF needed, own, kept
<1>11. /\ \A i \in needed : size(i) = ArenaSizes[i] /\ size(i) \in Nat
       /\ \A i \in own : size(i) = PlannedSizes[f][i] /\ size(i) \in Nat
  BY <1>6, <1>7, <1>8, <1>9
<1> HIDE DEF size
<1>12. allocated \subseteq needed \cup own
  BY <1>10
<1>13. \A i \in allocated : /\ (CHOOSE j \in allocated : at[j] = at[i]) = i
                            /\ at[i] \in Heap
  BY <1>3, <1>4, <1>5, <1>12
<1>14. \A i \in allocated : heap'[at[i]] = size(i)
  BY <1>1, <1>13
<1>15. heap' \in [Heap -> Nat \cup {None}]
  <2>1. ASSUME NEW b \in Heap PROVE heap'[b] \in Nat \cup {None}
    <3>1. CASE \E i \in allocated : at[i] = b
      BY <1>11, <1>12, <1>14, <3>1
    <3>2. CASE ~ \E i \in allocated : at[i] = b
      BY <1>1, <3>2 DEF Types
    <3> QED
      BY <3>1, <3>2
  <2> QED
    BY <1>1, <2>1
<1>16. \A b \in Heap : (\A i \in needed \cup kept : at[i] # b) => heap'[b] = heap[b]
  BY <1>1
<1>17. Planning(m, f, at, needed, kept)
  BY <1>2, <1>10, <1>11, <1>14, <1>15, <1>16 DEF Planning, own
<1>18. as \in Spans
  <2>1. CASE NewArenas(m)
    <3>1. as = fresh /\ needed = 1 .. ArenaCount
      BY <1>6, <2>1
    <3>2. \A i \in needed : fresh[i] \in Span
      BY <1>3, <1>5, <1>11 DEF Span
    <3>3. fresh = [i \in 1 .. ArenaCount |-> fresh[i]] /\ \A i \in 1 .. ArenaCount : fresh[i] \in Span
      BY <3>1, <3>2
    <3> HIDE DEF fresh
    <3>4. fresh \in Spans
      BY <3>3, ArenaSpans
    <3> QED
      BY <3>1, <3>4
  <2>2. CASE ~NewArenas(m)
    BY <2>2 DEF Types
  <2> QED
    BY <2>1, <2>2
<1>19. arenas' \in [Modules -> Spans] /\ arenas'[m] = as /\ \A n \in Modules \ {m} : arenas'[n] = arenas[n]
  <2> HIDE DEF as
  <2> QED
    BY <1>1, <1>18 DEF Types
<1>20. ArenasFilled(m, at, needed)
  <2>1. CASE NewArenas(m)
    <3>1. arenas'[m] = fresh /\ needed = 1 .. ArenaCount /\ m \in Sharing /\ arenas[m] = <<>>
      BY <1>6, <1>19, <2>1
    <3>2. /\ DOMAIN fresh = needed
          /\ \A i \in needed : fresh[i].block = at[i] /\ fresh[i].size = ArenaSizes[i]
      BY <1>11
    <3> HIDE DEF fresh
    <3> QED
      BY <1>19, <3>1, <3>2 DEF ArenasFilled
  <2>2. CASE ~NewArenas(m)
    BY <1>6, <1>19, <2>2 DEF ArenasFilled
  <2> QED
    BY <2>1, <2>2
<1>21. \A i \in DOMAIN PlannedSizes[f] : IsShared(m, i) => i \in DOMAIN as
  <2>1. m \in Sharing => DOMAIN arenas'[m] = 1 .. ArenaCount
    BY <1>20 DEF ArenasFilled, MemoryInv, ArenasMade
  <2> HIDE DEF as
  <2> QED
    BY <1>19, <2>1, SharedOrOwn
<1> HIDE DEF as
<1>22. /\ spans \in Spans /\ DOMAIN spans = DOMAIN PlannedSizes[f]
       /\ \A i \in DOMAIN PlannedSizes[f] :
            \/ IsShared(m, i) /\ spans[i] = as[i]
            \/ i \in own /\ spans[i].block = at[i] /\ spans[i].size = PlannedSizes[f][i]
  <2>1. \A i \in OwnBuffers(m, f) : at[i] \in Heap
    BY <1>3, <1>5 DEF own
  <2>2. spans = PlannedSpans(m, f, as, at)
    OBVIOUS
  <2> HIDE DEF spans
  <2>3. PICK a : a = as
    OBVIOUS
  <2>4. PICK t : t = at
    OBVIOUS
  <2>5. a \in Spans /\ spans = PlannedSpans(m, f, a, t)
    BY <1>18, <2>2, <2>3, <2>4
  <2>6. \A i \in OwnBuffers(m, f) : t[i] \in Heap
    BY <2>1, <2>4
  <2>7. \A i \in DOMAIN PlannedSizes[f] : IsShared(m, i) => i \in DOMAIN a
    BY <1>21, <2>3
  <2>8. /\ PlannedSpans(m, f, a, t) \in Spans
        /\ DOMAIN PlannedSpans(m, f, a, t) = DOMAIN PlannedSizes[f]
        /\ \A i \in DOMAIN PlannedSizes[f] :
             \/ IsShared(m, i) /\ PlannedSpans(m, f, a, t)[i] = a[i]
             \/ /\ i \in OwnBuffers(m, f)
                /\ PlannedSpans(m, f, a, t)[i].block = t[i]
                /\ PlannedSpans(m, f, a, t)[i].size = PlannedSizes[f][i]
    BY <2>5, <2>6, <2>7, PlannedSpansIs
  <2> QED
    BY <2>3, <2>4, <2>5, <2>8 DEF own
<1> HIDE DEF spans
<1>23. SpansPlanned(m, f, at, spans)
  BY <1>19, <1>21, <1>22, SharedOrOwn DEF SpansPlanned, own
<1>24. blocks \in SUBSET Heap
  BY <1>3, <1>5
<1>25. HolderLoads(m, f, spans, blocks)
  <2> HIDE DEF blocks
  <2> QED
    BY <1>1, <1>22, <1>24, MethodLoadsIs DEF HolderLoads
<1> QED
  BY <1>10, <1>17, <1>20, <1>23, <1>25 DEF own

\* What a load leaves of the holders.
LEMMA LoadedHolder ==
  ASSUME Types, MemoryInv, NEW m \in Modules, NEW f \in Methods, ~IsLoaded(m, f),
         NEW spans, NEW own, HolderLoads(m, f, spans, own)
  PROVE  /\ \A n \in Modules, g \in Methods : n # m \/ g # f => methods'[n][g] = methods[n][g]
         /\ methods[m][f].buffers = {}
         /\ \/ methods' = methods
            \/ /\ methods'[m][f].loaded = TRUE /\ methods'[m][f].buffers = own
               /\ methods'[m][f].spans = spans /\ Covers(spans, f)
<1>1. methods[m][f].buffers = {}
  BY NoHolderIs DEF MemoryInv, HolderOK, IsLoaded
<1>2. CASE methods' = methods
  BY <1>1, <1>2
<1>3. CASE Covers(spans, f) /\ \E pieces : HolderBecomes(m, f, Held(own, spans, pieces))
  <2>1. PICK pieces : HolderBecomes(m, f, Held(own, spans, pieces))
    BY <1>3
  <2>2. /\ methods'[m][f] = Held(own, spans, pieces)
        /\ \A n \in Modules, g \in Methods : n # m \/ g # f => methods'[n][g] = methods[n][g]
    BY <2>1 DEF HolderBecomes
  <2>3. /\ Held(own, spans, pieces).loaded = TRUE /\ Held(own, spans, pieces).buffers = own
        /\ Held(own, spans, pieces).spans = spans
    BY DEF Held
  <2> QED
    BY <1>1, <1>3, <2>2, <2>3
<1> QED
  BY <1>2, <1>3 DEF HolderLoads

\* A load into planned memory takes free blocks, for the arenas when they are new
\* and for the buffers when the holder stays, and leaves every other block alone.
LEMMA LoadPlannedMemory ==
  ASSUME Types, MemoryInv, NEW m \in Modules, NEW f \in Methods, ~IsLoaded(m, f),
         phase[m] = "live", phase' = phase, WithPlannedMemory(m, f)
  PROVE  /\ MemoryInv' /\ arenas' \in [Modules -> Spans] /\ heap' \in [Heap -> Nat \cup {None}]
         /\ \E spans, own : HolderLoads(m, f, spans, own)
         /\ \A n \in Modules : arenas[n] # <<>> => arenas'[n] = arenas[n]
<1> DEFINE own == OwnBuffers(m, f)
<1>1. PICK at, needed, kept, spans :
            /\ Planning(m, f, at, needed, kept) /\ ArenasFilled(m, at, needed)
            /\ SpansPlanned(m, f, at, spans)
            /\ HolderLoads(m, f, spans, {at[i] : i \in OwnBuffers(m, f)})
            /\ methods' = methods => kept = {}
            /\ methods'[m][f].loaded => kept = OwnBuffers(m, f)
  BY PlannedIs
<1>2. /\ \A i \in needed \cup own : at[i] \in Heap /\ heap[at[i]] = None
      /\ \A i, j \in needed \cup own : at[i] = at[j] => i = j
      /\ kept \subseteq own
      /\ heap' \in [Heap -> Nat \cup {None}]
      /\ \A b \in Heap : (\A i \in needed \cup kept : at[i] # b) => heap'[b] = heap[b]
      /\ \A i \in needed : heap'[at[i]] = ArenaSizes[i]
      /\ \A i \in kept : heap'[at[i]] = PlannedSizes[f][i]
  BY <1>1 DEF Planning, IsInjective, Free
<1>3. /\ arenas' \in [Modules -> Spans] /\ \A n \in Modules \ {m} : arenas'[n] = arenas[n]
      /\ \/ needed = {} /\ arenas'[m] = arenas[m]
         \/ /\ needed = 1 .. ArenaCount /\ m \in Sharing /\ arenas[m] = <<>>
            /\ DOMAIN arenas'[m] = 1 .. ArenaCount
            /\ \A i \in 1 .. ArenaCount :
                 arenas'[m][i].block = at[i] /\ arenas'[m][i].size = ArenaSizes[i]
  BY <1>1 DEF ArenasFilled
<1>4. /\ \A n \in Modules, g \in Methods : n # m \/ g # f => methods'[n][g] = methods[n][g]
      /\ methods[m][f].buffers = {}
      /\ \/ methods' = methods
         \/ /\ methods'[m][f].loaded = TRUE /\ methods'[m][f].buffers = {at[i] : i \in own}
            /\ methods'[m][f].spans = spans /\ Covers(spans, f)
  BY <1>1, LoadedHolder
<1>5. methods'[m][f].buffers = {at[i] : i \in kept}
  <2>1. CASE methods' = methods
    <3>1. kept = {}
      BY <1>1, <2>1
    <3> QED
      BY <1>4, <2>1, <3>1
  <2>2. CASE methods'[m][f].loaded = TRUE /\ methods'[m][f].buffers = {at[i] : i \in own}
    <3>1. kept = own
      BY <1>1, <2>2
    <3> QED
      BY <2>2, <3>1
  <2> QED
    BY <1>4, <2>1, <2>2
<1>6. \A b \in Heap : heap[b] # None => heap'[b] = heap[b] /\ \A i \in needed \cup kept : at[i] # b
  BY <1>2
<1>7. /\ \A n \in Modules : \A b \in Blocks(arenas[n]) : b \in Heap /\ heap[b] # None
      /\ \A n \in Modules, g \in Methods : \A b \in methods[n][g].buffers : b \in Heap /\ heap[b] # None
  BY OwnedIn
<1>8. \A n \in Modules \ {m} : Blocks(arenas'[n]) = Blocks(arenas[n])
  BY <1>3
<1>9. Blocks(arenas'[m]) = Blocks(arenas[m]) \cup {at[i] : i \in needed}
  <2>1. CASE needed = {} /\ arenas'[m] = arenas[m]
    BY <2>1
  <2>2. CASE /\ needed = 1 .. ArenaCount /\ arenas[m] = <<>>
             /\ DOMAIN arenas'[m] = 1 .. ArenaCount
             /\ \A i \in 1 .. ArenaCount : arenas'[m][i].block = at[i]
    <3>1. Blocks(arenas[m]) = {}
      BY <2>2, EmptyIs DEF Blocks
    <3>2. Blocks(arenas'[m]) = {at[i] : i \in needed}
      BY <2>2 DEF Blocks
    <3> QED
      BY <3>1, <3>2
  <2> QED
    BY <1>3, <2>1, <2>2
<1>10. \A n \in Modules : arenas[n] # <<>> => arenas'[n] = arenas[n]
  BY <1>3
<1>11. ASSUME NEW n \in Modules PROVE Resting(n)' /\ ArenasMade(n)'
  <2>1. Resting(n)'
    <3>1. CASE n = m
      BY <3>1 DEF Resting
    <3>2. CASE n # m
      BY <1>3, <1>4, <3>2 DEF MemoryInv, Resting
    <3> QED
      BY <3>1, <3>2
  <2>2. CASE arenas'[n] = arenas[n]
    <3>1. ArenasMade(n)
      BY DEF MemoryInv
    <3>2. \A b \in Blocks(arenas[n]) : heap'[b] = heap[b]
      BY <1>6, <1>7
    <3> QED
      BY <2>1, <2>2, <3>1, <3>2, ArenasStay
  <2>3. CASE /\ n = m /\ needed = 1 .. ArenaCount
             /\ DOMAIN arenas'[m] = 1 .. ArenaCount
             /\ \A i \in 1 .. ArenaCount :
                  arenas'[m][i].block = at[i] /\ arenas'[m][i].size = ArenaSizes[i]
    BY <1>2, <2>1, <2>3 DEF ArenasMade
  <2> QED
    BY <1>3, <2>2, <2>3
<1>12. ASSUME NEW n \in Modules, NEW g \in Methods PROVE HolderOK(n, g)'
  <2>1. CASE methods'[n][g] = methods[n][g]
    <3>1. HolderOK(n, g)
      BY DEF MemoryInv
    <3>2. \A b \in methods[n][g].buffers : heap'[b] = heap[b]
      BY <1>6, <1>7
    <3>3. arenas[n] # <<>> => arenas'[n] = arenas[n]
      BY <1>10
    <3> QED
      BY <2>1, <3>1, <3>2, <3>3, HolderStays
  <2>2. CASE /\ n = m /\ g = f
             /\ methods'[m][f].loaded = TRUE /\ methods'[m][f].buffers = {at[i] : i \in own}
             /\ methods'[m][f].spans = spans /\ Covers(spans, f)
    <3>1. kept = own
      BY <1>1, <2>2
    <3>2. \A i \in own : PlannedSizes[f][i] \in Nat
      BY SharedOrOwn, SizesIs, AddressSpaceAssumption DEF Addresses
    <3>3. \A b \in methods'[m][f].buffers : heap'[b] # None
      BY <1>2, <2>2, <3>1, <3>2, HeapAssumption
    <3>4. ASSUME NEW i \in DOMAIN spans PROVE SpanOK(m, f, i)'
      <4>1. \/ IsShared(m, i) /\ m \in Sharing /\ i \in DOMAIN arenas'[m] /\ spans[i] = arenas'[m][i]
            \/ /\ i \in own
               /\ spans[i].block = at[i] /\ spans[i].size = PlannedSizes[f][i]
        BY <1>1 DEF SpansPlanned
      <4>2. CASE IsShared(m, i) /\ m \in Sharing /\ i \in DOMAIN arenas'[m] /\ spans[i] = arenas'[m][i]
        BY <2>2, <4>2 DEF SpanOK
      <4>3. CASE i \in own /\ spans[i].block = at[i] /\ spans[i].size = PlannedSizes[f][i]
        <5>1. heap'[at[i]] = PlannedSizes[f][i] /\ at[i] \in methods'[m][f].buffers
          BY <1>2, <2>2, <3>1, <4>3
        <5> QED
          BY <2>2, <4>3, <5>1 DEF SpanOK
      <4> QED
        BY <4>1, <4>2, <4>3
    <3>5. /\ methods'[m][f].loaded /\ Covers(methods'[m][f].spans, f)
          /\ \A i \in DOMAIN methods'[m][f].spans : SpanOK(m, f, i)'
      BY <2>2, <3>4
    <3> QED
      BY <2>2, <3>3, <3>5 DEF HolderOK
  <2> QED
    BY <1>4, <2>1, <2>2
<1>13. OwnersApart'
  <2>1. OwnersApart
    BY DEF MemoryInv
  <2>2. \A i \in needed \cup kept : at[i] \in Heap /\ heap[at[i]] = None
    BY <1>2
  <2>3. \A i \in needed, j \in kept : at[i] # at[j]
    <3>1. needed \cap kept = {}
      BY <1>2, <1>3, SharedOrOwn
    <3> QED
      BY <1>2, <3>1
  <2>4. ASSUME NEW n \in Modules, NEW k \in Modules, NEW g \in Methods, NEW h \in Methods,
               methods'[n][g].buffers \cap methods'[k][h].buffers # {}
        PROVE  n = k /\ g = h
    <3>1. PICK b : b \in methods'[n][g].buffers /\ b \in methods'[k][h].buffers
      BY <2>4
    <3>2. CASE (n = m /\ g = f) /\ (k = m /\ h = f)
      BY <3>2
    <3>3. CASE (n = m /\ g = f) /\ (k # m \/ h # f)
      BY <1>4, <1>5, <1>7, <2>2, <3>1, <3>3
    <3>4. CASE (n # m \/ g # f) /\ (k = m /\ h = f)
      BY <1>4, <1>5, <1>7, <2>2, <3>1, <3>4
    <3>5. CASE (n # m \/ g # f) /\ (k # m \/ h # f)
      BY <1>4, <2>1, <3>1, <3>5 DEF OwnersApart
    <3> QED
      BY <3>2, <3>3, <3>4, <3>5
  <2>5. ASSUME NEW n \in Modules, NEW k \in Modules, NEW g \in Methods,
               NEW b \in methods'[n][g].buffers, b \in Blocks(arenas'[k])
        PROVE  FALSE
    <3>1. b \in Blocks(arenas[k]) \/ \E i \in needed : b = at[i]
      BY <1>8, <1>9, <2>5
    <3>2. b \in methods[n][g].buffers \/ \E i \in kept : b = at[i]
      BY <1>4, <1>5
    <3>3. CASE b \in Blocks(arenas[k]) /\ b \in methods[n][g].buffers
      BY <2>1, <3>3 DEF OwnersApart
    <3>4. CASE b \in Blocks(arenas[k]) /\ \E i \in kept : b = at[i]
      BY <1>7, <2>2, <3>4
    <3>5. CASE b \in methods[n][g].buffers /\ \E i \in needed : b = at[i]
      BY <1>7, <2>2, <3>5
    <3>6. CASE (\E i \in needed : b = at[i]) /\ (\E i \in kept : b = at[i])
      BY <2>3, <3>6
    <3> QED
      BY <3>1, <3>2, <3>3, <3>4, <3>5, <3>6
  <2>6. ASSUME NEW n \in Modules, NEW k \in Modules,
               Blocks(arenas'[n]) \cap Blocks(arenas'[k]) # {}
        PROVE  n = k
    <3>1. PICK b : b \in Blocks(arenas'[n]) /\ b \in Blocks(arenas'[k])
      BY <2>6
    <3>2. CASE n = m /\ k = m
      BY <3>2
    <3>3. CASE n # m /\ k # m
      BY <1>8, <2>1, <3>1, <3>3 DEF OwnersApart
    <3>4. CASE n = m /\ k # m
      BY <1>7, <1>8, <1>9, <2>1, <2>2, <3>1, <3>4 DEF OwnersApart
    <3>5. CASE n # m /\ k = m
      BY <1>7, <1>8, <1>9, <2>1, <2>2, <3>1, <3>5 DEF OwnersApart
    <3> QED
      BY <3>2, <3>3, <3>4, <3>5
  <2> QED
    BY <2>4, <2>5, <2>6 DEF OwnersApart
<1>14. NoHeapLeak'
  <2> SUFFICES ASSUME NEW b \in Heap, heap'[b] # None
               PROVE  \E n \in Modules : \/ b \in Blocks(arenas'[n])
                                         \/ \E g \in Methods : b \in methods'[n][g].buffers
    BY DEF NoHeapLeak
  <2>1. CASE \E i \in needed : at[i] = b
    BY <1>9, <2>1
  <2>2. CASE \E i \in kept : at[i] = b
    BY <1>5, <2>2
  <2>3. CASE \A i \in needed \cup kept : at[i] # b
    <3>1. heap[b] # None
      BY <1>2, <2>3
    <3>2. PICK n \in Modules : \/ b \in Blocks(arenas[n])
                               \/ \E g \in Methods : b \in methods[n][g].buffers
      BY <3>1 DEF MemoryInv, NoHeapLeak
    <3>3. CASE b \in Blocks(arenas[n])
      BY <1>8, <1>9, <3>3
    <3>4. CASE \E g \in Methods : b \in methods[n][g].buffers
      <4>1. PICK g \in Methods : b \in methods[n][g].buffers
        BY <3>4
      <4>2. b \in methods'[n][g].buffers
        BY <1>4, <4>1
      <4> QED
        BY <4>2
    <3> QED
      BY <3>2, <3>3, <3>4
  <2> QED
    BY <2>1, <2>2, <2>3
<1> QED
  BY <1>1, <1>2, <1>3, <1>10, <1>11, <1>12, <1>13, <1>14 DEF MemoryInv

LEMMA CallerSpansIs ==
  /\ CallerSpans \in Spans
  /\ \A i \in DOMAIN CallerSpans : CallerSpans[i].block = None
<1>1. /\ DOMAIN CallerSizes = 1 .. Len(CallerSizes) /\ Len(CallerSizes) \in Nat
      /\ \A i \in 1 .. Len(CallerSizes) : CallerSizes[i] \in Nat
  <2>1. CallerSizes \in Seq(Nat)
    BY MethodsAssumption
  <2> QED
    BY <2>1, ElementOfSeq, LenProperties
<1>2. CallerSpans = [i \in 1 .. Len(CallerSizes) |-> [block |-> None, size |-> CallerSizes[i]]]
  BY <1>1 DEF CallerSpans
<1>3. CallerSpans \in [1 .. Len(CallerSizes) -> Span]
  BY <1>1, <1>2 DEF Span
<1>4. CallerSpans \in Spans
  BY <1>1, <1>3, SeqOf DEF Spans, Span
<1> QED
  BY <1>2, <1>4

\* A load into the caller's memory leaves the heap and the arenas alone.
LEMMA LoadCallersMemory ==
  ASSUME Types, MemoryInv, NEW m \in Modules, NEW f \in Methods, ~IsLoaded(m, f),
         phase[m] = "live", phase' = phase, WithCallersMemory(m, f)
  PROVE  /\ MemoryInv' /\ arenas' = arenas /\ heap' = heap
         /\ \E spans, own : HolderLoads(m, f, spans, own)
<1>1. arenas' = arenas /\ heap' = heap /\ MethodLoads(m, f, CallerSpans, {})
  BY DEF WithCallersMemory
<1>2. HolderLoads(m, f, CallerSpans, {})
  BY <1>1, CallerSpansIs, MethodLoadsIs DEF HolderLoads
<1>3. /\ \A n \in Modules, g \in Methods : n # m \/ g # f => methods'[n][g] = methods[n][g]
      /\ methods[m][f].buffers = {}
      /\ \/ methods' = methods
         \/ /\ methods'[m][f].loaded = TRUE /\ methods'[m][f].buffers = {}
            /\ methods'[m][f].spans = CallerSpans /\ Covers(CallerSpans, f)
  BY <1>2, LoadedHolder
<1>4. ASSUME NEW n \in Modules PROVE Resting(n)' /\ ArenasMade(n)'
  <2>1. ArenasMade(n)'
    BY <1>1, ArenasStay DEF MemoryInv
  <2>2. CASE n = m
    BY <2>1, <2>2 DEF Resting
  <2>3. CASE n # m
    BY <1>1, <1>3, <2>1, <2>3 DEF MemoryInv, Resting
  <2> QED
    BY <2>2, <2>3
<1>5. ASSUME NEW n \in Modules, NEW g \in Methods PROVE HolderOK(n, g)'
  <2>1. CASE methods'[n][g] = methods[n][g]
    BY <1>1, <2>1, HolderStays DEF MemoryInv
  <2>2. CASE /\ n = m /\ g = f
             /\ methods'[m][f].loaded = TRUE /\ methods'[m][f].buffers = {}
             /\ methods'[m][f].spans = CallerSpans /\ Covers(CallerSpans, f)
    <3>1. \A i \in DOMAIN CallerSpans : SpanOK(m, f, i)'
      BY <2>2, CallerSpansIs DEF SpanOK
    <3>2. methods'[m][f].loaded
      BY <2>2
    <3> QED
      BY <2>2, <3>1, <3>2 DEF HolderOK
  <2> QED
    BY <1>3, <2>1, <2>2
<1>6. \A n \in Modules, g \in Methods : methods'[n][g].buffers = methods[n][g].buffers
  BY <1>3
<1>7. OwnersApart' /\ NoHeapLeak'
  BY <1>1, <1>6 DEF MemoryInv, OwnersApart, NoHeapLeak
<1> QED
  BY <1>1, <1>2, <1>4, <1>5, <1>7 DEF MemoryInv

-----------------------------------------------------------------------------
(* The other variables *)

\* Only a load fills in the program, and the loader stays.
LEMMA LoadInternalIs ==
  ASSUME Types, NEW m \in Modules, NEW ok, LoadInternal(m, ok)
  PROVE  /\ loader' \in [Modules -> BOOLEAN] /\ program' \in [Modules -> Modules \cup {None}]
         /\ \A n \in Modules : program[n] # None => program'[n] = program[n]
<1>1. loader' = loader \/ loader' = [loader EXCEPT ![m] = TRUE]
  BY DEF LoadInternal
<1>2. program' = program \/ (program[m] = None /\ program' = [program EXCEPT ![m] = m])
  <2>1. CASE program[m] # None
    BY <2>1 DEF LoadInternal
  <2>2. CASE ~(program[m] # None)
    BY <2>2 DEF LoadInternal
  <2> QED
    BY <2>1, <2>2
<1>3. loader' \in [Modules -> BOOLEAN]
  BY <1>1 DEF Types
<1>4. program' \in [Modules -> Modules \cup {None}]
  BY <1>2 DEF Types
<1> QED
  BY <1>2, <1>3, <1>4 DEF Types

\* The pieces after a load.
LEMMA LoadedPieces ==
  ASSUME Types, Types', PiecesApart, NEW m \in Modules, NEW f \in Methods,
         NEW spans, NEW own, HolderLoads(m, f, spans, own)
  PROVE  PiecesApart'
<1>1. \A n \in Modules : cur[n] <= cur'[n]
  BY DEF HolderLoads
<1>2. CASE methods' = methods
  BY <1>1, <1>2, PiecesStep
<1>3. CASE \E pieces \in SUBSET Pieces :
              /\ HolderBecomes(m, f, Held(own, spans, pieces))
              /\ PiecesAbove(pieces, cur[m], cur'[m])
  <2>1. PICK pieces \in SUBSET Pieces :
              /\ HolderBecomes(m, f, Held(own, spans, pieces))
              /\ PiecesAbove(pieces, cur[m], cur'[m])
    BY <1>3
  <2>2. methods'[m][f].pieces = pieces
    BY <2>1 DEF HolderBecomes, Held
  <2>3. \A n \in Modules, g \in Methods : n # m \/ g # f => methods'[n][g] = methods[n][g]
    BY <2>1 DEF HolderBecomes
  <2> QED
    BY <1>1, <2>1, <2>2, <2>3, PiecesStep
<1> QED
  BY <1>2, <1>3 DEF HolderLoads

LEMMA LoadedTypes ==
  ASSUME Types, NEW m \in Modules, NEW f \in Methods,
         NEW spans, NEW own, HolderLoads(m, f, spans, own)
  PROVE  methods' \in [Modules -> [Methods -> HolderType]] /\ cur' \in [Modules -> Base .. End]
BY DEF HolderLoads, HolderBecomes, Types

LEMMA PiecesStay ==
  ASSUME PiecesApart, methods' = methods, cur' = cur
  PROVE  PiecesApart'
BY DEF PiecesApart

-----------------------------------------------------------------------------
(* The invariant holds *)

LEMMA FacadeInit ==
  ASSUME Init PROVE FacadeInv
<1> DEFINE nil == <<>>
<1>1. nil \in Spans /\ DOMAIN nil = {}
  BY EmptyIs DEF Spans
<1> HIDE DEF nil
<1>2. Base \in Base .. End
  BY BufferAssumption DEF End, Addresses
<1>3. /\ phase = [m \in Modules |-> "none"] /\ loader = [m \in Modules |-> FALSE]
      /\ program = [m \in Modules |-> None] /\ clones = {}
      /\ arenas = [m \in Modules |-> nil]
      /\ methods = [m \in Modules |-> [f \in Methods |-> NoHolder]]
      /\ heap = [b \in Heap |-> None] /\ cur = [m \in Modules |-> Base]
  BY DEF Init, nil
<1>4. Types
  <2>1. methods \in [Modules -> [Methods -> HolderType]]
    BY <1>3, NoHolderIs
  <2> QED
    BY <1>1, <1>2, <1>3, <2>1 DEF Types
<1>5. \A m \in Modules, f \in Methods : methods[m][f] = NoHolder
  BY <1>3
<1>6. \A m \in Modules : arenas[m] = <<>> /\ Blocks(arenas[m]) = {}
  BY <1>1, <1>3 DEF nil, Blocks
<1>7. ASSUME NEW m \in Modules PROVE Resting(m) /\ ArenasMade(m)
  BY <1>5, <1>6 DEF Resting, ArenasMade
<1>8. ASSUME NEW m \in Modules, NEW f \in Methods PROVE HolderOK(m, f)
  BY <1>5, NoHolderIs DEF HolderOK
<1>9. OwnersApart /\ NoHeapLeak
  BY <1>3, <1>5, <1>6, NoHolderIs DEF OwnersApart, NoHeapLeak
<1>10. PiecesApart
  BY <1>5, NoHolderIs DEF PiecesApart
<1> QED
  BY <1>4, <1>7, <1>8, <1>9, <1>10 DEF FacadeInv, MemoryInv

\* What a step may never do to the program and the arenas of a living Module.
StaysStep == \A m \in Modules : phase[m] = "live" /\ phase'[m] = "live" =>
                /\ program[m] # None => program'[m] = program[m]
                /\ arenas[m] # <<>> => arenas'[m] = arenas[m]

\* Steps that touch no memory.
LEMMA QuietStep ==
  ASSUME FacadeInv, arenas' = arenas, methods' = methods, heap' = heap, cur' = cur,
         \A m \in Modules : phase'[m] # "live" => phase[m] # "live",
         phase' \in [Modules -> {"none", "live", "dropped"}],
         loader' \in [Modules -> BOOLEAN],
         program' \in [Modules -> Modules \cup {None}],
         clones' \subseteq Modules,
         \A m \in Modules : phase[m] = "live" /\ program[m] # None => program'[m] = program[m]
  PROVE  FacadeInv' /\ StaysStep
<1>1. Types'
  BY DEF FacadeInv, Types
<1>2. MemoryInv'
  BY MemoryStays DEF FacadeInv
<1>3. PiecesApart'
  BY PiecesStay DEF FacadeInv
<1> QED
  BY <1>1, <1>2, <1>3 DEF FacadeInv, StaysStep

\* A step of a Module's own: the program and what it needs to exist.
LEMMA FacadeStep ==
  ASSUME FacadeInv, [Next]_vars
  PROVE  FacadeInv' /\ StaysStep
<1>1. Types /\ MemoryInv /\ PiecesApart
  BY DEF FacadeInv
<1>2. /\ phase \in [Modules -> {"none", "live", "dropped"}] /\ loader \in [Modules -> BOOLEAN]
      /\ program \in [Modules -> Modules \cup {None}] /\ clones \subseteq Modules
  BY <1>1 DEF Types
<1>3. ASSUME NEW m \in Modules, New(m) PROVE FacadeInv' /\ StaysStep
  BY <1>2, <1>3, QuietStep DEF New
<1>4. ASSUME NEW m \in Modules, NEW p \in Modules, NewFromProgram(m, p) PROVE FacadeInv' /\ StaysStep
  BY <1>2, <1>4, QuietStep DEF NewFromProgram
<1>5. ASSUME NEW m \in Modules, TakeProgram(m) PROVE FacadeInv' /\ StaysStep
  BY <1>2, <1>5, QuietStep DEF TakeProgram
<1>6. ASSUME NEW p \in Modules, ReleaseProgram(p) PROVE FacadeInv' /\ StaysStep
  BY <1>2, <1>6, QuietStep DEF ReleaseProgram
<1>7. ASSUME NEW m \in Modules, Load(m) PROVE FacadeInv' /\ StaysStep
  <2>1. PICK ok \in BOOLEAN : LoadInternal(m, ok)
    BY <1>7 DEF Load
  <2>2. /\ loader' \in [Modules -> BOOLEAN] /\ program' \in [Modules -> Modules \cup {None}]
        /\ \A n \in Modules : program[n] # None => program'[n] = program[n]
    BY <1>1, <2>1, LoadInternalIs
  <2> QED
    BY <1>2, <1>7, <2>2, QuietStep DEF Load
<1>8. ASSUME NEW m \in Modules, NEW f \in Methods, LoadMethodFails(m, f) PROVE FacadeInv' /\ StaysStep
  <2>1. \E ok \in BOOLEAN : LoadInternal(m, ok)
    BY <1>8 DEF LoadMethodFails
  <2>2. /\ loader' \in [Modules -> BOOLEAN] /\ program' \in [Modules -> Modules \cup {None}]
        /\ \A n \in Modules : program[n] # None => program'[n] = program[n]
    BY <1>1, <2>1, LoadInternalIs
  <2> QED
    BY <1>2, <1>8, <2>2, QuietStep DEF LoadMethodFails
<1>9. ASSUME NEW m \in Modules, Drop(m) PROVE FacadeInv' /\ StaysStep
  <2>1. MemoryInv' /\ heap' \in [Heap -> Nat \cup {None}]
    BY <1>1, <1>9, DropMemory
  <2> DEFINE nil == <<>>
             empty == [f \in Methods |-> NoHolder]
  <2>2. /\ phase' = [phase EXCEPT ![m] = "dropped"] /\ loader' = [loader EXCEPT ![m] = FALSE]
        /\ program' = [program EXCEPT ![m] = None] /\ arenas' = [arenas EXCEPT ![m] = nil]
        /\ methods' = [methods EXCEPT ![m] = empty] /\ clones' = clones /\ cur' = cur
    BY <1>9 DEF Drop
  <2>3. nil \in Spans
    BY EmptyIs DEF Spans
  <2>4. empty \in [Methods -> HolderType] /\ \A f \in Methods : empty[f].pieces = {}
    BY NoHolderIs
  <2> HIDE DEF nil, empty
  <2>5. methods' \in [Modules -> [Methods -> HolderType]]
    BY <1>1, <2>2, <2>4 DEF Types
  <2>6. arenas' \in [Modules -> Spans]
    BY <1>1, <2>2, <2>3 DEF Types
  <2>7. phase' \in [Modules -> {"none", "live", "dropped"}] /\ phase'[m] = "dropped"
        /\ \A n \in Modules \ {m} : /\ arenas'[n] = arenas[n] /\ program'[n] = program[n]
                                    /\ methods'[n] = methods[n]
    BY <1>1, <2>2 DEF Types
  <2>8. loader' \in [Modules -> BOOLEAN] /\ program' \in [Modules -> Modules \cup {None}]
    BY <1>1, <2>2 DEF Types
  <2>9. Types'
    BY <1>1, <2>1, <2>2, <2>5, <2>6, <2>7, <2>8 DEF Types
  <2>10. \A n \in Modules, g \in Methods : methods'[n][g].pieces \subseteq methods[n][g].pieces
    <3>1. \A g \in Methods : methods'[m][g].pieces = {}
      BY <1>1, <2>2, <2>4 DEF Types
    <3> QED
      BY <2>7, <3>1
  <2>11. PiecesApart'
    BY <1>1, <2>2, <2>10 DEF PiecesApart
  <2>12. StaysStep
    BY <2>7 DEF StaysStep
  <2> QED
    BY <2>1, <2>9, <2>11, <2>12 DEF FacadeInv
<1>10. ASSUME NEW m \in Modules, NEW f \in Methods, UnloadMethod(m, f) PROVE FacadeInv' /\ StaysStep
  <2>1. MemoryInv' /\ HolderBecomes(m, f, NoHolder) /\ heap' \in [Heap -> Nat \cup {None}]
    BY <1>1, <1>10, UnloadMemory
  <2>2. /\ phase' = phase /\ loader' = loader /\ program' = program /\ clones' = clones
        /\ arenas' = arenas /\ cur' = cur
    BY <1>10 DEF UnloadMethod, Unloaded
  <2>3. methods' \in [Modules -> [Methods -> HolderType]]
    BY <2>1 DEF HolderBecomes
  <2>4. Types'
    BY <1>1, <2>1, <2>2, <2>3 DEF Types
  <2>5. \A n \in Modules, g \in Methods : methods'[n][g].pieces \subseteq methods[n][g].pieces
    BY <2>1, NoHolderIs DEF HolderBecomes
  <2>6. PiecesApart'
    BY <1>1, <2>2, <2>5 DEF PiecesApart
  <2> QED
    BY <2>1, <2>2, <2>4, <2>6 DEF FacadeInv, StaysStep
<1>11. ASSUME NEW m \in Modules, NEW f \in Methods, LoadMethod(m, f) PROVE FacadeInv' /\ StaysStep
  <2>1. /\ phase[m] = "live" /\ ~IsLoaded(m, f) /\ phase' = phase /\ clones' = clones
        /\ LoadInternal(m, TRUE)
        /\ WithPlannedMemory(m, f) \/ WithCallersMemory(m, f)
    BY <1>11 DEF LoadMethod
  <2>2. /\ loader' \in [Modules -> BOOLEAN] /\ program' \in [Modules -> Modules \cup {None}]
        /\ \A n \in Modules : program[n] # None => program'[n] = program[n]
    BY <1>1, <2>1, LoadInternalIs
  <2>3. /\ MemoryInv' /\ arenas' \in [Modules -> Spans] /\ heap' \in [Heap -> Nat \cup {None}]
        /\ \E spans, own : HolderLoads(m, f, spans, own)
        /\ \A n \in Modules : arenas[n] # <<>> => arenas'[n] = arenas[n]
    <3>1. CASE WithPlannedMemory(m, f)
      BY <1>1, <2>1, <3>1, LoadPlannedMemory
    <3>2. CASE WithCallersMemory(m, f)
      <4>1. /\ MemoryInv' /\ arenas' = arenas /\ heap' = heap
            /\ \E spans, own : HolderLoads(m, f, spans, own)
        BY <1>1, <2>1, <3>2, LoadCallersMemory
      <4>2. arenas \in [Modules -> Spans] /\ heap \in [Heap -> Nat \cup {None}]
        BY <1>1 DEF Types
      <4> QED
        BY <4>1, <4>2
    <3> QED
      BY <2>1, <3>1, <3>2
  <2>4. PICK spans, own : HolderLoads(m, f, spans, own)
    BY <2>3
  <2>5. methods' \in [Modules -> [Methods -> HolderType]] /\ cur' \in [Modules -> Base .. End]
    BY <1>1, <2>4, LoadedTypes
  <2>6. Types'
    BY <1>2, <2>1, <2>2, <2>3, <2>5 DEF Types
  <2>7. PiecesApart'
    BY <1>1, <2>4, <2>6, LoadedPieces
  <2>8. StaysStep
    BY <2>2, <2>3 DEF StaysStep
  <2> QED
    BY <2>3, <2>6, <2>7, <2>8 DEF FacadeInv
<1>12. ASSUME UNCHANGED vars PROVE FacadeInv' /\ StaysStep
  BY <1>2, <1>12, QuietStep DEF vars
<1> QED
  BY <1>3, <1>4, <1>5, <1>6, <1>7, <1>8, <1>9, <1>10, <1>11, <1>12 DEF Next

-----------------------------------------------------------------------------
(* Theorems *)

\* The inductive invariant of Module: memory that is named is allocated with the
\* size it was asked for and has one owner, the arenas are as they were made, and
\* the pieces of a MemoryAllocator lie below its cursor.  load_method, its
\* failures, unload_method and the drops of MethodHolder and Module keep it.
THEOREM Memory == Spec => []FacadeInv
<1>1. Init => FacadeInv
  BY FacadeInit
<1>2. FacadeInv /\ [Next]_vars => FacadeInv'
  BY FacadeStep
<1> QED
  BY <1>1, <1>2, PTL DEF Spec

LEMMA InvTypeOK ==
  ASSUME FacadeInv PROVE TypeOK
<1>1. Types
  BY DEF FacadeInv
<1>2. ASSUME NEW m \in Modules, NEW f \in Methods
      PROVE  LET h == methods[m][f] IN
                /\ h.loaded \in BOOLEAN /\ h.buffers \subseteq Heap
                /\ h.spans \in Spans /\ h.pieces \subseteq Pieces
  BY <1>1, HolderIn
<1> QED
  BY <1>1, <1>2 DEF Types, TypeOK

\* A Module's fields, its holders and the heap have their types, and cur_ stays
\* inside the buffer, also when align_pointer or the padding wraps around.
THEOREM TypesOfModule == Spec => []TypeOK
<1>1. FacadeInv => TypeOK
  BY InvTypeOK
<1> QED
  BY <1>1, Memory, PTL

LEMMA InvSpansBacked ==
  ASSUME FacadeInv PROVE SpansBacked
<1>1. Types /\ MemoryInv
  BY DEF FacadeInv
<1>2. ASSUME NEW m \in Modules, NEW i \in DOMAIN arenas[m]
      PROVE  /\ i \in 1 .. ArenaCount /\ arenas[m][i].size = ArenaSizes[i]
             /\ arenas[m][i].block \in Heap /\ heap[arenas[m][i].block] = arenas[m][i].size
  <2>1. arenas[m] # <<>>
    BY EmptyIs
  <2> QED
    BY <1>1, <2>1 DEF MemoryInv, ArenasMade
<1>3. ASSUME NEW m \in Modules, NEW f \in Methods, NEW i \in DOMAIN arenas[m] \cap DOMAIN PlannedSizes[f]
      PROVE  PlannedSizes[f][i] <= arenas[m][i].size
  BY <1>2, ArenasServe
<1>4. ASSUME NEW m \in Modules, NEW f \in Methods, NEW i \in DOMAIN methods[m][f].spans
      PROVE  LET s == methods[m][f].spans[i] IN
                s.block # None => /\ heap[s.block] = s.size
                                  /\ s.block \in methods[m][f].buffers \cup Blocks(arenas[m])
  <2> DEFINE s == methods[m][f].spans[i]
  <2>1. \/ s.block = None
        \/ i \in DOMAIN arenas[m] /\ s = arenas[m][i]
        \/ s.block \in methods[m][f].buffers /\ heap[s.block] = s.size
    BY <1>1 DEF MemoryInv, HolderOK, SpanOK
  <2>2. CASE i \in DOMAIN arenas[m] /\ s = arenas[m][i]
    <3>1. s.block \in Blocks(arenas[m])
      BY <2>2 DEF Blocks
    <3> QED
      BY <1>2, <2>2, <3>1
  <2> QED
    BY <2>1, <2>2
<1>5. ASSUME NEW m \in Modules, NEW f \in Methods, IsLoaded(m, f)
      PROVE  Covers(methods[m][f].spans, f)
  BY <1>1, <1>5 DEF MemoryInv, HolderOK, IsLoaded
<1> QED
  BY <1>3, <1>4, <1>5 DEF SpansBacked

\* A loaded method has its planned memory, allocated and large enough, and the
\* arenas made for the first method of a Module serve every method: what
\* load_method, make_planned_memory and get_max_mem_planned_buffer_sizes make.
THEOREM PlannedMemoryIsThere == Spec => []SpansBacked
<1>1. FacadeInv => SpansBacked
  BY InvSpansBacked
<1> QED
  BY <1>1, Memory, PTL

LEMMA InvApart ==
  ASSUME FacadeInv PROVE Apart
<1> SUFFICES ASSUME NEW m \in Modules, NEW n \in Modules, NEW f \in Methods, NEW g \in Methods,
                    <<m, f>> # <<n, g>>,
                    NEW i \in DOMAIN methods[m][f].spans, NEW j \in DOMAIN methods[n][g].spans,
                    methods[m][f].spans[i].block # None,
                    methods[m][f].spans[i].block = methods[n][g].spans[j].block
             PROVE  m = n /\ m \in Sharing /\ i = j /\ i <= 2
  BY DEF Apart
<1> DEFINE b == methods[m][f].spans[i].block
<1>1. MemoryInv /\ OwnersApart
  BY DEF FacadeInv, MemoryInv
<1>2. ASSUME NEW q \in Modules, NEW h \in Methods, NEW k \in DOMAIN methods[q][h].spans,
             methods[q][h].spans[k].block # None
      PROVE  \/ /\ q \in Sharing /\ k \in DOMAIN arenas[q]
                /\ methods[q][h].spans[k].block = arenas[q][k].block
             \/ methods[q][h].spans[k].block \in methods[q][h].buffers
  BY <1>1, <1>2 DEF MemoryInv, HolderOK, SpanOK
<1>3. ASSUME NEW q \in Modules, NEW k \in DOMAIN arenas[q]
      PROVE  arenas[q][k].block \in Blocks(arenas[q]) /\ k \in 1 .. ArenaCount
             /\ \A l \in DOMAIN arenas[q] : arenas[q][k].block = arenas[q][l].block => k = l
  <2>1. arenas[q] # <<>>
    BY EmptyIs
  <2>2. DOMAIN arenas[q] = 1 .. ArenaCount
        /\ \A k1, l1 \in 1 .. ArenaCount : arenas[q][k1].block = arenas[q][l1].block => k1 = l1
    BY <1>1, <2>1 DEF MemoryInv, ArenasMade
  <2> QED
    BY <2>2 DEF Blocks
<1>4. b = methods[n][g].spans[j].block /\ b # None
  OBVIOUS
<1>5. \/ m \in Sharing /\ i \in DOMAIN arenas[m] /\ b = arenas[m][i].block
      \/ b \in methods[m][f].buffers
  BY <1>2
<1>6. \/ n \in Sharing /\ j \in DOMAIN arenas[n] /\ b = arenas[n][j].block
      \/ b \in methods[n][g].buffers
  BY <1>2, <1>4
<1> HIDE DEF b
<1>7. CASE /\ m \in Sharing /\ i \in DOMAIN arenas[m] /\ b = arenas[m][i].block
           /\ j \in DOMAIN arenas[n] /\ b = arenas[n][j].block
  <2>1. b \in Blocks(arenas[m]) /\ b \in Blocks(arenas[n])
    BY <1>7 DEF Blocks
  <2>2. m = n
    BY <1>1, <2>1 DEF OwnersApart
  <2>3. i = j /\ i \in 1 .. ArenaCount
    <3>1. j \in DOMAIN arenas[m] /\ arenas[m][i].block = arenas[m][j].block
      BY <1>7, <2>2
    <3> QED
      BY <1>3, <1>7, <3>1
  <2>4. i <= 2
    BY <2>3, ArenasServe
  <2> QED
    BY <1>7, <2>2, <2>3, <2>4
<1>8. CASE i \in DOMAIN arenas[m] /\ b = arenas[m][i].block /\ b \in methods[n][g].buffers
  <2>1. b \in Blocks(arenas[m])
    BY <1>3, <1>8
  <2> QED
    BY <1>1, <1>8, <2>1 DEF OwnersApart
<1>9. CASE b \in methods[m][f].buffers /\ j \in DOMAIN arenas[n] /\ b = arenas[n][j].block
  <2>1. b \in Blocks(arenas[n])
    BY <1>3, <1>9
  <2> QED
    BY <1>1, <1>9, <2>1 DEF OwnersApart
<1>10. CASE b \in methods[m][f].buffers /\ b \in methods[n][g].buffers
  <2>1. m = n /\ f = g
    BY <1>1, <1>10 DEF OwnersApart
  <2> QED
    BY <2>1
<1> QED
  BY <1>5, <1>6, <1>7, <1>8, <1>9, <1>10

\* Two loaded methods have no planned memory in common but the arenas of a Module
\* with share_memory_arenas, at the same index, one of the first two:
\* make_planned_memory_with_shared_arenas.
THEOREM MethodsShareOnlyArenas == Spec => []Apart
<1>1. FacadeInv => Apart
  BY InvApart
<1> QED
  BY <1>1, Memory, PTL

\* What MemoryAllocator::allocate hands to the methods of a Module is aligned,
\* inside its buffer, and never given to another method that is loaded.
THEOREM MethodsKeepTheirPieces == Spec => []PiecesApart
<1>1. FacadeInv => PiecesApart
  BY DEF FacadeInv
<1> QED
  BY <1>1, Memory, PTL

\* Every block on the heap has a holder or a Module that will give it back: a
\* load_method that fails and unload_method drop the planned buffers.
THEOREM NoBlockIsLost == Spec => []NoHeapLeak
<1>1. FacadeInv => NoHeapLeak
  BY DEF FacadeInv, MemoryInv
<1> QED
  BY <1>1, Memory, PTL

\* While a Module lives, load_internal and load_method never replace the Program or
\* the arenas its loaded methods point into.
THEOREM ProgramAndArenasStay == Spec => Stays
<1>1. FacadeInv /\ [Next]_vars =>
        [\A m \in Modules : phase[m] = "live" /\ phase'[m] = "live" =>
            /\ program[m] # None => program'[m] = program[m]
            /\ arenas[m] # <<>> => arenas'[m] = arenas[m]]_vars
  BY FacadeStep DEF StaysStep
<1> QED
  BY <1>1, Memory, PTL DEF Spec, Stays
=============================================================================
