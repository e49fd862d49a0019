---------------------------- MODULE MemoryAllocator ----------------------------
(***************************************************************************)
(* MemoryAllocator: bump allocation in a caller's buffer, in the arithmetic *)
(* of usize.  cur and end are addresses; a request has a size and an        *)
(* alignment.                                                              *)
(***************************************************************************)
EXTENDS Integers, Sequences

CONSTANT AddressSpace  \* usize::MAX + 1

ASSUME AddressSpaceAssumption == AddressSpace \in Nat \ {0}

Addresses == 0 .. AddressSpace - 1
WrappingAdd(x, y) == (x + y) % AddressSpace
WrappingSub(x, y) == (x - y) % AddressSpace

\* x & !(a - 1), for a power of two a.
RoundDown(x, a) == x - (x % a)

\* align_pointer: the addition wraps at the end of the address space.
AlignPointer(p, a) == RoundDown(WrappingAdd(p, a - 1), a)

\* A start before cur, after a wrap, gives a padding no buffer has room for.
Padding(cur, r) == WrappingSub(AlignPointer(cur, r.alignment), cur)

FitsUnpadded(cur, end, r) == r.size <= end - cur
Fits(cur, end, r) ==
    /\ Padding(cur, r) <= end - cur
    /\ r.size <= end - cur - Padding(cur, r)

StartOf(cur, r) == AlignPointer(cur, r.alignment)
EndOfUnpadded(cur, r) == cur + r.size
EndOf(cur, r) == StartOf(cur, r) + r.size

\* cur_ after the first k of a sequence of requests that all fit.
CursorAfter(cur, rs) ==
    LET at[k \in 0 .. Len(rs)] == IF k = 0 THEN cur ELSE EndOf(at[k - 1], rs[k]) IN at

AllFit(cur, end, rs) ==
    \A k \in 1 .. Len(rs) : Fits(CursorAfter(cur, rs)[k - 1], end, rs[k])
=============================================================================
