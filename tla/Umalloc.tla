------------------------------ MODULE Umalloc -------------------------------
(***************************************************************************)
(* The allocator of user programs (umalloc.c): malloc(), free() and        *)
(* morecore() on a circular list of free blocks in the order of their      *)
(* addresses, headers included.  Addresses count units of sizeof(Header);  *)
(* 0 is the address of base, which lies below the heap.  What a header     *)
(* held that is no longer one, and s.ptr of a block in use, belong to the  *)
(* program; Forgotten stands for them.                                     *)
(***************************************************************************)
EXTENDS Integers, FiniteSetsExt

CONSTANTS
  HEADER,           \* sizeof(Header), in bytes
  MinUnits,         \* the 4096 of morecore()
  MaxBrk,           \* bound: where sbrk() fails for want of memory
  Requests          \* bound: the sizes in bytes that are asked for

base  == 0
Start == 2          \* the first heap address; 1 is between base and the heap
Nil   == -1
Addr  == 0 .. MaxBrk - 1

VARIABLES
  heap,             \* [ptr, size, freep]: s.ptr and s.size of a header
  brk,              \* the end of the heap, proc->sz
  used,             \* what the program has: [address of header -> bytes]
  core              \* units that morecore() has got

vars == <<heap, brk, used, core>>

Init ==
  /\ heap = [ptr |-> [a \in Addr |-> Nil], size |-> [a \in Addr |-> 0], freep |-> Nil]
  /\ brk = Start
  /\ used = [a \in {} |-> 0]
  /\ core = {}

TypeOK ==
  /\ heap.ptr \in [Addr -> Addr \cup {Nil}] /\ heap.size \in [Addr -> 0 .. MaxBrk]
  /\ heap.freep \in Addr \cup {Nil}
  /\ brk \in Start .. MaxBrk
  /\ DOMAIN used \subseteq Addr /\ core \subseteq Start .. brk - 1

-----------------------------------------------------------------------------
\* The p after which free() links bp: between its neighbours, or at the place
\* where the list goes from the highest address to the lowest.
RECURSIVE PlaceFrom(_, _, _, _)
PlaceFrom(h, bp, p, n) ==
  LET q == h.ptr[p]
  IN  IF n = 0 \/ (bp > p /\ bp < q) \/ (p >= q /\ (bp > p \/ bp < q)) THEN p
      ELSE PlaceFrom(h, bp, q, n - 1)

Forgotten(h, a) == [h EXCEPT !.ptr[a] = Nil, !.size[a] = 0]

\* Join bp with the free block q above it when they meet.
LinkUpper(h, bp, q) ==
  IF bp + h.size[bp] = q
  THEN Forgotten([h EXCEPT !.size[bp] = @ + h.size[q], !.ptr[bp] = h.ptr[q]], q)
  ELSE [h EXCEPT !.ptr[bp] = q]

\* Join p, the free block below, with bp when they meet.
LinkLower(h, p, bp) ==
  IF p + h.size[p] = bp
  THEN Forgotten([h EXCEPT !.size[p] = @ + h.size[bp], !.ptr[p] = h.ptr[bp]], bp)
  ELSE [h EXCEPT !.ptr[p] = bp]

Freed(h, bp) ==
  LET p == PlaceFrom(h, bp, h.freep, Cardinality(Addr))
  IN  [LinkLower(LinkUpper(h, bp, h.ptr[p]), p, bp) EXCEPT !.freep = p]

\* First fit: the block before the one that is large enough, from prevp on,
\* or Nil when the search comes back to freep.
RECURSIVE FitAfter(_, _, _)
FitAfter(h, prevp, nunits) ==
  LET p == h.ptr[prevp]
  IN  IF h.size[p] >= nunits THEN prevp
      ELSE IF p = h.freep THEN Nil ELSE FitAfter(h, p, nunits)

Units(nbytes) == (nbytes + HEADER - 1) \div HEADER + 1

\* Take the block after prevp, or its upper end: its address, and the list.
Taken(h, prevp, nunits) == LET p == h.ptr[prevp] IN p + h.size[p] - nunits

CarvedLow(h, prevp, nunits) ==
  LET p == h.ptr[prevp]
  IN  [h EXCEPT !.size[p] = @ - nunits, !.size[Taken(h, prevp, nunits)] = nunits, !.freep = prevp]

Carved(h, prevp, nunits) ==
  LET p == h.ptr[prevp]
      b == Taken(h, prevp, nunits)
  IN  IF h.size[p] = nunits
      THEN [h EXCEPT !.ptr[prevp] = h.ptr[p], !.ptr[p] = Nil, !.freep = prevp]
      ELSE [h EXCEPT !.size[p] = @ - nunits, !.size[b] = nunits, !.freep = prevp]

\* The list with base alone, before the first malloc().
Started(h) ==
  IF h.freep # Nil THEN h ELSE [h EXCEPT !.ptr[base] = base, !.size[base] = 0, !.freep = base]

Give(h, prevp, nbytes) ==
  LET n == Units(nbytes)
      b == Taken(h, prevp, n)
  IN  /\ heap' = Carved(h, prevp, n)
      /\ used' = [a \in DOMAIN used \cup {b} |-> IF a = b THEN nbytes ELSE used[a]]

\* sbrk() returns -1 to morecore().
Refused(nu) == brk + nu > MaxBrk

malloc(nbytes) ==
  LET h  == Started(heap)
      n  == Units(nbytes)
      f  == FitAfter(h, h.freep, n)
      nu == Max({n, MinUnits})
      h1 == Freed([h EXCEPT !.size[brk] = nu], brk)
  IN  IF f # Nil
      THEN Give(h, f, nbytes) /\ UNCHANGED <<brk, core>>
      ELSE IF Refused(nu)
      THEN heap' = h /\ UNCHANGED <<brk, used, core>>
      ELSE /\ Give(h1, FitAfter(h1, h1.freep, n), nbytes)
           /\ brk' = brk + nu
           /\ core' = core \cup brk .. brk + nu - 1

free(b) ==
  /\ b \in DOMAIN used
  /\ heap' = Freed(heap, b)
  /\ used' = [a \in DOMAIN used \ {b} |-> used[a]]
  /\ UNCHANGED <<brk, core>>

\* The program calls sbrk() itself.
Sbrk ==
  /\ brk < MaxBrk
  /\ brk' = brk + 1
  /\ UNCHANGED <<heap, used, core>>

Next ==
  \/ \E n \in Requests : malloc(n)
  \/ \E b \in Addr : free(b)
  \/ Sbrk

Spec == Init /\ [][Next]_vars

-----------------------------------------------------------------------------
\* The blocks on the free list, by following s.ptr from base.
RECURSIVE From(_, _)
From(p, seen) == IF p \in seen THEN seen ELSE From(heap.ptr[p], seen \cup {p})

FreeBlocks == IF heap.freep = Nil THEN {} ELSE From(heap.ptr[base], {base}) \ {base}
Extent(b)  == b .. b + heap.size[b] - 1

\* Every unit that morecore() has got is in exactly one block, free or in
\* use, whatever the order of malloc() and free() was: no two blocks
\* overlap, and splitting and joining lose nothing.  A block in use holds what
\* was asked for besides its header, and free neighbours have been joined,
\* also with memory that morecore() gets later, so that a request fails only
\* when no run of free units holds it.
UnitsInOneBlock ==
  LET all == FreeBlocks \cup DOMAIN used
  IN  /\ TypeOK
      /\ FreeBlocks \cap DOMAIN used = {}
      /\ UNION {Extent(b) : b \in all} = core
      /\ \A b, c \in all : b # c => Extent(b) \cap Extent(c) = {}
      /\ \A b \in DOMAIN used : (heap.size[b] - 1) * HEADER >= used[b]
      /\ \A b \in FreeBlocks : b + heap.size[b] \notin FreeBlocks
=============================================================================
